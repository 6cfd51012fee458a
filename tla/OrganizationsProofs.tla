------------------------- MODULE OrganizationsProofs -------------------------
(***************************************************************************)
(* What holds of the table organizations for any number of organizations,  *)
(* names and requests.  ClaimsBounded is the inductive form of             *)
(* NamesBounded: it counts what requests in flight may still write.        *)
(***************************************************************************)
EXTENDS Organizations, FiniteSetTheorems, TLAPS

USE DEF At, Goto, Begin, Key, Pc, Idle, CreateDto, UpdateDto

OrgInv == TypeOK /\ ClaimsBounded

-----------------------------------------------------------------------------
(* Finite sets.                                                            *)

LEMMA SubsetSizes ==
  ASSUME NEW B \in {Id, Req}, NEW S \in SUBSET B, NEW T \in SUBSET S
  PROVE  /\ IsFiniteSet(S)
         /\ Cardinality(S) \in Nat
         /\ Cardinality(T) \in Nat
         /\ Cardinality(T) <= Cardinality(S)
<1>1. IsFiniteSet(S)
  BY OrganizationsAssumption, FS_Subset
<1>2. IsFiniteSet(T) /\ Cardinality(T) <= Cardinality(S)
  BY <1>1, FS_Subset
<1> QED  BY <1>1, <1>2, FS_CardinalityType

\* What some requests name and the other requests fit into the requests.
LEMMA NamedByFew ==
  ASSUME NEW U \in SUBSET Req, NEW C \in SUBSET Req, U \cap C = {},
         NEW T, NEW f \in [U -> T], \A t \in T : \E u \in U : f[u] = t
  PROVE  Cardinality(T) + Cardinality(C) <= Cardinality(Req)
<1>1. IsFiniteSet(U) /\ IsFiniteSet(C) /\ IsFiniteSet(U \cup C)
  BY OrganizationsAssumption, FS_Subset
<1>2. f \in Surjection(U, T)
  BY DEF Surjection
<1>3. IsFiniteSet(T) /\ Cardinality(T) <= Cardinality(U)
  BY <1>1, <1>2, FS_Surjection
<1>4. Cardinality(U \cap C) = 0
  BY FS_EmptySet
<1>5. Cardinality(U \cup C) = Cardinality(U) + Cardinality(C) - Cardinality(U \cap C)
  BY <1>1, FS_Union
<1>6. Cardinality(U \cup C) <= Cardinality(Req)
  BY OrganizationsAssumption, FS_Subset
<1>7. /\ Cardinality(T) \in Nat /\ Cardinality(U) \in Nat /\ Cardinality(C) \in Nat
      /\ Cardinality(Req) \in Nat
  BY <1>1, <1>3, OrganizationsAssumption, FS_CardinalityType
<1> QED  BY <1>3, <1>4, <1>5, <1>6, <1>7

LEMMA OneMoreOneLess ==
  ASSUME NEW S \in SUBSET Id, NEW i \in Id, NEW S2 \in SUBSET (S \cup {i}),
         NEW C \in SUBSET Req, NEW r \in C,
         Cardinality(S) + Cardinality(C) <= Cardinality(Req)
  PROVE  Cardinality(S2) + Cardinality(C \ {r}) <= Cardinality(Req)
<1>1. IsFiniteSet(S) /\ IsFiniteSet(C)
  BY SubsetSizes
<1>2. Cardinality(S \cup {i}) <= Cardinality(S) + 1 /\ Cardinality(S \cup {i}) \in Nat
  BY <1>1, FS_AddElement, FS_CardinalityType
<1>3. Cardinality(S2) <= Cardinality(S \cup {i})
  BY SubsetSizes
<1>4. Cardinality(C \ {r}) = Cardinality(C) - 1
  BY <1>1, FS_RemoveElement
<1>5. /\ Cardinality(S) \in Nat /\ Cardinality(S2) \in Nat
      /\ Cardinality(C) \in Nat /\ Cardinality(Req) \in Nat
  BY <1>1, SubsetSizes, OrganizationsAssumption, FS_CardinalityType
<1> QED  BY <1>2, <1>3, <1>4, <1>5

-----------------------------------------------------------------------------
(* Type correctness.                                                       *)

LEMMA TypeInit == Init => TypeOK
  BY DEF Init, TypeOK

LEMMA TypeStep == TypeOK /\ [Next]_vars => TypeOK'
<1> SUFFICES ASSUME TypeOK, [Next]_vars PROVE TypeOK'
  OBVIOUS
<1> USE OrganizationsAssumption DEF TypeOK, Rows, Done
<1>1. CASE UNCHANGED vars
  BY <1>1 DEF vars
<1>2. ASSUME NEW r \in Req, NEW body \in CreateDto, Create(r, body) PROVE TypeOK'
  BY <1>2 DEF Create
<1>3. ASSUME NEW r \in Req, NEW i \in Id, NEW body \in UpdateDto, Update(r, i, body)
      PROVE  TypeOK'
  BY <1>3 DEF Update, FirstTest, SecondTest
<1>4. ASSUME NEW r \in Req, NEW i \in Id, Remove(r, i) PROVE TypeOK'
  BY <1>4 DEF Remove
<1>5. ASSUME NEW r \in Req, TestSubdomain(r) PROVE TypeOK'
  BY <1>5 DEF TestSubdomain, SecondTest
<1>6. ASSUME NEW r \in Req, TestEmail(r) PROVE TypeOK'
  BY <1>6 DEF TestEmail
<1>7. ASSUME NEW r \in Req, InsertOrg(r) PROVE TypeOK'
  BY <1>7 DEF InsertOrg
<1>8. ASSUME NEW r \in Req, UpdateOrg(r) PROVE TypeOK'
  BY <1>8 DEF UpdateOrg, Merged
<1>9. ASSUME NEW r \in Req, DeleteOrg(r) PROVE TypeOK'
  BY <1>9 DEF DeleteOrg
<1>10. ASSUME NEW r \in Req, Fail(r) PROVE TypeOK'
  BY <1>10 DEF Fail
<1> QED
  BY <1>1, <1>2, <1>3, <1>4, <1>5, <1>6, <1>7, <1>8, <1>9, <1>10 DEF Next, Arrive, Step

-----------------------------------------------------------------------------
(* The claims on one name.                                                 *)

Bounded(k, n) ==
  Cardinality(Holders(k, n) \cup Targets(k, n)) + Cardinality(Creators(k, n))
    <= Cardinality(Req)

LEMMA ClaimTypes ==
  ASSUME TypeOK, NEW k \in Key, NEW n \in Name
  PROVE  /\ Holders(k, n) \subseteq Id
         /\ Targets(k, n) \subseteq Id
         /\ Creators(k, n) \subseteq Req
  BY DEF TypeOK, Holders, Rows, Targets, Updaters, Creators, Passed

\* Claims that do not grow stay bounded.
LEMMA ShrunkClaims ==
  ASSUME TypeOK, NEW k \in Key, NEW n \in Name, Bounded(k, n),
         (Holders(k, n) \cup Targets(k, n))' \subseteq Holders(k, n) \cup Targets(k, n),
         Creators(k, n)' \subseteq Creators(k, n)
  PROVE  Bounded(k, n)'
<1>1. Holders(k, n) \cup Targets(k, n) \in SUBSET Id /\ Creators(k, n) \in SUBSET Req
  BY ClaimTypes
<1>2. /\ Cardinality((Holders(k, n) \cup Targets(k, n))')
           <= Cardinality(Holders(k, n) \cup Targets(k, n))
      /\ Cardinality((Holders(k, n) \cup Targets(k, n))') \in Nat
      /\ Cardinality(Holders(k, n) \cup Targets(k, n)) \in Nat
  BY <1>1, SubsetSizes
<1>3. /\ Cardinality(Creators(k, n)') <= Cardinality(Creators(k, n))
      /\ Cardinality(Creators(k, n)') \in Nat
      /\ Cardinality(Creators(k, n)) \in Nat
  BY <1>1, SubsetSizes
<1>4. Cardinality(Req) \in Nat
  BY OrganizationsAssumption, FS_CardinalityType
<1>5. Cardinality(Holders(k, n) \cup Targets(k, n)) + Cardinality(Creators(k, n))
        <= Cardinality(Req)
  BY DEF Bounded
<1>6. Cardinality((Holders(k, n) \cup Targets(k, n))') + Cardinality(Creators(k, n)')
        <= Cardinality(Req)
  BY <1>2, <1>3, <1>4, <1>5
<1> QED  BY <1>6 DEF Bounded

\* A name that only targets of requests hold is claimed by requests alone.
LEMMA ClaimsOfRequests ==
  ASSUME TypeOK', NEW k \in Key, NEW n \in Name, Holders(k, n)' \subseteq Targets(k, n)'
  PROVE  Bounded(k, n)'
<1> DEFINE U == Updaters(k, n)'
           C == Creators(k, n)'
           T == Targets(k, n)'
           f == [u \in U |-> req'[u].id]
<1>1. U \subseteq Req /\ C \subseteq Req /\ U \cap C = {}
  BY DEF Updaters, Creators
<1>2. f \in [U -> T] /\ \A t \in T : \E u \in U : f[u] = t
  BY DEF Targets
<1>3. Cardinality(T) + Cardinality(C) <= Cardinality(Req)
  <2> HIDE DEF U, C, T, f
  <2> QED  BY <1>1, <1>2, NamedByFew
<1>4. (Holders(k, n) \cup Targets(k, n))' = T
  OBVIOUS
<1> QED  BY <1>3, <1>4 DEF Bounded

\* A step that writes nothing and lets no further request pass a test.
LEMMA QuietClaims ==
  ASSUME TypeOK, NEW k \in Key, NEW n \in Name, Bounded(k, n),
         Holders(k, n)' \subseteq Holders(k, n) \cup Targets(k, n),
         \A r \in Req : Passed(r, k)' /\ req'[r].body[k] = n =>
                          Passed(r, k) /\ req'[r] \in [pc : Pc, id : {req[r].id}, body : {req[r].body}]
  PROVE  Bounded(k, n)'
<1>1. Targets(k, n)' \subseteq Targets(k, n)
  BY DEF Targets, Updaters
<1>2. Creators(k, n)' \subseteq Creators(k, n)
  BY DEF Creators
<1> QED  BY <1>1, <1>2, ShrunkClaims

-----------------------------------------------------------------------------
(* Each action keeps the claims bounded.                                   *)

LEMMA ArrivalKeepsClaims ==
  ASSUME TypeOK, TypeOK', NEW k \in Key, NEW n \in Name, Bounded(k, n),
         NEW r \in Req, Arrive(r)
  PROVE  Bounded(k, n)'
<1>1. UNCHANGED org
  BY DEF Arrive, Create, Update, Remove
<1>2. Holders(k, n)' = Holders(k, n)
  BY <1>1 DEF Holders, Rows
<1>3. ~Passed(r, k)'
  <2>1. CASE \E body \in CreateDto : Create(r, body)
    BY <2>1 DEF Create, Passed, TypeOK
  <2>2. CASE \E i \in Id, body \in UpdateDto : Update(r, i, body)
    BY <2>2 DEF Update, Passed, FirstTest, SecondTest, TypeOK
  <2>3. CASE \E i \in Id : Remove(r, i)
    BY <2>3 DEF Remove, Passed, TypeOK
  <2> QED  BY <2>1, <2>2, <2>3 DEF Arrive
<1>4. \A q \in Req \ {r} : req'[q] = req[q]
  BY DEF Arrive, Create, Update, Remove, TypeOK
<1>5. \A q \in Req : Passed(q, k)' => q # r /\ Passed(q, k) /\ req[q].pc \in Pc
  BY <1>3, <1>4 DEF Passed
<1> QED  BY <1>2, <1>4, <1>5, QuietClaims DEF TypeOK

LEMMA TestKeepsClaims ==
  ASSUME TypeOK, TypeOK', NEW k \in Key, NEW n \in Name, Bounded(k, n),
         NEW r \in Req, TestSubdomain(r) \/ TestEmail(r)
  PROVE  Bounded(k, n)'
<1>1. Holders(k, n)' = Holders(k, n)
  BY DEF TestSubdomain, TestEmail, Holders, Rows
<1>2. CASE At(r, k) /\ req[r].body[k] = n /\ ~Taken(r, k)
  <2>1. Holders(k, n) \subseteq {req[r].id}
    BY <1>2 DEF Taken
  <2>2. /\ req'[r].id = req[r].id /\ req'[r].body = req[r].body
        /\ Passed(r, k)'
    <3>1. n # None
      BY OrganizationsAssumption
    <3>2. CASE TestSubdomain(r)
      BY <1>2, <3>1, <3>2 DEF TestSubdomain, Passed, SecondTest, TypeOK
    <3>3. CASE TestEmail(r)
      BY <1>2, <3>1, <3>3 DEF TestEmail, Passed, TypeOK
    <3> QED  BY <3>2, <3>3
  <2>3. CASE req[r].id = None
    <3>1. Holders(k, n) = {}
      BY <2>1, <2>3, OrganizationsAssumption DEF Holders, Rows
    <3> QED  BY <1>1, <3>1, ClaimsOfRequests
  <2>4. CASE req[r].id # None
    <3>1. req[r].id \in Targets(k, n)'
      BY <1>2, <2>2, <2>4 DEF Targets, Updaters
    <3> QED  BY <1>1, <2>1, <3>1, ClaimsOfRequests
  <2> QED  BY <2>3, <2>4
<1>3. CASE ~(At(r, k) /\ req[r].body[k] = n /\ ~Taken(r, k))
  <2>1. \A q \in Req \ {r} : req'[q] = req[q]
    BY DEF TestSubdomain, TestEmail, Done, TypeOK
  <2>2. Passed(r, k)' /\ req'[r].body[k] = n =>
          Passed(r, k) /\ req'[r] \in [pc : Pc, id : {req[r].id}, body : {req[r].body}]
    BY <1>3 DEF TestSubdomain, TestEmail, Done, Passed, SecondTest, TypeOK
  <2>3. \A q \in Req : Passed(q, k)' /\ req'[q].body[k] = n =>
          Passed(q, k) /\ req'[q] \in [pc : Pc, id : {req[q].id}, body : {req[q].body}]
    BY <2>1, <2>2 DEF Passed, TypeOK
  <2> QED  BY <1>1, <2>3, QuietClaims
<1> QED  BY <1>2, <1>3

LEMMA DoneRequests ==
  ASSUME TypeOK, NEW k \in Key, NEW n \in Name, NEW r \in Req, Done(r)
  PROVE  /\ \A q \in Req \ {r} : req'[q] = req[q]
         /\ ~Passed(r, k)'
         /\ \A q \in Req : Passed(q, k)' /\ req'[q].body[k] = n =>
              Passed(q, k) /\ req'[q] \in [pc : Pc, id : {req[q].id}, body : {req[q].body}]
<1>1. req'[r] = Idle /\ \A q \in Req \ {r} : req'[q] = req[q]
  BY DEF Done, TypeOK
<1>2. ~Passed(r, k)'
  BY <1>1 DEF Passed
<1> QED  BY <1>1, <1>2 DEF Passed, TypeOK

LEMMA InsertKeepsClaims ==
  ASSUME TypeOK, TypeOK', NEW k \in Key, NEW n \in Name, Bounded(k, n),
         NEW r \in Req, InsertOrg(r)
  PROVE  Bounded(k, n)'
<1>1. PICK i \in Id \ drawn : org' = [org EXCEPT ![i] = req[r].body]
  BY DEF InsertOrg
<1>2. req[r].body \in CreateDto /\ org[i] = None /\ r \in Creators(k, req[r].body[k])
  BY <1>1, OrganizationsAssumption DEF InsertOrg, TypeOK, Creators, Passed
<1>3. CASE req[r].body[k] = n
  <2>1. Holders(k, n)' \subseteq Holders(k, n) \cup {i}
    BY <1>1 DEF Holders, Rows, TypeOK
  <2>2. Targets(k, n)' \subseteq Targets(k, n)
    BY DoneRequests DEF InsertOrg, Targets, Updaters
  <2>3. Creators(k, n)' = Creators(k, n) \ {r}
    BY DoneRequests DEF InsertOrg, Creators, Passed
  <2>4. Cardinality((Holders(k, n) \cup Targets(k, n))') + Cardinality(Creators(k, n) \ {r})
          <= Cardinality(Req)
    <3>1. (Holders(k, n) \cup Targets(k, n))'
            \in SUBSET ((Holders(k, n) \cup Targets(k, n)) \cup {i})
      BY <2>1, <2>2
    <3>2. /\ Holders(k, n) \cup Targets(k, n) \in SUBSET Id
          /\ Creators(k, n) \in SUBSET Req
          /\ r \in Creators(k, n)
      BY <1>2, <1>3, ClaimTypes
    <3>3. Cardinality(Holders(k, n) \cup Targets(k, n)) + Cardinality(Creators(k, n))
            <= Cardinality(Req)
      BY DEF Bounded
    <3> QED  BY <3>1, <3>2, <3>3, OneMoreOneLess
  <2> QED  BY <2>3, <2>4 DEF Bounded
<1>4. CASE req[r].body[k] # n
  <2>1. Holders(k, n)' \subseteq Holders(k, n)
    BY <1>1, <1>2, <1>4 DEF Holders, Rows, TypeOK
  <2> QED  BY <2>1, DoneRequests, QuietClaims DEF InsertOrg
<1> QED  BY <1>3, <1>4

LEMMA UpdateKeepsClaims ==
  ASSUME TypeOK, TypeOK', NEW k \in Key, NEW n \in Name, Bounded(k, n),
         NEW r \in Req, UpdateOrg(r)
  PROVE  Bounded(k, n)'
<1>1. ASSUME NEW j \in Holders(k, n)', j \notin Holders(k, n)
      PROVE  j \in Targets(k, n)
  <2>1. j = req[r].id /\ j \in Rows /\ org'[j] = Merged(org[j], req[r].body)
    BY <1>1 DEF UpdateOrg, Holders, Rows, TypeOK
  <2>2. req[r].body[k] = n
    BY <1>1, <2>1 DEF Merged, Holders, Rows
  <2>3. r \in Updaters(k, n)
    BY <2>2, OrganizationsAssumption DEF UpdateOrg, Updaters, Passed
  <2> QED  BY <2>1, <2>3 DEF Targets
<1>2. Holders(k, n)' \subseteq Holders(k, n) \cup Targets(k, n)
  BY <1>1
<1> QED  BY <1>2, DoneRequests, QuietClaims DEF UpdateOrg

LEMMA DropKeepsClaims ==
  ASSUME TypeOK, TypeOK', NEW k \in Key, NEW n \in Name, Bounded(k, n),
         NEW r \in Req, DeleteOrg(r) \/ Fail(r)
  PROVE  Bounded(k, n)'
<1>1. Done(r) /\ \A i \in Id : org'[i] = org[i] \/ org'[i] = None
  BY DEF DeleteOrg, Fail, TypeOK
<1>2. Holders(k, n)' \subseteq Holders(k, n)
  BY <1>1 DEF Holders, Rows
<1> QED  BY <1>1, <1>2, DoneRequests, QuietClaims

-----------------------------------------------------------------------------
(* The invariant.                                                          *)

LEMMA ClaimsInit == Init => ClaimsBounded
<1> SUFFICES ASSUME Init, NEW k \in Key, NEW n \in Name
             PROVE  Cardinality(Holders(k, n) \cup Targets(k, n))
                      + Cardinality(Creators(k, n)) <= Cardinality(Req)
  BY DEF ClaimsBounded
<1>1. Holders(k, n) \cup Targets(k, n) = {} /\ Creators(k, n) = {}
  BY DEF Init, Holders, Rows, Targets, Updaters, Creators, Passed
<1>2. Cardinality(Req) \in Nat
  BY OrganizationsAssumption, FS_CardinalityType
<1> QED  BY <1>1, <1>2, FS_EmptySet

LEMMA ClaimsStep == OrgInv /\ TypeOK' /\ [Next]_vars => ClaimsBounded'
<1> SUFFICES ASSUME OrgInv, TypeOK', [Next]_vars, NEW k \in Key, NEW n \in Name
             PROVE  Bounded(k, n)'
  BY DEF ClaimsBounded, Bounded
<1>1. TypeOK /\ Bounded(k, n)
  BY DEF OrgInv, ClaimsBounded, Bounded
<1>2. CASE UNCHANGED vars
  BY <1>1, <1>2
  DEF vars, Bounded, Holders, Rows, Targets, Updaters, Creators, Passed
<1>3. ASSUME NEW r \in Req, Arrive(r) \/ Step(r) PROVE Bounded(k, n)'
  BY <1>1, <1>3, ArrivalKeepsClaims, TestKeepsClaims, InsertKeepsClaims,
     UpdateKeepsClaims, DropKeepsClaims DEF Step
<1> QED  BY <1>2, <1>3 DEF Next

\* The table and the requests keep their types.
THEOREM TypeCorrect == Spec => []TypeOK
  BY TypeInit, TypeStep, PTL DEF Spec

\* Organizations that hold a name or are about to get it are no more than the
\* requests that can be in flight.
THEOREM ClaimsStayBounded == Spec => []ClaimsBounded
<1>1. Init => OrgInv
  BY TypeInit, ClaimsInit DEF OrgInv
<1>2. OrgInv /\ [Next]_vars => OrgInv'
  BY TypeStep, ClaimsStep DEF OrgInv
<1>3. OrgInv => ClaimsBounded
  BY DEF OrgInv
<1> QED  BY <1>1, <1>2, <1>3, PTL DEF Spec

\* No name is shared by more organizations than there can be requests in flight;
\* where requests do not overlap, names are unique.
THEOREM NamesStayBounded == Spec => []NamesBounded
<1>1. TypeOK /\ ClaimsBounded => NamesBounded
  <2> SUFFICES ASSUME TypeOK, ClaimsBounded, NEW k \in Key, NEW n \in Name
               PROVE  Cardinality(Holders(k, n)) <= Cardinality(Req)
    BY DEF NamesBounded
  <2>1. /\ Holders(k, n) \cup Targets(k, n) \in SUBSET Id
        /\ Creators(k, n) \in SUBSET Req
    BY ClaimTypes
  <2>2. /\ Cardinality(Holders(k, n)) <= Cardinality(Holders(k, n) \cup Targets(k, n))
        /\ Cardinality(Holders(k, n)) \in Nat
        /\ Cardinality(Holders(k, n) \cup Targets(k, n)) \in Nat
        /\ Cardinality(Creators(k, n)) \in Nat
    BY <2>1, SubsetSizes
  <2>3. Cardinality(Holders(k, n) \cup Targets(k, n)) + Cardinality(Creators(k, n))
          <= Cardinality(Req)
    BY DEF ClaimsBounded
  <2>4. Cardinality(Req) \in Nat
    BY OrganizationsAssumption, FS_CardinalityType
  <2> QED  BY <2>2, <2>3, <2>4
<1> QED  BY <1>1, TypeCorrect, ClaimsStayBounded, PTL

\* Subdomains and e-mails are unique where requests do not overlap: what the tests
\* of create and update are for (organizations.service.ts 16-34, 67-94).
THEOREM NamesUniqueWhenSequential ==
  ASSUME Cardinality(Req) = 1
  PROVE  Spec => [](\A k \in Key, n \in Name : \A i, j \in Holders(k, n) : i = j)
<1>1. TypeOK /\ NamesBounded => \A k \in Key, n \in Name : \A i, j \in Holders(k, n) : i = j
  <2> SUFFICES ASSUME TypeOK, NamesBounded, NEW k \in Key, NEW n \in Name,
                      NEW i \in Holders(k, n), NEW j \in Holders(k, n)
               PROVE  i = j
    OBVIOUS
  <2>1. /\ Holders(k, n) \in SUBSET Id /\ {i, j} \in SUBSET Holders(k, n)
        /\ Cardinality(Holders(k, n)) <= 1
    BY DEF NamesBounded, Holders, Rows
  <2>2. IsFiniteSet(Holders(k, n)) /\ Cardinality(Holders(k, n)) \in Nat
    BY <2>1, OrganizationsAssumption, FS_Subset, FS_CardinalityType
       DEF OrganizationsAssumption
  <2>3. CASE i # j
    <3>1. IsFiniteSet({i}) /\ Cardinality({i}) = 1 /\ {i} \cup {j} = {i, j} /\ j \notin {i}
      BY <2>3, FS_Singleton
    <3>2. Cardinality({i, j}) = 2
      BY <3>1, FS_AddElement
    <3>3. Cardinality({i, j}) <= Cardinality(Holders(k, n))
      BY <2>1, <2>2, FS_Subset
    <3> QED  BY <2>1, <2>2, <3>2, <3>3
  <2> QED  BY <2>3
<1> QED  BY <1>1, TypeCorrect, NamesStayBounded, PTL

\* An update that found its organization before it was removed does not bring it
\* back.
THEOREM RemovalIsFinal == Spec => RemovedStaysRemoved
<1>1. TypeOK /\ [Next]_vars => [\A i \in drawn : org[i] = None => org'[i] = None]_vars
  <2> SUFFICES ASSUME TypeOK, Next, NEW i \in drawn, org[i] = None
               PROVE  org'[i] = None
    OBVIOUS
  <2>1. PICK r \in Req : Arrive(r) \/ Step(r)
    BY DEF Next
  <2>2. CASE InsertOrg(r)
    BY <2>2 DEF InsertOrg, TypeOK
  <2>3. CASE UpdateOrg(r)
    BY <2>3 DEF UpdateOrg, Rows, TypeOK
  <2>4. CASE DeleteOrg(r)
    BY <2>4 DEF DeleteOrg, TypeOK
  <2>5. CASE UNCHANGED org
    BY <2>5
  <2> QED
    BY <2>1, <2>2, <2>3, <2>4, <2>5
    DEF Arrive, Create, Update, Remove, Step, TestSubdomain, TestEmail, Fail
<1> QED  BY <1>1, TypeCorrect, PTL DEF Spec, RemovedStaysRemoved

\* Every subdomain and e-mail in the table was written by a request that gave it
\* and tested it; an update reverts nothing.
THEOREM OnlyTestedNamesWritten == Spec => WritesAreTested
<1>1. TypeOK /\ [Next]_vars => [OnlyTestedNames]_vars
  <2> SUFFICES ASSUME TypeOK, Next PROVE OnlyTestedNames
    OBVIOUS
  <2> SUFFICES ASSUME NEW i \in Id, NEW k \in Key, org'[i] # None,
                      org[i] = None \/ org'[i][k] # org[i][k]
               PROVE  \E r \in Req : Passed(r, k) /\ org'[i][k] = req[r].body[k]
    BY DEF OnlyTestedNames
  <2>1. PICK r \in Req : Arrive(r) \/ Step(r)
    BY DEF Next
  <2>2. CASE InsertOrg(r)
    <3>1. org'[i] = req[r].body
      BY <2>2 DEF InsertOrg, TypeOK
    <3>2. Passed(r, k)
      BY <2>2, OrganizationsAssumption DEF InsertOrg, TypeOK, Passed
    <3> QED  BY <3>1, <3>2
  <2>3. CASE UpdateOrg(r)
    <3>1. i = req[r].id /\ i \in Rows /\ org'[i] = Merged(org[i], req[r].body)
      BY <2>3 DEF UpdateOrg, Rows, TypeOK
    <3>2. org'[i][k] # org[i][k]
      BY <3>1 DEF Rows
    <3>3. req[r].body[k] # None /\ org'[i][k] = req[r].body[k]
      BY <3>1, <3>2 DEF Merged
    <3> QED  BY <2>3, <3>3 DEF UpdateOrg, Passed
  <2>4. CASE DeleteOrg(r)
    BY <2>4 DEF DeleteOrg, TypeOK
  <2>5. CASE UNCHANGED org
    BY <2>5
  <2> QED
    BY <2>1, <2>2, <2>3, <2>4, <2>5
    DEF Arrive, Create, Update, Remove, Step, TestSubdomain, TestEmail, Fail
<1> QED  BY <1>1, TypeCorrect, PTL DEF Spec, WritesAreTested

=============================================================================

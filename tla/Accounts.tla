------------------------------ MODULE Accounts ------------------------------
(***************************************************************************)
(* register and changePassword of AuthService over the table tUsers: what  *)
(* they read, test and write, call by call.  Hashing and comparing         *)
(* passwords is slow but touches no state: the time it takes is the time   *)
(* before the next call.  login only reads the table; it is in AuthTokens. *)
(***************************************************************************)
EXTENDS Naturals, FiniteSets, Sequences

CONSTANTS
  User,          \* keys of the table: UUIDs, drawn once
  Name,          \* e-mail addresses and usernames
  Password,
  None,
  Req,           \* requests in flight over all replicas
  MaxChanges     \* bound on the changes of an account's password

ASSUME AccountsAssumption ==
  /\ None \notin User \cup [email : Name, username : Name]
  /\ MaxChanges \in Nat
  /\ IsFiniteSet(Req)

VARIABLES
  user,       \* the table: e-mail and username of each row, or None
  password,   \* the passwords a row has had, the one in force last
  basis,      \* for each change, the place of the password it was made with
  req         \* the call a request makes next, and what it carries

vars == <<user, password, basis, req>>

Names == [email : Name, username : Name]

Idle == [pc |-> "idle"]
Registration == [pc : {"testEmail", "testUsername", "insert"}, names : Names, new : Password]
\* seen: the place of the password that was read.
Change == [pc : {"write"}, id : User, seen : Nat, new : Password]

TypeOK ==
  /\ user \in [User -> Names \cup {None}]
  /\ password \in [User -> Seq(Password)]
  /\ basis \in [User -> Seq(Nat)]
  /\ req \in [Req -> {Idle} \cup Registration \cup Change]

Init ==
  /\ user = [u \in User |-> None]
  /\ password = [u \in User |-> <<>>]
  /\ basis = [u \in User |-> <<>>]
  /\ req = [r \in Req |-> Idle]

At(r, pc) == req[r].pc = pc
Goto(r, pc) == req' = [req EXCEPT ![r].pc = pc]

\* Mutated form of Done: the request is not forgotten.
DoneKeepsRequest(r) == Goto(r, "idle")

Done(r) == req' = [req EXCEPT ![r] = Idle]

Rows == {u \in User : user[u] # None}
Latest(u) == Len(password[u])
InForce(u) == password[u][Latest(u)]

\* The rows with value n in column c.
Holds(c, n) == {u \in Rows : user[u][c] = n}

-----------------------------------------------------------------------------
(* Mutated forms of definitions below: the bugs the properties must catch. *)

\* The table has no unique columns.
Unconstrained(names) == TRUE

\* The whole row that was read is saved, the password being set in vain.
UpdateForgets(r) ==
  LET u == req[r].id
  IN
  /\ At(r, "write")
  /\ Len(basis[u]) < MaxChanges
  /\ basis' = [basis EXCEPT ![u] = Append(@, req[r].seen)]
  /\ Done(r)
  /\ UNCHANGED <<user, password>>

\* The new password is not compared with the old one.
MayReplace(u, old, new) == old = InForce(u)

-----------------------------------------------------------------------------
(* register                                                                *)

Register(r, names, new) ==
  /\ At(r, "idle")
  /\ req' = [req EXCEPT ![r] = [pc |-> "testEmail", names |-> names, new |-> new]]
  /\ UNCHANGED <<user, password, basis>>

Test(r, c, next) ==
  /\ IF Holds(c, req[r].names[c]) # {} THEN Done(r) ELSE Goto(r, next)
  /\ UNCHANGED <<user, password, basis>>

TestEmail(r) == At(r, "testEmail") /\ Test(r, "email", "testUsername")
TestUsername(r) == At(r, "testUsername") /\ Test(r, "username", "insert")

\* Both columns are unique: the database rejects a second row.
Insertable(names) == \A c \in {"email", "username"} : Holds(c, names[c]) = {}

InsertUser(r) ==
  /\ At(r, "insert")
  /\ IF Insertable(req[r].names)
     THEN \E u \in User \ Rows :
            /\ user' = [user EXCEPT ![u] = req[r].names]
            /\ password' = [password EXCEPT ![u] = <<req[r].new>>]
     ELSE UNCHANGED <<user, password>>
  /\ Done(r)
  /\ UNCHANGED basis

-----------------------------------------------------------------------------
(* changePassword: read, compare twice, hash, write without looking again. *)

Replaceable(u, old, new) == old = InForce(u) /\ new # InForce(u)

ChangePassword(r, u, old, new) ==
  /\ At(r, "idle")
  /\ u \in Rows
  /\ Replaceable(u, old, new)
  /\ req' = [req EXCEPT ![r] = [pc |-> "write", id |-> u, seen |-> Latest(u), new |-> new]]
  /\ UNCHANGED <<user, password, basis>>

UpdatePassword(r) ==
  LET u == req[r].id
  IN
  /\ At(r, "write")
  /\ Len(basis[u]) < MaxChanges
  /\ password' = [password EXCEPT ![u] = Append(@, req[r].new)]
  /\ basis' = [basis EXCEPT ![u] = Append(@, req[r].seen)]
  /\ Done(r)
  /\ UNCHANGED user

-----------------------------------------------------------------------------

\* A call rejects or the replica dies.  A write that took effect although its
\* answer was lost looks like one that succeeded.
Fail(r) ==
  /\ ~At(r, "idle")
  /\ Done(r)
  /\ UNCHANGED <<user, password, basis>>

Arrive(r) ==
  \/ \E names \in Names, new \in Password : Register(r, names, new)
  \/ \E u \in User, old \in Password, new \in Password : ChangePassword(r, u, old, new)

Step(r) ==
  \/ TestEmail(r) \/ TestUsername(r) \/ InsertUser(r)
  \/ UpdatePassword(r) \/ Fail(r)

Next == \E r \in Req : Arrive(r) \/ Step(r)

Spec == Init /\ [][Next]_vars

-----------------------------------------------------------------------------
(* Properties.                                                             *)

\* An e-mail and a username lead to one account, although the tests of two
\* registrations may overlap and both find them free (authService.js 17-41).
OneAccountPerName ==
  \A u, v \in Rows : \A c \in {"email", "username"} :
    user[u][c] = user[v][c] => u = v

ChangesFrom(u, v) == {i \in 1 .. Len(basis[u]) : basis[u][i] = v}
Changing(u, v) == {r \in Req : At(r, "write") /\ req[r].id = u /\ req[r].seen = v}

\* A password serves to change the account's password at most as often as there
\* can be requests in flight: changePassword writes without looking again
\* (lines 134-164), so those that overlap all succeed, but none that comes later.
ChangesBounded ==
  \A u \in User : \A v \in 1 .. Latest(u) :
    Cardinality(ChangesFrom(u, v)) + Cardinality(Changing(u, v)) <= Cardinality(Req)

\* The new password differs from the one it replaces, as lines 151-155 ask, unless
\* another change came between the reading and the writing.
RepeatsOnlyInRaces ==
  \A u \in User : \A i \in 1 .. Len(basis[u]) :
    basis[u][i] = i => password[u][i + 1] # password[u][i]

\* Why: a change was made with a password that was in force before it.
AccountsInv ==
  /\ OneAccountPerName
  /\ RepeatsOnlyInRaces
  /\ \A u \in User :
       /\ password[u] = <<>> <=> user[u] = None
       /\ password[u] = <<>> => basis[u] = <<>>
       /\ password[u] # <<>> => Latest(u) = Len(basis[u]) + 1
       /\ \A i \in 1 .. Len(basis[u]) : basis[u][i] \in 1 .. i
  /\ \A r \in Req : At(r, "write") =>
       /\ req[r].seen \in 1 .. Latest(req[r].id)
       /\ req[r].new # password[req[r].id][req[r].seen]

=============================================================================

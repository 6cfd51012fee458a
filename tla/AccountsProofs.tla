---------------------------- MODULE AccountsProofs ----------------------------
(***************************************************************************)
(* What holds of the accounts for any number of accounts, names, passwords *)
(* and requests.  AccountsInv is inductive; ChangesBounded needs it: no    *)
(* change was made with the password in force, so those in flight that     *)
(* hold it are all there can be.                                           *)
(***************************************************************************)
EXTENDS Accounts, FiniteSetTheorems, TLAPS

USE DEF At, Goto, Idle

-----------------------------------------------------------------------------
(* Type correctness.                                                       *)

LEMMA TypeInit == Init => TypeOK
  BY DEF Init, TypeOK

LEMMA RequestKinds ==
  ASSUME TypeOK, NEW r \in Req
  PROVE  /\ req[r].pc \in {"testEmail", "testUsername", "insert"} =>
              req[r] \in Registration /\ req[r].names \in Names /\ req[r].new \in Password
         /\ req[r].pc = "write" =>
              req[r] \in Change /\ req[r].id \in User /\ req[r].seen \in Nat
                /\ req[r].new \in Password
<1>1. req[r] = Idle \/ req[r] \in Registration \/ req[r] \in Change
  BY DEF TypeOK
<1>2. ~("idle" \in {"testEmail", "testUsername", "insert"}) /\ "idle" # "write"
  OBVIOUS
<1>3. req[r] \in Registration =>
        /\ req[r].pc \in {"testEmail", "testUsername", "insert"}
        /\ req[r].names \in Names /\ req[r].new \in Password
  BY DEF Registration
<1>4. req[r] \in Change =>
        /\ req[r].pc = "write"
        /\ req[r].id \in User /\ req[r].seen \in Nat /\ req[r].new \in Password
  BY DEF Change
<1> QED  BY <1>1, <1>2, <1>3, <1>4

LEMMA TypeStep == TypeOK /\ [Next]_vars => TypeOK'
<1> SUFFICES ASSUME TypeOK, [Next]_vars PROVE TypeOK'
  OBVIOUS
<1>1. CASE UNCHANGED vars
  BY <1>1 DEF vars, TypeOK
<1>2. ASSUME NEW r \in Req, NEW names \in Names, NEW new \in Password, Register(r, names, new)
      PROVE  TypeOK'
  <2>1. [pc |-> "testEmail", names |-> names, new |-> new] \in Registration
    BY DEF Registration
  <2> QED  BY <1>2, <2>1 DEF Register, TypeOK
<1>3. ASSUME NEW r \in Req, NEW u \in User, NEW old \in Password, NEW new \in Password,
             ChangePassword(r, u, old, new)
      PROVE  TypeOK'
  <2>1. [pc |-> "write", id |-> u, seen |-> Latest(u), new |-> new] \in Change
    BY DEF Change, Latest, TypeOK
  <2> QED  BY <1>3, <2>1 DEF ChangePassword, TypeOK
<1>4. ASSUME NEW r \in Req, TestEmail(r) \/ TestUsername(r) PROVE TypeOK'
  <2>1. CASE Done(r)
    BY <1>4, <2>1 DEF TestEmail, TestUsername, Test, Done, TypeOK
  <2>2. ASSUME NEW next \in {"testUsername", "insert"}, Goto(r, next) PROVE TypeOK'
    <3>1. req[r] \in Registration
      BY <1>4, RequestKinds DEF TestEmail, TestUsername
    <3>2. [req[r] EXCEPT !.pc = next] \in Registration
      BY <3>1 DEF Registration
    <3> QED  BY <1>4, <2>2, <3>2 DEF TestEmail, TestUsername, Test, TypeOK
  <2> QED  BY <1>4, <2>1, <2>2 DEF TestEmail, TestUsername, Test
<1>5. ASSUME NEW r \in Req, InsertUser(r) PROVE TypeOK'
  <2>1. req[r].names \in Names /\ <<req[r].new>> \in Seq(Password)
    BY <1>5, RequestKinds DEF InsertUser
  <2>2. req' = [req EXCEPT ![r] = Idle] /\ basis' = basis
    BY <1>5 DEF InsertUser, Done
  <2>3. user' \in [User -> Names \cup {None}] /\ password' \in [User -> Seq(Password)]
    BY <1>5, <2>1 DEF InsertUser, TypeOK
  <2> QED  BY <2>2, <2>3 DEF TypeOK
<1>6. ASSUME NEW r \in Req, UpdatePassword(r) PROVE TypeOK'
  <2>1. req[r].id \in User /\ req[r].new \in Password /\ req[r].seen \in Nat
    BY <1>6, RequestKinds DEF UpdatePassword
  <2>2. /\ Append(password[req[r].id], req[r].new) \in Seq(Password)
        /\ Append(basis[req[r].id], req[r].seen) \in Seq(Nat)
    BY <2>1 DEF TypeOK
  <2>3. req' = [req EXCEPT ![r] = Idle] /\ user' = user
    BY <1>6 DEF UpdatePassword, Done
  <2>4. password' \in [User -> Seq(Password)] /\ basis' \in [User -> Seq(Nat)]
    BY <1>6, <2>1, <2>2 DEF UpdatePassword, TypeOK
  <2> QED  BY <2>3, <2>4 DEF TypeOK
<1>7. ASSUME NEW r \in Req, Fail(r) PROVE TypeOK'
  BY <1>7 DEF Fail, Done, TypeOK
<1> QED
  BY <1>1, <1>2, <1>3, <1>4, <1>5, <1>6, <1>7 DEF Next, Arrive, Step

\* The table, its history and the requests keep their types.
THEOREM TypeCorrect == Spec => []TypeOK
  BY TypeInit, TypeStep, PTL DEF Spec

-----------------------------------------------------------------------------
(* The inductive invariant.                                                *)

\* The history of one account.
HistoryInv(u) ==
  /\ password[u] = <<>> <=> user[u] = None
  /\ password[u] = <<>> => basis[u] = <<>>
  /\ password[u] # <<>> => Latest(u) = Len(basis[u]) + 1
  /\ \A i \in 1 .. Len(basis[u]) : basis[u][i] \in 1 .. i
  /\ \A i \in 1 .. Len(basis[u]) : basis[u][i] = i => password[u][i + 1] # password[u][i]

\* What a change in flight has read.
ChangeInv(r) ==
  At(r, "write") =>
    /\ req[r].seen \in 1 .. Latest(req[r].id)
    /\ req[r].new # password[req[r].id][req[r].seen]

LEMMA InvParts ==
  AccountsInv <=> OneAccountPerName /\ (\A u \in User : HistoryInv(u))
                    /\ \A r \in Req : ChangeInv(r)
  BY DEF AccountsInv, RepeatsOnlyInRaces, HistoryInv, ChangeInv

LEMMA InvNext ==
  ASSUME OneAccountPerName', \A u \in User : HistoryInv(u)', \A r \in Req : ChangeInv(r)'
  PROVE  AccountsInv'
  BY DEF AccountsInv, RepeatsOnlyInRaces, HistoryInv, ChangeInv

LEMMA InvInit == Init => AccountsInv
<1> SUFFICES ASSUME Init PROVE AccountsInv
  OBVIOUS
<1>1. OneAccountPerName
  BY DEF Init, OneAccountPerName, Rows
<1>2. \A u \in User : HistoryInv(u)
  BY DEF Init, HistoryInv
<1>3. \A r \in Req : ChangeInv(r)
  BY DEF Init, ChangeInv
<1> QED  BY <1>1, <1>2, <1>3, InvParts

\* A step that leaves the table and its history alone keeps the invariant, if what
\* becomes of its request does.
LEMMA TablesSame ==
  ASSUME TypeOK, AccountsInv, NEW r \in Req, NEW q, req' = [req EXCEPT ![r] = q],
         user' = user, password' = password, basis' = basis,
         q.pc = "write" => q.seen \in 1 .. Latest(q.id) /\ q.new # password[q.id][q.seen]
  PROVE  AccountsInv'
<1>1. OneAccountPerName'
  BY DEF AccountsInv, OneAccountPerName, Rows
<1>2. \A u \in User : HistoryInv(u)'
  BY InvParts DEF HistoryInv, Latest
<1>3. \A s \in Req : ChangeInv(s)'
  BY InvParts DEF ChangeInv, Latest, TypeOK
<1> QED  BY <1>1, <1>2, <1>3, InvNext

LEMMA InsertKeeps ==
  ASSUME TypeOK, AccountsInv, NEW r \in Req, InsertUser(r)
  PROVE  AccountsInv'
<1>1. req' = [req EXCEPT ![r] = Idle] /\ basis' = basis
  BY DEF InsertUser, Done
<1>2. CASE user' = user /\ password' = password
  BY <1>1, <1>2, TablesSame
<1>3. ASSUME NEW u \in User, u \notin Rows, Insertable(req[r].names),
             user' = [user EXCEPT ![u] = req[r].names],
             password' = [password EXCEPT ![u] = <<req[r].new>>]
      PROVE  AccountsInv'
  <2>1. req[r].names \in Names /\ req[r].new \in Password
    BY RequestKinds DEF InsertUser
  <2>2. req[r].names # None
    BY <2>1, AccountsAssumption DEF Names
  <2>3. user[u] = None /\ password[u] = <<>> /\ basis[u] = <<>>
    BY <1>3, InvParts DEF Rows, HistoryInv
  <2>4. OneAccountPerName'
    <3> SUFFICES ASSUME NEW v \in User, NEW w \in User, user'[v] # None, user'[w] # None,
                        NEW c \in {"email", "username"}, user'[v][c] = user'[w][c]
                 PROVE  v = w
      BY DEF OneAccountPerName, Rows
    <3>1. \A x \in Rows : user[x][c] # req[r].names[c]
      BY <1>3 DEF Insertable, Holds
    <3>2. \A x \in User \ {u} : user'[x] = user[x]
      BY <1>3 DEF TypeOK
    <3>3. user'[u] = req[r].names
      BY <1>3 DEF TypeOK
    <3>4. \A x, y \in Rows : user[x][c] = user[y][c] => x = y
      BY InvParts DEF OneAccountPerName
    <3> QED  BY <3>1, <3>2, <3>3, <3>4 DEF Rows
  <2>5. ASSUME NEW v \in User PROVE HistoryInv(v)'
    <3>1. CASE v # u
      <4>1. user'[v] = user[v] /\ password'[v] = password[v] /\ basis'[v] = basis[v]
        BY <1>1, <1>3, <3>1 DEF TypeOK
      <4> QED  BY <4>1, InvParts DEF HistoryInv, Latest
    <3>2. CASE v = u
      <4>1. user'[v] # None /\ password'[v] = <<req[r].new>> /\ basis'[v] = <<>>
        BY <1>1, <1>3, <2>2, <2>3, <3>2 DEF TypeOK
      <4> QED  BY <4>1 DEF HistoryInv, Latest
    <3> QED  BY <3>1, <3>2
  <2>6. ASSUME NEW s \in Req PROVE ChangeInv(s)'
    <3> SUFFICES ASSUME req'[s].pc = "write"
                 PROVE  /\ req'[s].seen \in 1 .. Len(password'[req'[s].id])
                        /\ req'[s].new # password'[req'[s].id][req'[s].seen]
      BY DEF ChangeInv, Latest
    <3>1. s # r /\ req'[s] = req[s]
      BY <1>1 DEF TypeOK
    <3>2. /\ req[s].id \in User
          /\ req[s].seen \in 1 .. Len(password[req[s].id])
          /\ req[s].new # password[req[s].id][req[s].seen]
      BY <3>1, RequestKinds, InvParts DEF ChangeInv, Latest
    <3>3. req[s].id # u
      BY <2>3, <3>2
    <3>4. password'[req[s].id] = password[req[s].id]
      BY <1>3, <3>2, <3>3 DEF TypeOK
    <3> QED  BY <3>1, <3>2, <3>4
  <2> QED  BY <2>4, <2>5, <2>6, InvNext
<1> QED  BY <1>2, <1>3 DEF InsertUser, Rows

LEMMA UpdateKeeps ==
  ASSUME TypeOK, AccountsInv, NEW r \in Req, UpdatePassword(r)
  PROVE  AccountsInv'
<1> DEFINE u == req[r].id
<1>1. PICK old \in Seq(Password), bs \in Seq(Nat) : old = password[u] /\ bs = basis[u]
  BY RequestKinds DEF UpdatePassword, TypeOK
<1>2. PICK new \in Password, seen \in Nat : new = req[r].new /\ seen = req[r].seen
  BY RequestKinds DEF UpdatePassword
<1>3. u \in User
  BY RequestKinds DEF UpdatePassword
<1>4. /\ password' = [password EXCEPT ![u] = Append(old, new)]
      /\ basis' = [basis EXCEPT ![u] = Append(bs, seen)]
      /\ req' = [req EXCEPT ![r] = Idle] /\ user' = user
  BY <1>1, <1>2 DEF UpdatePassword, Done
<1>5. seen \in 1 .. Len(old) /\ new # old[seen]
  BY <1>1, <1>2, InvParts DEF ChangeInv, Latest, UpdatePassword
<1>6. HistoryInv(u)
  BY <1>3, InvParts
<1> HIDE DEF u
<1>7. OneAccountPerName'
  BY <1>4, InvParts DEF OneAccountPerName, Rows
<1>8. ASSUME NEW v \in User PROVE HistoryInv(v)'
  <2>1. CASE v # u
    <3>1. user'[v] = user[v] /\ password'[v] = password[v] /\ basis'[v] = basis[v]
      BY <1>4, <2>1 DEF TypeOK
    <3> QED  BY <3>1, InvParts DEF HistoryInv, Latest
  <2>2. CASE v = u
    <3>1. password'[v] = Append(old, new) /\ basis'[v] = Append(bs, seen) /\ user'[v] = user[u]
      BY <1>4, <2>2 DEF TypeOK
    <3>2. old # <<>> /\ user[u] # None /\ Len(old) = Len(bs) + 1
      BY <1>1, <1>5, <1>6 DEF HistoryInv, Latest
    <3>3. /\ \A i \in 1 .. Len(bs) : bs[i] \in 1 .. i
          /\ \A i \in 1 .. Len(bs) : bs[i] = i => old[i + 1] # old[i]
      BY <1>1, <1>6 DEF HistoryInv
    <3>4. /\ Len(Append(bs, seen)) = Len(bs) + 1
          /\ \A i \in 1 .. Len(bs) : Append(bs, seen)[i] = bs[i]
          /\ Append(bs, seen)[Len(bs) + 1] = seen
      OBVIOUS
    <3>5. /\ Len(Append(old, new)) = Len(old) + 1
          /\ \A i \in 1 .. Len(old) : Append(old, new)[i] = old[i]
          /\ Append(old, new)[Len(old) + 1] = new
      OBVIOUS
    <3>6. \A i \in 1 .. Len(bs) + 1 : Append(bs, seen)[i] \in 1 .. i
      BY <1>5, <3>2, <3>3, <3>4
    <3>7. ASSUME NEW i \in 1 .. Len(bs) + 1, Append(bs, seen)[i] = i
          PROVE  Append(old, new)[i + 1] # Append(old, new)[i]
      <4>1. CASE i = Len(bs) + 1
        BY <1>5, <3>2, <3>4, <3>5, <3>7, <4>1
      <4>2. CASE i # Len(bs) + 1
        BY <3>2, <3>3, <3>4, <3>5, <3>7, <4>2
      <4> QED  BY <4>1, <4>2
    <3>8. Append(old, new) # <<>>
      BY <3>5
    <3> QED  BY <3>1, <3>2, <3>4, <3>5, <3>6, <3>7, <3>8 DEF HistoryInv, Latest
  <2> QED  BY <2>1, <2>2
<1>9. ASSUME NEW s \in Req PROVE ChangeInv(s)'
  <2> SUFFICES ASSUME req'[s].pc = "write"
               PROVE  /\ req'[s].seen \in 1 .. Len(password'[req'[s].id])
                      /\ req'[s].new # password'[req'[s].id][req'[s].seen]
    BY DEF ChangeInv, Latest
  <2>1. s # r /\ req'[s] = req[s]
    BY <1>4 DEF TypeOK
  <2>2. /\ req[s].id \in User
        /\ req[s].seen \in 1 .. Len(password[req[s].id])
        /\ req[s].new # password[req[s].id][req[s].seen]
    BY <2>1, RequestKinds, InvParts DEF ChangeInv, Latest
  <2>3. CASE req[s].id # u
    <3>1. password'[req[s].id] = password[req[s].id]
      BY <1>4, <2>2, <2>3 DEF TypeOK
    <3> QED  BY <2>1, <2>2, <3>1
  <2>4. CASE req[s].id = u
    <3>1. password'[req[s].id] = Append(old, new) /\ password[req[s].id] = old
      BY <1>1, <1>3, <1>4, <2>4 DEF TypeOK, u
    <3> QED  BY <2>1, <2>2, <3>1
  <2> QED  BY <2>3, <2>4
<1> QED  BY <1>7, <1>8, <1>9, InvNext

LEMMA InvStep == TypeOK /\ AccountsInv /\ [Next]_vars => AccountsInv'
<1> SUFFICES ASSUME TypeOK, AccountsInv, [Next]_vars PROVE AccountsInv'
  OBVIOUS
<1>1. CASE UNCHANGED vars
  BY <1>1 DEF vars, AccountsInv, OneAccountPerName, RepeatsOnlyInRaces, Rows, Latest
<1>2. ASSUME NEW r \in Req, NEW q, q.pc # "write", req' = [req EXCEPT ![r] = q],
             UNCHANGED <<user, password, basis>>
      PROVE  AccountsInv'
  BY <1>2, TablesSame
<1>3. ASSUME NEW r \in Req, NEW names \in Names, NEW new \in Password, Register(r, names, new)
      PROVE  AccountsInv'
  <2>1. [pc |-> "testEmail", names |-> names, new |-> new].pc # "write"
    OBVIOUS
  <2> QED  BY <1>2, <1>3, <2>1 DEF Register
<1>4. ASSUME NEW r \in Req, NEW u \in User, NEW old \in Password, NEW new \in Password,
             ChangePassword(r, u, old, new)
      PROVE  AccountsInv'
  <2>1. PICK q : q = [pc |-> "write", id |-> u, seen |-> Latest(u), new |-> new]
    OBVIOUS
  <2>2. q.id = u /\ q.seen = Latest(u) /\ q.new = new
    BY <2>1
  <2>3. new # password[u][Latest(u)]
    BY <1>4 DEF ChangePassword, Replaceable, InForce
  <2>4. Latest(u) \in 1 .. Latest(u)
    BY <1>4, InvParts DEF ChangePassword, Rows, HistoryInv, Latest, TypeOK
  <2>5. req' = [req EXCEPT ![r] = q] /\ UNCHANGED <<user, password, basis>>
    BY <1>4, <2>1 DEF ChangePassword
  <2> QED  BY <2>2, <2>3, <2>4, <2>5, TablesSame
<1>5. ASSUME NEW r \in Req, Done(r), UNCHANGED <<user, password, basis>> PROVE AccountsInv'
  <2>1. Idle.pc # "write"
    OBVIOUS
  <2> QED  BY <1>2, <1>5, <2>1 DEF Done
<1>6. ASSUME NEW r \in Req, TestEmail(r) \/ TestUsername(r) PROVE AccountsInv'
  <2>1. ASSUME NEW next \in {"testUsername", "insert"}, Goto(r, next)
        PROVE  AccountsInv'
    <3>1. PICK q : q = [req[r] EXCEPT !.pc = next]
      OBVIOUS
    <3>2. q.pc = next
      <4>1. req[r] \in Registration
        BY <1>6, RequestKinds DEF TestEmail, TestUsername
      <4> QED  BY <3>1, <4>1 DEF Registration
    <3> QED  BY <1>2, <1>6, <2>1, <3>1, <3>2 DEF TestEmail, TestUsername, Test
  <2> QED  BY <1>5, <1>6, <2>1 DEF TestEmail, TestUsername, Test
<1>7. ASSUME NEW r \in Req, InsertUser(r) \/ UpdatePassword(r) PROVE AccountsInv'
  BY <1>7, InsertKeeps, UpdateKeeps
<1>8. ASSUME NEW r \in Req, Fail(r) PROVE AccountsInv'
  BY <1>5, <1>8 DEF Fail
<1> QED
  BY <1>1, <1>3, <1>4, <1>6, <1>7, <1>8 DEF Next, Arrive, Step

\* Names lead to one account, and every change was made with a password in force
\* before it (AuthService.register, changePassword).
THEOREM AccountsInvariant == Spec => []AccountsInv
<1>1. Init => TypeOK /\ AccountsInv
  BY TypeInit, InvInit
<1>2. TypeOK /\ AccountsInv /\ [Next]_vars => (TypeOK /\ AccountsInv)'
  BY TypeStep, InvStep
<1> QED  BY <1>1, <1>2, PTL DEF Spec

\* The rows of an e-mail or a username (User.js).
THEOREM NamesAreUnique == Spec => []OneAccountPerName
<1>1. AccountsInv => OneAccountPerName
  BY DEF AccountsInv
<1> QED  BY <1>1, AccountsInvariant, PTL

\* A change to the password in force gets through only in a race (lines 151-164).
THEOREM RepeatsAreRaces == Spec => []RepeatsOnlyInRaces
<1>1. AccountsInv => RepeatsOnlyInRaces
  BY DEF AccountsInv
<1> QED  BY <1>1, AccountsInvariant, PTL

-----------------------------------------------------------------------------
(* How often one password serves to change the password.                   *)

Bounded(u, v) ==
  Cardinality(ChangesFrom(u, v)) + Cardinality(Changing(u, v)) <= Cardinality(Req)

LEMMA Sizes ==
  ASSUME TypeOK, NEW u \in User, NEW v
  PROVE  /\ IsFiniteSet(ChangesFrom(u, v)) /\ Cardinality(ChangesFrom(u, v)) \in Nat
         /\ IsFiniteSet(Changing(u, v)) /\ Cardinality(Changing(u, v)) \in Nat
         /\ Cardinality(Changing(u, v)) <= Cardinality(Req)
         /\ Cardinality(Req) \in Nat
<1>1. Len(basis[u]) \in Nat
  BY DEF TypeOK
<1>2. IsFiniteSet(1 .. Len(basis[u]))
  BY <1>1, FS_Interval
<1>3. ChangesFrom(u, v) \subseteq 1 .. Len(basis[u]) /\ Changing(u, v) \subseteq Req
  BY DEF ChangesFrom, Changing
<1> QED  BY <1>2, <1>3, AccountsAssumption, FS_Subset, FS_CardinalityType

LEMMA Shrunk ==
  ASSUME TypeOK, TypeOK', NEW u \in User, NEW v, Bounded(u, v),
         ChangesFrom(u, v)' = ChangesFrom(u, v), Changing(u, v)' \subseteq Changing(u, v)
  PROVE  Bounded(u, v)'
<1>1. /\ Cardinality(Changing(u, v)') <= Cardinality(Changing(u, v))
      /\ Cardinality(Changing(u, v)') \in Nat
  BY Sizes, FS_Subset, FS_CardinalityType
<1>2. Cardinality(ChangesFrom(u, v)') = Cardinality(ChangesFrom(u, v))
  OBVIOUS
<1>3. Cardinality(ChangesFrom(u, v)') + Cardinality(Changing(u, v)') <= Cardinality(Req)
  BY <1>1, <1>2, Sizes DEF Bounded
<1> QED  BY <1>3 DEF Bounded

\* A change that begins has read the password in force.
LEMMA ChangeStarts ==
  ASSUME TypeOK, [Next]_vars, UNCHANGED <<password, basis>>, NEW r \in Req,
         req'[r].pc = "write", req'[r] # req[r]
  PROVE  req'[r].seen = Latest(req'[r].id)
<1>1. ~Done(r) /\ ~(\E next \in {"testUsername", "insert"} : Goto(r, next))
  <2>1. ~Done(r)
    BY DEF Done, TypeOK
  <2>2. ASSUME NEW next \in {"testUsername", "insert"}, Goto(r, next) PROVE req'[r].pc = next
    BY <2>2 DEF TypeOK, Registration, Change
  <2> QED  BY <2>1, <2>2
<1>2. PICK s \in Req : Arrive(s) \/ Step(s)
  BY DEF Next, vars
<1>3. s = r
  BY <1>2 DEF Arrive, Step, Register, ChangePassword, TestEmail, TestUsername, Test,
              InsertUser, UpdatePassword, Fail, Done, TypeOK
<1>4. ~Step(r)
  BY <1>1 DEF Step, TestEmail, TestUsername, Test, InsertUser, UpdatePassword, Fail
<1>5. ASSUME NEW names \in Names, NEW new \in Password PROVE ~Register(r, names, new)
  BY DEF Register, TypeOK
<1>6. PICK u \in User, old \in Password, new \in Password : ChangePassword(r, u, old, new)
  BY <1>2, <1>3, <1>4, <1>5 DEF Arrive
<1>7. req'[r] = [pc |-> "write", id |-> u, seen |-> Latest(u), new |-> new]
  BY <1>6 DEF ChangePassword, TypeOK
<1> QED  BY <1>7

LEMMA BoundedInit == Init => ChangesBounded
  BY DEF Init, ChangesBounded, Latest

LEMMA BoundedStep ==
  TypeOK /\ AccountsInv /\ ChangesBounded /\ [Next]_vars => ChangesBounded'
<1> SUFFICES ASSUME TypeOK, AccountsInv, ChangesBounded, [Next]_vars,
                    NEW u \in User, NEW v \in 1 .. Len(password'[u])
             PROVE  Bounded(u, v)'
  BY DEF ChangesBounded, Bounded, Latest
<1>1. TypeOK' /\ AccountsInv'
  BY TypeStep, InvStep
<1>2. CASE ChangesFrom(u, v)' = {}
  <2>1. Cardinality(ChangesFrom(u, v)') = 0
    BY <1>2, FS_EmptySet
  <2>2. /\ Cardinality(Changing(u, v)') <= Cardinality(Req)
        /\ Cardinality(Changing(u, v)') \in Nat
    <3>1. Changing(u, v)' \subseteq Req
      BY DEF Changing
    <3> QED  BY <3>1, AccountsAssumption, FS_Subset, FS_CardinalityType
  <2> QED  BY <2>1, <2>2 DEF Bounded
<1>3. v \in 1 .. Latest(u) => Bounded(u, v)
  BY DEF ChangesBounded, Bounded
<1>4. CASE UNCHANGED <<password, basis>>
  <2>1. ChangesFrom(u, v)' = ChangesFrom(u, v) /\ v \in 1 .. Latest(u)
    BY <1>4 DEF ChangesFrom, Latest
  <2>2. CASE Changing(u, v)' \subseteq Changing(u, v)
    BY <1>1, <1>3, <2>1, <2>2, Shrunk
  <2>3. CASE ~(Changing(u, v)' \subseteq Changing(u, v))
    <3>1. PICK r \in Req : req'[r].pc = "write" /\ req'[r].id = u /\ req'[r].seen = v
                             /\ req'[r] # req[r]
      BY <2>3 DEF Changing
    <3>2. v = Latest(u)
      BY <1>4, <3>1, ChangeStarts
    <3>3. \A i \in 1 .. Len(basis[u]) : basis[u][i] < Latest(u)
      BY <3>2, InvParts DEF HistoryInv, Latest, TypeOK
    <3>4. \A i \in 1 .. Len(basis[u]) : basis[u][i] # v
      <4>1. Latest(u) \in Nat
        BY DEF Latest, TypeOK
      <4>2. Latest(u) = v
        BY <3>2
      <4> QED  BY <3>3, <4>1, <4>2
    <3>5. ChangesFrom(u, v)' = {}
      BY <2>1, <3>4 DEF ChangesFrom
    <3> QED  BY <1>2, <3>5
  <2> QED  BY <2>2, <2>3
<1>5. ASSUME NEW r \in Req, InsertUser(r) PROVE Bounded(u, v)'
  <2>1. CASE UNCHANGED password
    BY <1>4, <1>5, <2>1 DEF InsertUser
  <2>2. ASSUME NEW w \in User \ Rows, password' = [password EXCEPT ![w] = <<req[r].new>>]
        PROVE  Bounded(u, v)'
    <3>1. CASE u = w
      <4>1. basis'[u] = <<>>
        BY <1>5, <2>2, <3>1, InvParts DEF InsertUser, Rows, HistoryInv
      <4>2. ChangesFrom(u, v)' = {}
        BY <4>1 DEF ChangesFrom
      <4> QED  BY <1>2, <4>2
    <3>2. CASE u # w
      <4>1. v \in 1 .. Latest(u)
        BY <2>2, <3>2 DEF Latest, TypeOK
      <4>2. ChangesFrom(u, v)' = ChangesFrom(u, v)
        BY <1>5 DEF InsertUser, ChangesFrom
      <4>3. Changing(u, v)' \subseteq Changing(u, v)
        BY <1>5 DEF InsertUser, Done, Changing, TypeOK
      <4> QED  BY <1>1, <1>3, <4>1, <4>2, <4>3, Shrunk
    <3> QED  BY <3>1, <3>2
  <2> QED  BY <1>5, <2>1, <2>2 DEF InsertUser
<1>6. ASSUME NEW r \in Req, UpdatePassword(r) PROVE Bounded(u, v)'
  <2>1. /\ req[r].id \in User /\ req[r].seen \in Nat /\ req[r].pc = "write"
        /\ req[r].seen \in 1 .. Latest(req[r].id)
    BY <1>6, RequestKinds, InvParts DEF UpdatePassword, ChangeInv
  <2>2. Changing(u, v)' \subseteq Changing(u, v) \ {r}
    BY <1>6 DEF UpdatePassword, Done, Changing, TypeOK
  <2>3. CASE u # req[r].id
    <3>1. v \in 1 .. Latest(u) /\ ChangesFrom(u, v)' = ChangesFrom(u, v)
      BY <1>6, <2>1, <2>3 DEF UpdatePassword, Latest, ChangesFrom, TypeOK
    <3> QED  BY <1>1, <1>3, <2>2, <3>1, Shrunk
  <2>4. CASE u = req[r].id
    <3>1. PICK bs \in Seq(Nat), old \in Seq(Password) : bs = basis[u] /\ old = password[u]
      BY DEF TypeOK
    <3>2. basis'[u] = Append(bs, req[r].seen) /\ password'[u] = Append(old, req[r].new)
      BY <1>6, <2>4, <3>1 DEF UpdatePassword, TypeOK
    <3>3. /\ Len(basis'[u]) = Len(bs) + 1 /\ basis'[u][Len(bs) + 1] = req[r].seen
          /\ \A i \in 1 .. Len(bs) : basis'[u][i] = bs[i]
      BY <2>1, <3>2
    <3>4. v \in 1 .. Latest(u) \/ v = Latest(u) + 1
      <4>1. Len(password'[u]) = Len(old) + 1
        BY <3>2
      <4> QED  BY <3>1, <4>1 DEF Latest
    <3>5. CASE v = Latest(u) + 1
      <4>1. \A i \in 1 .. Len(bs) + 1 : basis'[u][i] \in 1 .. i
        BY <1>1, <3>3 DEF AccountsInv
      <4>2. Len(bs) + 1 = Latest(u)
        BY <2>1, <2>4, <3>1, InvParts DEF HistoryInv, Latest
      <4>3. ChangesFrom(u, v)' = {}
        BY <3>3, <3>5, <4>1, <4>2 DEF ChangesFrom
      <4> QED  BY <1>2, <4>3
    <3>6. CASE v \in 1 .. Latest(u) /\ v # req[r].seen
      <4>1. ChangesFrom(u, v)' = ChangesFrom(u, v)
        BY <3>1, <3>3, <3>6 DEF ChangesFrom
      <4> QED  BY <1>1, <1>3, <2>2, <3>6, <4>1, Shrunk
    <3>7. CASE v \in 1 .. Latest(u) /\ v = req[r].seen
      <4>1. ChangesFrom(u, v)' = ChangesFrom(u, v) \cup {Len(bs) + 1}
        BY <3>1, <3>3, <3>7 DEF ChangesFrom
      <4>2. r \in Changing(u, v)
        BY <2>1, <2>4, <3>7 DEF Changing
      <4>3. /\ Cardinality(Changing(u, v) \ {r}) = Cardinality(Changing(u, v)) - 1
            /\ IsFiniteSet(Changing(u, v) \ {r})
        BY <4>2, Sizes, FS_RemoveElement
      <4>4. /\ Cardinality(Changing(u, v)') <= Cardinality(Changing(u, v)) - 1
            /\ Cardinality(Changing(u, v)') \in Nat
        BY <2>2, <4>3, FS_Subset, FS_CardinalityType
      <4>5. /\ Cardinality(ChangesFrom(u, v)') <= Cardinality(ChangesFrom(u, v)) + 1
            /\ Cardinality(ChangesFrom(u, v)') \in Nat
        <5>1. IsFiniteSet(ChangesFrom(u, v)) /\ Cardinality(ChangesFrom(u, v)) \in Nat
          BY Sizes
        <5>2. /\ IsFiniteSet(ChangesFrom(u, v) \cup {Len(bs) + 1})
              /\ \/ Cardinality(ChangesFrom(u, v) \cup {Len(bs) + 1})
                      = Cardinality(ChangesFrom(u, v))
                 \/ Cardinality(ChangesFrom(u, v) \cup {Len(bs) + 1})
                      = Cardinality(ChangesFrom(u, v)) + 1
          BY <5>1, FS_AddElement
        <5> QED  BY <4>1, <5>1, <5>2
      <4>6. Bounded(u, v)
        BY <1>3, <3>7
      <4>7. Cardinality(ChangesFrom(u, v)') + Cardinality(Changing(u, v)') <= Cardinality(Req)
        BY <4>4, <4>5, <4>6, Sizes DEF Bounded
      <4> QED  BY <4>7 DEF Bounded
    <3> QED  BY <3>4, <3>5, <3>6, <3>7
  <2> QED  BY <2>3, <2>4
<1> QED
  BY <1>4, <1>5, <1>6
     DEF Next, vars, Arrive, Step, Register, ChangePassword, TestEmail, TestUsername, Test, Fail

\* One password serves for at most as many changes as requests can be in flight
\* (AuthService.changePassword).
THEOREM ChangesStayBounded == Spec => []ChangesBounded
<1>1. Init => TypeOK /\ AccountsInv /\ ChangesBounded
  BY TypeInit, InvInit, BoundedInit
<1>2. TypeOK /\ AccountsInv /\ ChangesBounded /\ [Next]_vars
        => (TypeOK /\ AccountsInv /\ ChangesBounded)'
  BY TypeStep, InvStep, BoundedStep
<1> QED  BY <1>1, <1>2, PTL DEF Spec

=============================================================================

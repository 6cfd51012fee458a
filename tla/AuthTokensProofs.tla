--------------------------- MODULE AuthTokensProofs ---------------------------
(***************************************************************************)
(* What holds of the tokens for any lifetimes, any difference between the  *)
(* clocks and any number of requests.  TokensInv is inductive: what covers *)
(* a revoked token, its row or its expiry, is never taken away.            *)
(***************************************************************************)
EXTENDS AuthTokens, TLAPS

USE DEF At, Goto, Idle, NoToken, Time, Clock

AnyToken == Token \cup {NoToken}

-----------------------------------------------------------------------------
(* Type correctness.                                                       *)

LEMMA TokenTypes ==
  /\ \A i \in Time : Access(i) \in Token /\ Refresh(i) \in Token
  /\ \A t \in AnyToken : Exp(t) \in Nat
  BY TokensAssumption DEF AnyToken, Token, Kind, Access, Refresh, Exp

LEMMA Clocks == TypeOK => Clock \subseteq Time /\ \A c \in Clock : c <= now + Skew
  BY TokensAssumption DEF TypeOK

LEMMA TypeInit == Init => TypeOK
  BY TokensAssumption DEF Init, TypeOK, Request

LEMMA IssueTypes == ASSUME TypeOK, Issue PROVE pairs' \subseteq Time
<1>1. PICK i \in Clock : pairs' = pairs \cup {i}
  BY DEF Issue
<1> QED  BY <1>1, Clocks DEF TypeOK

Proper(q) == IF q.pc = "idle" THEN q = Idle ELSE q.own \in q.given /\ q.use # "none"

\* A request that is replaced by a proper one leaves the requests typed.
LEMMA RequestTypes ==
  ASSUME TypeOK, NEW r \in Req, NEW q \in Request, Proper(q),
         req' = [req EXCEPT ![r] = q],
         now' = now, pairs' \subseteq Time, blacklist' \subseteq Token,
         loggedOut' \subseteq Token, lost' \subseteq Token
  PROVE  TypeOK'
  BY DEF TypeOK, Proper

LEMMA IdleProper == Idle \in Request /\ Proper(Idle)
  BY TokensAssumption DEF Request, Proper

LEMMA TypeStep == TypeOK /\ [Next]_vars => TypeOK'
<1> SUFFICES ASSUME TypeOK, [Next]_vars PROVE TypeOK'
  OBVIOUS
<1> USE TokensAssumption
<1>1. CASE UNCHANGED vars
  BY <1>1 DEF vars, TypeOK
<1>2. CASE Tick
  BY <1>2 DEF Tick, TypeOK
<1>3. CASE Purge
  BY <1>3 DEF Purge, TypeOK
<1>4. ASSUME NEW r \in Req, Login(r) PROVE TypeOK'
  BY <1>4, IssueTypes DEF Login, TypeOK
<1>5. ASSUME NEW r \in Req, NEW i \in pairs, NEW use \in {"serve", "revoke"},
             NEW others \in SUBSET Token, Authenticate(r, i, use, others)
      PROVE  TypeOK'
  <2>1. PICK c \in Clock : Begin(r, use, Access(i), {Access(i)} \cup others, c)
    BY <1>5 DEF Authenticate
  <2> DEFINE q == [pc |-> "lookup", use |-> use, own |-> Access(i),
                   given |-> {Access(i)} \cup others, todo |-> {},
                   asOf |-> c, stale |-> Revoked(Access(i))]
  <2>2. q \in Request /\ Proper(q)
    BY Clocks, TokenTypes DEF TypeOK, Request, Proper, Revoked
  <2>3. req' = [req EXCEPT ![r] = q]
    BY <2>1 DEF Begin
  <2> HIDE DEF q
  <2> QED  BY <1>5, <2>2, <2>3, RequestTypes DEF Authenticate, TypeOK
<1>6. ASSUME NEW r \in Req, NEW i \in pairs, RefreshToken(r, i) PROVE TypeOK'
  <2>1. PICK c \in Clock : Begin(r, "issue", Refresh(i), {Refresh(i)}, c)
    BY <1>6 DEF RefreshToken, TypeOK
  <2> DEFINE q == [pc |-> "lookup", use |-> "issue", own |-> Refresh(i),
                   given |-> {Refresh(i)}, todo |-> {},
                   asOf |-> c, stale |-> Revoked(Refresh(i))]
  <2>2. q \in Request /\ Proper(q)
    BY Clocks, TokenTypes DEF TypeOK, Request, Proper, Revoked
  <2>3. req' = [req EXCEPT ![r] = q]
    BY <2>1 DEF Begin
  <2> HIDE DEF q
  <2> QED  BY <1>6, <2>2, <2>3, RequestTypes DEF RefreshToken, TypeOK
<1>7. ASSUME NEW r \in Req, Done(r), now' = now, pairs' \subseteq Time, blacklist' = blacklist,
             loggedOut' \subseteq Token, lost' = lost
      PROVE  TypeOK'
  BY <1>7, IdleProper, RequestTypes DEF TypeOK, Done
<1>8. ASSUME NEW r \in Req, Lookup(r) PROVE TypeOK'
  <2>1. CASE Done(r)
    BY <1>7, <1>8, <2>1 DEF Lookup, TypeOK
  <2>2. ASSUME NEW pc \in {"issue", "verify"}, Goto(r, pc) PROVE TypeOK'
    <3>1. [req[r] EXCEPT !.pc = pc] \in Request /\ Proper([req[r] EXCEPT !.pc = pc])
      BY <1>8 DEF Lookup, TypeOK, Request, Proper
    <3>2. req' = [req EXCEPT ![r] = [req[r] EXCEPT !.pc = pc]]
      BY <2>2
    <3> QED  BY <1>8, <3>1, <3>2, RequestTypes DEF Lookup, TypeOK
  <2> QED  BY <1>8, <2>1, <2>2 DEF Lookup
<1>9. ASSUME NEW r \in Req, Verify(r) PROVE TypeOK'
  <2>1. CASE Done(r)
    BY <1>7, <1>9, <2>1 DEF Verify, TypeOK
  <2> DEFINE q == [req[r] EXCEPT !.pc = req[r].use,
                                 !.todo = IF req[r].use = "revoke" THEN req[r].given ELSE {}]
  <2>2. CASE req' = [req EXCEPT ![r] = q]
    <3>1. q \in Request /\ Proper(q)
      BY <1>9 DEF Verify, TypeOK, Request, Proper
    <3> HIDE DEF q
    <3> QED  BY <1>9, <2>2, <3>1, RequestTypes DEF Verify, TypeOK
  <2>3. Done(r) \/ req' = [req EXCEPT ![r] = q]
    BY <1>9 DEF Verify, TypeOK
  <2> QED  BY <2>1, <2>2, <2>3
<1>10. ASSUME NEW r \in Req, Serve(r) \/ Fail(r) PROVE TypeOK'
  BY <1>7, <1>10 DEF Serve, Fail, TypeOK
<1>11. ASSUME NEW r \in Req, Reissue(r) PROVE TypeOK'
  BY <1>7, <1>11, IssueTypes DEF Reissue, TypeOK
<1>12. ASSUME NEW r \in Req, BlacklistToken(r) PROVE TypeOK'
  <2>1. PICK t \in req[r].todo : /\ req' = [req EXCEPT ![r].todo = @ \ {t}]
                                 /\ blacklist' \subseteq blacklist \cup {t}
                                 /\ lost' \subseteq lost \cup {t}
    BY <1>12 DEF BlacklistToken
  <2> DEFINE q == [req[r] EXCEPT !.todo = @ \ {t}]
  <2>2. q \in Request /\ Proper(q) /\ t \in Token
    BY <1>12 DEF BlacklistToken, TypeOK, Request, Proper
  <2>3. req' = [req EXCEPT ![r] = q]
    BY <2>1
  <2>4. /\ now' = now /\ pairs' \subseteq Time
        /\ blacklist' \subseteq Token /\ loggedOut' \subseteq Token /\ lost' \subseteq Token
    BY <1>12, <2>1, <2>2 DEF BlacklistToken, TypeOK
  <2> HIDE DEF q
  <2> QED  BY <2>2, <2>3, <2>4, RequestTypes
<1>13. ASSUME NEW r \in Req, LoggedOut(r) PROVE TypeOK'
  <2>1. req[r].given \subseteq Token
    BY DEF TypeOK, Request
  <2> QED  BY <1>7, <1>13, <2>1 DEF LoggedOut, TypeOK
<1>14. \A j \in pairs : {} \in SUBSET Token /\ {Refresh(j)} \in SUBSET Token
  BY TokenTypes DEF TypeOK
<1> QED
  BY <1>1, <1>2, <1>3, <1>4, <1>5, <1>6, <1>8, <1>9, <1>10, <1>11, <1>12, <1>13, <1>14
     DEF Next, Arrive, Step

\* The clock, the tables and the requests keep their types.
THEOREM TypeCorrect == Spec => []TypeOK
  BY TypeInit, TypeStep, PTL DEF Spec

-----------------------------------------------------------------------------
(* Revoked tokens stay covered.                                            *)

\* Nothing uncovers a token: only the purge removes rows, and only rows of tokens
\* that some clock takes for expired.
LEMMA CoverStays ==
  ASSUME TypeOK, [Next]_vars
  PROVE  /\ now <= now'
         /\ \A t \in AnyToken : MayBeExpired(t) => MayBeExpired(t)'
         /\ \A t \in AnyToken : Covered(t) => Covered(t)'
         /\ \A t \in AnyToken : t \in lost => t \in lost' \/ Covered(t)'
<1> USE TokensAssumption
<1>1. now \in Nat /\ (now' = now \/ now' = now + 1)
  <2>1. now' = now \/ Tick
    BY DEF Next, vars, Purge, Arrive, Step, Login, Authenticate, RefreshToken,
           Lookup, Verify, Serve, Reissue, BlacklistToken, LoggedOut, Fail
  <2> QED  BY <2>1 DEF Tick, TypeOK
<1>2. ASSUME NEW t \in AnyToken, MayBeExpired(t) PROVE MayBeExpired(t)'
  BY <1>1, <1>2, TokenTypes DEF MayBeExpired
<1>3. ASSUME NEW t \in AnyToken, t \in blacklist, t \notin blacklist' PROVE MayBeExpired(t)
  <2>1. Purge
    BY <1>3 DEF Next, vars, Tick, Arrive, Step, Login, Authenticate, RefreshToken,
                Lookup, Verify, Serve, Reissue, BlacklistToken, LoggedOut, Fail
  <2>2. PICK d \in 0 .. now + Skew : \/ blacklist' = {u \in blacklist : Exp(u) > d}
                                     \/ blacklist' = {u \in blacklist : Exp(u) >= d}
    BY <2>1 DEF Purge
  <2>3. Exp(t) <= d
    BY <1>3, <2>2, TokenTypes
  <2> QED  BY <1>1, <2>3, TokenTypes DEF MayBeExpired
<1>4. ASSUME NEW t \in AnyToken, t \in lost, t \notin lost' PROVE t \in blacklist'
  BY <1>4 DEF Next, vars, Tick, Purge, Arrive, Step, Login, Authenticate, RefreshToken,
              Lookup, Verify, Serve, Reissue, BlacklistToken, LoggedOut, Fail
<1>5. now <= now'
  BY <1>1
<1> QED  BY <1>2, <1>3, <1>4, <1>5 DEF Covered

\* A request that a step does not touch keeps its invariant.
LEMMA OthersKeep ==
  ASSUME TypeOK, [Next]_vars, NEW q \in Request, RequestInv(q)
  PROVE  RequestInv(q)'
<1>1. q.own \in AnyToken /\ q.given \subseteq AnyToken /\ q.asOf \in Nat
  BY TokensAssumption DEF Request, AnyToken
<1>2. now \in Nat /\ now' \in Nat
  BY TypeStep DEF TypeOK
<1>3. q.asOf <= now' + Skew
  BY <1>1, <1>2, CoverStays, TokensAssumption DEF RequestInv
<1>4. q.pc = "lookup" /\ q.stale => Covered(q.own)'
  BY <1>1, CoverStays DEF RequestInv
<1>5. q.pc \in {"verify", "issue"} /\ q.stale => MayBeExpired(q.own)'
  BY <1>1, CoverStays DEF RequestInv
<1>6. q.pc = "revoke" => \A t \in q.given \ q.todo : t \in lost' \/ Covered(t)'
  BY <1>1, CoverStays DEF RequestInv
<1> QED  BY <1>3, <1>4, <1>5, <1>6 DEF RequestInv

LEMMA OneRequest ==
  ASSUME TypeOK, TokensInv, [Next]_vars, NEW r \in Req, NEW q,
         req' = [req EXCEPT ![r] = q], RequestInv(q)'
  PROVE  \A s \in Req : RequestInv(req[s])'
<1> SUFFICES ASSUME NEW s \in Req PROVE RequestInv(req[s])'
  OBVIOUS
<1>1. CASE s = r
  <2>1. req'[s] = q
    BY <1>1 DEF TypeOK
  <2> QED  BY <2>1 DEF RequestInv
<1>2. CASE s # r
  <2>1. req'[s] = req[s] /\ req[s] \in Request /\ RequestInv(req[s])
    BY <1>2 DEF TypeOK, TokensInv
  <2>2. PICK p \in Request : p = req[s]
    BY <2>1
  <2>3. RequestInv(p)'
    BY <2>1, <2>2, OthersKeep
  <2> QED  BY <2>1, <2>2, <2>3 DEF RequestInv, Covered, MayBeExpired
<1> QED  BY <1>1, <1>2

\* A request that ends leaves no obligation.
LEMMA EndedRequest ==
  ASSUME TypeOK, TokensInv, [Next]_vars, NEW r \in Req, Done(r)
  PROVE  \A s \in Req : RequestInv(req[s])'
<1>1. PICK p : p = Idle
  OBVIOUS
<1>2. p.asOf = 0 /\ p.pc = "idle"
  BY <1>1
<1>3. 0 <= now' + Skew
  BY TypeStep, TokensAssumption DEF TypeOK
<1>4. RequestInv(p)'
  BY <1>2, <1>3 DEF RequestInv
<1>5. req' = [req EXCEPT ![r] = p]
  BY <1>1 DEF Done
<1> QED  BY <1>4, <1>5, OneRequest

\* No request is touched.
LEMMA SameRequests ==
  ASSUME TypeOK, TokensInv, [Next]_vars, req' = req
  PROVE  \A s \in Req : RequestInv(req[s])'
<1> SUFFICES ASSUME NEW s \in Req PROVE RequestInv(req[s])'
  OBVIOUS
<1>1. PICK p \in Request : p = req[s]
  BY DEF TypeOK
<1>2. RequestInv(p)'
  BY <1>1, OthersKeep DEF TokensInv
<1> QED  BY <1>1, <1>2 DEF RequestInv, Covered, MayBeExpired

LEMMA Later ==
  ASSUME NEW a \in Nat, NEW b \in Nat, NEW c \in Nat, a <= b, c <= a + Skew
  PROVE  c <= b + Skew
  BY TokensAssumption

\* A request that arrives stands on a token that is covered, if it was revoked.
LEMMA NewRequest ==
  ASSUME TypeOK, TokensInv, [Next]_vars, NEW r \in Req, NEW use, NEW own \in AnyToken,
         NEW given, NEW c \in Clock, Begin(r, use, own, given, c)
  PROVE  \A s \in Req : RequestInv(req[s])'
<1> DEFINE q == [pc |-> "lookup", use |-> use, own |-> own, given |-> given, todo |-> {},
                 asOf |-> c, stale |-> Revoked(own)]
<1>1. PICK p : p = q
  OBVIOUS
<1>2. p.asOf <= now' + Skew
  <2>1. c <= now + Skew /\ c \in Nat /\ now \in Nat /\ now' \in Nat
    BY Clocks, TypeStep, TokensAssumption DEF TypeOK
  <2>2. p.asOf = c
    BY <1>1
  <2>3. now <= now'
    BY CoverStays
  <2>4. c <= now' + Skew
    BY <2>1, <2>3, Later
  <2> QED  BY <2>2, <2>4
<1>3. p.stale => Covered(own)'
  BY <1>1, CoverStays DEF TokensInv, LogoutRevokes, Revoked
<1>4. RequestInv(p)'
  BY <1>1, <1>2, <1>3 DEF RequestInv
<1>5. req' = [req EXCEPT ![r] = p]
  BY <1>1 DEF Begin
<1> QED  BY <1>4, <1>5, OneRequest

\* All requests keep the invariant.
LEMMA RequestsKeep ==
  ASSUME TypeOK, TokensInv, [Next]_vars
  PROVE  \A s \in Req : RequestInv(req[s])'
<1> USE DEF TypeOK
<1>1. CASE req' = req
  BY <1>1, SameRequests
<1>2. ASSUME NEW r \in Req, Done(r) PROVE \A s \in Req : RequestInv(req[s])'
  BY <1>2, EndedRequest
<1>3. ASSUME NEW r \in Req, NEW i \in pairs, NEW use \in {"serve", "revoke"},
             NEW others \in SUBSET Token, Authenticate(r, i, use, others)
      PROVE  \A s \in Req : RequestInv(req[s])'
  <2>1. PICK c \in Clock : Begin(r, use, Access(i), {Access(i)} \cup others, c)
    BY <1>3 DEF Authenticate
  <2>2. Access(i) \in AnyToken
    BY TokenTypes DEF AnyToken
  <2> QED  BY <2>1, <2>2, NewRequest
<1>4. ASSUME NEW r \in Req, NEW i \in pairs, RefreshToken(r, i)
      PROVE  \A s \in Req : RequestInv(req[s])'
  <2>1. PICK c \in Clock : Begin(r, "issue", Refresh(i), {Refresh(i)}, c)
    BY <1>4 DEF RefreshToken
  <2>2. Refresh(i) \in AnyToken
    BY TokenTypes DEF AnyToken
  <2> QED  BY <2>1, <2>2, NewRequest
<1>5. ASSUME NEW r \in Req, Lookup(r) PROVE \A s \in Req : RequestInv(req[s])'
  <2>1. CASE Done(r)
    BY <1>2, <2>1
  <2>2. ASSUME NEW pc \in {"issue", "verify"}, ~Blacklisted(r), Goto(r, pc)
        PROVE  \A s \in Req : RequestInv(req[s])'
    <3>1. PICK p \in Request : p = [req[r] EXCEPT !.pc = pc]
      BY DEF Request
    <3>2. RequestInv(req[r]) /\ req[r].pc = "lookup" /\ req[r].own \in AnyToken
      BY <1>5 DEF Lookup, TokensInv, Request, AnyToken
    <3>3. req[r].stale => MayBeExpired(req[r].own)
      <4>1. /\ Exp(req[r].own) \in Nat /\ req[r].asOf \in Nat /\ now \in Nat
            /\ req[r].asOf <= now + Skew
        BY <3>2, TokenTypes, TokensAssumption DEF Request, RequestInv
      <4>2. CASE req[r].own \in blacklist
        <5>1. Exp(req[r].own) <= req[r].asOf
          BY <2>2, <4>1, <4>2 DEF Blacklisted
        <5> QED  BY <4>1, <5>1, TokensAssumption DEF MayBeExpired
      <4>3. CASE req[r].own \notin blacklist
        BY <3>2, <4>3 DEF RequestInv, Covered
      <4> QED  BY <4>2, <4>3
    <3>4. RequestInv(p)
      BY <3>1, <3>2, <3>3 DEF RequestInv, MayBeExpired, Request
    <3>5. req' = [req EXCEPT ![r] = p]
      BY <2>2, <3>1
    <3> QED  BY <3>4, <3>5, OthersKeep, OneRequest
  <2> QED  BY <1>5, <2>1, <2>2 DEF Lookup
<1>6. ASSUME NEW r \in Req, Verify(r) PROVE \A s \in Req : RequestInv(req[s])'
  <2>1. CASE Done(r)
    BY <1>2, <2>1
  <2> DEFINE q == [req[r] EXCEPT !.pc = req[r].use,
                                 !.todo = IF req[r].use = "revoke" THEN req[r].given ELSE {}]
  <2>2. CASE req' = [req EXCEPT ![r] = q]
    <3>1. PICK p \in Request : p = q
      BY <1>6 DEF Verify, Request
    <3>2. RequestInv(req[r]) /\ req[r].pc = "verify" /\ req[r].use # "none"
      BY <1>6 DEF Verify, TokensInv
    <3>3. p.use = req[r].use /\ p.pc = p.use
      BY <3>1 DEF Request
    <3>4. RequestInv(p)
      BY <3>1, <3>2, <3>3 DEF RequestInv, MayBeExpired, Request
    <3> HIDE DEF q
    <3> QED  BY <2>2, <3>1, <3>4, OthersKeep, OneRequest
  <2>3. Done(r) \/ req' = [req EXCEPT ![r] = q]
    BY <1>6 DEF Verify
  <2> QED  BY <2>1, <2>2, <2>3
<1>7. ASSUME NEW r \in Req, BlacklistToken(r) PROVE \A s \in Req : RequestInv(req[s])'
  <2>1. PICK t \in req[r].todo : /\ req' = [req EXCEPT ![r].todo = @ \ {t}]
                                 /\ t \in blacklist' \cup lost'
    BY <1>7 DEF BlacklistToken
  <2>2. PICK p \in Request : p = [req[r] EXCEPT !.todo = @ \ {t}]
    BY DEF Request
  <2>3. PICK o \in Request : o = req[r]
    OBVIOUS
  <2>4. RequestInv(o)'
    BY <2>3, OthersKeep DEF TokensInv
  <2>5. p.given = o.given /\ p.todo = o.todo \ {t} /\ p.pc = "revoke" /\ o.pc = "revoke"
        /\ p.asOf = o.asOf
    BY <1>7, <2>2, <2>3 DEF BlacklistToken, Request
  <2>6. t \in lost' \/ Covered(t)'
    BY <2>1 DEF Covered
  <2>7. RequestInv(p)'
    BY <2>4, <2>5, <2>6 DEF RequestInv
  <2>8. req' = [req EXCEPT ![r] = p]
    BY <2>1, <2>2
  <2> QED  BY <2>7, <2>8, OneRequest
<1>8. \A j \in pairs : {} \in SUBSET Token /\ {Refresh(j)} \in SUBSET Token
  BY TokenTypes
<1>9. ASSUME NEW r \in Req, Arrive(r) PROVE \A s \in Req : RequestInv(req[s])'
  BY <1>1, <1>3, <1>4, <1>8, <1>9 DEF Arrive, Login
<1>10. ASSUME NEW r \in Req, Step(r) PROVE \A s \in Req : RequestInv(req[s])'
  BY <1>2, <1>5, <1>6, <1>7, <1>10 DEF Step, Serve, Reissue, LoggedOut, Fail
<1> QED
  BY <1>1, <1>9, <1>10 DEF Next, Tick, Purge, vars

-----------------------------------------------------------------------------
(* The theorems.                                                           *)

LEMMA InvInit == Init => TokensInv
  BY TokensAssumption DEF Init, TokensInv, LogoutRevokes, RequestInv

\* What a logout adds has been covered by its own calls.
LEMMA LogoutsKeep == ASSUME TypeOK, TokensInv, [Next]_vars PROVE LogoutRevokes'
<1> SUFFICES ASSUME NEW t \in loggedOut', t \notin lost' PROVE Covered(t)'
  BY DEF LogoutRevokes
<1>1. t \in AnyToken
  BY TypeStep DEF TypeOK, AnyToken
<1>2. CASE t \in loggedOut /\ t \notin lost
  BY <1>1, <1>2, CoverStays DEF TokensInv, LogoutRevokes
<1>3. CASE t \in lost
  BY <1>1, <1>3, CoverStays
<1>4. CASE t \notin loggedOut /\ t \notin lost
  <2>1. PICK r \in Req : LoggedOut(r)
    BY <1>4 DEF Next, vars, Tick, Purge, Arrive, Step, Login, Authenticate, RefreshToken,
                Lookup, Verify, Serve, Reissue, BlacklistToken, Fail
  <2>2. t \in req[r].given \ req[r].todo /\ req[r].pc = "revoke"
    BY <1>4, <2>1 DEF LoggedOut
  <2>3. Covered(t)
    BY <1>4, <2>2 DEF TokensInv, RequestInv
  <2> QED  BY <1>1, <2>3, CoverStays
<1> QED  BY <1>2, <1>3, <1>4

\* TokensInv is inductive.
THEOREM TokensInvariant == Spec => [](TypeOK /\ TokensInv)
<1>1. Init => TypeOK /\ TokensInv
  BY TypeInit, InvInit
<1>2. TypeOK /\ TokensInv /\ [Next]_vars => (TypeOK /\ TokensInv)'
  BY TypeStep, RequestsKeep, LogoutsKeep DEF TokensInv
<1> QED  BY <1>1, <1>2, PTL DEF Spec

\* A logged-out token is listed until it may have expired, unless its insertion
\* failed (AuthService.logout, the purge of index.js).
THEOREM LogoutHolds == Spec => []LogoutRevokes
<1>1. TokensInv => LogoutRevokes
  BY DEF TokensInv
<1> QED  BY <1>1, TokensInvariant, PTL

\* A refresh with a revoked token gets past the blacklist only when the token may
\* have expired (AuthService.refreshToken).
THEOREM RefreshesEnd == Spec => []RevokedRefreshesEnd
<1>1. TokensInv => RevokedRefreshesEnd
  BY DEF TokensInv, RequestInv, RevokedRefreshesEnd
<1> QED  BY <1>1, TokensInvariant, PTL

\* A request is let into a handler by Verify alone.
LEMMA Verified ==
  ASSUME TypeOK, [Next]_vars, NEW r \in Req,
         At(r, "verify"), req'[r].pc \in {"serve", "revoke"}
  PROVE  Verify(r)
<1>1. req'[r] # req[r] /\ ~Done(r)
  BY DEF TypeOK, Done
<1>2. PICK s \in Req : Arrive(s) \/ Step(s)
  BY <1>1 DEF Next, vars, Tick, Purge
<1>3. CASE Arrive(s)
  <2>1. At(s, "idle") /\ (req' = req \/ \E q : req' = [req EXCEPT ![s] = q])
    BY <1>3 DEF Arrive, Login, Authenticate, RefreshToken, Begin
  <2>2. s # r
    BY <2>1
  <2> QED  BY <1>1, <2>1, <2>2 DEF TypeOK
<1>4. CASE Step(s) /\ s # r
  <2>1. \E q : req' = [req EXCEPT ![s] = q]
    BY <1>4 DEF Step, Lookup, Verify, Serve, Reissue, BlacklistToken, LoggedOut, Fail, Done
  <2> QED  BY <1>1, <1>4, <2>1 DEF TypeOK
<1>5. CASE Step(s) /\ s = r
  <2>1. ~(Serve(r) \/ Reissue(r) \/ LoggedOut(r) \/ Fail(r))
    BY <1>1 DEF Serve, Reissue, LoggedOut, Fail
  <2>2. ~(Lookup(r) \/ BlacklistToken(r))
    BY DEF Lookup, BlacklistToken
  <2> QED  BY <1>5, <2>1, <2>2 DEF Step
<1> QED  BY <1>2, <1>3, <1>4, <1>5

\* The middleware lets a revoked token through only within Skew of its expiry.
THEOREM RefusalHolds == Spec => RevokedIsRefused
<1> DEFINE Refused(r) ==
      At(r, "verify") /\ req'[r].pc \in {"serve", "revoke"} /\ req[r].stale =>
        now < Exp(req[r].own) /\ Exp(req[r].own) <= now + Skew
<1>1. ASSUME TypeOK, TokensInv, [Next]_vars, NEW r \in Req PROVE Refused(r)
  <2> SUFFICES ASSUME At(r, "verify"), req'[r].pc \in {"serve", "revoke"}, req[r].stale
               PROVE  now < Exp(req[r].own) /\ Exp(req[r].own) <= now + Skew
    OBVIOUS
  <2> USE <1>1
  <2>1. Exp(req[r].own) <= now + Skew
    BY DEF TokensInv, RequestInv, MayBeExpired
  <2>2. Verify(r)
    BY Verified
  <2>3. ~Done(r)
    BY DEF Done, TypeOK
  <2>4. \E c \in Clock : c < Exp(req[r].own)
    BY <2>2, <2>3 DEF Verify
  <2>5. Exp(req[r].own) \in Nat /\ now \in Nat
    BY TokenTypes DEF TypeOK, Request, AnyToken
  <2> QED  BY <2>1, <2>4, <2>5, TokensAssumption
<1>2. TypeOK /\ TokensInv /\ [Next]_vars => [\A r \in Req : Refused(r)]_vars
  BY <1>1
<1>3. [][\A r \in Req : Refused(r)]_vars => RevokedIsRefused
  BY DEF RevokedIsRefused
<1> HIDE DEF Refused
<1> QED  BY <1>2, <1>3, TokensInvariant, PTL DEF Spec

=============================================================================

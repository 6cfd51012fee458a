----------------------------- MODULE AuthTokens -----------------------------
(***************************************************************************)
(* The tokens of one user in the authentication service: TokenService, the *)
(* middleware authenticate, the token parts of AuthService, the purge of   *)
(* index.js, over the table tTokenBlacklist.  Tokens of different users    *)
(* never meet.                                                             *)
(*                                                                         *)
(* Time is in seconds, the resolution of a JWT.  The dates in queries and   *)
(* tokens are those of the replicas, each with a clock of its own: what one *)
(* reads may be up to Skew ahead of now.                                   *)
(***************************************************************************)
EXTENDS Naturals, FiniteSets

CONSTANTS
  Req,           \* requests in flight over all replicas
  AccessLife,    \* ACCESS_TOKEN_EXPIRY
  RefreshLife,   \* REFRESH_TOKEN_EXPIRY
  Skew,
  MaxTime,       \* bound on now
  MaxPairs       \* bound on the pairs of tokens handed out

ASSUME TokensAssumption ==
  /\ AccessLife \in Nat /\ RefreshLife \in Nat
  /\ Skew \in Nat /\ MaxTime \in Nat /\ MaxPairs \in Nat

VARIABLES
  now,
  pairs,       \* the seconds in which a pair of tokens was handed out
  blacklist,   \* tTokenBlacklist
  loggedOut,   \* tokens given to a logout that was answered 200
  lost,        \* tokens whose insertion failed, and that have no row
  req          \* requests in flight

vars == <<now, pairs, blacklist, loggedOut, lost, req>>

Kind == {"access", "refresh"}
Time == 0 .. MaxTime + Skew
Clock == now .. now + Skew

\* Two tokens of a kind that were made in one second are the same string.
Token == [kind : Kind, iat : Time]
Access(i) == [kind |-> "access", iat |-> i]
Refresh(i) == [kind |-> "refresh", iat |-> i]

Exp(t) == t.iat + (IF t.kind = "access" THEN AccessLife ELSE RefreshLife)

NoToken == [kind |-> "none", iat |-> 0]

Idle == [pc |-> "idle", use |-> "none", own |-> NoToken, given |-> {}, todo |-> {},
         asOf |-> 0, stale |-> FALSE]

\* use: what the request is for; own: the token it stands on; given: the tokens
\* it came with; todo: those it has yet to revoke; asOf: the time in its query of
\* the blacklist; stale: its own token had been revoked before it arrived.
Request ==
  [pc : {"idle", "lookup", "verify", "serve", "revoke", "issue"},
   use : {"none", "serve", "revoke", "issue"},
   own : Token \cup {NoToken}, given : SUBSET Token, todo : SUBSET Token,
   asOf : Time, stale : BOOLEAN]

TypeOK ==
  /\ now \in 0 .. MaxTime
  /\ pairs \subseteq Time
  /\ blacklist \subseteq Token /\ loggedOut \subseteq Token /\ lost \subseteq Token
  /\ req \in [Req -> Request]
  /\ \A r \in Req :
       IF req[r].pc = "idle" THEN req[r] = Idle
       ELSE req[r].own \in req[r].given /\ req[r].use # "none"

Init ==
  /\ now = 0
  /\ pairs = {} /\ blacklist = {} /\ loggedOut = {} /\ lost = {}
  /\ req = [r \in Req |-> Idle]

At(r, pc) == req[r].pc = pc
Goto(r, pc) == req' = [req EXCEPT ![r].pc = pc]

\* Mutated form of Done: the request is not forgotten.
DoneKeepsRequest(r) == Goto(r, "idle")

Done(r) == req' = [req EXCEPT ![r] = Idle]

Revoked(t) == t \in loggedOut \ lost

Begin(r, use, own, given, asOf) ==
  req' = [req EXCEPT ![r] = [pc |-> "lookup", use |-> use, own |-> own, given |-> given,
                             todo |-> {}, asOf |-> asOf, stale |-> Revoked(own)]]

-----------------------------------------------------------------------------
(* Mutated forms of definitions below: the bugs the properties must catch. *)

\* The purge goes by the age of the row.
PurgeByAge ==
  /\ \E d \in 0 .. now + Skew : blacklist' = {t \in blacklist : t.iat > d}
  /\ UNCHANGED <<now, pairs, loggedOut, lost, req>>

\* The token is decoded, not verified.
VerifyDecodes(r) ==
  /\ At(r, "verify")
  /\ req' = [req EXCEPT ![r].pc = req[r].use,
                        ![r].todo = IF req[r].use = "revoke" THEN req[r].given ELSE {}]
  /\ UNCHANGED <<now, pairs, blacklist, loggedOut, lost>>

-----------------------------------------------------------------------------
(* Handing out tokens: generateTokenPair.                                  *)

Issue ==
  \E i \in Clock :
    /\ i \in pairs \/ Cardinality(pairs) < MaxPairs
    /\ pairs' = pairs \cup {i}

\* login and register: nothing they read before concerns tokens.
Login(r) ==
  /\ At(r, "idle")
  /\ Issue
  /\ UNCHANGED <<now, blacklist, loggedOut, lost, req>>

-----------------------------------------------------------------------------
(* authenticate: the blacklist is asked first, then the token is verified. *)

\* A request for profile or change-password, or for logout with the refresh
\* token of some pair or none.
Authenticate(r, i, use, others) ==
  /\ At(r, "idle")
  /\ i \in pairs
  /\ \E c \in Clock : Begin(r, use, Access(i), {Access(i)} \cup others, c)
  /\ UNCHANGED <<now, pairs, blacklist, loggedOut, lost>>

\* The query runs some time after it was made.
Blacklisted(r) == req[r].own \in blacklist /\ Exp(req[r].own) > req[r].asOf

Lookup(r) ==
  /\ At(r, "lookup")
  /\ IF Blacklisted(r) THEN Done(r)
     ELSE Goto(r, IF req[r].use = "issue" THEN "issue" ELSE "verify")
  /\ UNCHANGED <<now, pairs, blacklist, loggedOut, lost>>

Verify(r) ==
  /\ At(r, "verify")
  /\ \E c \in Clock :
       IF c < Exp(req[r].own)
       THEN req' = [req EXCEPT ![r].pc = req[r].use,
                               ![r].todo = IF req[r].use = "revoke" THEN req[r].given ELSE {}]
       ELSE Done(r)
  /\ UNCHANGED <<now, pairs, blacklist, loggedOut, lost>>

\* Answered: getProfile, changePassword.
Serve(r) ==
  /\ At(r, "serve")
  /\ Done(r)
  /\ UNCHANGED <<now, pairs, blacklist, loggedOut, lost>>

-----------------------------------------------------------------------------
(* refreshToken: the token is verified first, then the blacklist is asked. *)

RefreshToken(r, i) ==
  /\ At(r, "idle")
  /\ i \in pairs
  /\ \E v \in Clock : \E c \in v .. now + Skew :
       /\ v < Exp(Refresh(i))
       /\ Begin(r, "issue", Refresh(i), {Refresh(i)}, c)
  /\ UNCHANGED <<now, pairs, blacklist, loggedOut, lost>>

Reissue(r) ==
  /\ At(r, "issue")
  /\ Issue
  /\ Done(r)
  /\ UNCHANGED <<now, blacklist, loggedOut, lost>>

-----------------------------------------------------------------------------
(* logout: a call of blacklistToken for each token, in parallel.           *)

\* A failure is logged and counts as done.
BlacklistToken(r) ==
  /\ At(r, "revoke")
  /\ \E t \in req[r].todo :
       /\ req' = [req EXCEPT ![r].todo = @ \ {t}]
       /\ \/ blacklist' = blacklist \cup {t} /\ lost' = lost \ {t}
          \/ lost' = lost \cup ({t} \ blacklist) /\ UNCHANGED blacklist
  /\ UNCHANGED <<now, pairs, loggedOut>>

\* Mutated form of LoggedOut: the calls of blacklistToken are not awaited.
LoggedOutEarly(r) ==
  /\ At(r, "revoke")
  /\ loggedOut' = loggedOut \cup req[r].given
  /\ Done(r)
  /\ UNCHANGED <<now, pairs, blacklist, lost>>

LoggedOut(r) ==
  /\ At(r, "revoke")
  /\ req[r].todo = {}
  /\ loggedOut' = loggedOut \cup req[r].given
  /\ Done(r)
  /\ UNCHANGED <<now, pairs, blacklist, lost>>

-----------------------------------------------------------------------------

\* The hourly job of some replica, with the date it read at some earlier time.
\* A row whose second of expiry that is may be kept.
Purge ==
  /\ \E d \in 0 .. now + Skew :
       \/ blacklist' = {t \in blacklist : Exp(t) > d}
       \/ blacklist' = {t \in blacklist : Exp(t) >= d}
  /\ UNCHANGED <<now, pairs, loggedOut, lost, req>>

\* A call rejects (outside blacklistToken), or the replica dies.
Fail(r) ==
  /\ ~At(r, "idle")
  /\ Done(r)
  /\ UNCHANGED <<now, pairs, blacklist, loggedOut, lost>>

Tick ==
  /\ now < MaxTime
  /\ now' = now + 1
  /\ UNCHANGED <<pairs, blacklist, loggedOut, lost, req>>

Arrive(r) ==
  \/ Login(r)
  \/ \E i \in pairs : Authenticate(r, i, "serve", {}) \/ RefreshToken(r, i)
  \/ \E i \in pairs : \E others \in {{}} \cup {{Refresh(j)} : j \in pairs} :
       Authenticate(r, i, "revoke", others)

Step(r) ==
  \/ Lookup(r) \/ Verify(r) \/ Serve(r) \/ Reissue(r)
  \/ BlacklistToken(r) \/ LoggedOut(r) \/ Fail(r)

Next == Tick \/ Purge \/ \E r \in Req : Arrive(r) \/ Step(r)

Spec == Init /\ [][Next]_vars

-----------------------------------------------------------------------------
(* Properties.                                                             *)

\* Every clock may have passed the expiry of token t.
MayBeExpired(t) == Exp(t) <= now + Skew

\* Token t is listed, or need not be.
Covered(t) == t \in blacklist \/ MayBeExpired(t)

\* A token given to a logout that was answered 200 stays in the blacklist until it
\* expires, unless its insertion failed, which blacklistToken keeps to itself
\* (tokenService.js 57-59): no purge by any replica brings it back before.
LogoutRevokes == \A t \in loggedOut \ lost : Covered(t)

\* A refresh with a token revoked before it came gets past the blacklist only if
\* the token has expired since it was verified (authService.js 179-185 verifies
\* first): every revoked token that still counts is found.
RevokedRefreshesEnd ==
  \A r \in Req : At(r, "issue") /\ req[r].stale => MayBeExpired(req[r].own)

\* The middleware lets a token that was revoked before the request came through
\* only within Skew before its expiry, and never when the clocks agree: it asks
\* the blacklist first and verifies later (authMiddleware.js 19-28).
RevokedIsRefused ==
  [][\A r \in Req :
       At(r, "verify") /\ req'[r].pc \in {"serve", "revoke"} /\ req[r].stale =>
         now < Exp(req[r].own) /\ Exp(req[r].own) <= now + Skew]_vars

\* The inductive form of the above: a revoked token is covered at every point of a
\* request that stands on it or revokes it.
RequestInv(q) ==
  /\ q.asOf <= now + Skew
  /\ q.pc = "lookup" /\ q.stale => Covered(q.own)
  /\ q.pc \in {"verify", "issue"} /\ q.stale => MayBeExpired(q.own)
  /\ q.pc = "revoke" => \A t \in q.given \ q.todo : t \in lost \/ Covered(t)

TokensInv == LogoutRevokes /\ \A r \in Req : RequestInv(req[r])

=============================================================================

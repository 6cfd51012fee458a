------------------------- MODULE EmailServiceProofs -------------------------
(***************************************************************************)
(* Proofs about EmailService, for every number of jobs, every MaxRetries   *)
(* and every number of database failures.  The invariant says, for each    *)
(* place a job can be at, how its attempts, retries, mails and failures    *)
(* relate; a job touches nothing of another.                               *)
(***************************************************************************)
EXTENDS EmailService, TLAPS

Bounds(j) ==
  /\ mailed[j] <= MaxRetries
  /\ mailed[j] <= 1 + faults[j]
  /\ row[j].retries <= faults[j]
  /\ row[j].status = "FAILED" => row[j].retries = MaxRetries /\ faults[j] >= MaxRetries

\* Before the row exists nothing has happened.
Fresh(j) ==
  job[j].pc \in {"idle", "template", "create"} =>
    /\ mailed[j] = 0
    /\ row[j] = [status |-> "none", retries |-> 0]

\* In an attempt: every earlier one has failed, been counted and cost a failure.
Trying(j) ==
  job[j].pc \in {"send", "markSent", "logSent", "bump"} =>
    /\ job[j].attempt >= 1
    /\ row[j].retries = job[j].attempt - 1
    /\ faults[j] >= job[j].attempt - 1
    /\ mailed[j] <= job[j].attempt
    /\ row[j].status # "FAILED"
    /\ At(j, "send") => mailed[j] <= job[j].attempt - 1
    /\ At(j, "logSent") => row[j].status = "SENT"
    /\ At(j, "bump") => faults[j] >= job[j].attempt

\* After an attempt that failed and has been counted.
Failing(j) ==
  job[j].pc \in {"sleep", "markFailed"} =>
    /\ row[j].retries = job[j].attempt
    /\ faults[j] >= job[j].attempt
    /\ mailed[j] <= job[j].attempt
    /\ row[j].status # "FAILED"
    /\ At(j, "sleep") => job[j].attempt < MaxRetries
    /\ At(j, "markFailed") => job[j].attempt = MaxRetries

Ending(j) ==
  /\ At(j, "logFailed") => row[j].status = "FAILED"
  /\ At(j, "ok") => row[j].status = "SENT" /\ "SENT" \in log[j]
  /\ At(j, "error") => faults[j] > 0

JobInv(j) == Bounds(j) /\ Fresh(j) /\ Trying(j) /\ Failing(j) /\ Ending(j)

EmailInv == TypeOK /\ \A j \in Job : JobInv(j)

-----------------------------------------------------------------------------
(* The steps of a job, one lemma for what is common to them: if a step keeps  *)
(* the types and the invariant of its own job, and leaves the others alone,   *)
(* it keeps EmailInv.                                                         *)

Alone(j) ==
  \A k \in Job \ {j} :
    /\ job'[k] = job[k]
    /\ row'[k] = row[k]
    /\ log'[k] = log[k]
    /\ mailed'[k] = mailed[k]
    /\ faults'[k] = faults[k]

\* A step that leaves the other jobs alone and keeps the invariant of its own.
LEMMA Frame ==
  ASSUME NEW j \in Job, EmailInv, TypeOK', Alone(j), JobInv(j)'
  PROVE  EmailInv'
<1>1. ASSUME NEW k \in Job, k # j PROVE JobInv(k)'
  BY <1>1 DEF EmailInv, Alone, JobInv, Bounds, Fresh, Trying, Failing, Ending, At
<1> QED BY <1>1 DEF EmailInv

LEMMA BeginTemplateKeeps ==
  ASSUME EmailAssumption, EmailInv, NEW j \in Job, BeginTemplate(j)
  PROVE  EmailInv'
<1> USE DEF BeginTemplate, Begin, At, Goto
<1>1. TypeOK'
  <2> USE DEF EmailInv, TypeOK
  <2>1. (job \in [Job -> [pc : Running \cup Ended \cup {"idle"}, attempt : 0..MaxRetries]])'
    BY DEF JobInv, Failing, Running, Ended, EmailAssumption
  <2>2. (row \in [Job -> [status : Status, retries : 0..MaxRetries]])'
    BY DEF JobInv, Trying, Status, EmailAssumption
  <2>3. (log \in [Job -> SUBSET {"SENT", "FAILED"}])' /\ (mailed \in [Job -> Nat])'
        /\ (faults \in [Job -> Nat])'
    BY DEF EmailAssumption
  <2> QED BY <2>1, <2>2, <2>3
<1>2. Alone(j)
  BY DEF EmailInv, TypeOK, Alone
<1>3. JobInv(j)'
  BY DEF EmailInv, TypeOK, JobInv, Bounds, Fresh, Trying, Failing, Ending, Running, Ended, Status, EmailAssumption
<1> QED BY <1>1, <1>2, <1>3, Frame

LEMMA BeginDirectKeeps ==
  ASSUME EmailAssumption, EmailInv, NEW j \in Job, BeginDirect(j)
  PROVE  EmailInv'
<1> USE DEF BeginDirect, Begin, At, Goto
<1>1. TypeOK'
  <2> USE DEF EmailInv, TypeOK
  <2>1. (job \in [Job -> [pc : Running \cup Ended \cup {"idle"}, attempt : 0..MaxRetries]])'
    BY DEF JobInv, Failing, Running, Ended, EmailAssumption
  <2>2. (row \in [Job -> [status : Status, retries : 0..MaxRetries]])'
    BY DEF JobInv, Trying, Status, EmailAssumption
  <2>3. (log \in [Job -> SUBSET {"SENT", "FAILED"}])' /\ (mailed \in [Job -> Nat])'
        /\ (faults \in [Job -> Nat])'
    BY DEF EmailAssumption
  <2> QED BY <2>1, <2>2, <2>3
<1>2. Alone(j)
  BY DEF EmailInv, TypeOK, Alone
<1>3. JobInv(j)'
  BY DEF EmailInv, TypeOK, JobInv, Bounds, Fresh, Trying, Failing, Ending, Running, Ended, Status, EmailAssumption
<1> QED BY <1>1, <1>2, <1>3, Frame

LEMMA FindTemplateKeeps ==
  ASSUME EmailAssumption, EmailInv, NEW j \in Job, FindTemplate(j)
  PROVE  EmailInv'
<1> USE DEF FindTemplate, Fault, At, Goto
<1>1. TypeOK'
  <2> USE DEF EmailInv, TypeOK
  <2>1. (job \in [Job -> [pc : Running \cup Ended \cup {"idle"}, attempt : 0..MaxRetries]])'
    <3>1. job' = [job EXCEPT ![j].pc = "create"] \/ job' = [job EXCEPT ![j].pc = "error"]
      OBVIOUS
    <3>2. CASE job' = [job EXCEPT ![j].pc = "create"]
      BY <3>2 DEF Running, Ended
    <3>3. CASE job' = [job EXCEPT ![j].pc = "error"]
      BY <3>3 DEF Running, Ended
    <3> QED BY <3>1, <3>2, <3>3
  <2>2. (row \in [Job -> [status : Status, retries : 0..MaxRetries]])'
    BY DEF JobInv, Trying, Status, EmailAssumption
  <2>3. (log \in [Job -> SUBSET {"SENT", "FAILED"}])' /\ (mailed \in [Job -> Nat])'
        /\ (faults \in [Job -> Nat])'
    BY DEF EmailAssumption
  <2> QED BY <2>1, <2>2, <2>3
<1>2. Alone(j)
  BY DEF EmailInv, TypeOK, Alone
<1>3. JobInv(j)'
  BY DEF EmailInv, TypeOK, JobInv, Bounds, Fresh, Trying, Failing, Ending, Running, Ended, Status, EmailAssumption
<1> QED BY <1>1, <1>2, <1>3, Frame

LEMMA CreateRowKeeps ==
  ASSUME EmailAssumption, EmailInv, NEW j \in Job, CreateRow(j)
  PROVE  EmailInv'
<1> USE DEF CreateRow, SetStatus, Fault, At, Goto
<1>1. TypeOK'
  <2> USE DEF EmailInv, TypeOK
  <2>1. (job \in [Job -> [pc : Running \cup Ended \cup {"idle"}, attempt : 0..MaxRetries]])'
    <3>1. CASE job' = [job EXCEPT ![j] = [pc |-> "send", attempt |-> 1]]
      BY <3>1 DEF Running, EmailAssumption
    <3>2. CASE job' = [job EXCEPT ![j].pc = "error"]
      BY <3>2 DEF Running, Ended
    <3> QED BY <3>1, <3>2
  <2>2. (row \in [Job -> [status : Status, retries : 0..MaxRetries]])'
    BY DEF JobInv, Trying, Status, EmailAssumption
  <2>3. (log \in [Job -> SUBSET {"SENT", "FAILED"}])' /\ (mailed \in [Job -> Nat])'
        /\ (faults \in [Job -> Nat])'
    BY DEF EmailAssumption
  <2> QED BY <2>1, <2>2, <2>3
<1>2. Alone(j)
  BY DEF EmailInv, TypeOK, Alone
<1>3. JobInv(j)'
  BY DEF EmailInv, TypeOK, JobInv, Bounds, Fresh, Trying, Failing, Ending, Running, Ended, Status, EmailAssumption
<1> QED BY <1>1, <1>2, <1>3, Frame

LEMMA SendMailKeeps ==
  ASSUME EmailAssumption, EmailInv, NEW j \in Job, SendMail(j)
  PROVE  EmailInv'
<1> USE DEF SendMail, At, Goto
<1>1. TypeOK'
  <2> USE DEF EmailInv, TypeOK
  <2>1. (job \in [Job -> [pc : Running \cup Ended \cup {"idle"}, attempt : 0..MaxRetries]])'
    BY DEF JobInv, Failing, Running, Ended, EmailAssumption
  <2>2. (row \in [Job -> [status : Status, retries : 0..MaxRetries]])'
    BY DEF JobInv, Trying, Status, EmailAssumption
  <2>3. (log \in [Job -> SUBSET {"SENT", "FAILED"}])' /\ (mailed \in [Job -> Nat])'
        /\ (faults \in [Job -> Nat])'
    BY DEF EmailAssumption
  <2> QED BY <2>1, <2>2, <2>3
<1>2. Alone(j)
  BY DEF EmailInv, TypeOK, Alone
<1>3. JobInv(j)'
  BY DEF EmailInv, TypeOK, JobInv, Bounds, Fresh, Trying, Failing, Ending, Running, Ended, Status, EmailAssumption
<1> QED BY <1>1, <1>2, <1>3, Frame

LEMMA MarkSentKeeps ==
  ASSUME EmailAssumption, EmailInv, NEW j \in Job, MarkSent(j)
  PROVE  EmailInv'
<1> USE DEF MarkSent, SetStatus, Fault, At, Goto
<1>1. TypeOK'
  <2> USE DEF EmailInv, TypeOK
  <2>1. (job \in [Job -> [pc : Running \cup Ended \cup {"idle"}, attempt : 0..MaxRetries]])'
    <3>1. job' = [job EXCEPT ![j].pc = "logSent"] \/ job' = [job EXCEPT ![j].pc = "bump"]
      OBVIOUS
    <3>2. CASE job' = [job EXCEPT ![j].pc = "logSent"]
      BY <3>2 DEF Running, Ended
    <3>3. CASE job' = [job EXCEPT ![j].pc = "bump"]
      BY <3>3 DEF Running, Ended
    <3> QED BY <3>1, <3>2, <3>3
  <2>2. (row \in [Job -> [status : Status, retries : 0..MaxRetries]])'
    <3>1. row' = row \/ row' = [row EXCEPT ![j].status = "SENT"]
      OBVIOUS
    <3>2. CASE row' = row
      BY <3>2
    <3>3. CASE row' = [row EXCEPT ![j].status = "SENT"]
      BY <3>3 DEF Status
    <3> QED BY <3>1, <3>2, <3>3
  <2>3. (log \in [Job -> SUBSET {"SENT", "FAILED"}])' /\ (mailed \in [Job -> Nat])'
        /\ (faults \in [Job -> Nat])'
    <3>1. /\ log' = log /\ mailed' = mailed
          /\ faults' = faults \/ faults' = [faults EXCEPT ![j] = @ + 1]
      OBVIOUS
    <3> QED BY <3>1
  <2> QED BY <2>1, <2>2, <2>3
<1>2. Alone(j)
  BY DEF EmailInv, TypeOK, Alone
<1>3. JobInv(j)'
  BY DEF EmailInv, TypeOK, JobInv, Bounds, Fresh, Trying, Failing, Ending, Running, Ended, Status, EmailAssumption
<1> QED BY <1>1, <1>2, <1>3, Frame

LEMMA LogSentKeeps ==
  ASSUME EmailAssumption, EmailInv, NEW j \in Job, LogSent(j)
  PROVE  EmailInv'
<1> USE DEF LogSent, AddLog, Fault, At, Goto
<1>1. TypeOK'
  <2> USE DEF EmailInv, TypeOK
  <2>1. (job \in [Job -> [pc : Running \cup Ended \cup {"idle"}, attempt : 0..MaxRetries]])'
    <3>1. \/ job' = [job EXCEPT ![j].pc = "ok"]
          \/ job' = [job EXCEPT ![j].pc = "bump"]
      OBVIOUS
    <3>2. CASE job' = [job EXCEPT ![j].pc = "ok"]
      BY <3>2 DEF Running, Ended
    <3>3. CASE job' = [job EXCEPT ![j].pc = "bump"]
      BY <3>3 DEF Running, Ended
    <3> QED BY <3>1, <3>2, <3>3
  <2>2. (row \in [Job -> [status : Status, retries : 0..MaxRetries]])'
    BY DEF JobInv, Trying, Status, EmailAssumption
  <2>3. (log \in [Job -> SUBSET {"SENT", "FAILED"}])'
    <3>1. log' = log \/ log' = [log EXCEPT ![j] = @ \cup {"SENT"}]
      OBVIOUS
    <3>2. CASE log' = log
      BY <3>2
    <3>3. CASE log' = [log EXCEPT ![j] = @ \cup {"SENT"}]
      BY <3>3
    <3> QED BY <3>1, <3>2, <3>3
  <2>4. (mailed \in [Job -> Nat])' /\ (faults \in [Job -> Nat])'
    <3>1. mailed' = mailed /\ (faults' = faults \/ faults' = [faults EXCEPT ![j] = @ + 1])
      OBVIOUS
    <3> QED BY <3>1
  <2> QED BY <2>1, <2>2, <2>3, <2>4
<1>2. Alone(j)
  BY DEF EmailInv, TypeOK, Alone
<1>3. JobInv(j)'
  <2> USE DEF EmailInv, TypeOK, JobInv, Bounds, Fresh, Trying, Failing, Ending, EmailAssumption
  <2>1. CASE faults' = faults
    <3>1. job' = [job EXCEPT ![j].pc = "ok"] /\ log'[j] = log[j] \cup {"SENT"}
      BY <2>1
    <3> QED BY <2>1, <3>1
  <2>2. CASE faults' = [faults EXCEPT ![j] = @ + 1]
    <3>1. job' = [job EXCEPT ![j].pc = "bump"]
      <4>1. faults[j] # faults[j] + 1 /\ faults'[j] = faults[j] + 1
        BY <2>2
      <4> QED BY <4>1
    <3> QED BY <2>2, <3>1
  <2> QED BY <2>1, <2>2
<1> QED BY <1>1, <1>2, <1>3, Frame

LEMMA BumpKeeps ==
  ASSUME EmailAssumption, EmailInv, NEW j \in Job, Bump(j)
  PROVE  EmailInv'
<1> USE DEF Bump, NextAttempt, Fault, At, Goto
<1>1. TypeOK'
  <2> USE DEF EmailInv, TypeOK
  <2>1. (job \in [Job -> [pc : Running \cup Ended \cup {"idle"}, attempt : 0..MaxRetries]])'
    <3>1. \/ job' = [job EXCEPT ![j].pc = "sleep"]
          \/ job' = [job EXCEPT ![j].pc = "markFailed"]
          \/ job' = [job EXCEPT ![j].pc = "error"]
      OBVIOUS
    <3>2. CASE job' = [job EXCEPT ![j].pc = "sleep"]
      BY <3>2 DEF Running, Ended
    <3>3. CASE job' = [job EXCEPT ![j].pc = "markFailed"]
      BY <3>3 DEF Running, Ended
    <3>4. CASE job' = [job EXCEPT ![j].pc = "error"]
      BY <3>4 DEF Running, Ended
    <3> QED BY <3>1, <3>2, <3>3, <3>4
  <2>2. (row \in [Job -> [status : Status, retries : 0..MaxRetries]])'
    <3>1. row' = row \/ row' = [row EXCEPT ![j].retries = @ + 1]
      OBVIOUS
    <3>2. CASE row' = row
      BY <3>2
    <3>3. CASE row' = [row EXCEPT ![j].retries = @ + 1]
      <4>1. row[j].retries + 1 \in 0..MaxRetries
        BY DEF JobInv, Trying, EmailAssumption
      <4> QED BY <3>3, <4>1
    <3> QED BY <3>1, <3>2, <3>3
  <2>3. (log \in [Job -> SUBSET {"SENT", "FAILED"}])' /\ (mailed \in [Job -> Nat])'
        /\ (faults \in [Job -> Nat])'
    BY DEF EmailAssumption
  <2> QED BY <2>1, <2>2, <2>3
<1>2. Alone(j)
  BY DEF EmailInv, TypeOK, Alone
<1>3. JobInv(j)'
  BY DEF EmailInv, TypeOK, JobInv, Bounds, Fresh, Trying, Failing, Ending, Running, Ended, Status, EmailAssumption
<1> QED BY <1>1, <1>2, <1>3, Frame

LEMMA RetryKeeps ==
  ASSUME EmailAssumption, EmailInv, NEW j \in Job, Retry(j)
  PROVE  EmailInv'
<1> USE DEF Retry, At, Goto
<1>1. TypeOK'
  <2> USE DEF EmailInv, TypeOK
  <2>1. (job \in [Job -> [pc : Running \cup Ended \cup {"idle"}, attempt : 0..MaxRetries]])'
    BY DEF JobInv, Failing, Running, Ended, EmailAssumption
  <2>2. (row \in [Job -> [status : Status, retries : 0..MaxRetries]])'
    BY DEF JobInv, Trying, Status, EmailAssumption
  <2>3. (log \in [Job -> SUBSET {"SENT", "FAILED"}])' /\ (mailed \in [Job -> Nat])'
        /\ (faults \in [Job -> Nat])'
    BY DEF EmailAssumption
  <2> QED BY <2>1, <2>2, <2>3
<1>2. Alone(j)
  BY DEF EmailInv, TypeOK, Alone
<1>3. JobInv(j)'
  BY DEF EmailInv, TypeOK, JobInv, Bounds, Fresh, Trying, Failing, Ending, Running, Ended, Status, EmailAssumption
<1> QED BY <1>1, <1>2, <1>3, Frame

LEMMA MarkFailedKeeps ==
  ASSUME EmailAssumption, EmailInv, NEW j \in Job, MarkFailed(j)
  PROVE  EmailInv'
<1> USE DEF MarkFailed, SetStatus, Fault, At, Goto
<1>1. TypeOK'
  <2> USE DEF EmailInv, TypeOK
  <2>1. (job \in [Job -> [pc : Running \cup Ended \cup {"idle"}, attempt : 0..MaxRetries]])'
    BY DEF JobInv, Failing, Running, Ended, EmailAssumption
  <2>2. (row \in [Job -> [status : Status, retries : 0..MaxRetries]])'
    BY DEF JobInv, Trying, Status, EmailAssumption
  <2>3. (log \in [Job -> SUBSET {"SENT", "FAILED"}])' /\ (mailed \in [Job -> Nat])'
        /\ (faults \in [Job -> Nat])'
    <3>1. /\ log' = log /\ mailed' = mailed
          /\ faults' = faults \/ faults' = [faults EXCEPT ![j] = @ + 1]
      OBVIOUS
    <3> QED BY <3>1
  <2> QED BY <2>1, <2>2, <2>3
<1>2. Alone(j)
  BY DEF EmailInv, TypeOK, Alone
<1>3. JobInv(j)'
  BY DEF EmailInv, TypeOK, JobInv, Bounds, Fresh, Trying, Failing, Ending, Running, Ended, Status, EmailAssumption
<1> QED BY <1>1, <1>2, <1>3, Frame

LEMMA LogFailedKeeps ==
  ASSUME EmailAssumption, EmailInv, NEW j \in Job, LogFailed(j)
  PROVE  EmailInv'
<1> USE DEF LogFailed, AddLog, Fault, At, Goto
<1>1. TypeOK'
  <2> USE DEF EmailInv, TypeOK
  <2>1. (job \in [Job -> [pc : Running \cup Ended \cup {"idle"}, attempt : 0..MaxRetries]])'
    BY DEF JobInv, Failing, Running, Ended, EmailAssumption
  <2>2. (row \in [Job -> [status : Status, retries : 0..MaxRetries]])'
    BY DEF JobInv, Trying, Status, EmailAssumption
  <2>3. (log \in [Job -> SUBSET {"SENT", "FAILED"}])'
    <3>1. log' = log \/ log' = [log EXCEPT ![j] = @ \cup {"FAILED"}]
      OBVIOUS
    <3>2. CASE log' = log
      BY <3>2
    <3>3. CASE log' = [log EXCEPT ![j] = @ \cup {"FAILED"}]
      BY <3>3
    <3> QED BY <3>1, <3>2, <3>3
  <2>4. (mailed \in [Job -> Nat])' /\ (faults \in [Job -> Nat])'
    <3>1. mailed' = mailed /\ (faults' = faults \/ faults' = [faults EXCEPT ![j] = @ + 1])
      OBVIOUS
    <3> QED BY <3>1
  <2> QED BY <2>1, <2>2, <2>3, <2>4
<1>2. Alone(j)
  BY DEF EmailInv, TypeOK, Alone
<1>3. JobInv(j)'
  BY DEF EmailInv, TypeOK, JobInv, Bounds, Fresh, Trying, Failing, Ending, Running, Ended, Status, EmailAssumption
<1> QED BY <1>1, <1>2, <1>3, Frame

LEMMA DieKeeps ==
  ASSUME EmailAssumption, EmailInv, NEW D \in SUBSET Job, Die(D)
  PROVE  EmailInv'
<1> USE DEF Die, EmailInv
<1>1. ASSUME NEW k \in Job
      PROVE  /\ job'[k] = job[k] \/ job'[k] = [job[k] EXCEPT !.pc = "dead"]
             /\ job[k] \in [pc : Running \cup Ended \cup {"idle"}, attempt : 0..MaxRetries]
  BY DEF TypeOK
<1>2. TypeOK'
  <2>1. ASSUME NEW k \in Job
        PROVE  job'[k] \in [pc : Running \cup Ended \cup {"idle"}, attempt : 0..MaxRetries]
    BY <1>1 DEF Ended
  <2> QED BY <2>1 DEF TypeOK
<1>3. ASSUME NEW k \in Job PROVE JobInv(k)'
  BY <1>1, <1>3 DEF JobInv, Bounds, Fresh, Trying, Failing, Ending, At
<1> QED BY <1>2, <1>3

-----------------------------------------------------------------------------

LEMMA InitEstablishes == EmailAssumption /\ Init => EmailInv
  BY DEF EmailAssumption, Init, EmailInv, TypeOK, JobInv, Bounds, Fresh, Trying, Failing,
         Ending, At, Running, Ended, Status

LEMMA NextKeeps == EmailAssumption /\ EmailInv /\ [Next]_vars => EmailInv'
<1> SUFFICES ASSUME EmailAssumption, EmailInv, [Next]_vars PROVE EmailInv'
  OBVIOUS
<1>1. ASSUME NEW j \in Job, BeginTemplate(j) \/ BeginDirect(j) PROVE EmailInv'
  BY <1>1, BeginTemplateKeeps, BeginDirectKeeps
<1>2. ASSUME NEW j \in Job, Step(j) PROVE EmailInv'
  BY <1>2, FindTemplateKeeps, CreateRowKeeps, SendMailKeeps, MarkSentKeeps, LogSentKeeps,
     BumpKeeps, RetryKeeps, MarkFailedKeeps, LogFailedKeeps DEF Step
<1>3. ASSUME NEW D \in SUBSET Job, Die(D) PROVE EmailInv'
  BY <1>3, DieKeeps
<1>4. CASE UNCHANGED vars
  BY <1>4 DEF vars, EmailInv, TypeOK, JobInv, Bounds, Fresh, Trying, Failing, Ending, At
<1> QED BY <1>1, <1>2, <1>3, <1>4 DEF Next

\* The invariant holds of every reachable state.
THEOREM EmailInvHolds == Spec => []EmailInv
  BY InitEstablishes, NextKeeps, EmailAssumption, PTL DEF Spec

\* Every job, row and history variable keeps its type: in particular neither an
\* attempt nor a retry is ever counted past maxRetries.
THEOREM TypeCorrect == Spec => []TypeOK
<1>1. EmailInv => TypeOK
  BY DEF EmailInv
<1> QED BY <1>1, EmailInvHolds, PTL

\* A notification is mailed at most maxRetries times, and one time more than the
\* database failed it (sendNotification, emailService.js 146-249).
THEOREM MailsStayBounded == Spec => []MailsBounded
<1>1. EmailInv => MailsBounded
  BY DEF EmailInv, JobInv, Bounds, MailsBounded
<1> QED BY <1>1, EmailInvHolds, PTL

\* What is acknowledged, or answered 201, is marked SENT and logged.
THEOREM OkIsRecorded == Spec => []OkMeansRecorded
<1>1. EmailInv => OkMeansRecorded
  BY DEF EmailInv, JobInv, Ending, OkMeansRecorded
<1> QED BY <1>1, EmailInvHolds, PTL

\* FAILED takes maxRetries failures of the database: the mail server cannot
\* cause it.
THEOREM OnlyTheDatabaseFails == Spec => [](FailedMeansDatabaseFailed /\ ErrorMeansFault)
<1>1. EmailInv => FailedMeansDatabaseFailed /\ ErrorMeansFault
  BY DEF EmailInv, JobInv, Bounds, Ending, FailedMeansDatabaseFailed, ErrorMeansFault
<1> QED BY <1>1, EmailInvHolds, PTL

\* A row is left PENDING only by a job that died or that the database failed.
THEOREM PendingIsExplained == Spec => [](UnsentHasAReason /\ PendingMeansInterrupted)
<1>1. EmailInv => UnsentHasAReason /\ PendingMeansInterrupted
  <2> SUFFICES ASSUME EmailInv PROVE FailedMeansDatabaseFailed /\ PendingMeansInterrupted
    BY DEF UnsentHasAReason
  <2>1. FailedMeansDatabaseFailed
    BY DEF EmailInv, JobInv, Bounds, FailedMeansDatabaseFailed
  <2>2. ASSUME NEW j \in Job, row[j].status = "PENDING"
        PROVE  job[j].pc \in Running \cup {"dead"} \/ (At(j, "error") /\ faults[j] > 0)
    <3>1. job[j].pc \in Running \cup Ended \cup {"idle"} /\ Fresh(j) /\ Ending(j)
      BY DEF EmailInv, TypeOK, JobInv
    <3> QED  BY <2>2, <3>1 DEF Fresh, Ending, At, Ended
  <2> QED  BY <2>1, <2>2 DEF PendingMeansInterrupted
<1> QED BY <1>1, EmailInvHolds, PTL

-----------------------------------------------------------------------------
(* How far a job is from its end.                                             *)

\* The measure is a number, and bounded: a job takes at most that many steps.
LEMMA StepsLeftBounded ==
  ASSUME EmailAssumption, EmailInv, NEW j \in Job
  PROVE  StepsLeft(j) \in 0..(5 * MaxRetries + 3)
<1>1. job[j].attempt \in Nat /\ MaxRetries \in Nat /\ job[j].attempt <= MaxRetries
  BY DEF EmailAssumption, EmailInv, TypeOK
<1>2. job[j].pc \in {"send", "markSent", "logSent", "bump"} => job[j].attempt >= 1
  BY DEF EmailInv, JobInv, Trying
<1>3. job[j].pc = "sleep" => job[j].attempt < MaxRetries /\ MaxRetries >= 1
  BY <1>1 DEF EmailInv, JobInv, Failing, At
<1> QED  BY <1>1, <1>2, <1>3 DEF StepsLeft, At

\* Where a step leads to, and in which attempt.
LEMMA StepLeads ==
  ASSUME EmailInv, NEW j \in Job, Step(j)
  PROVE  \/ At(j, "template") /\ job'[j].pc \in {"create", "error"}
         \/ At(j, "create") /\ job'[j].pc = "send" /\ job'[j].attempt = 1
         \/ job[j].pc \in {"create", "logSent", "bump", "markFailed", "logFailed"}
            /\ job'[j].pc \in {"ok", "error"}
         \/ /\ job'[j].attempt = job[j].attempt
            /\ \/ At(j, "send") /\ job'[j].pc = "markSent"
               \/ At(j, "markSent") /\ job'[j].pc \in {"logSent", "bump"}
               \/ At(j, "logSent") /\ job'[j].pc = "bump"
               \/ At(j, "bump") /\ job'[j].pc = "sleep" /\ job[j].attempt < MaxRetries
         \/ At(j, "bump") /\ job'[j].pc = "markFailed" /\ job[j].attempt >= MaxRetries
         \/ At(j, "sleep") /\ job'[j].pc = "send" /\ job'[j].attempt = job[j].attempt + 1
         \/ At(j, "markFailed") /\ job'[j].pc = "logFailed"
<1> DEFINE T == [pc : Running \cup Ended \cup {"idle"}, attempt : 0..MaxRetries]
<1>1. job \in [Job -> T] /\ job[j].attempt \in Int /\ MaxRetries \in Int
  BY EmailAssumption DEF EmailInv, TypeOK, EmailAssumption
<1>2. ASSUME NEW pc, Goto(j, pc)
      PROVE  job'[j].pc = pc /\ job'[j].attempt = job[j].attempt
  BY <1>1, <1>2 DEF Goto
<1> HIDE DEF T
<1>3. CASE FindTemplate(j)
  BY <1>2, <1>3 DEF FindTemplate
<1>4. CASE CreateRow(j)
  BY <1>1, <1>2, <1>4 DEF CreateRow, At
<1>5. CASE SendMail(j) \/ MarkSent(j) \/ LogSent(j)
  BY <1>2, <1>5 DEF SendMail, MarkSent, LogSent, At
<1>6. CASE Bump(j)
  BY <1>1, <1>2, <1>6 DEF Bump, NextAttempt, At
<1>7. CASE Retry(j)
  BY <1>1, <1>7 DEF Retry, At
<1>8. CASE MarkFailed(j) \/ LogFailed(j)
  BY <1>2, <1>8 DEF MarkFailed, LogFailed, At
<1> QED  BY <1>3, <1>4, <1>5, <1>6, <1>7, <1>8 DEF Step

LEMMA StepProgresses ==
  ASSUME EmailAssumption, EmailInv, NEW j \in Job, Step(j)
  PROVE  StepsLeft(j)' < StepsLeft(j)
<1>1. job[j].attempt \in Nat /\ MaxRetries \in Nat /\ job[j].attempt <= MaxRetries
  BY DEF EmailAssumption, EmailInv, TypeOK
<1>2. job[j].pc \in {"send", "markSent", "logSent", "bump", "sleep"} =>
        StepsLeft(j) = 5 * (MaxRetries - job[j].attempt) +
          [send |-> 6, markSent |-> 5, logSent |-> 4, bump |-> 3, sleep |-> 2][job[j].pc]
  BY DEF StepsLeft, At
<1>3. CASE job'[j].pc \in {"ok", "error"}
  <2>1. StepsLeft(j)' = 0
    BY <1>3 DEF StepsLeft, At
  <2>2. job[j].pc \in {"template", "create", "logSent", "bump", "markFailed", "logFailed"}
    BY <1>3, StepLeads DEF At
  <2>3. StepsLeft(j) > 0
    BY <1>1, <2>2 DEF StepsLeft, At
  <2> QED  BY <2>1, <2>3
<1>4. CASE At(j, "template") /\ job'[j].pc = "create"
  BY <1>1, <1>4 DEF StepsLeft, At
<1>5. CASE At(j, "create") /\ job'[j].pc = "send" /\ job'[j].attempt = 1
  BY <1>1, <1>5 DEF StepsLeft, At
<1>6. CASE At(j, "sleep") /\ job'[j].pc = "send" /\ job'[j].attempt = job[j].attempt + 1
  <2>1. StepsLeft(j)' = 5 * (MaxRetries - (job[j].attempt + 1)) + 6
    BY <1>1, <1>6 DEF StepsLeft, At
  <2>2. StepsLeft(j) = 5 * (MaxRetries - job[j].attempt) + 2
    BY <1>1, <1>2, <1>6 DEF At
  <2> QED  BY <1>1, <2>1, <2>2
<1>7. CASE /\ job'[j].attempt = job[j].attempt
           /\ \/ At(j, "send") /\ job'[j].pc = "markSent"
              \/ At(j, "markSent") /\ job'[j].pc \in {"logSent", "bump"}
              \/ At(j, "logSent") /\ job'[j].pc = "bump"
              \/ At(j, "bump") /\ job'[j].pc = "sleep"
  BY <1>1, <1>2, <1>7 DEF StepsLeft, At
<1>8. CASE At(j, "bump") /\ job'[j].pc = "markFailed" /\ job[j].attempt >= MaxRetries
  BY <1>1, <1>2, <1>8 DEF StepsLeft, At
<1>9. CASE At(j, "markFailed") /\ job'[j].pc = "logFailed"
  BY <1>9 DEF StepsLeft, At
<1> QED  BY <1>3, <1>4, <1>5, <1>6, <1>7, <1>8, <1>9, StepLeads

\* What a step does to the jobs it is not of.
LEMMA OthersUntouched ==
  ASSUME EmailInv, NEW j \in Job, Step(j) \/ BeginTemplate(j) \/ BeginDirect(j)
  PROVE  \A k \in Job \ {j} : Untouched(k)
<1> USE DEF EmailInv, TypeOK, Untouched
<1>1. CASE BeginTemplate(j) \/ BeginDirect(j)
  BY <1>1 DEF BeginTemplate, BeginDirect, Begin, Goto
<1>2. CASE FindTemplate(j) \/ CreateRow(j) \/ Retry(j)
  BY <1>2 DEF FindTemplate, CreateRow, Retry, Goto, SetStatus, Fault
<1>3. CASE SendMail(j)
  BY <1>3 DEF SendMail, Goto
<1>4. CASE MarkSent(j) \/ MarkFailed(j)
  BY <1>4 DEF MarkSent, MarkFailed, Goto, SetStatus, Fault
<1>5. CASE LogSent(j) \/ LogFailed(j)
  BY <1>5 DEF LogSent, LogFailed, Goto, AddLog, Fault
<1>6. CASE Bump(j)
  BY <1>6 DEF Bump, NextAttempt, Goto, Fault
<1> QED  BY <1>1, <1>2, <1>3, <1>4, <1>5, <1>6 DEF Step

\* A running job only gets nearer to its end, and an ended one is left alone: what
\* the fairness of its steps turns into JobsEnd.
THEOREM JobsProgress == Spec => JobsOnlyProgress
<1>1. ASSUME EmailInv, [Next]_vars, NEW k \in Job
      PROVE  /\ job[k].pc \in Running => Untouched(k) \/ StepsLeft(k)' < StepsLeft(k)
             /\ job[k].pc \in Ended => Untouched(k)
  <2>1. CASE UNCHANGED vars
    BY <2>1 DEF vars, Untouched
  <2>2. ASSUME NEW j \in Job, BeginTemplate(j) \/ BeginDirect(j)
        PROVE  job[k].pc \in Running \cup Ended => Untouched(k)
    <3>1. CASE k = j
      BY <2>2, <3>1 DEF BeginTemplate, BeginDirect, Begin, At, Running, Ended
    <3>2. CASE k # j
      BY <1>1, <2>2, <3>2, OthersUntouched
    <3> QED  BY <3>1, <3>2
  <2>3. ASSUME NEW j \in Job, Step(j)
        PROVE  /\ job[k].pc \in Running => Untouched(k) \/ StepsLeft(k)' < StepsLeft(k)
               /\ job[k].pc \in Ended => Untouched(k)
    <3>1. CASE k = j
      <4>1. StepsLeft(j)' < StepsLeft(j)
        BY <1>1, <2>3, StepProgresses, EmailAssumption
      <4>2. job[j].pc \notin Ended
        BY <1>1, <2>3, StepLeads DEF Ended, At
      <4> QED  BY <3>1, <4>1, <4>2
    <3>2. CASE k # j
      BY <1>1, <2>3, <3>2, OthersUntouched
    <3> QED  BY <3>1, <3>2
  <2>4. ASSUME NEW D \in SUBSET Job, Die(D)
        PROVE  /\ job[k].pc \in Running => Untouched(k) \/ StepsLeft(k)' < StepsLeft(k)
               /\ job[k].pc \in Ended => Untouched(k)
    <3>1. Untouched(k) \/ (job[k].pc \in Running /\ job'[k] = [job[k] EXCEPT !.pc = "dead"])
      BY <2>4 DEF Die, Untouched
    <3>2. CASE job[k].pc \in Running /\ job'[k] = [job[k] EXCEPT !.pc = "dead"]
      <4>1. job'[k].pc = "dead" /\ job[k].attempt \in Nat /\ MaxRetries \in Nat
            /\ job[k].attempt <= MaxRetries
        BY <1>1, <3>2, EmailAssumption DEF EmailInv, TypeOK, EmailAssumption
      <4>2. StepsLeft(k)' = 0
        BY <4>1 DEF StepsLeft, At
      <4>3. StepsLeft(k) > 0
        BY <3>2, <4>1 DEF StepsLeft, At, Running
      <4> QED  BY <3>2, <4>2, <4>3 DEF Running, Ended
    <3> QED  BY <3>1, <3>2
  <2> QED  BY <1>1, <2>1, <2>2, <2>3, <2>4 DEF Next
<1>2. EmailInv /\ [Next]_vars =>
        [\A j \in Job :
           /\ job[j].pc \in Running => Untouched(j) \/ StepsLeft(j)' < StepsLeft(j)
           /\ job[j].pc \in Ended => Untouched(j)]_vars
  BY <1>1
<1> QED  BY <1>2, EmailInvHolds, PTL DEF Spec, JobsOnlyProgress

=============================================================================

---------------------------- MODULE EmailService ----------------------------
(***************************************************************************)
(* EmailService of the notification service with the repositories it       *)
(* writes to and the mailer it sends with.                                 *)
(*                                                                         *)
(* A job is one call of sendEmailWithTemplate or sendDirectEmail, from the *)
(* consumer or from the API; it owns the row of notifications that it      *)
(* creates.  An action is one awaited call together with the code up to    *)
(* the next one.  A database call that rejects may have taken effect, when *)
(* only its answer was lost.  The process may die at any time.             *)
(***************************************************************************)
EXTENDS Naturals, FiniteSetsExt

CONSTANTS
  Job,
  MaxRetries,   \* this.maxRetries
  MaxFaults     \* bound on the database calls that fail

ASSUME EmailAssumption ==
  /\ MaxRetries \in Nat \ {0}
  /\ MaxFaults \in Nat

VARIABLES
  job,      \* the call in flight: where it is and its local variable attempt
  row,      \* its row of notifications: status and retry_count
  log,      \* the statuses of its rows of notification_logs
  mailed,   \* mails the SMTP server accepted for it
  faults    \* its database calls that failed (history variable)

vars == <<job, row, log, mailed, faults>>

Running == {"template", "create", "send", "markSent", "logSent", "bump", "sleep",
            "markFailed", "logFailed"}
Ended == {"ok", "error", "dead"}
Status == {"none", "PENDING", "SENT", "FAILED"}

TypeOK ==
  /\ job \in [Job -> [pc : Running \cup Ended \cup {"idle"}, attempt : 0..MaxRetries]]
  /\ row \in [Job -> [status : Status, retries : 0..MaxRetries]]
  /\ log \in [Job -> SUBSET {"SENT", "FAILED"}]
  /\ mailed \in [Job -> Nat]
  /\ faults \in [Job -> Nat]

Init ==
  /\ job = [j \in Job |-> [pc |-> "idle", attempt |-> 0]]
  /\ row = [j \in Job |-> [status |-> "none", retries |-> 0]]
  /\ log = [j \in Job |-> {}]
  /\ mailed = [j \in Job |-> 0]
  /\ faults = [j \in Job |-> 0]

At(j, pc) == job[j].pc = pc
Goto(j, pc) == job' = [job EXCEPT ![j].pc = pc]
SetStatus(j, s) == row' = [row EXCEPT ![j].status = s]
AddLog(j, s) == log' = [log EXCEPT ![j] = @ \cup {s}]

FaultsLeft == MapThenSumSet(LAMBDA j : faults[j], Job) < MaxFaults

\* A database call of the job rejects.
Fault(j) ==
  /\ FaultsLeft
  /\ faults' = [faults EXCEPT ![j] = @ + 1]

-----------------------------------------------------------------------------
(* Mutated forms of definitions below: the bugs the properties must catch. *)

\* A retry does not count.
RetryFree(j) ==
  /\ At(j, "sleep")
  /\ Goto(j, "send")
  /\ UNCHANGED <<row, log, mailed, faults>>

\* A retry counts twice: after the wait and at the head of the loop.
RetryTwice(j) ==
  /\ At(j, "sleep")
  /\ job' = [job EXCEPT ![j] = [pc |-> "send", attempt |-> @.attempt + 2]]
  /\ UNCHANGED <<row, log, mailed, faults>>

\* The last retry never comes out of its wait.
RetryNotLast(j) ==
  /\ At(j, "sleep")
  /\ job[j].attempt + 1 < MaxRetries
  /\ job' = [job EXCEPT ![j] = [pc |-> "send", attempt |-> @.attempt + 1]]
  /\ UNCHANGED <<row, log, mailed, faults>>

\* The last failed attempt sleeps and starts another one.
NoLastAttempt(j) ==
  IF job[j].attempt <= MaxRetries THEN Goto(j, "sleep") ELSE Goto(j, "markFailed")

\* The loop stops one attempt early.
StopEarly(j) ==
  IF job[j].attempt + 1 < MaxRetries THEN Goto(j, "sleep") ELSE Goto(j, "markFailed")

\* The mailer throws instead of answering success: false.
SendThrows(j) ==
  /\ At(j, "send")
  /\ \/ mailed' = [mailed EXCEPT ![j] = @ + 1] /\ Goto(j, "markSent")
     \/ mailed' = mailed /\ Goto(j, "bump")
  /\ UNCHANGED <<row, log, faults>>

\* A failure to store the status is logged and ignored.
MarkSentQuietly(j) ==
  /\ At(j, "markSent")
  /\ Goto(j, "logSent")
  /\ \/ SetStatus(j, "SENT") /\ UNCHANGED faults
     \/ UNCHANGED row /\ Fault(j)
  /\ UNCHANGED <<log, mailed>>

-----------------------------------------------------------------------------
(* sendEmailWithTemplate, sendDirectEmail                                  *)

Begin(j, pc) ==
  /\ At(j, "idle")
  /\ Goto(j, pc)
  /\ UNCHANGED <<row, log, mailed, faults>>

BeginTemplate(j) == Begin(j, "template")
BeginDirect(j) == Begin(j, "create")

\* No template, an inactive one, one that does not render, or a lookup that
\* fails: the call throws.  All of these count as failures of the database.
FindTemplate(j) ==
  /\ At(j, "template")
  /\ \/ Goto(j, "create") /\ UNCHANGED faults
     \/ Goto(j, "error") /\ Fault(j)
  /\ UNCHANGED <<row, log, mailed>>

CreateRow(j) ==
  /\ At(j, "create")
  /\ \/ /\ SetStatus(j, "PENDING")
        /\ job' = [job EXCEPT ![j] = [pc |-> "send", attempt |-> 1]]
        /\ UNCHANGED faults
     \/ /\ SetStatus(j, "PENDING") \/ UNCHANGED row
        /\ Goto(j, "error")
        /\ Fault(j)
  /\ UNCHANGED <<log, mailed>>

-----------------------------------------------------------------------------
(* sendNotification                                                        *)

\* The mailer catches what nodemailer throws and answers success: false, which
\* nobody looks at: whether the server took the mail makes no difference.
SendMail(j) ==
  /\ At(j, "send")
  /\ mailed' = [mailed EXCEPT ![j] = @ + 1] \/ UNCHANGED mailed
  /\ Goto(j, "markSent")
  /\ UNCHANGED <<row, log, faults>>

MarkSent(j) ==
  /\ At(j, "markSent")
  /\ \/ SetStatus(j, "SENT") /\ Goto(j, "logSent") /\ UNCHANGED faults
     \/ /\ SetStatus(j, "SENT") \/ UNCHANGED row
        /\ Goto(j, "bump")
        /\ Fault(j)
  /\ UNCHANGED <<log, mailed>>

LogSent(j) ==
  /\ At(j, "logSent")
  /\ \/ AddLog(j, "SENT") /\ Goto(j, "ok") /\ UNCHANGED faults
     \/ /\ AddLog(j, "SENT") \/ UNCHANGED log
        /\ Goto(j, "bump")
        /\ Fault(j)
  /\ UNCHANGED <<row, mailed>>

\* After a failed attempt: wait for the next one, unless it was the last.
NextAttempt(j) ==
  IF job[j].attempt < MaxRetries THEN Goto(j, "sleep") ELSE Goto(j, "markFailed")

\* incrementRetry is called in the catch block: if it rejects, so does the job.
Bump(j) ==
  LET Increment == row' = [row EXCEPT ![j].retries = @ + 1]
  IN
  /\ At(j, "bump")
  /\ \/ Increment /\ NextAttempt(j) /\ UNCHANGED faults
     \/ (Increment \/ UNCHANGED row) /\ Goto(j, "error") /\ Fault(j)
  /\ UNCHANGED <<log, mailed>>

Retry(j) ==
  /\ At(j, "sleep")
  /\ job' = [job EXCEPT ![j] = [pc |-> "send", attempt |-> @.attempt + 1]]
  /\ UNCHANGED <<row, log, mailed, faults>>

MarkFailed(j) ==
  /\ At(j, "markFailed")
  /\ \/ SetStatus(j, "FAILED") /\ Goto(j, "logFailed") /\ UNCHANGED faults
     \/ /\ SetStatus(j, "FAILED") \/ UNCHANGED row
        /\ Goto(j, "error")
        /\ Fault(j)
  /\ UNCHANGED <<log, mailed>>

\* The job rejects whether or not the failure is logged.
LogFailed(j) ==
  /\ At(j, "logFailed")
  /\ Goto(j, "error")
  /\ \/ AddLog(j, "FAILED") /\ UNCHANGED faults
     \/ (AddLog(j, "FAILED") \/ UNCHANGED log) /\ Fault(j)
  /\ UNCHANGED <<row, mailed>>

\* The process dies with the jobs it runs: what is in the tables stays.
Die(D) ==
  /\ job' = [j \in Job |->
               IF j \in D /\ job[j].pc \in Running THEN [job[j] EXCEPT !.pc = "dead"]
                                                   ELSE job[j]]
  /\ UNCHANGED <<row, log, mailed, faults>>

-----------------------------------------------------------------------------

Step(j) ==
  \/ FindTemplate(j) \/ CreateRow(j)
  \/ SendMail(j) \/ MarkSent(j) \/ LogSent(j)
  \/ Bump(j) \/ Retry(j)
  \/ MarkFailed(j) \/ LogFailed(j)

Next ==
  \/ \E j \in Job : BeginTemplate(j) \/ BeginDirect(j) \/ Step(j)
  \/ \E D \in SUBSET Job : Die(D)

Spec == Init /\ [][Next]_vars

\* Queries, the SMTP dialogue and timers end one way or the other.
FairSpec == Spec /\ \A j \in Job : WF_vars(Step(j))

-----------------------------------------------------------------------------
(* Properties.                                                             *)

\* A mail is sent at most maxRetries times, and each time after the first costs
\* a failure of the database after the mail went out (emailService.js 152-213).
MailsBounded ==
  \A j \in Job : mailed[j] <= MaxRetries /\ mailed[j] <= 1 + faults[j]

\* A job that resolves, so that its message is acknowledged or the API answers
\* 201, has left a row marked SENT and a log entry.
OkMeansRecorded ==
  \A j \in Job : At(j, "ok") => row[j].status = "SENT" /\ "SENT" \in log[j]

\* A notification is FAILED only after maxRetries failures of the database, all
\* of them counted in the row: no refusal by the mail server leads there.
FailedMeansDatabaseFailed ==
  \A j \in Job :
    row[j].status = "FAILED" =>
      row[j].retries = MaxRetries /\ faults[j] >= MaxRetries

\* A row stays PENDING, with nobody working on it, only when its job died with the
\* process or met a failure of the database: no job resolves and leaves one behind.
PendingMeansInterrupted ==
  \A j \in Job :
    row[j].status = "PENDING" =>
      job[j].pc \in Running \cup {"dead"} \/ (At(j, "error") /\ faults[j] > 0)

\* Why a notification is not SENT, as its row tells it.
UnsentHasAReason == FailedMeansDatabaseFailed /\ PendingMeansInterrupted

\* A job counts a retry only because of the database, and rejects only because
\* of the database or of its template: never because a mail was refused.
ErrorMeansFault ==
  \A j \in Job : row[j].retries <= faults[j] /\ (At(j, "error") => faults[j] > 0)

\* The steps a job still takes at most, with all the attempts it has left: five to
\* an attempt, and what comes before the first and after the last.
StepsLeft(j) ==
  CASE At(j, "template") -> 5 * MaxRetries + 3
    [] At(j, "create") -> 5 * MaxRetries + 2
    [] job[j].pc \in {"send", "markSent", "logSent", "bump", "sleep"} ->
         5 * (MaxRetries - job[j].attempt) +
           [send |-> 6, markSent |-> 5, logSent |-> 4, bump |-> 3, sleep |-> 2][job[j].pc]
    [] At(j, "markFailed") -> 2
    [] At(j, "logFailed") -> 1
    [] OTHER -> 0

Untouched(j) == UNCHANGED <<job[j], row[j], log[j], mailed[j], faults[j]>>

\* Every step of a job, whatever fails in it, brings it nearer to its end; nobody
\* else touches its row, and nobody at all once it has ended or died: a PENDING row
\* of a dead process is never taken up again (emailService.js 15-249).
JobsOnlyProgress ==
  [][\A j \in Job :
       /\ job[j].pc \in Running => Untouched(j) \/ StepsLeft(j)' < StepsLeft(j)
       /\ job[j].pc \in Ended => Untouched(j)]_vars

\* A job ends after finitely many attempts, or dies with the process.
JobsEnd == \A j \in Job : job[j].pc \in Running ~> job[j].pc \in Ended

-----------------------------------------------------------------------------
(* A claim of the documentation that the code does not keep.               *)

\* "Retry automático em caso de falha" (README.md 77): a notification is SENT
\* only when the mail server took it.
SentMeansMailed == \A j \in Job : row[j].status = "SENT" => mailed[j] > 0

=============================================================================

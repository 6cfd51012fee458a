------------------------ MODULE EventConsumerProofs ------------------------
(***************************************************************************)
(* Proofs about EventConsumer, for every number of replicas, events, jobs, *)
(* losses and failures.  First, that it implements EmailService: every     *)
(* step of the consumer is one of its jobs or leaves them alone.  Then an  *)
(* invariant in two layers: what the place a job is at says of its row and *)
(* its failures, and how jobs, deliveries and connections hang together.   *)
(***************************************************************************)
EXTENDS EventConsumer, FiniteSetTheorems, TLAPS

-----------------------------------------------------------------------------
(* The consumer implements EmailService.                                      *)

LEMMA InitMaps == Init => Mail!Init
  BY DEF Init

LEMMA StepMaps == [Next]_vars => [Mail!Next]_mailVars
<1> SUFFICES ASSUME [Next]_vars PROVE [Mail!Next]_mailVars
  OBVIOUS
<1>1. ASSUME NEW r \in Replica, NEW e \in Event, Deliver(r, e) PROVE Mail!Next
  <2>1. PICK j \in Job : Mail!BeginTemplate(j)
    BY <1>1 DEF Deliver
  <2> QED  BY <2>1 DEF Mail!Next
<1>2. ASSUME NEW j \in Job, Work(j) PROVE Mail!Next
  BY <1>2 DEF Work, Mail!Next
<1>3. ASSUME NEW r \in Replica, Kill(r) \/ Perish(r) PROVE Mail!Next
  <2>1. Mail!Die(JobsOf(r)) /\ JobsOf(r) \in SUBSET Job
    BY <1>3 DEF Kill, Perish, Exit, JobsOf
  <2> QED  BY <2>1 DEF Mail!Next
<1>4. ASSUME NEW r \in Replica, Start(r) \/ Lose(r) \/ Reconnect(r) PROVE UNCHANGED mailVars
  BY <1>4 DEF Start, Lose, Reconnect
<1>5. ASSUME NEW e \in Event, Publish(e) PROVE UNCHANGED mailVars
  BY <1>5 DEF Publish
<1>6. CASE UNCHANGED vars
  BY <1>6 DEF vars
<1> QED  BY <1>1, <1>2, <1>3, <1>4, <1>5, <1>6 DEF Next

\* Every behaviour of the consumer is a behaviour of EmailService: the handler of
\* invite.created does nothing to notifications that a call of
\* sendEmailWithTemplate or the death of the process does not.
THEOREM Refinement == Spec => Mail!Spec
  BY InitMaps, StepMaps, PTL DEF Spec, Mail!Spec, Mail!vars, mailVars

-----------------------------------------------------------------------------
(* The invariant.                                                             *)

Pc == Mail!Running \cup Mail!Ended \cup {"idle"}

JobShape ==
  /\ job \in [Job -> [pc : Pc, attempt : Nat]]
  /\ row \in [Job -> [status : Mail!Status, retries : Nat]]
  /\ log \in [Job -> SUBSET {"SENT", "FAILED"}]
  /\ faults \in [Job -> Nat]

\* What the place of a job says about its row and its failures.
JobFact(j) ==
  /\ job[j].pc \in {"logSent", "ok"} => row[j].status = "SENT"
  /\ job[j].pc = "ok" => "SENT" \in log[j]
  /\ job[j].pc \in {"bump", "sleep", "markFailed", "logFailed", "error"} => faults[j] > 0

Jobs == JobShape /\ \A j \in Job : JobFact(j)

LinkShape ==
  /\ place \in [Event -> Place]
  /\ link \in [Replica -> Link]
  /\ owner \in [Job -> Replica \cup {Nobody}]
  /\ event \in [Job -> Event \cup {Nobody}]
  /\ live \subseteq Job

\* A job that was started has an owner and an event.
Assigned(j) ==
  /\ job[j].pc = "idle" <=> owner[j] = Nobody
  /\ owner[j] = Nobody <=> event[j] = Nobody

\* A delivery that can be settled is out, its job runs, and its replica consumes.
Settleable(j) ==
  /\ Running(j)
  /\ place[event[j]] = "out"
  /\ link[owner[j]] = "subscribed"

\* No job runs in a process that ended, and on a replica that consumes every
\* job can settle its delivery: those of a lost connection are not among them.
Attached(j) ==
  Running(j) => /\ link[owner[j]] # "down"
                /\ link[owner[j]] = "subscribed" => j \in live

OneJobEach == \A j, k \in live : event[j] = event[k] => j = k

\* An event that is out has its job, and a settled one the job that settled it.
Held(e) ==
  /\ place[e] = "out" => \E j \in live : event[j] = e
  /\ place[e] = "acked" => \E j \in Job : event[j] = e /\ job[j].pc = "ok"
  /\ place[e] = "dropped" => \E j \in Job : event[j] = e /\ job[j].pc = "error"

Links ==
  /\ LinkShape
  /\ \A j \in Job : Assigned(j) /\ Attached(j)
  /\ \A j \in live : Settleable(j)
  /\ OneJobEach
  /\ \A e \in Event : Held(e)

ConsumerInv == Jobs /\ Links

-----------------------------------------------------------------------------
(* What a step of a job does to it.                                           *)

Alone(j) ==
  \A k \in Job \ {j} :
    job'[k] = job[k] /\ row'[k] = row[k] /\ log'[k] = log[k] /\ faults'[k] = faults[k]

\* The pieces a step is made of: where it goes, and what it writes.
LEMMA GotoEffect ==
  ASSUME JobShape, NEW j \in Job, NEW pc \in Pc, Mail!Goto(j, pc)
  PROVE  /\ job' \in [Job -> [pc : Pc, attempt : Nat]]
         /\ job'[j].pc = pc
         /\ \A k \in Job \ {j} : job'[k] = job[k]
  BY DEF JobShape, Mail!Goto

LEMMA StatusEffect ==
  ASSUME JobShape, NEW j \in Job, NEW s \in Mail!Status, Mail!SetStatus(j, s)
  PROVE  /\ row' \in [Job -> [status : Mail!Status, retries : Nat]]
         /\ row'[j].status = s
         /\ \A k \in Job \ {j} : row'[k] = row[k]
  BY DEF JobShape, Mail!SetStatus

LEMMA LogEffect ==
  ASSUME JobShape, NEW j \in Job, NEW s \in {"SENT", "FAILED"}, Mail!AddLog(j, s)
  PROVE  /\ log' \in [Job -> SUBSET {"SENT", "FAILED"}]
         /\ log'[j] = log[j] \cup {s}
         /\ \A k \in Job \ {j} : log'[k] = log[k]
  BY DEF JobShape, Mail!AddLog

LEMMA FaultEffect ==
  ASSUME JobShape, NEW j \in Job, Mail!Fault(j)
  PROVE  /\ faults' \in [Job -> Nat]
         /\ faults'[j] > 0
         /\ \A k \in Job \ {j} : faults'[k] = faults[k]
  BY DEF JobShape, Mail!Fault

LEMMA IncrementEffect ==
  ASSUME JobShape, NEW j \in Job, row' = [row EXCEPT ![j].retries = @ + 1] \/ UNCHANGED row
  PROVE  /\ row' \in [Job -> [status : Mail!Status, retries : Nat]]
         /\ \A k \in Job \ {j} : row'[k] = row[k]
<1>1. CASE row' = [row EXCEPT ![j].retries = @ + 1]
  <2>1. row[j] \in [status : Mail!Status, retries : Nat] /\ row[j].retries + 1 \in Nat
    BY DEF JobShape
  <2> QED  BY <1>1, <2>1 DEF JobShape
<1> QED  BY <1>1 DEF JobShape

LEMMA PlacesAndStates ==
  /\ \A pc \in Mail!Running \cup {"ok", "error"} : pc \in Pc
  /\ {"create", "send", "markSent", "logSent", "bump", "sleep", "markFailed", "logFailed",
      "error", "ok"} \subseteq Pc
  /\ {"template", "create", "send", "markSent", "logSent", "bump", "sleep", "markFailed",
      "logFailed"} = Mail!Running
  /\ {"PENDING", "SENT", "FAILED"} \subseteq Mail!Status
  BY DEF Pc, Mail!Running, Mail!Ended, Mail!Status

\* What a step of a job does: it leaves the others alone, starts from a running
\* job, and ends in one that runs, has resolved or has rejected.
Effect(j) ==
  /\ JobShape' /\ Alone(j) /\ JobFact(j)'
  /\ job[j].pc \in Mail!Running
  /\ job'[j].pc \in Mail!Running \cup {"ok", "error"}

LEMMA StepEffect ==
  ASSUME Jobs, NEW j \in Job, Mail!Step(j)
  PROVE  Effect(j)
<1> JobShape /\ JobFact(j)
  BY DEF Jobs
<1> USE PlacesAndStates, GotoEffect, StatusEffect, LogEffect, FaultEffect DEF Mail!At
<1>1. CASE Mail!FindTemplate(j)
  <2>1. job[j].pc = "template" /\ UNCHANGED <<row, log>>
    BY <1>1 DEF Mail!FindTemplate
  <2>2. CASE Mail!Goto(j, "create") /\ UNCHANGED faults
    BY <2>1, <2>2 DEF JobShape, Effect, Alone, JobFact
  <2>3. CASE Mail!Goto(j, "error") /\ Mail!Fault(j)
    BY <2>1, <2>3 DEF JobShape, Effect, Alone, JobFact
  <2> QED  BY <1>1, <2>2, <2>3 DEF Mail!FindTemplate
<1>2. CASE Mail!CreateRow(j)
  <2>1. job[j].pc = "create" /\ UNCHANGED log
    BY <1>2 DEF Mail!CreateRow
  <2>2. CASE /\ Mail!SetStatus(j, "PENDING") /\ UNCHANGED faults
             /\ job' = [job EXCEPT ![j] = [pc |-> "send", attempt |-> 1]]
    <3>1. /\ job' \in [Job -> [pc : Pc, attempt : Nat]]
          /\ job'[j].pc = "send"
          /\ \A k \in Job \ {j} : job'[k] = job[k]
      BY <2>2 DEF JobShape
    <3> QED  BY <2>1, <2>2, <3>1 DEF JobShape, Effect, Alone, JobFact
  <2>3. CASE /\ Mail!SetStatus(j, "PENDING") \/ UNCHANGED row
             /\ Mail!Goto(j, "error") /\ Mail!Fault(j)
    BY <2>1, <2>3 DEF JobShape, Effect, Alone, JobFact
  <2> QED  BY <1>2, <2>2, <2>3 DEF Mail!CreateRow
<1>3. CASE Mail!SendMail(j)
  BY <1>3 DEF Mail!SendMail, JobShape, Effect, Alone, JobFact
<1>4. CASE Mail!MarkSent(j)
  <2>1. job[j].pc = "markSent" /\ UNCHANGED log
    BY <1>4 DEF Mail!MarkSent
  <2>2. CASE Mail!SetStatus(j, "SENT") /\ Mail!Goto(j, "logSent") /\ UNCHANGED faults
    BY <2>1, <2>2 DEF JobShape, Effect, Alone, JobFact
  <2>3. CASE /\ Mail!SetStatus(j, "SENT") \/ UNCHANGED row
             /\ Mail!Goto(j, "bump") /\ Mail!Fault(j)
    BY <2>1, <2>3 DEF JobShape, Effect, Alone, JobFact
  <2> QED  BY <1>4, <2>2, <2>3 DEF Mail!MarkSent
<1>5. CASE Mail!LogSent(j)
  <2>1. job[j].pc = "logSent" /\ UNCHANGED row
    BY <1>5 DEF Mail!LogSent
  <2>2. CASE Mail!AddLog(j, "SENT") /\ Mail!Goto(j, "ok") /\ UNCHANGED faults
    BY <2>1, <2>2 DEF JobShape, Effect, Alone, JobFact
  <2>3. CASE /\ Mail!AddLog(j, "SENT") \/ UNCHANGED log
             /\ Mail!Goto(j, "bump") /\ Mail!Fault(j)
    BY <2>1, <2>3 DEF JobShape, Effect, Alone, JobFact
  <2> QED  BY <1>5, <2>2, <2>3 DEF Mail!LogSent
<1>6. CASE Mail!Bump(j)
  <2> DEFINE Increment == row' = [row EXCEPT ![j].retries = @ + 1]
  <2>1. job[j].pc = "bump" /\ UNCHANGED log
    BY <1>6 DEF Mail!Bump
  <2>2. Increment \/ UNCHANGED row => /\ row' \in [Job -> [status : Mail!Status, retries : Nat]]
                                     /\ \A k \in Job \ {j} : row'[k] = row[k]
    BY IncrementEffect
  <2>3. CASE Increment /\ Mail!NextAttempt(j) /\ UNCHANGED faults
    <3>1. Mail!Goto(j, "sleep") \/ Mail!Goto(j, "markFailed")
      BY <2>3 DEF Mail!NextAttempt
    <3> HIDE DEF Increment
    <3> QED  BY <2>1, <2>2, <2>3, <3>1 DEF JobShape, Effect, Alone, JobFact
  <2>4. CASE (Increment \/ UNCHANGED row) /\ Mail!Goto(j, "error") /\ Mail!Fault(j)
    <3> HIDE DEF Increment
    <3> QED  BY <2>1, <2>2, <2>4 DEF JobShape, Effect, Alone, JobFact
  <2> QED  BY <1>6, <2>3, <2>4 DEF Mail!Bump
<1>7. CASE Mail!Retry(j)
  <2>1. /\ job' \in [Job -> [pc : Pc, attempt : Nat]]
        /\ job'[j].pc = "send"
        /\ \A k \in Job \ {j} : job'[k] = job[k]
    BY <1>7 DEF Mail!Retry, JobShape
  <2> QED  BY <1>7, <2>1 DEF Mail!Retry, JobShape, Effect, Alone, JobFact
<1>8. CASE Mail!MarkFailed(j)
  <2>1. job[j].pc = "markFailed" /\ UNCHANGED log
    BY <1>8 DEF Mail!MarkFailed
  <2>2. CASE Mail!SetStatus(j, "FAILED") /\ Mail!Goto(j, "logFailed") /\ UNCHANGED faults
    BY <2>1, <2>2 DEF JobShape, Effect, Alone, JobFact
  <2>3. CASE /\ Mail!SetStatus(j, "FAILED") \/ UNCHANGED row
             /\ Mail!Goto(j, "error") /\ Mail!Fault(j)
    BY <2>1, <2>3 DEF JobShape, Effect, Alone, JobFact
  <2> QED  BY <1>8, <2>2, <2>3 DEF Mail!MarkFailed
<1>9. CASE Mail!LogFailed(j)
  <2>1. job[j].pc = "logFailed" /\ Mail!Goto(j, "error") /\ UNCHANGED row
    BY <1>9 DEF Mail!LogFailed
  <2>2. CASE Mail!AddLog(j, "FAILED") /\ UNCHANGED faults
    BY <2>1, <2>2 DEF JobShape, Effect, Alone, JobFact
  <2>3. CASE (Mail!AddLog(j, "FAILED") \/ UNCHANGED log) /\ Mail!Fault(j)
    BY <2>1, <2>3 DEF JobShape, Effect, Alone, JobFact
  <2> QED  BY <1>9, <2>2, <2>3 DEF Mail!LogFailed
<1> QED
  BY <1>1, <1>2, <1>3, <1>4, <1>5, <1>6, <1>7, <1>8, <1>9 DEF Mail!Step

LEMMA EffectKeepsJobs ==
  ASSUME Jobs, NEW j \in Job, Effect(j)
  PROVE  Jobs'
  BY DEF Jobs, Effect, Alone, JobFact

-----------------------------------------------------------------------------
(* Each action keeps the invariant.                                           *)

LEMMA InitEstablishes == ConsumerAssumption /\ Init => ConsumerInv
<1> SUFFICES ASSUME ConsumerAssumption, Init PROVE ConsumerInv
  OBVIOUS
<1>1. Jobs
  BY DEF Init, Mail!Init, Jobs, JobShape, JobFact, Pc, Mail!Status
<1>2. Links
  BY DEF Init, Mail!Init, ConsumerAssumption, Links, LinkShape, Place, Link, Assigned, Attached,
         Settleable, OneJobEach, Held, Running, Mail!Running
<1> QED  BY <1>1, <1>2 DEF ConsumerInv

LEMMA JobsStay == Jobs /\ UNCHANGED mailVars => Jobs'
  BY DEF Jobs, JobShape, JobFact, mailVars

LEMMA PublishKeeps ==
  ASSUME ConsumerInv, NEW e \in Event, Publish(e)
  PROVE  ConsumerInv'
<1>1. Jobs'
  BY JobsStay DEF ConsumerInv, Publish
<1>2. Links'
  BY DEF ConsumerInv, Publish, mailVars, Links, LinkShape, Place, Assigned, Attached, Settleable,
         OneJobEach, Held, Running
<1> QED  BY <1>1, <1>2 DEF ConsumerInv

LEMMA StartKeeps ==
  ASSUME ConsumerInv, NEW r \in Replica, Start(r)
  PROVE  ConsumerInv'
<1>1. Jobs'
  BY JobsStay DEF ConsumerInv, Start
<1>2. Links'
  BY DEF ConsumerInv, Start, mailVars, Links, LinkShape, Link, Assigned, Attached, Settleable,
         OneJobEach, Held, Running
<1> QED  BY <1>1, <1>2 DEF ConsumerInv

LEMMA ReconnectKeeps ==
  ASSUME ConsumerInv, NEW r \in Replica, Reconnect(r)
  PROVE  ConsumerInv'
<1>1. Jobs'
  BY JobsStay DEF ConsumerInv, Reconnect
<1>2. Links'
  BY DEF ConsumerInv, Reconnect, mailVars, Links, LinkShape, Link, Assigned, Attached, Settleable,
         OneJobEach, Held, Running
<1> QED  BY <1>1, <1>2 DEF ConsumerInv

\* A process whose channel is gone, or which ends with its jobs: what it had not
\* settled is queued again, and no other replica notices.
LEMMA LinksAfterLoss ==
  ASSUME ConsumerAssumption, ConsumerInv, NEW r \in Replica, NEW x \in {"lost", "down"},
         Requeue(r), link' = [link EXCEPT ![r] = x], UNCHANGED <<owner, event>>,
         \A k \in Job : IF x = "down" /\ k \in JobsOf(r) /\ job[k].pc \in Mail!Running
                        THEN job'[k].pc = "dead" ELSE job'[k].pc = job[k].pc
  PROVE  Links'
<1> USE DEF ConsumerInv, Links
<1>1. live' = live \ JobsOf(r)
  BY DEF Requeue
<1>2. LinkShape'
  BY <1>1 DEF Requeue, LinkShape, Link, Place
<1>3. ASSUME NEW k \in Job PROVE Assigned(k)' /\ Attached(k)'
  <2>1. Assigned(k) /\ Attached(k) /\ owner[k] \in Replica \cup {Nobody}
    BY DEF LinkShape
  <2>2. CASE owner[k] = r
    BY <1>1, <2>1, <2>2 DEF LinkShape, Assigned, Attached, Running, JobsOf, Mail!Running
  <2>3. CASE owner[k] # r
    <3>1. job'[k].pc = job[k].pc /\ (k \in live' <=> k \in live) /\ link'[owner[k]] = link[owner[k]]
      BY <1>1, <2>1, <2>3 DEF JobsOf, LinkShape
    <3> QED  BY <2>1, <3>1 DEF Assigned, Attached, Running
  <2> QED  BY <2>2, <2>3
<1>4. ASSUME NEW k \in live' PROVE Settleable(k)' /\ place'[event[k]] = place[event[k]]
  <2>1. k \in live /\ k \notin JobsOf(r) /\ k \in Job /\ owner[k] # r
    BY <1>1, <1>4 DEF LinkShape, JobsOf
  <2>2. Settleable(k) /\ Assigned(k) /\ event[k] \in Event /\ owner[k] \in Replica
    BY <2>1 DEF LinkShape, Settleable, Assigned, Running, Mail!Running
  <2>3. event[k] \notin {event[j] : j \in live \cap JobsOf(r)}
    BY <2>1 DEF OneJobEach
  <2>4. place'[event[k]] = place[event[k]]
    BY <2>2, <2>3 DEF Requeue
  <2>5. job'[k].pc = job[k].pc /\ link'[owner[k]] = link[owner[k]]
    BY <2>1, <2>2 DEF LinkShape
  <2> QED  BY <2>2, <2>4, <2>5 DEF Settleable, Running
<1>5. OneJobEach'
  BY <1>1 DEF OneJobEach
<1>6. ASSUME NEW e \in Event PROVE Held(e)'
  <2>1. CASE place'[e] = "queued"
    BY <2>1 DEF Held
  <2>2. CASE place'[e] # "queued"
    <3>1. place'[e] = place[e] /\ e \notin {event[j] : j \in live \cap JobsOf(r)}
      BY <2>2 DEF Requeue
    <3>2. ASSUME NEW j \in Job, job[j].pc \in {"ok", "error"} PROVE job'[j].pc = job[j].pc
      BY <3>2 DEF Mail!Running
    <3>3. place[e] = "out" => \E j \in live' : event[j] = e
      BY <1>1, <3>1 DEF Held
    <3> QED  BY <3>1, <3>2, <3>3 DEF Held
  <2> QED  BY <2>1, <2>2
<1> QED  BY <1>2, <1>3, <1>4, <1>5, <1>6

LEMMA LoseKeeps ==
  ASSUME ConsumerAssumption, ConsumerInv, NEW r \in Replica, Lose(r)
  PROVE  ConsumerInv'
<1>1. Jobs'
  BY JobsStay DEF ConsumerInv, Lose
<1>2. Links'
  BY LinksAfterLoss DEF Lose, mailVars
<1> QED  BY <1>1, <1>2 DEF ConsumerInv

LEMMA ExitKeeps ==
  ASSUME ConsumerAssumption, ConsumerInv, NEW r \in Replica, Exit(r)
  PROVE  ConsumerInv'
<1>1. ASSUME NEW k \in Job
      PROVE  job'[k] = IF k \in JobsOf(r) /\ job[k].pc \in Mail!Running
                       THEN [job[k] EXCEPT !.pc = "dead"] ELSE job[k]
  BY DEF Exit, Mail!Die
<1>2. ASSUME NEW k \in Job
      PROVE  /\ job'[k] \in [pc : Pc, attempt : Nat]
             /\ IF k \in JobsOf(r) /\ job[k].pc \in Mail!Running
                THEN job'[k].pc = "dead" ELSE job'[k] = job[k]
  <2>1. job[k] \in [pc : Pc, attempt : Nat] /\ "dead" \in Pc
    BY DEF ConsumerInv, Jobs, JobShape, Pc, Mail!Ended
  <2> QED  BY <1>1, <2>1
<1>3. Jobs'
  <2>1. job' \in [Job -> [pc : Pc, attempt : Nat]]
    BY <1>2 DEF Exit, Mail!Die
  <2>2. \A k \in Job : JobFact(k)'
    BY <1>2 DEF Exit, Mail!Die, ConsumerInv, Jobs, JobFact
  <2> QED  BY <2>1, <2>2 DEF Exit, Mail!Die, ConsumerInv, Jobs, JobShape
<1>4. Links'
  BY <1>2, LinksAfterLoss DEF Exit
<1> QED  BY <1>3, <1>4 DEF ConsumerInv

\* A delivery takes a job that was idle: nobody else handles its event.
LEMMA DeliverKeeps ==
  ASSUME ConsumerAssumption, ConsumerInv, NEW r \in Replica, NEW e \in Event, Deliver(r, e)
  PROVE  ConsumerInv'
<1>1. PICK j \in Job : /\ Mail!At(j, "idle") /\ Mail!BeginTemplate(j)
                       /\ owner' = [owner EXCEPT ![j] = r]
                       /\ event' = [event EXCEPT ![j] = e]
                       /\ live' = live \cup {j}
  BY DEF Deliver
<1>2. /\ job[j].pc = "idle" /\ Mail!Goto(j, "template")
      /\ place[e] = "queued" /\ place' = [place EXCEPT ![e] = "out"]
      /\ link[r] = "subscribed" /\ UNCHANGED <<row, log, faults, link>>
  BY <1>1 DEF Deliver, Mail!At, Mail!BeginTemplate, Mail!Begin
<1>3. /\ job' \in [Job -> [pc : Pc, attempt : Nat]]
      /\ job'[j].pc = "template"
      /\ \A k \in Job \ {j} : job'[k] = job[k]
  BY <1>2, GotoEffect DEF ConsumerInv, Jobs, Pc, Mail!Running
<1>4. Jobs'
  BY <1>2, <1>3 DEF ConsumerInv, Jobs, JobShape, JobFact
<1> USE DEF ConsumerInv, Links
<1>5. LinkShape'
  BY <1>1, <1>2 DEF LinkShape, Place
<1>6. \A k \in Job \ {j} : /\ owner'[k] = owner[k] /\ event'[k] = event[k]
                           /\ (k \in live' <=> k \in live)
  BY <1>1 DEF LinkShape
<1>7. owner'[j] = r /\ event'[j] = e /\ j \in live' /\ j \notin live
  BY <1>1, <1>2 DEF LinkShape, Settleable, Running, Mail!Running
<1>8. ASSUME NEW k \in Job PROVE Assigned(k)' /\ Attached(k)'
  <2>1. CASE k = j
    BY <1>2, <1>3, <1>7, <2>1, ConsumerAssumption DEF Assigned, Attached
  <2>2. CASE k # j
    BY <1>2, <1>3, <1>6, <2>2 DEF Assigned, Attached, Running
  <2> QED  BY <2>1, <2>2
<1>9. ASSUME NEW k \in live, k # j
      PROVE  k \in Job /\ event[k] \in Event /\ event[k] # e /\ Settleable(k)
  <2>1. Settleable(k) /\ Assigned(k) /\ k \in Job
    BY <1>9 DEF LinkShape
  <2>2. event[k] \in Event
    BY <2>1 DEF LinkShape, Settleable, Assigned, Running, Mail!Running
  <2> QED  BY <1>2, <2>1, <2>2 DEF Settleable
<1>10. ASSUME NEW k \in live' PROVE Settleable(k)'
  <2>1. CASE k = j
    BY <1>2, <1>3, <1>7, <2>1 DEF Settleable, Running, Mail!Running, LinkShape
  <2>2. CASE k # j
    <3>1. k \in live
      BY <1>1, <2>2
    <3>2. k \in Job /\ event[k] \in Event /\ event[k] # e /\ Settleable(k)
      BY <1>9, <2>2, <3>1
    <3>3. place'[event[k]] = place[event[k]]
      BY <1>2, <3>2 DEF LinkShape
    <3> QED  BY <1>2, <1>3, <1>6, <2>2, <3>2, <3>3 DEF Settleable, Running
  <2> QED  BY <2>1, <2>2
<1>11. OneJobEach'
  BY <1>1, <1>6, <1>7, <1>9 DEF OneJobEach, LinkShape
<1>12. ASSUME NEW d \in Event PROVE Held(d)'
  <2>1. CASE d = e
    BY <1>2, <1>7, <2>1 DEF Held, LinkShape
  <2>2. CASE d # e
    <3>1. place'[d] = place[d]
      BY <1>2, <2>2 DEF LinkShape
    <3>2. ASSUME NEW k \in Job, job[k].pc # "idle" PROVE job'[k] = job[k] /\ event'[k] = event[k]
      BY <1>2, <1>3, <1>6, <3>2
    <3>3. place[d] = "out" => \E k \in live' : event'[k] = d
      BY <1>1, <1>6, <1>7, <1>9, <2>2 DEF Held, LinkShape
    <3> QED  BY <3>1, <3>2, <3>3 DEF Held
  <2> QED  BY <2>1, <2>2
<1>13. Links'
  BY <1>5, <1>8, <1>10, <1>11, <1>12
<1> QED  BY <1>4, <1>13

\* A job that goes on leaves its delivery alone; its last step settles it if it
\* still can.
LEMMA WorkKeeps ==
  ASSUME ConsumerAssumption, ConsumerInv, NEW j \in Job, Work(j)
  PROVE  ConsumerInv'
<1> USE DEF ConsumerInv, Links
<1>1. Effect(j)
  BY StepEffect DEF Work
<1>2. Jobs'
  BY <1>1, EffectKeepsJobs
<1>3. /\ Running(j) /\ Assigned(j) /\ Attached(j)
      /\ owner[j] \in Replica /\ event[j] \in Event
      /\ \A k \in Job \ {j} : job'[k] = job[k]
      /\ UNCHANGED <<owner, event>>
  BY <1>1 DEF Work, Effect, Alone, Running, Assigned, LinkShape
<1>4. CASE job'[j].pc \notin {"ok", "error"}
  <2>1. UNCHANGED <<place, live, link>> /\ job'[j].pc \in Mail!Running
    BY <1>1, <1>4 DEF Work, Effect
  <2>2. \A k \in Job : Assigned(k)' /\ Attached(k)'
    BY <1>3, <2>1 DEF Assigned, Attached, Running, Mail!Running
  <2>3. \A k \in live : Settleable(k)'
    BY <1>3, <2>1 DEF Settleable, Running, LinkShape
  <2>4. \A d \in Event : Held(d)'
    BY <1>3, <2>1 DEF Held, Running, Mail!Running
  <2> QED  BY <1>2, <1>3, <2>1, <2>2, <2>3, <2>4 DEF LinkShape, OneJobEach
<1>5. CASE job'[j].pc \in {"ok", "error"} /\ j \in live
  <2>1. Settle(j, job'[j].pc)
    BY <1>5 DEF Work
  <2>2. /\ place' = [place EXCEPT ![event[j]] = IF job'[j].pc = "ok" THEN "acked" ELSE "dropped"]
        /\ live' = live \ {j} /\ UNCHANGED link
    BY <2>1 DEF Settle
  <2>3. LinkShape'
    BY <1>3, <2>2 DEF LinkShape, Place
  <2>4. ASSUME NEW k \in Job PROVE Assigned(k)' /\ Attached(k)'
    <3>1. CASE k = j
      BY <1>3, <1>5, <2>2, <3>1 DEF Assigned, Attached, Running, Mail!Running
    <3>2. CASE k # j
      BY <1>3, <2>2, <3>2 DEF Assigned, Attached, Running
    <3> QED  BY <3>1, <3>2
  <2>5. ASSUME NEW k \in live' PROVE Settleable(k)'
    <3>1. k \in live /\ k # j /\ k \in Job /\ Settleable(k) /\ Assigned(k)
      BY <2>2 DEF LinkShape
    <3>2. event[k] # event[j]
      BY <1>5, <3>1 DEF OneJobEach
    <3>3. event[k] \in Event
      BY <3>1 DEF LinkShape, Settleable, Assigned, Running, Mail!Running
    <3>4. place'[event[k]] = place[event[k]]
      BY <2>2, <3>2, <3>3 DEF LinkShape
    <3> QED  BY <1>3, <2>2, <3>1, <3>4 DEF Settleable, Running
  <2>6. ASSUME NEW d \in Event PROVE Held(d)'
    <3>1. CASE d = event[j]
      <4>1. place'[d] = IF job'[j].pc = "ok" THEN "acked" ELSE "dropped"
        BY <1>3, <2>2, <3>1 DEF LinkShape
      <4> QED  BY <1>3, <1>5, <3>1, <4>1 DEF Held
    <3>2. CASE d # event[j]
      <4>1. place'[d] = place[d]
        BY <2>2, <3>2 DEF LinkShape
      <4>2. place[d] = "out" => \E k \in live' : event'[k] = d
        BY <1>3, <2>2, <3>2 DEF Held
      <4>3. ASSUME NEW k \in Job, job[k].pc \in {"ok", "error"} PROVE job'[k].pc = job[k].pc
        BY <1>3, <4>3 DEF Running, Mail!Running
      <4> QED  BY <1>3, <4>1, <4>2, <4>3 DEF Held
    <3> QED  BY <3>1, <3>2
  <2> QED  BY <1>2, <1>3, <2>2, <2>3, <2>4, <2>5, <2>6 DEF OneJobEach
<1>6. CASE job'[j].pc \in {"ok", "error"} /\ j \notin live
  <2>1. SettleStale(j)
    BY <1>6 DEF Work
  <2>2. /\ UNCHANGED <<place, live>>
        /\ link' = [link EXCEPT ![owner[j]] = "dying"] \/ UNCHANGED link
    BY <2>1 DEF SettleStale
  <2>3. LinkShape'
    BY <1>3, <2>2 DEF LinkShape, Link
  <2>4. link[owner[j]] # "subscribed"
    BY <1>3, <1>6 DEF Attached
  <2>5. ASSUME NEW r \in Replica
        PROVE  /\ link[r] = "subscribed" <=> link'[r] = "subscribed"
               /\ link'[r] = "down" => link[r] = "down"
    BY <1>3, <2>2, <2>4 DEF LinkShape
  <2>6. ASSUME NEW k \in Job PROVE Assigned(k)' /\ Attached(k)'
    <3>1. CASE k = j
      BY <1>3, <1>6, <2>2, <3>1 DEF Assigned, Attached, Running, Mail!Running
    <3>2. CASE k # j
      <4>1. Assigned(k) /\ Attached(k) /\ owner[k] \in Replica \cup {Nobody}
        BY DEF LinkShape
      <4>2. Running(k) => owner[k] \in Replica
        BY <4>1 DEF Assigned, Running, Mail!Running
      <4> QED  BY <1>3, <2>2, <2>5, <3>2, <4>1, <4>2 DEF Assigned, Attached, Running
    <3> QED  BY <3>1, <3>2
  <2>7. ASSUME NEW k \in live PROVE Settleable(k)'
    <3>1. k \in Job /\ k # j /\ Settleable(k) /\ owner[k] \in Replica
      BY <1>6 DEF LinkShape, Settleable, Assigned, Running, Mail!Running
    <3> QED  BY <1>3, <2>2, <2>5, <3>1 DEF Settleable, Running
  <2>8. \A d \in Event : Held(d)'
    BY <1>3, <2>2 DEF Held, Running, Mail!Running
  <2> QED  BY <1>2, <1>3, <2>2, <2>3, <2>6, <2>7, <2>8 DEF OneJobEach
<1> QED  BY <1>4, <1>5, <1>6

LEMMA NextKeeps == ConsumerAssumption /\ ConsumerInv /\ [Next]_vars => ConsumerInv'
<1> SUFFICES ASSUME ConsumerAssumption, ConsumerInv, [Next]_vars PROVE ConsumerInv'
  OBVIOUS
<1>1. ASSUME NEW r \in Replica, Kill(r) \/ Perish(r) PROVE ConsumerInv'
  BY <1>1, ExitKeeps DEF Kill, Perish
<1>2. CASE UNCHANGED vars
  <2>1. Jobs'
    BY <1>2, JobsStay DEF ConsumerInv, vars
  <2>2. Links'
    BY <1>2 DEF vars, mailVars, ConsumerInv, Links, LinkShape, Assigned, Attached, Settleable,
               OneJobEach, Held, Running
  <2> QED  BY <2>1, <2>2 DEF ConsumerInv
<1> QED
  BY <1>1, <1>2, PublishKeeps, StartKeeps, LoseKeeps, ReconnectKeeps, DeliverKeeps, WorkKeeps
     DEF Next

\* The invariant holds of every reachable state.
THEOREM ConsumerInvariant == Spec => []ConsumerInv
  BY InitEstablishes, NextKeeps, ConsumerAssumption, PTL DEF Spec

-----------------------------------------------------------------------------
(* What follows from it.                                                      *)

\* No event is forgotten between the broker and the jobs: one that is out is with
\* exactly one job that can settle it, on a replica that consumes
\* (RabbitMQClient.consume and its callback).
THEOREM NothingForgotten == Spec => []OutMeansHandled
<1>1. ConsumerInv => OutMeansHandled
  <2> SUFFICES ASSUME ConsumerInv, NEW e \in Event
               PROVE  Cardinality({j \in live \cap Deliveries(e) :
                                     Running(j) /\ link[owner[j]] = "subscribed"})
                        = IF place[e] = "out" THEN 1 ELSE 0
    BY DEF OutMeansHandled
  <2> DEFINE S == {j \in live \cap Deliveries(e) : Running(j) /\ link[owner[j]] = "subscribed"}
  <2>1. \A j \in live : Settleable(j) /\ j \in Job
    BY DEF ConsumerInv, Links, LinkShape
  <2>2. CASE place[e] = "out"
    <3>1. PICK j \in live : event[j] = e
      BY <2>2 DEF ConsumerInv, Links, Held
    <3>2. S = {j}
      BY <2>1, <3>1 DEF ConsumerInv, Links, OneJobEach, Settleable, Deliveries
    <3> QED  BY <2>2, <3>2, FS_Singleton
  <2>3. CASE place[e] # "out"
    <3>1. S = {}
      BY <2>1, <2>3 DEF Settleable, Deliveries
    <3> QED  BY <2>3, <3>1, FS_EmptySet
  <2> QED  BY <2>2, <2>3
<1> QED  BY <1>1, ConsumerInvariant, PTL

\* What an ack and a nack stand for: a notification marked SENT and logged, or a
\* failure of the database (rabbitmq.js 64-75).
THEOREM SettledIsDone == Spec => []SettledMeansDone
<1>1. ConsumerInv => SettledMeansDone
  BY DEF ConsumerInv, Jobs, Links, Held, JobFact, SettledMeansDone, Deliveries
<1> QED  BY <1>1, ConsumerInvariant, PTL
-----------------------------------------------------------------------------
(* Attempts, mails and deliveries, counted.                                   *)

\* The attempt a job is in, and the retries counted in its row.
Counted(j) ==
  /\ job[j].attempt <= MaxRetries
  /\ row[j].retries <= MaxRetries
  /\ job[j].pc \in {"idle", "template", "create"} => row[j].retries = 0
  /\ job[j].pc \in {"send", "markSent", "logSent", "bump"} => row[j].retries < job[j].attempt
  /\ job[j].pc = "sleep" => row[j].retries <= job[j].attempt /\ job[j].attempt < MaxRetries

\* Each mail but the first has cost a failure; a job about to send has paid for
\* all it has sent.
Paid(j) ==
  /\ mailed[j] <= 1 + faults[j]
  /\ job[j].pc \in {"idle", "template", "create", "send", "bump", "sleep"} =>
       mailed[j] <= faults[j]

Counts ==
  /\ mailed \in [Job -> Nat]
  /\ \A j \in Job : Counted(j) /\ Paid(j)

\* A delivery is of an event that was in the queue, and one that comes back to the
\* queue has cost a connection or a process.
Redelivered(e) ==
  /\ IsFiniteSet(Deliveries(e))
  /\ place[e] \in {"new", "unrouted"} => Deliveries(e) = {}
  /\ Cardinality(Deliveries(e)) <= IF place[e] = "queued" THEN losses ELSE 1 + losses

LossBounds == bound \in BOOLEAN /\ losses \in 0..MaxLosses

DeliveryInv == Counts /\ LossBounds /\ \A e \in Event : Redelivered(e)

-----------------------------------------------------------------------------
(* A step of a job keeps its counts.                                          *)

Tally(j) == mailed \in [Job -> Nat] /\ Counted(j) /\ Paid(j)

LEMMA CountTypes ==
  ASSUME ConsumerAssumption, JobShape, NEW j \in Job
  PROVE  /\ MaxRetries \in Nat /\ 1 <= MaxRetries
         /\ job[j].attempt \in Nat /\ row[j].retries \in Nat /\ faults[j] \in Nat
  BY DEF ConsumerAssumption, JobShape

LEMMA GotoCounts ==
  ASSUME JobShape, NEW j \in Job, NEW pc, Mail!Goto(j, pc)
  PROVE  job'[j].pc = pc /\ job'[j].attempt = job[j].attempt
  BY DEF JobShape, Mail!Goto

LEMMA StatusCounts ==
  ASSUME JobShape, NEW j \in Job, NEW s, Mail!SetStatus(j, s) \/ UNCHANGED row
  PROVE  row'[j].retries = row[j].retries
  BY DEF JobShape, Mail!SetStatus

LEMMA FaultCounts ==
  ASSUME JobShape, NEW j \in Job, Mail!Fault(j)
  PROVE  faults'[j] = faults[j] + 1
  BY DEF JobShape, Mail!Fault

\* What a step does to the numbers of its job: if they stay within what the place
\* it goes to asks for, it keeps its tally.
LEMMA StepCounts ==
  ASSUME ConsumerAssumption, JobShape, NEW j \in Job, Tally(j), Mail!Step(j)
  PROVE  Tally(j)' /\ \A k \in Job \ {j} : mailed'[k] = mailed[k]
<1> USE CountTypes, GotoCounts, StatusCounts, FaultCounts DEF Mail!At
<1> mailed[j] \in Nat
  BY DEF Tally
<1>1. CASE Mail!FindTemplate(j)
  <2>1. job[j].pc = "template" /\ UNCHANGED <<row, mailed>>
    BY <1>1 DEF Mail!FindTemplate
  <2>2. CASE Mail!Goto(j, "create") /\ UNCHANGED faults
    BY <2>1, <2>2 DEF Tally, Counted, Paid
  <2>3. CASE Mail!Goto(j, "error") /\ Mail!Fault(j)
    BY <2>1, <2>3 DEF Tally, Counted, Paid
  <2> QED  BY <1>1, <2>2, <2>3 DEF Mail!FindTemplate
<1>2. CASE Mail!CreateRow(j)
  <2>1. job[j].pc = "create" /\ UNCHANGED mailed
    BY <1>2 DEF Mail!CreateRow
  <2>2. row'[j].retries = row[j].retries
    BY <1>2 DEF Mail!CreateRow
  <2>3. CASE job' = [job EXCEPT ![j] = [pc |-> "send", attempt |-> 1]] /\ UNCHANGED faults
    <3>1. job'[j].pc = "send" /\ job'[j].attempt = 1
      BY <2>3 DEF JobShape
    <3> QED  BY <2>1, <2>2, <2>3, <3>1 DEF Tally, Counted, Paid
  <2>4. CASE Mail!Goto(j, "error") /\ Mail!Fault(j)
    BY <2>1, <2>2, <2>4 DEF Tally, Counted, Paid
  <2> QED  BY <1>2, <2>3, <2>4 DEF Mail!CreateRow
<1>3. CASE Mail!SendMail(j)
  <2>1. job[j].pc = "send" /\ Mail!Goto(j, "markSent") /\ UNCHANGED <<row, faults>>
    BY <1>3 DEF Mail!SendMail
  <2>2. /\ mailed' \in [Job -> Nat] /\ mailed'[j] <= mailed[j] + 1
        /\ \A k \in Job \ {j} : mailed'[k] = mailed[k]
    BY <1>3 DEF Mail!SendMail, Tally
  <2> QED  BY <2>1, <2>2 DEF Tally, Counted, Paid
<1>4. CASE Mail!MarkSent(j)
  <2>1. job[j].pc = "markSent" /\ UNCHANGED mailed
    BY <1>4 DEF Mail!MarkSent
  <2>2. row'[j].retries = row[j].retries
    BY <1>4 DEF Mail!MarkSent
  <2>3. CASE Mail!Goto(j, "logSent") /\ UNCHANGED faults
    BY <2>1, <2>2, <2>3 DEF Tally, Counted, Paid
  <2>4. CASE Mail!Goto(j, "bump") /\ Mail!Fault(j)
    BY <2>1, <2>2, <2>4 DEF Tally, Counted, Paid
  <2> QED  BY <1>4, <2>3, <2>4 DEF Mail!MarkSent
<1>5. CASE Mail!LogSent(j)
  <2>1. job[j].pc = "logSent" /\ UNCHANGED <<row, mailed>>
    BY <1>5 DEF Mail!LogSent
  <2>2. CASE Mail!Goto(j, "ok") /\ UNCHANGED faults
    BY <2>1, <2>2 DEF Tally, Counted, Paid
  <2>3. CASE Mail!Goto(j, "bump") /\ Mail!Fault(j)
    BY <2>1, <2>3 DEF Tally, Counted, Paid
  <2> QED  BY <1>5, <2>2, <2>3 DEF Mail!LogSent
<1>6. CASE Mail!Bump(j)
  <2>1. job[j].pc = "bump" /\ UNCHANGED mailed
    BY <1>6 DEF Mail!Bump
  <2>2. CASE /\ row' = [row EXCEPT ![j].retries = @ + 1]
             /\ Mail!NextAttempt(j) /\ UNCHANGED faults
    <3>1. row'[j].retries = row[j].retries + 1
      BY <2>2 DEF JobShape
    <3>2. CASE job[j].attempt < MaxRetries /\ Mail!Goto(j, "sleep")
      BY <2>1, <2>2, <3>1, <3>2 DEF Tally, Counted, Paid
    <3>3. CASE Mail!Goto(j, "markFailed")
      BY <2>1, <2>2, <3>1, <3>3 DEF Tally, Counted, Paid
    <3> QED  BY <2>2, <3>2, <3>3 DEF Mail!NextAttempt
  <2>3. CASE /\ row' = [row EXCEPT ![j].retries = @ + 1] \/ UNCHANGED row
             /\ Mail!Goto(j, "error") /\ Mail!Fault(j)
    <3>1. row'[j].retries = row[j].retries + 1 \/ row'[j].retries = row[j].retries
      BY <2>3 DEF JobShape
    <3> QED  BY <2>1, <2>3, <3>1 DEF Tally, Counted, Paid
  <2> QED  BY <1>6, <2>2, <2>3 DEF Mail!Bump
<1>7. CASE Mail!Retry(j)
  <2>1. job[j].pc = "sleep" /\ UNCHANGED <<row, mailed, faults>>
    BY <1>7 DEF Mail!Retry
  <2>2. job'[j].pc = "send" /\ job'[j].attempt = job[j].attempt + 1
    BY <1>7 DEF Mail!Retry, JobShape
  <2> QED  BY <2>1, <2>2 DEF Tally, Counted, Paid
<1>8. CASE Mail!MarkFailed(j)
  <2>1. job[j].pc = "markFailed" /\ UNCHANGED mailed
    BY <1>8 DEF Mail!MarkFailed
  <2>2. row'[j].retries = row[j].retries
    BY <1>8 DEF Mail!MarkFailed
  <2>3. CASE Mail!Goto(j, "logFailed") /\ UNCHANGED faults
    BY <2>1, <2>2, <2>3 DEF Tally, Counted, Paid
  <2>4. CASE Mail!Goto(j, "error") /\ Mail!Fault(j)
    BY <2>1, <2>2, <2>4 DEF Tally, Counted, Paid
  <2> QED  BY <1>8, <2>3, <2>4 DEF Mail!MarkFailed
<1>9. CASE Mail!LogFailed(j)
  <2>1. job[j].pc = "logFailed" /\ Mail!Goto(j, "error") /\ UNCHANGED <<row, mailed>>
    BY <1>9 DEF Mail!LogFailed
  <2>2. UNCHANGED faults \/ Mail!Fault(j)
    BY <1>9 DEF Mail!LogFailed
  <2> QED  BY <2>1, <2>2 DEF Tally, Counted, Paid
<1> QED
  BY <1>1, <1>2, <1>3, <1>4, <1>5, <1>6, <1>7, <1>8, <1>9 DEF Mail!Step

-----------------------------------------------------------------------------
(* Each action keeps the counts and the bounds.                               *)

LEMMA InitCounts == ConsumerAssumption /\ Init => DeliveryInv
<1> SUFFICES ASSUME ConsumerAssumption, Init PROVE DeliveryInv
  OBVIOUS
<1>1. Counts
  BY DEF Init, Mail!Init, Counts, Counted, Paid, ConsumerAssumption
<1>2. LossBounds
  <2>1. losses = 0 /\ bound = FALSE /\ MaxLosses \in Nat
    BY DEF Init, ConsumerAssumption
  <2>2. losses \in 0..MaxLosses
    BY <2>1
  <2> QED  BY <2>1, <2>2 DEF LossBounds
<1>3. ASSUME NEW e \in Event PROVE Redelivered(e)
  <2>1. Deliveries(e) = {}
    BY DEF Init, Deliveries, ConsumerAssumption
  <2>2. losses = 0 /\ place[e] = "new"
    BY DEF Init
  <2> QED  BY <2>1, <2>2, FS_EmptySet DEF Redelivered
<1> QED  BY <1>1, <1>2, <1>3 DEF DeliveryInv

LEMMA CountsStay == Counts /\ UNCHANGED mailVars => Counts'
  BY DEF Counts, Counted, Paid, mailVars

\* Whatever moves no counter backwards and sends no job to another event keeps the
\* bound on deliveries, if what it puts in the queue was paid for.
LEMMA RedeliveredStays ==
  ASSUME NEW e \in Event, Redelivered(e), losses \in Nat, losses' \in Nat, losses' >= losses,
         UNCHANGED event,
         \/ place'[e] = place[e]
         \/ place[e] = "new" /\ place'[e] \in {"queued", "unrouted"}
         \/ place[e] = "out" /\ place'[e] \in {"acked", "dropped"}
         \/ place[e] = "out" /\ place'[e] = "queued" /\ losses' > losses
  PROVE  Redelivered(e)'
<1>1. Deliveries(e)' = Deliveries(e)
  BY DEF Deliveries
<1>2. Cardinality(Deliveries(e)) \in Nat
  BY FS_CardinalityType DEF Redelivered
<1>3. CASE place[e] = "new"
  <2>1. Deliveries(e) = {} /\ Cardinality(Deliveries(e)) = 0
    BY <1>3, FS_EmptySet DEF Redelivered
  <2> QED  BY <1>1, <2>1 DEF Redelivered
<1>4. CASE place[e] # "new"
  BY <1>1, <1>2, <1>4 DEF Redelivered
<1> QED  BY <1>3, <1>4

LEMMA LossesCount ==
  ASSUME ConsumerAssumption, LossBounds
  PROVE  MaxLosses \in Nat /\ losses \in Nat /\ losses <= MaxLosses
  BY DEF ConsumerAssumption, LossBounds

LEMMA PublishCounts ==
  ASSUME ConsumerAssumption, ConsumerInv, DeliveryInv, NEW e \in Event, Publish(e)
  PROVE  DeliveryInv'
<1>1. Counts' /\ LossBounds'
  BY CountsStay DEF DeliveryInv, Publish, LossBounds
<1>2. ASSUME NEW d \in Event PROVE Redelivered(d)'
  <2>1. \/ place'[d] = place[d]
        \/ place[d] = "new" /\ place'[d] \in {"queued", "unrouted"}
    BY DEF Publish, ConsumerInv, Links, LinkShape
  <2> QED  BY <2>1, RedeliveredStays, LossesCount DEF DeliveryInv, Publish
<1> QED  BY <1>1, <1>2 DEF DeliveryInv

LEMMA LinkCounts ==
  ASSUME ConsumerAssumption, DeliveryInv, NEW r \in Replica, Start(r) \/ Reconnect(r)
  PROVE  DeliveryInv'
<1>1. UNCHANGED <<mailVars, place, event, losses>> /\ bound' \in BOOLEAN
  BY DEF Start, Reconnect, DeliveryInv, LossBounds
<1>2. Counts' /\ LossBounds'
  BY <1>1, CountsStay DEF DeliveryInv, LossBounds
<1>3. ASSUME NEW d \in Event PROVE Redelivered(d)'
  BY <1>1, RedeliveredStays, LossesCount DEF DeliveryInv
<1> QED  BY <1>2, <1>3 DEF DeliveryInv

\* What a lost channel or process puts back in the queue was out, and the loss pays
\* for it.
LEMMA LossCounts ==
  ASSUME ConsumerAssumption, ConsumerInv, DeliveryInv, NEW r \in Replica,
         Requeue(r), UNCHANGED event, losses' \in Nat, losses' >= losses,
         losses' = losses => live \cap JobsOf(r) = {},
         NEW e \in Event
  PROVE  Redelivered(e)'
<1> DEFINE Unsettled == {event[j] : j \in live \cap JobsOf(r)}
<1>1. place'[e] = IF e \in Unsettled THEN "queued" ELSE place[e]
  BY DEF Requeue
<1>2. e \in Unsettled => place[e] = "out" /\ losses' # losses
  BY DEF ConsumerInv, Links, Settleable
<1>3. losses \in Nat /\ (losses' # losses => losses' > losses)
  BY LossesCount DEF DeliveryInv
<1> HIDE DEF Unsettled
<1> QED  BY <1>1, <1>2, <1>3, RedeliveredStays DEF DeliveryInv

LEMMA LoseCounts ==
  ASSUME ConsumerAssumption, ConsumerInv, DeliveryInv, NEW r \in Replica, Lose(r)
  PROVE  DeliveryInv'
<1>1. losses' \in 0..MaxLosses /\ losses' \in Nat /\ losses' > losses
  BY LossesCount DEF DeliveryInv, Lose
<1>2. Counts' /\ LossBounds'
  BY <1>1, CountsStay DEF DeliveryInv, Lose, LossBounds
<1>3. ASSUME NEW d \in Event PROVE Redelivered(d)'
  BY <1>1, LossCounts, LossesCount DEF DeliveryInv, Lose
<1> QED  BY <1>2, <1>3 DEF DeliveryInv

LEMMA ExitCounts ==
  ASSUME ConsumerAssumption, ConsumerInv, DeliveryInv, NEW r \in Replica, Kill(r) \/ Perish(r)
  PROVE  DeliveryInv'
<1>1. losses' \in 0..MaxLosses /\ losses' \in Nat /\ losses' >= losses
  BY LossesCount DEF DeliveryInv, Kill, Perish
<1>2. losses' = losses => live \cap JobsOf(r) = {}
  <2>1. Kill(r) => losses' # losses
    BY LossesCount DEF DeliveryInv, Kill
  <2>2. ASSUME Perish(r), NEW j \in live \cap JobsOf(r) PROVE FALSE
    BY <2>2 DEF Perish, ConsumerInv, Links, Settleable, JobsOf
  <2> QED  BY <2>1, <2>2
<1>3. /\ Requeue(r) /\ UNCHANGED <<event, bound, row, mailed, faults>>
      /\ \A k \in Job : job'[k] = job[k] \/ job'[k] = [job[k] EXCEPT !.pc = "dead"]
  BY DEF Kill, Perish, Exit, Mail!Die
<1>4. ASSUME NEW k \in Job PROVE Counted(k)' /\ Paid(k)'
  <2>1. Counted(k) /\ Paid(k) /\ job[k] \in [pc : Pc, attempt : Nat]
    BY DEF DeliveryInv, Counts, ConsumerInv, Jobs, JobShape
  <2>2. CASE job'[k] = job[k]
    BY <1>3, <2>1, <2>2 DEF Counted, Paid
  <2>3. CASE job'[k] = [job[k] EXCEPT !.pc = "dead"]
    <3>1. job'[k].pc = "dead" /\ job'[k].attempt = job[k].attempt
      BY <2>1, <2>3
    <3> QED  BY <1>3, <2>1, <3>1 DEF Counted, Paid
  <2> QED  BY <1>3, <2>2, <2>3
<1>5. Counts' /\ LossBounds'
  BY <1>1, <1>3, <1>4 DEF DeliveryInv, Counts, LossBounds
<1>6. ASSUME NEW d \in Event PROVE Redelivered(d)'
  BY <1>1, <1>2, <1>3, LossCounts
<1> QED  BY <1>5, <1>6 DEF DeliveryInv

LEMMA WorkCounts ==
  ASSUME ConsumerAssumption, ConsumerInv, DeliveryInv, NEW j \in Job, Work(j)
  PROVE  DeliveryInv'
<1>1. Effect(j) /\ Tally(j) /\ JobShape
  BY StepEffect DEF Work, ConsumerInv, Jobs, DeliveryInv, Counts, Tally
<1>2. Tally(j)' /\ \A k \in Job \ {j} : mailed'[k] = mailed[k]
  BY <1>1, StepCounts DEF Work
<1>3. Counts'
  BY <1>1, <1>2 DEF Effect, Alone, DeliveryInv, Counts, Tally, Counted, Paid
<1>4. LossBounds' /\ UNCHANGED <<event, losses>>
  BY DEF Work, DeliveryInv, LossBounds
<1>5. ASSUME NEW d \in Event PROVE Redelivered(d)'
  <2>1. place' = place \/ (j \in live /\ Settle(j, job'[j].pc))
    BY DEF Work, SettleStale
  <2>2. j \in live => place[event[j]] = "out"
    BY DEF ConsumerInv, Links, Settleable
  <2>3. \/ place'[d] = place[d]
        \/ place[d] = "out" /\ place'[d] \in {"acked", "dropped"}
    BY <2>1, <2>2 DEF Settle, ConsumerInv, Links, LinkShape
  <2> QED  BY <1>4, <2>3, RedeliveredStays, LossesCount DEF DeliveryInv
<1> QED  BY <1>3, <1>4, <1>5 DEF DeliveryInv

\* A delivery takes an idle job, which has done nothing for any event.
LEMMA DeliverCounts ==
  ASSUME ConsumerAssumption, ConsumerInv, DeliveryInv,
         NEW r \in Replica, NEW e \in Event, Deliver(r, e)
  PROVE  DeliveryInv'
<1>1. PICK j \in Job : /\ Mail!At(j, "idle") /\ Mail!BeginTemplate(j)
                       /\ event' = [event EXCEPT ![j] = e]
  BY DEF Deliver
<1>2. /\ job[j].pc = "idle" /\ Mail!Goto(j, "template")
      /\ place[e] = "queued" /\ place' = [place EXCEPT ![e] = "out"]
      /\ UNCHANGED <<row, mailed, faults, bound, losses>>
  BY <1>1 DEF Deliver, Mail!At, Mail!BeginTemplate, Mail!Begin
<1>3. /\ event \in [Job -> Event \cup {Nobody}] /\ place \in [Event -> Place]
      /\ event[j] = Nobody /\ Nobody \notin Event
  BY <1>2, ConsumerAssumption DEF ConsumerInv, Links, LinkShape, Assigned
<1>4. /\ job'[j].pc = "template" /\ job'[j].attempt = job[j].attempt
      /\ \A k \in Job \ {j} : job'[k] = job[k]
  BY <1>2, GotoCounts DEF ConsumerInv, Jobs, JobShape, Mail!Goto
<1>5. Counts' /\ LossBounds'
  BY <1>2, <1>4 DEF DeliveryInv, Counts, Counted, Paid, LossBounds
<1>6. ASSUME NEW d \in Event PROVE Redelivered(d)'
  <2>1. CASE d = e
    <3>1. Deliveries(e)' = Deliveries(e) \cup {j} /\ j \notin Deliveries(e)
      BY <1>1, <1>3 DEF Deliveries
    <3>2. IsFiniteSet(Deliveries(e)) /\ Cardinality(Deliveries(e)) <= losses
      BY <1>2 DEF DeliveryInv, Redelivered
    <3>3. IsFiniteSet(Deliveries(e)') /\ Cardinality(Deliveries(e)') = Cardinality(Deliveries(e)) + 1
      BY <3>1, <3>2, FS_AddElement
    <3>4. losses \in Nat /\ Cardinality(Deliveries(e)) \in Nat
      BY <3>2, FS_CardinalityType, LossesCount DEF DeliveryInv
    <3>5. place'[e] = "out" /\ losses' = losses
      BY <1>2, <1>3
    <3> QED  BY <2>1, <3>2, <3>3, <3>4, <3>5 DEF Redelivered
  <2>2. CASE d # e
    <3>1. Deliveries(d)' = Deliveries(d) /\ place'[d] = place[d]
      BY <1>1, <1>2, <1>3, <2>2 DEF Deliveries
    <3> QED  BY <1>2, <3>1 DEF DeliveryInv, Redelivered
  <2> QED  BY <2>1, <2>2
<1> QED  BY <1>5, <1>6 DEF DeliveryInv

LEMMA NextCounts ==
  ConsumerAssumption /\ ConsumerInv /\ DeliveryInv /\ [Next]_vars => DeliveryInv'
<1> SUFFICES ASSUME ConsumerAssumption, ConsumerInv, DeliveryInv, [Next]_vars PROVE DeliveryInv'
  OBVIOUS
<1>1. CASE UNCHANGED vars
  <2>1. Counts' /\ LossBounds'
    BY <1>1, CountsStay DEF vars, DeliveryInv, LossBounds
  <2>2. ASSUME NEW d \in Event PROVE Redelivered(d)'
    BY <1>1, RedeliveredStays, LossesCount DEF vars, DeliveryInv
  <2> QED  BY <2>1, <2>2 DEF DeliveryInv
<1> QED
  BY <1>1, PublishCounts, LinkCounts, LoseCounts, ExitCounts, DeliverCounts, WorkCounts DEF Next

\* How often an event is delivered and how many mails its jobs send, against the
\* losses and failures that account for it.
THEOREM DeliveriesAreBounded == Spec => []DeliveryInv
  BY InitCounts, NextCounts, ConsumerInvariant, ConsumerAssumption, PTL DEF Spec

\* The types of the consumer and of its jobs.
THEOREM TypeCorrect == Spec => []TypeOK
<1>1. ConsumerInv /\ DeliveryInv => TypeOK
  <2> SUFFICES ASSUME ConsumerInv, DeliveryInv PROVE TypeOK
    OBVIOUS
  <2>1. ASSUME NEW j \in Job
        PROVE  /\ job[j] \in [pc : Pc, attempt : 0..MaxRetries]
               /\ row[j] \in [status : Mail!Status, retries : 0..MaxRetries]
    <3>1. Counted(j) /\ MaxRetries \in Nat
      BY ConsumerAssumption DEF ConsumerAssumption, DeliveryInv, Counts
    <3>2. job[j] \in [pc : Pc, attempt : Nat] /\ row[j] \in [status : Mail!Status, retries : Nat]
      BY DEF ConsumerInv, Jobs, JobShape
    <3>3. job[j].attempt \in 0..MaxRetries /\ row[j].retries \in 0..MaxRetries
      BY <3>1, <3>2 DEF Counted
    <3> QED  BY <3>2, <3>3
  <2>2. /\ job \in [Job -> [pc : Pc, attempt : 0..MaxRetries]]
        /\ row \in [Job -> [status : Mail!Status, retries : 0..MaxRetries]]
    BY <2>1 DEF ConsumerInv, Jobs, JobShape
  <2>3. Mail!TypeOK
    BY <2>2 DEF ConsumerInv, Jobs, JobShape, DeliveryInv, Counts, Mail!TypeOK, Pc
  <2> QED  BY <2>3 DEF TypeOK, ConsumerInv, Links, LinkShape, DeliveryInv, LossBounds
<1> QED  BY <1>1, ConsumerInvariant, DeliveriesAreBounded, PTL

\* Redelivery is paid for: each delivery of an event after the first by a lost
\* connection or process, and each mail of a delivery after its first by a failure
\* of the database (RabbitMQClient.consume with EmailService.sendNotification).
THEOREM MailsAreBounded == Spec => []MailsPerEventBounded
<1>1. ConsumerInv /\ DeliveryInv => MailsPerEventBounded
  <2> SUFFICES ASSUME DeliveryInv, NEW e \in Event
               PROVE  /\ Cardinality(Deliveries(e)) <= 1 + losses
                      /\ \A j \in Deliveries(e) : mailed[j] <= 1 + faults[j]
    BY DEF MailsPerEventBounded
  <2>1. Redelivered(e) /\ losses \in Nat
    BY LossesCount, ConsumerAssumption DEF DeliveryInv
  <2>2. Cardinality(Deliveries(e)) \in Nat
    BY <2>1, FS_CardinalityType DEF Redelivered
  <2> QED  BY <2>1, <2>2 DEF Redelivered, DeliveryInv, Counts, Paid, Deliveries
<1> QED  BY <1>1, ConsumerInvariant, DeliveriesAreBounded, PTL

\* One delivery, one answer: holds because only a delivery that is out can be
\* settled or queued again, which the action's guards do not say.
THEOREM SettledStaysSettled == Spec => SettledIsFinal
<1>1. ASSUME ConsumerInv, [Next]_vars, NEW e \in Event, place[e] \in {"acked", "dropped"}
      PROVE  place'[e] = place[e]
  <2> USE DEF ConsumerInv, Links
  <2>1. place \in [Event -> Place] /\ \A j \in live : place[event[j]] = "out"
    BY <1>1 DEF LinkShape, Settleable
  <2>2. ASSUME NEW r \in Replica, Requeue(r) PROVE place'[e] = place[e]
    BY <1>1, <2>1, <2>2 DEF Requeue
  <2>3. ASSUME NEW j \in Job, Work(j) PROVE place'[e] = place[e]
    <3>1. place' = place \/ (j \in live /\ Settle(j, job'[j].pc))
      BY <2>3 DEF Work, SettleStale
    <3> QED  BY <1>1, <2>1, <3>1 DEF Settle
  <2>4. ASSUME NEW d \in Event, Publish(d) PROVE place'[e] = place[e]
    BY <1>1, <2>1, <2>4 DEF Publish
  <2>5. ASSUME NEW r \in Replica, NEW d \in Event, Deliver(r, d) PROVE place'[e] = place[e]
    BY <1>1, <2>1, <2>5 DEF Deliver
  <2>6. ASSUME NEW r \in Replica, Start(r) \/ Reconnect(r) PROVE place'[e] = place[e]
    BY <2>6 DEF Start, Reconnect
  <2>7. CASE UNCHANGED vars
    BY <2>7 DEF vars
  <2> QED
    BY <1>1, <2>2, <2>3, <2>4, <2>5, <2>6, <2>7 DEF Next, Lose, Kill, Perish, Exit
<1>2. ConsumerInv /\ [Next]_vars =>
        [\A e \in Event : place[e] \in {"acked", "dropped"} => place'[e] = place[e]]_vars
  BY <1>1
<1> QED  BY <1>2, ConsumerInvariant, PTL DEF Spec, SettledIsFinal

\* Reconnecting is not resuming.
THEOREM DeafStaysDeaf == Spec => DeafUntilRestart
<1>1. ASSUME ConsumerInv, [Next]_vars, NEW r \in Replica, link[r] \in {"lost", "bare", "dying"}
      PROVE  link'[r] # "subscribed" /\ \A j \in Job : owner'[j] = r => owner[j] = r
  <2>1. link \in [Replica -> Link] /\ owner \in [Job -> Replica \cup {Nobody}]
    BY <1>1 DEF ConsumerInv, Links, LinkShape
  <2>2. ASSUME NEW s \in Replica, Start(s) \/ Lose(s) \/ Reconnect(s) \/ Kill(s) \/ Perish(s)
        PROVE  link'[r] # "subscribed" /\ UNCHANGED owner
    BY <1>1, <2>1, <2>2 DEF Start, Lose, Reconnect, Kill, Perish, Exit
  <2>3. ASSUME NEW s \in Replica, NEW e \in Event, Deliver(s, e)
        PROVE  link'[r] # "subscribed" /\ \A j \in Job : owner'[j] = r => owner[j] = r
    <3>1. PICK j \in Job : owner' = [owner EXCEPT ![j] = s] /\ s # r /\ UNCHANGED link
      BY <1>1, <2>3 DEF Deliver
    <3> QED  BY <1>1, <2>1, <3>1
  <2>4. ASSUME NEW j \in Job, Work(j) PROVE link'[r] # "subscribed" /\ UNCHANGED owner
    BY <1>1, <2>1, <2>4 DEF Work, Settle, SettleStale
  <2>5. CASE UNCHANGED vars \/ \E e \in Event : Publish(e)
    BY <1>1, <2>5 DEF vars, Publish
  <2> QED  BY <1>1, <2>2, <2>3, <2>4, <2>5 DEF Next
<1>2. ConsumerInv /\ [Next]_vars =>
        [\A r \in Replica :
           link[r] \in {"lost", "bare", "dying"} =>
             /\ link'[r] # "subscribed"
             /\ \A j \in Job : owner'[j] = r => owner[j] = r]_vars
  BY <1>1
<1> QED  BY <1>2, ConsumerInvariant, PTL DEF Spec, DeafUntilRestart
=============================================================================

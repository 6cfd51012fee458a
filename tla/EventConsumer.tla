---------------------------- MODULE EventConsumer ----------------------------
(***************************************************************************)
(* The consumer of the notification service: RabbitMQClient, EventConsumer *)
(* and the invite.created handler, on several replicas, with the queue of  *)
(* the broker.  Each delivery starts a job of EmailService.                *)
(*                                                                         *)
(* Of the broker: it keeps an event until it is settled, gives the ones    *)
(* that a lost channel had not settled to somebody else, and leaves at     *)
(* most prefetch of them with one consumer.                                *)
(***************************************************************************)
EXTENDS Naturals, FiniteSetsExt

CONSTANTS
  Replica,
  Event,        \* invite.created events
  Job,          \* deliveries: the calls of the handler
  Nobody,
  Prefetch,
  MaxLosses,    \* bound on lost connections and deaths
  MaxRetries, MaxFaults

ASSUME ConsumerAssumption ==
  /\ Nobody \notin Replica \cup Event
  /\ Prefetch \in Nat \ {0}
  /\ MaxLosses \in Nat
  /\ MaxRetries \in Nat \ {0}
  /\ MaxFaults \in Nat

VARIABLES
  job, row, log, mailed, faults,    \* of EmailService
  place,     \* where an event is
  bound,     \* the queue exists and is bound to the exchange
  link,      \* a replica's process and its connection
  owner,     \* the replica a job runs on
  event,     \* the event it handles
  live,      \* jobs whose delivery their channel can still settle
  losses     \* connections lost and processes killed so far

Mail == INSTANCE EmailService

mailVars == <<job, row, log, mailed, faults>>
vars == <<mailVars, place, bound, link, owner, event, live, losses>>

\* A replica is "subscribed" with its consumers registered, "lost" while it has no
\* connection, "bare" with a new connection and no consumers, "dying" once a
\* promise was rejected and nobody handled it.
Link == {"down", "subscribed", "lost", "bare", "dying"}
Place == {"new", "unrouted", "queued", "out", "acked", "dropped"}

TypeOK ==
  /\ Mail!TypeOK
  /\ place \in [Event -> Place]
  /\ bound \in BOOLEAN
  /\ link \in [Replica -> Link]
  /\ owner \in [Job -> Replica \cup {Nobody}]
  /\ event \in [Job -> Event \cup {Nobody}]
  /\ live \subseteq Job
  /\ losses \in 0..MaxLosses

Init ==
  /\ Mail!Init
  /\ place = [e \in Event |-> "new"]
  /\ bound = FALSE
  /\ link = [r \in Replica |-> "down"]
  /\ owner = [j \in Job |-> Nobody]
  /\ event = [j \in Job |-> Nobody]
  /\ live = {}
  /\ losses = 0

Running(j) == job[j].pc \in Mail!Running
JobsOf(r) == {j \in Job : owner[j] = r}
Deliveries(e) == {j \in Job : event[j] = e}

-----------------------------------------------------------------------------
(* Mutated forms of definitions below: the bugs the properties must catch. *)

\* A message whose handler throws is put back in the queue.
NackRequeues(j, pc) ==
  /\ place' = [place EXCEPT ![event[j]] = IF pc = "ok" THEN "acked" ELSE "queued"]
  /\ live' = live \ {j}
  /\ UNCHANGED link

\* A message is acknowledged whatever its handler did.
AckAlways(j, pc) ==
  /\ place' = [place EXCEPT ![event[j]] = "acked"]
  /\ live' = live \ {j}
  /\ UNCHANGED link

\* A message whose handler throws is not answered at all.
NackMissing(j, pc) ==
  IF pc = "ok"
  THEN /\ place' = [place EXCEPT ![event[j]] = "acked"]
       /\ live' = live \ {j}
       /\ UNCHANGED link
  ELSE UNCHANGED <<place, live, link>>

\* Jobs stop when the connection that delivered their event is lost.
WorkLiveOnly(j) ==
  /\ j \in live
  /\ Mail!Step(j)
  /\ IF job'[j].pc \notin {"ok", "error"}
     THEN UNCHANGED <<place, live, link>>
     ELSE /\ place' = [place EXCEPT ![event[j]] = IF job'[j].pc = "ok" THEN "acked" ELSE "dropped"]
          /\ live' = live \ {j}
          /\ UNCHANGED link
  /\ UNCHANGED <<bound, owner, event, losses>>

\* The attempts to reconnect are limited.
ReconnectLimited(r) ==
  /\ link[r] = "lost"
  /\ losses < MaxLosses
  /\ link' = [link EXCEPT ![r] = "bare"]
  /\ UNCHANGED <<mailVars, place, bound, owner, event, live, losses>>

-----------------------------------------------------------------------------
(* The broker.                                                             *)

\* The organization service publishes; nobody keeps what no queue is bound to.
Publish(e) ==
  /\ place[e] = "new"
  /\ place' = [place EXCEPT ![e] = IF bound THEN "queued" ELSE "unrouted"]
  /\ UNCHANGED <<mailVars, bound, link, owner, event, live, losses>>

\* The channel of a replica is gone: what it had not settled is queued again.
Requeue(r) ==
  LET Unsettled == {event[j] : j \in live \cap JobsOf(r)}
  IN  /\ place' = [e \in Event |-> IF e \in Unsettled THEN "queued" ELSE place[e]]
      /\ live' = live \ JobsOf(r)

-----------------------------------------------------------------------------
(* A replica.                                                              *)

\* server.js and EventConsumer.start: connect, declare, bind, consume.  When one
\* of these fails the process exits and is started again.
Start(r) ==
  /\ link[r] = "down"
  /\ link' = [link EXCEPT ![r] = "subscribed"]
  /\ bound' = TRUE
  /\ UNCHANGED <<mailVars, place, owner, event, live, losses>>

\* The callback of consume, up to the first await of the handler.
Deliver(r, e) ==
  /\ link[r] = "subscribed"
  /\ place[e] = "queued"
  /\ Cardinality(live \cap JobsOf(r)) < Prefetch
  /\ \E j \in Job : Mail!At(j, "idle")
  /\ LET j == CHOOSE k \in Job : Mail!At(k, "idle")
     IN  /\ Mail!BeginTemplate(j)
         /\ owner' = [owner EXCEPT ![j] = r]
         /\ event' = [event EXCEPT ![j] = e]
         /\ live' = live \cup {j}
  /\ place' = [place EXCEPT ![e] = "out"]
  /\ UNCHANGED <<bound, link, losses>>

\* ack or nack without requeue, on the channel the delivery came from.
Settle(j, pc) ==
  /\ place' = [place EXCEPT ![event[j]] = IF pc = "ok" THEN "acked" ELSE "dropped"]
  /\ live' = live \ {j}
  /\ UNCHANGED link

\* The same after that channel was lost.  On the closed channel ack throws, and
\* so does nack in the catch block: a rejection nobody handles.  On the channel of
\* a new connection the delivery tag is unknown: the broker closes the channel,
\* whose 'error' nobody listens to.
SettleStale(j) ==
  /\ \/ link' = [link EXCEPT ![owner[j]] = "dying"]
     \/ link[owner[j]] = "bare" /\ UNCHANGED link
  /\ UNCHANGED <<place, live>>

\* A job takes a step; its last one also settles the delivery.
Work(j) ==
  /\ owner[j] # Nobody
  /\ link[owner[j]] # "dying"
  /\ Mail!Step(j)
  /\ IF job'[j].pc \notin {"ok", "error"} THEN UNCHANGED <<place, live, link>>
     ELSE IF j \in live THEN Settle(j, job'[j].pc)
     ELSE SettleStale(j)
  /\ UNCHANGED <<bound, owner, event, losses>>

\* The connection closes; the 'close' callback sets a timer.
Lose(r) ==
  /\ link[r] \in {"subscribed", "bare"}
  /\ losses < MaxLosses
  /\ losses' = losses + 1
  /\ link' = [link EXCEPT ![r] = "lost"]
  /\ Requeue(r)
  /\ UNCHANGED <<mailVars, bound, owner, event>>

\* The timer calls connect, until it succeeds; nobody calls consume again.
Reconnect(r) ==
  /\ link[r] = "lost"
  /\ link' = [link EXCEPT ![r] = "bare"]
  /\ UNCHANGED <<mailVars, place, bound, owner, event, live, losses>>

\* The process ends, and its jobs with it.
Exit(r) ==
  /\ Mail!Die(JobsOf(r))
  /\ link' = [link EXCEPT ![r] = "down"]
  /\ Requeue(r)
  /\ UNCHANGED <<bound, owner, event>>

Kill(r) ==
  /\ link[r] \in {"subscribed", "lost", "bare"}
  /\ losses < MaxLosses
  /\ losses' = losses + 1
  /\ Exit(r)

Perish(r) == link[r] = "dying" /\ Exit(r) /\ UNCHANGED losses

-----------------------------------------------------------------------------

Next ==
  \/ \E e \in Event : Publish(e)
  \/ \E r \in Replica : Start(r) \/ Lose(r) \/ Reconnect(r) \/ Kill(r) \/ Perish(r)
  \/ \E r \in Replica, e \in Event : Deliver(r, e)
  \/ \E j \in Job : Work(j)

Spec == Init /\ [][Next]_vars

\* The supervisor restarts what ended, the reconnect timer fires, the broker
\* delivers what a consumer can take, and calls are answered.
Fairness ==
  /\ \A r \in Replica :
       /\ WF_vars(Start(r)) /\ WF_vars(Reconnect(r)) /\ WF_vars(Perish(r))
       /\ WF_vars(\E e \in Event : Deliver(r, e))
  /\ \A j \in Job : WF_vars(Work(j))

FairSpec == Spec /\ Fairness

-----------------------------------------------------------------------------
(* Properties.                                                             *)

\* An event that the broker counts as delivered and unsettled is being handled by
\* exactly one job that can settle it, on a replica with consumers: none is
\* forgotten, although jobs go on after their channel was lost.
OutMeansHandled ==
  \A e \in Event :
    Cardinality({j \in live \cap Deliveries(e) :
                   Running(j) /\ link[owner[j]] = "subscribed"})
      = IF place[e] = "out" THEN 1 ELSE 0

\* ack comes after the work: an acknowledged event has a notification marked SENT
\* and logged.  nack loses an event only after a failure of the database.
SettledMeansDone ==
  \A e \in Event :
    /\ place[e] = "acked" =>
         \E j \in Deliveries(e) : row[j].status = "SENT" /\ "SENT" \in log[j]
    /\ place[e] = "dropped" => \E j \in Deliveries(e) : faults[j] > 0

\* Each delivery of an event after the first costs a lost connection or process,
\* and each mail of a delivery after its first a failure of the database: an event
\* takes at most one mail more than there were losses and failures.
MailsPerEventBounded ==
  \A e \in Event :
    /\ Cardinality(Deliveries(e)) <= 1 + losses
    /\ \A j \in Deliveries(e) : mailed[j] <= 1 + faults[j]

\* An event is settled once: what was acknowledged or dropped is never queued or
\* delivered again, by no loss and by no job that outlived its channel.
SettledIsFinal ==
  [][\A e \in Event : place[e] \in {"acked", "dropped"} => place'[e] = place[e]]_vars

\* A replica that lost its connection takes no event until its process has ended and
\* been started again, whether it connects or not (rabbitmq.js 34-37: connect does
\* not call consume).
DeafUntilRestart ==
  [][\A r \in Replica :
       link[r] \in {"lost", "bare", "dying"} =>
         /\ link'[r] # "subscribed"
         /\ \A j \in Job : owner'[j] = r => owner[j] = r]_vars

\* The jobs of the consumer are jobs of EmailService, and what holds of those
\* holds of these.
ImplementsEmailService == Mail!FairSpec

\* An event in the queue is settled, unless every replica has reconnected and
\* none consumes.
Deaf == \A r \in Replica : link[r] = "bare"

SettledUnlessDeaf ==
  \A e \in Event : place[e] = "queued" ~> (place[e] \in {"acked", "dropped"} \/ Deaf)

-----------------------------------------------------------------------------
(* A claim of the documentation that the code does not keep.               *)

\* "RabbitMQ connection closed. Reconnecting..." (rabbitmq.js 35), "invite.created
\* -> Envia email de convite" (README.md 87): an event in the queue is settled.
EventsSettle == \A e \in Event : place[e] = "queued" ~> place[e] \in {"acked", "dropped"}

=============================================================================

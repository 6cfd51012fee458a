--------------------------- MODULE InvitePipeline ---------------------------
(***************************************************************************)
(* The way of one invite.created event from InvitesService.create through  *)
(* RabbitMQService to the queue of the notification service: EventPublisher *)
(* with the socket, the broker and what the caller is answered.            *)
(*                                                                         *)
(* The event, letter, is any of those that are emitted; the others are the *)
(* steps of EventPublisher that letter does not take part in.              *)
(*                                                                         *)
(* Of the broker: publish only writes to the socket of the connection, the *)
(* broker takes events in from there, and keeps none that no queue is      *)
(* bound to.  The queue is bound when a consumer starts (EventConsumer).   *)
(***************************************************************************)
EXTENDS EventPublisher

VARIABLES
  letter,   \* where the event is, the emit that runs for it, and its answer
  bound,    \* the queue exists and is bound to the exchange
  alone,    \* no two connect loops have overlapped since the process started
  doomed    \* the invite was created while its publisher was stuck

pipelineVars == <<vars, letter, bound, alone, doomed>>

Stage == {"unwritten", "calling", "refused", "buffered", "lost", "queued", "unrouted"}
Answer == {"none", "true", "false", "died"}
Handed == {"buffered", "lost", "queued", "unrouted"}

PipelineTypeOK ==
  /\ TypeOK
  /\ letter \in [stage : Stage, emit : Emit \cup {None}, conn : Conn \cup {None},
                 answer : Answer]
  /\ {bound, alone, doomed} \subseteq BOOLEAN

PipelineInit ==
  /\ Init
  /\ letter = [stage |-> "unwritten", emit |-> None, conn |-> None, answer |-> "none"]
  /\ bound = FALSE
  /\ alone = TRUE
  /\ doomed = FALSE

Tracked(e) == letter.emit = e /\ letter.answer = "none"

Loops == {t \in Task : task[t].pc \in LoopPc}

\* History: a process starts alone; an invite may find its publisher stuck.
Watch ==
  /\ alone' = (~serving' \/ (alone /\ \A s, t \in Loops' : s = t))
  /\ doomed' = (doomed \/ (letter.stage = "unwritten" /\ letter' # letter /\ Stuck))

-----------------------------------------------------------------------------
(* Mutated forms of definitions below: the bugs the properties must catch. *)

\* emit answers true whenever publish did not have to wait.
FateIgnoresThrow(e) ==
  IF task'[e].pc = "drain"
  THEN [stage |-> "buffered", emit |-> e, conn |-> channel, answer |-> "none"]
  ELSE IF task'[e].pc # "idle"
  THEN [stage |-> "calling", emit |-> e, conn |-> None, answer |-> "none"]
  ELSE IF isConnected /\ channel \in open
  THEN [stage |-> "buffered", emit |-> e, conn |-> channel, answer |-> "true"]
  ELSE [stage |-> "refused", emit |-> e, conn |-> None, answer |-> "true"]

\* emit forgets its "return true".
FateWithoutAnswer(e) ==
  IF task'[e].pc \notin {"idle", "drain"}
  THEN [stage |-> "calling", emit |-> e, conn |-> None, answer |-> "none"]
  ELSE IF isConnected /\ channel \in open
  THEN [stage |-> "buffered", emit |-> e, conn |-> channel,
        answer |-> IF task'[e].pc = "drain" THEN "none" ELSE "undefined"]
  ELSE [stage |-> "refused", emit |-> e, conn |-> None, answer |-> "false"]

-----------------------------------------------------------------------------
(* The caller: InvitesService.create, after the row of the invite is there. *)

\* What has become of the event after a step of emit e: publish wrote it to the
\* socket and answers now or after 'drain', or threw, or was not reached.
Fate(e) ==
  IF task'[e].pc \notin {"idle", "drain"}
  THEN [stage |-> "calling", emit |-> e, conn |-> None, answer |-> "none"]
  ELSE IF isConnected /\ channel \in open
  THEN [stage |-> "buffered", emit |-> e, conn |-> channel,
        answer |-> IF task'[e].pc = "drain" THEN "none" ELSE "true"]
  ELSE [stage |-> "refused", emit |-> e, conn |-> None, answer |-> "false"]

Create(e) ==
  /\ EmitEvent(e)
  /\ \/ letter.stage = "unwritten" /\ letter' = Fate(e)
     \/ UNCHANGED letter

Resume(e) ==
  /\ Recheck(e)
  /\ letter' = IF Tracked(e) THEN Fate(e) ELSE letter

Drained(e) ==
  /\ Drain(e)
  /\ letter' = IF Tracked(e) THEN [letter EXCEPT !.answer = "true"] ELSE letter

-----------------------------------------------------------------------------
(* The socket and the broker.                                              *)

Bind == bound' = TRUE /\ UNCHANGED <<vars, letter>>

\* The broker takes the event in.
Transmit ==
  /\ letter.stage = "buffered"
  /\ letter' = [letter EXCEPT !.stage = IF bound THEN "queued" ELSE "unrouted"]
  /\ UNCHANGED <<vars, bound>>

\* What is in the socket of a connection that ends is gone, and so is what a
\* process that ends was doing.
CutOff(died) ==
  LET cut == letter.stage = "buffered" /\ letter.conn \notin open'
      left == died /\ letter.answer = "none" /\ letter.stage # "unwritten"
  IN  letter' = [letter EXCEPT
                   !.stage = IF cut THEN "lost"
                             ELSE IF left /\ @ = "calling" THEN "refused" ELSE @,
                   !.answer = IF left THEN "died" ELSE @]

-----------------------------------------------------------------------------

PipelineNext ==
  /\ \/ \E t \in Task : ConnectStep(t) /\ UNCHANGED <<letter, bound>>
     \/ \E e \in Emit : (Create(e) \/ Resume(e) \/ Drained(e)) /\ UNCHANGED bound
     \/ Booted /\ UNCHANGED <<letter, bound>>
     \/ \E c \in Conn : (Closed(c) \/ Broken(c)) /\ CutOff(FALSE) /\ UNCHANGED bound
     \/ \E c \in Conn : Crash(c) /\ CutOff(TRUE) /\ UNCHANGED bound
     \/ Bind
     \/ Transmit
  /\ Watch

PipelineSpec ==
  PipelineInit /\ [][PipelineNext]_pipelineVars /\ Fairness

-----------------------------------------------------------------------------
(* Properties.                                                             *)

\* isHealthy tells the truth, and no connection is left behind, until two connect
\* loops have overlapped in this process (rabbitmq.service.ts 91-121).
SoundWhenAlone == alone => HealthyMeansUsable /\ NothingLeaked

\* What emit answers is so: an event it answered false for never reaches the
\* broker, and one it answered true for was written to a socket that was up and is
\* lost only with that connection, or for want of a queue (lines 199-227).
AnswersAreKept ==
  /\ letter.answer = "false" => letter.stage = "refused"
  /\ letter.answer = "true" => letter.stage \in Handed
  /\ letter.stage = "lost" => letter.conn \notin open

\* To the caller the publisher is a one-shot announcement (Announcement): however
\* connects overlap and whatever connections and processes end, an event goes out
\* at most once, its answer is given once and never against the truth, and only the
\* connection it was written to can lose it (lines 172-228).
Said == INSTANCE Announcement WITH
          stage <- IF letter.stage \in {"unwritten", "calling"} THEN "unsaid"
                                                               ELSE letter.stage,
          answer <- letter.answer

ImplementsAnnouncement == Said!Spec

\* An invite that is created while the publisher is stuck gets no mail, whatever
\* comes after: no emit that overlaps unsticks the publisher before its own emit
\* looks again, and when the end of the process does, nobody emits the event again.
\* The log says that the mail "may be delayed" (invites.service.ts 99-121).
StuckMeansNoMail == doomed => letter.stage \in {"calling", "refused"}

=============================================================================

--------------------------- MODULE EventPublisher ---------------------------
(***************************************************************************)
(* RabbitMQService of the organization service, in one process: connect,   *)
(* emit, and the callbacks on the connection.                              *)
(*                                                                         *)
(* The process runs one piece of code at a time and may switch at every    *)
(* await, so an action is what runs from one await to the next.  emit      *)
(* calls overlap, one per request being served, and each may run its own   *)
(* connect loop over the same fields.  A channel belongs to the connection *)
(* it was opened on and is named after it.                                 *)
(*                                                                         *)
(* Of amqplib: a lost connection emits 'close', and 'error' before it      *)
(* unless the broker closed it in good order; an 'error' nobody listens to *)
(* ends the process, which its supervisor starts again; publishing on a    *)
(* closed channel throws; 'drain' comes only from a live channel.          *)
(***************************************************************************)
EXTENDS Naturals, FiniteSets

CONSTANTS
  Emit,        \* emit calls that can overlap
  Boot,        \* the connect of onModuleInit
  Conn,        \* connections the process can open: the bound on losses
  None,
  MaxRetries   \* this.maxRetries

ASSUME PublisherAssumption ==
  /\ Boot \notin Emit
  /\ None \notin Conn \cup Emit
  /\ MaxRetries \in Nat \ {0}

VARIABLES
  isConnected,
  connectionAttempts,
  connection,   \* this.connection
  channel,      \* this.channel, as the connection it was opened on
  open,         \* connections that are up
  listening,    \* connections with the 'close' and 'error' callbacks
  drawn,        \* connections opened so far
  serving,      \* onModuleInit has returned and requests arrive
  task          \* where each call is, and the connection or channel it awaits

fields == <<isConnected, connectionAttempts, connection, channel>>
network == <<open, listening, drawn>>
vars == <<fields, network, serving, task>>

Task == Emit \cup {Boot}

LoopPc == {"dial", "openChannel", "assertExchange", "sleep"}
Pc == LoopPc \cup {"idle", "recheck", "drain"}

At(pc, c) == [pc |-> pc, conn |-> c]

TypeOK ==
  /\ isConnected \in BOOLEAN
  /\ connectionAttempts \in 0..MaxRetries
  /\ connection \in drawn \cup {None}
  /\ channel \in drawn \cup {None}
  /\ open \subseteq drawn
  /\ listening \subseteq drawn
  /\ drawn \subseteq Conn
  /\ serving \in BOOLEAN
  /\ task \in [Task -> [pc : Pc, conn : Conn \cup {None}]]

\* Module initialization calls connect, whose loop dials at once.
Init ==
  /\ isConnected = FALSE
  /\ connectionAttempts = 1
  /\ connection = None
  /\ channel = None
  /\ open = {}
  /\ listening = {}
  /\ drawn = {}
  /\ serving = FALSE
  /\ task = [t \in Task |-> IF t = Boot THEN At("dial", None) ELSE At("idle", None)]

Goto(t, pc, c) == task' = [task EXCEPT ![t] = At(pc, c)]

-----------------------------------------------------------------------------
(* Mutated forms of definitions below: the bugs the properties must catch. *)

\* The loop forgets that another call may have connected meanwhile.
LoopHeadBlind(t, attempts, connected) ==
  IF attempts < MaxRetries
  THEN connectionAttempts' = attempts + 1 /\ Goto(t, "dial", None)
  ELSE connectionAttempts' = attempts /\ Goto(t, "recheck", None)

\* The attempts start over whenever the loop has given up.
LoopHeadReset(t, attempts, connected) ==
  IF attempts < MaxRetries /\ ~connected
  THEN connectionAttempts' = attempts + 1 /\ Goto(t, "dial", None)
  ELSE connectionAttempts' = 0 /\ Goto(t, "recheck", None)

\* The attempts are counted past their limit.
LoopHeadOffByOne(t, attempts, connected) ==
  IF attempts <= MaxRetries /\ ~connected
  THEN connectionAttempts' = attempts + 1 /\ Goto(t, "dial", None)
  ELSE connectionAttempts' = attempts /\ Goto(t, "recheck", None)

\* The 'close' callback forgets the flag.
CloseKeepsFlag(c) ==
  IF c \in listening
  THEN /\ channel' = None
       /\ connection' = None
       /\ UNCHANGED <<isConnected, connectionAttempts>>
  ELSE UNCHANGED fields

\* A failed attempt is retried without counting the wait: the loop spins.
CatchForever(t) ==
  /\ connectionAttempts' = 0
  /\ Goto(t, "sleep", None)

\* An emit without a channel clears the flag before it connects.
EmitClearsFlag(e) ==
  /\ serving
  /\ task[e].pc = "idle"
  /\ IF isConnected /\ channel # None
     THEN Goto(e, "idle", None) /\ UNCHANGED <<isConnected, connectionAttempts>>
     ELSE /\ isConnected' = FALSE
          /\ Goto(e, "dial", None)
          /\ UNCHANGED connectionAttempts
  /\ UNCHANGED <<connection, channel, network, serving>>

\* An emit that finds the publisher disconnected starts the attempts over.
EmitStartsOver(e) ==
  /\ serving
  /\ task[e].pc = "idle"
  /\ IF isConnected
     THEN Goto(e, IF channel # None THEN "idle" ELSE "recheck", None)
          /\ UNCHANGED connectionAttempts
     ELSE Goto(e, "dial", None) /\ connectionAttempts' = 1
  /\ UNCHANGED <<isConnected, connection, channel, network, serving>>

-----------------------------------------------------------------------------
(* connect                                                                 *)

\* The condition of the while loop and, if it holds, the next dial.
LoopHead(t, attempts, connected) ==
  IF attempts < MaxRetries /\ ~connected
  THEN connectionAttempts' = attempts + 1 /\ Goto(t, "dial", None)
  ELSE connectionAttempts' = attempts /\ Goto(t, "recheck", None)

\* The catch block: wait before the next attempt, unless they are used up.
Catch(t) ==
  /\ UNCHANGED connectionAttempts
  /\ IF connectionAttempts < MaxRetries THEN Goto(t, "sleep", None)
                                        ELSE Goto(t, "recheck", None)

DialSucceeds(t) ==
  /\ task[t].pc = "dial"
  /\ \E c \in Conn \ drawn :
       /\ connection' = c
       /\ open' = open \cup {c}
       /\ drawn' = drawn \cup {c}
       /\ Goto(t, "openChannel", c)
  /\ UNCHANGED <<isConnected, connectionAttempts, channel, listening, serving>>

DialFails(t) ==
  /\ task[t].pc = "dial"
  /\ Catch(t)
  /\ UNCHANGED <<isConnected, connection, channel, network, serving>>

OpenChannel(t) ==
  /\ task[t].pc = "openChannel"
  /\ IF task[t].conn \in open
     THEN /\ channel' = task[t].conn
          /\ Goto(t, "assertExchange", task[t].conn)
          /\ UNCHANGED connectionAttempts
     ELSE /\ Catch(t)
          /\ UNCHANGED channel
  /\ UNCHANGED <<isConnected, connection, network, serving>>

\* The callbacks go to this.connection, whatever connection that is by now.
\* When it is null the code throws, with isConnected already set.
AssertExchange(t) ==
  /\ task[t].pc = "assertExchange"
  /\ \/ /\ task[t].conn \in open
        /\ isConnected' = TRUE
        /\ IF connection = None
           THEN /\ connectionAttempts' = 0
                /\ Goto(t, "sleep", None)
                /\ UNCHANGED listening
           ELSE /\ listening' = listening \cup {connection}
                /\ LoopHead(t, 0, TRUE)
     \/ /\ task[t].conn \notin open
        /\ Catch(t)
        /\ UNCHANGED <<isConnected, listening>>
  /\ UNCHANGED <<connection, channel, open, drawn, serving>>

Wake(t) ==
  /\ task[t].pc = "sleep"
  /\ LoopHead(t, connectionAttempts, isConnected)
  /\ UNCHANGED <<isConnected, connection, channel, network, serving>>

-----------------------------------------------------------------------------
(* emit                                                                    *)

\* publish: the message is handed over, or the channel's buffer is full and
\* emit waits for 'drain', or the channel is closed and publish throws.
Publish(e) ==
  \/ Goto(e, "idle", None)
  \/ /\ channel \in open
     /\ Goto(e, "drain", channel)

EmitEvent(e) ==
  /\ serving
  /\ task[e].pc = "idle"
  /\ IF isConnected /\ channel # None
     THEN Publish(e) /\ UNCHANGED connectionAttempts
     ELSE LoopHead(e, connectionAttempts, isConnected)
  /\ UNCHANGED <<isConnected, connection, channel, network, serving>>

\* connect has returned; without a channel emit answers false.
Recheck(e) ==
  /\ task[e].pc = "recheck"
  /\ IF isConnected /\ channel # None THEN Publish(e) ELSE Goto(e, "idle", None)
  /\ UNCHANGED <<fields, network, serving>>

Drain(e) ==
  /\ task[e].pc = "drain"
  /\ task[e].conn \in open
  /\ Goto(e, "idle", None)
  /\ UNCHANGED <<fields, network, serving>>

Booted ==
  /\ task[Boot].pc = "recheck"
  /\ serving' = TRUE
  /\ Goto(Boot, "idle", None)
  /\ UNCHANGED <<fields, network>>

-----------------------------------------------------------------------------
(* The connection goes away.                                               *)

OnClose(c) ==
  IF c \in listening
  THEN /\ isConnected' = FALSE
       /\ channel' = None
       /\ connection' = None
       /\ UNCHANGED connectionAttempts
  ELSE UNCHANGED fields

\* The broker closes the connection in good order: 'close' alone.
Closed(c) ==
  /\ c \in open
  /\ open' = open \ {c}
  /\ OnClose(c)
  /\ UNCHANGED <<listening, drawn, serving, task>>

\* The connection breaks: 'error', then 'close'.
Broken(c) ==
  /\ c \in open \cap listening
  /\ open' = open \ {c}
  /\ OnClose(c)
  /\ UNCHANGED <<listening, drawn, serving, task>>

\* The connection breaks and nobody listens: the process ends and restarts.
Crash(c) ==
  /\ c \in open \ listening
  /\ isConnected' = FALSE
  /\ connectionAttempts' = 1
  /\ connection' = None
  /\ channel' = None
  /\ open' = {}
  /\ listening' = {}
  /\ serving' = FALSE
  /\ task' = [t \in Task |->
                IF t = Boot THEN At("dial", None) ELSE At("idle", None)]
  /\ UNCHANGED drawn

-----------------------------------------------------------------------------

ConnectStep(t) ==
  DialSucceeds(t) \/ DialFails(t) \/ OpenChannel(t) \/ AssertExchange(t) \/ Wake(t)

EmitStep(e) == Recheck(e) \/ Drain(e)

Next ==
  \/ \E t \in Task : ConnectStep(t)
  \/ \E e \in Emit : EmitEvent(e) \/ EmitStep(e)
  \/ Booted
  \/ \E c \in Conn : Closed(c) \/ Broken(c) \/ Crash(c)

\* The event loop runs every continuation that is ready; dials, waits and
\* broker answers end one way or the other.
Fairness ==
  /\ \A t \in Task : WF_vars(ConnectStep(t))
  /\ \A e \in Emit : WF_vars(EmitStep(e))
  /\ WF_vars(Booted)

-----------------------------------------------------------------------------
(* Properties.                                                             *)

\* isHealthy tells the truth as long as emit calls do not overlap: when the
\* flag is set there is one connection, it is the one in use, it is up, and its
\* loss will be noticed (rabbitmq.service.ts 91-121 set these one by one).
HealthyMeansUsable ==
  isConnected =>
    /\ channel \in open \cap listening
    /\ connection = channel

\* Without overlap no connection is left behind when a new one is opened.
NothingLeaked == open \subseteq {connection}

Connecting == \E t \in Task : task[t].pc \in LoopPc

\* The attempts are used up and no call is in the connect loop.
GivenUp ==
  /\ ~isConnected
  /\ connectionAttempts = MaxRetries
  /\ ~Connecting

\* Overlapping connect loops can leave the flag set without a channel that is up,
\* because a 'close' callback clears whatever connection is current (111-115).
Wedged ==
  /\ isConnected
  /\ channel \notin open
  /\ open \cap listening = {}
  /\ ~Connecting

Stuck == GivenUp \/ Wedged

\* Only a successful connect resets connectionAttempts, and none is tried once
\* they are used up; and no emit dials while the flag is set: a publisher that
\* has given up, or is wedged, stays so until the process ends
\* (rabbitmq.service.ts 83, 172-178; the messages of lines 110 and 175 speak of
\* the next emit).
StuckIsForever ==
  [][(GivenUp => GivenUp' \/ ~serving') /\ (Wedged => Wedged' \/ ~serving')]_vars

\* Emit's promise settles unless its channel was lost while it waited for
\* 'drain', however many connect loops overlap and whatever fails.
WaitsForLostChannel(e) == task[e].pc = "drain" /\ task[e].conn \notin open

EmitSettlesOrHangs ==
  \A e \in Emit : task[e].pc # "idle" ~> (task[e].pc = "idle" \/ WaitsForLostChannel(e))

\* The service starts serving although the broker is unreachable ("allow
\* service to continue"), and so it does again after a crash.
ServesEventually == []<>serving

\* The steps onModuleInit has still to make until the service serves, if every
\* attempt that is left is made and fails as late as it can.
StepsFrom(pc, attempts) ==
  LET left == 4 * (MaxRetries - attempts)
  IN  CASE pc = "dial" -> left + 5
        [] pc = "openChannel" -> left + 4
        [] pc = "assertExchange" -> left + 3
        [] pc = "sleep" -> left + 2
        [] pc = "recheck" -> 1
        [] OTHER -> 0

StepsToServe == StepsFrom(task[Boot].pc, connectionAttempts)

BootIsBounded == ~serving => StepsToServe \in 1..(4 * MaxRetries + 1)

\* Behind ServesEventually: while the service is not up only its connect runs, and
\* each step of it brings serving nearer; only a connection that goes away before
\* it has its callbacks can set that back, by ending the process (lines 65-139).
BootOnlyProgresses ==
  [][~serving =>
       \/ UNCHANGED <<task, connectionAttempts, serving>>
       \/ StepsToServe' < StepsToServe
       \/ \E c \in open \ listening : c \notin open']_vars

=============================================================================

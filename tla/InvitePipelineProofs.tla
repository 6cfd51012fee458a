------------------------ MODULE InvitePipelineProofs ------------------------
(***************************************************************************)
(* Proofs about EventPublisher and InvitePipeline, for any number of emits *)
(* and connections and any maxRetries.  The invariant has three parts:     *)
(* what the fields of RabbitMQService say while connect loops do not       *)
(* overlap, where the event is when its emit is at each place, and what    *)
(* an event that found its publisher stuck can still come to.              *)
(***************************************************************************)
EXTENDS InvitePipeline, TLAPS

TaskType == [Task -> [pc : Pc, conn : Conn \cup {None}]]

Opening(t) == task[t].pc \in {"openChannel", "assertExchange"}

\* One loop at a time: it alone knows a connection that nobody listens to yet.
AloneInv ==
  /\ \A s, t \in Loops : s = t
  /\ open \subseteq {connection}
  /\ isConnected => channel \in open \cap listening /\ connection = channel /\ Loops = {}
  /\ \A t \in Task : Opening(t) => task[t].conn = connection /\ connection \notin listening
  /\ \A t \in Task : task[t].pc = "assertExchange" => channel = connection
  /\ ~isConnected /\ (\A t \in Task : ~Opening(t)) => open = {}

PublisherInv ==
  /\ TypeOK
  /\ alone \in BOOLEAN
  /\ ~serving => alone /\ \A e \in Emit : task[e].pc = "idle"
  /\ alone => AloneInv

\* An emit that has not settled holds the event before publish, or waits for
\* 'drain' after it.
LetterInv ==
  /\ letter \in [stage : Stage, emit : Emit \cup {None}, conn : Conn \cup {None},
                 answer : Answer]
  /\ bound \in BOOLEAN
  /\ letter.stage = "unwritten" => letter.emit = None /\ letter.answer = "none"
  /\ letter.stage # "unwritten" => letter.emit \in Emit
  /\ letter.stage \in {"buffered", "lost"} => letter.conn \in drawn
  /\ AnswersAreKept
  /\ \A e \in Emit : Tracked(e) =>
       \/ task[e].pc \in LoopPc \cup {"recheck"} /\ letter.stage = "calling"
       \/ task[e].pc = "drain" /\ letter.stage \in Handed

\* An event created while the publisher was stuck is refused, or its emit has still
\* to look and the publisher is stuck as before.
DoomedInv ==
  /\ doomed \in BOOLEAN
  /\ doomed => \/ letter.stage = "refused"
               \/ letter.stage = "calling" /\ letter.answer = "none" /\ Stuck /\ serving

-----------------------------------------------------------------------------
(* What the steps of a task do to task.                                    *)

Moves(t, S) ==
  /\ task' \in TaskType
  /\ task'[t].pc \in S
  /\ \A s \in Task \ {t} : task'[s] = task[s]

LEMMA GotoMoves ==
  ASSUME TypeOK, NEW t \in Task, NEW pc \in Pc, NEW c \in Conn \cup {None}, Goto(t, pc, c)
  PROVE  Moves(t, {pc}) /\ task'[t].conn = c
  BY DEF TypeOK, Goto, At, Moves, TaskType

LEMMA LoopHeadMoves ==
  ASSUME PublisherAssumption, TypeOK, NEW t \in Task, NEW a \in 0..MaxRetries,
         NEW b \in BOOLEAN, LoopHead(t, a, b)
  PROVE  /\ connectionAttempts' \in 0..MaxRetries
         /\ Moves(t, IF b THEN {"recheck"} ELSE {"dial", "recheck"})
<1>1. CASE a < MaxRetries /\ ~b
  <2>1. Moves(t, {"dial"})
    BY <1>1, GotoMoves DEF LoopHead, Pc, LoopPc
  <2> QED  BY <1>1, <2>1 DEF LoopHead, Moves, PublisherAssumption
<1>2. CASE ~(a < MaxRetries /\ ~b)
  <2>1. Moves(t, {"recheck"})
    BY <1>2, GotoMoves DEF LoopHead, Pc, LoopPc
  <2> QED  BY <1>2, <2>1 DEF LoopHead, Moves, PublisherAssumption
<1> QED  BY <1>1, <1>2

LEMMA Attempts == PublisherAssumption => {0, 1} \subseteq 0..MaxRetries
  BY DEF PublisherAssumption

\* After a success the loop ends.
LEMMA LoopEnds ==
  ASSUME PublisherAssumption, TypeOK, NEW t \in Task, LoopHead(t, 0, TRUE)
  PROVE  connectionAttempts' = 0 /\ Moves(t, {"recheck"})
<1>1. connectionAttempts' = 0 /\ Goto(t, "recheck", None)
  BY DEF LoopHead
<1>2. "recheck" \in Pc
  BY DEF Pc
<1> QED  BY <1>1, <1>2, GotoMoves

LEMMA CatchMoves ==
  ASSUME TypeOK, NEW t \in Task, Catch(t)
  PROVE  UNCHANGED connectionAttempts /\ Moves(t, {"sleep", "recheck"})
<1>1. Goto(t, "sleep", None) \/ Goto(t, "recheck", None)
  BY DEF Catch
<1>2. Moves(t, {"sleep"}) \/ Moves(t, {"recheck"})
  BY <1>1, GotoMoves DEF Pc, LoopPc
<1> QED  BY <1>2 DEF Catch, Moves

LEMMA PublishMoves ==
  ASSUME TypeOK, NEW e \in Emit, Publish(e)
  PROVE  Moves(e, {"idle", "drain"}) /\ (task'[e].pc = "drain" => channel \in open)
<1>1. CASE Goto(e, "idle", None)
  <2>1. Moves(e, {"idle"})
    BY <1>1, GotoMoves DEF Pc, LoopPc, Task
  <2> QED  BY <2>1 DEF Moves
<1>2. CASE channel \in open /\ Goto(e, "drain", channel)
  <2>1. Moves(e, {"drain"})
    BY <1>2, GotoMoves DEF Pc, LoopPc, Task, TypeOK
  <2> QED  BY <1>2, <2>1 DEF Moves
<1> QED  BY <1>1, <1>2 DEF Publish

\* All that the steps of a connect loop have in common.
LEMMA ConnectMoves ==
  ASSUME PublisherAssumption, TypeOK, NEW t \in Task, ConnectStep(t)
  PROVE  /\ task[t].pc \in LoopPc
         /\ Moves(t, LoopPc \cup {"recheck"})
         /\ UNCHANGED serving
         /\ \/ UNCHANGED <<open, drawn>>
            \/ \E c \in Conn \ drawn : open' = open \cup {c} /\ drawn' = drawn \cup {c}
<1>1. CASE DialSucceeds(t)
  <2>1. PICK c \in Conn \ drawn : /\ open' = open \cup {c}
                                  /\ drawn' = drawn \cup {c}
                                  /\ Goto(t, "openChannel", c)
    BY <1>1 DEF DialSucceeds
  <2>2. Moves(t, {"openChannel"})
    BY <2>1, GotoMoves DEF Pc, LoopPc
  <2> QED  BY <1>1, <2>1, <2>2 DEF DialSucceeds, Moves, LoopPc
<1>2. CASE DialFails(t)
  <2>1. Moves(t, {"sleep", "recheck"})
    BY <1>2, CatchMoves DEF DialFails
  <2> QED  BY <1>2, <2>1 DEF DialFails, Moves, LoopPc, network
<1>3. CASE OpenChannel(t)
  <2>1. CASE task[t].conn \in open
    <3>1. Moves(t, {"assertExchange"})
      BY <1>3, <2>1, GotoMoves DEF OpenChannel, Pc, LoopPc, TypeOK
    <3> QED  BY <1>3, <3>1 DEF OpenChannel, Moves, LoopPc, network
  <2>2. CASE task[t].conn \notin open
    <3>1. Moves(t, {"sleep", "recheck"})
      BY <1>3, <2>2, CatchMoves DEF OpenChannel
    <3> QED  BY <1>3, <3>1 DEF OpenChannel, Moves, LoopPc, network
  <2> QED  BY <2>1, <2>2
<1>4. CASE AssertExchange(t)
  <2>1. Goto(t, "sleep", None) \/ LoopHead(t, 0, TRUE) \/ Catch(t)
    BY <1>4 DEF AssertExchange
  <2>2. Moves(t, {"sleep"}) \/ Moves(t, {"recheck"}) \/ Moves(t, {"sleep", "recheck"})
    BY <2>1, GotoMoves, LoopEnds, CatchMoves DEF Pc, LoopPc
  <2> QED  BY <1>4, <2>2 DEF AssertExchange, Moves, LoopPc
<1>5. CASE Wake(t)
  <2>1. Moves(t, {"recheck"}) \/ Moves(t, {"dial", "recheck"})
    BY <1>5, LoopHeadMoves DEF Wake, TypeOK
  <2> QED  BY <1>5, <2>1 DEF Wake, Moves, LoopPc, network
<1> QED  BY <1>1, <1>2, <1>3, <1>4, <1>5 DEF ConnectStep

-----------------------------------------------------------------------------
(* The types of the publisher.                                             *)

LEMMA ConnectTypes ==
  ASSUME PublisherAssumption, TypeOK, NEW t \in Task, ConnectStep(t)
  PROVE  TypeOK'
<1>1. task' \in TaskType
  BY ConnectMoves DEF Moves
<1>2. connectionAttempts' \in 0..MaxRetries
  <2>1. CASE AssertExchange(t)
    <3>1. connectionAttempts' = 0 \/ LoopHead(t, 0, TRUE) \/ Catch(t)
      BY <2>1 DEF AssertExchange
    <3> QED  BY <3>1, Attempts, LoopEnds, CatchMoves DEF TypeOK
  <2>2. CASE OpenChannel(t)
    <3>1. UNCHANGED connectionAttempts \/ Catch(t)
      BY <2>2 DEF OpenChannel
    <3> QED  BY <3>1, CatchMoves DEF TypeOK
  <2>3. CASE DialSucceeds(t) \/ DialFails(t)
    BY <2>3, CatchMoves DEF DialSucceeds, DialFails, TypeOK
  <2>4. CASE Wake(t)
    BY <2>4, LoopHeadMoves DEF Wake, TypeOK
  <2> QED  BY <2>1, <2>2, <2>3, <2>4 DEF ConnectStep
<1>3. CASE DialSucceeds(t)
  BY <1>1, <1>2, <1>3 DEF DialSucceeds, TypeOK, TaskType
<1>4. CASE OpenChannel(t)
  BY <1>1, <1>2, <1>4 DEF OpenChannel, network, TypeOK, TaskType
<1>5. CASE AssertExchange(t)
  <2>1. /\ isConnected' \in BOOLEAN
        /\ UNCHANGED <<connection, channel, open, drawn, serving>>
    BY <1>5 DEF AssertExchange, TypeOK
  <2>2. listening' \subseteq drawn'
    <3>1. listening' = listening \/ listening' = listening \cup {connection}
      BY <1>5 DEF AssertExchange
    <3>2. connection # None => connection \in drawn
      BY DEF TypeOK
    <3> QED  BY <1>5, <2>1, <3>1, <3>2 DEF AssertExchange, TypeOK
  <2> QED  BY <1>1, <1>2, <2>1, <2>2 DEF TypeOK, TaskType
<1>6. CASE DialFails(t) \/ Wake(t)
  BY <1>1, <1>2, <1>6 DEF DialFails, Wake, network, TypeOK, TaskType
<1> QED  BY <1>3, <1>4, <1>5, <1>6 DEF ConnectStep

LEMMA EmitMoves ==
  ASSUME PublisherAssumption, TypeOK, NEW e \in Emit, EmitEvent(e)
  PROVE  /\ serving /\ task[e].pc = "idle"
         /\ Moves(e, {"idle", "drain", "dial", "recheck"})
         /\ task'[e].pc = "drain" => isConnected /\ channel \in open
         /\ task'[e].pc \in {"idle", "drain"} => isConnected /\ channel # None
         /\ task'[e].pc = "dial" => ~isConnected
         /\ connectionAttempts' \in 0..MaxRetries
         /\ UNCHANGED <<isConnected, connection, channel, open, listening, drawn, serving>>
<1>1. CASE isConnected /\ channel # None
  <2>1. Publish(e) /\ UNCHANGED connectionAttempts
    BY <1>1 DEF EmitEvent
  <2> QED  BY <1>1, <2>1, PublishMoves DEF EmitEvent, network, Moves, TypeOK
<1>2. CASE ~(isConnected /\ channel # None)
  <2>1. LoopHead(e, connectionAttempts, isConnected)
    BY <1>2 DEF EmitEvent
  <2>2. /\ connectionAttempts' \in 0..MaxRetries
        /\ Moves(e, IF isConnected THEN {"recheck"} ELSE {"dial", "recheck"})
    BY <2>1, LoopHeadMoves DEF TypeOK, Task
  <2> QED  BY <1>2, <2>2 DEF EmitEvent, network, Moves
<1> QED  BY <1>1, <1>2

LEMMA RecheckMoves ==
  ASSUME TypeOK, NEW e \in Emit, Recheck(e)
  PROVE  /\ task[e].pc = "recheck"
         /\ Moves(e, {"idle", "drain"})
         /\ task'[e].pc = "drain" => isConnected /\ channel \in open
         /\ UNCHANGED <<fields, network, serving>>
<1>1. CASE isConnected /\ channel # None
  BY <1>1, PublishMoves DEF Recheck
<1>2. CASE ~(isConnected /\ channel # None)
  <2>1. Moves(e, {"idle"})
    BY <1>2, GotoMoves DEF Recheck, Pc, LoopPc, Task
  <2> QED  BY <1>2, <2>1 DEF Recheck, Moves
<1> QED  BY <1>1, <1>2

LEMMA DrainMoves ==
  ASSUME TypeOK, NEW e \in Emit, Drain(e)
  PROVE  /\ task[e].pc = "drain"
         /\ Moves(e, {"idle"})
         /\ UNCHANGED <<fields, network, serving>>
  BY GotoMoves DEF Drain, Pc, LoopPc, Task

LEMMA BootedMoves ==
  ASSUME TypeOK, Booted
  PROVE  /\ task[Boot].pc = "recheck"
         /\ Moves(Boot, {"idle"})
         /\ serving'
         /\ UNCHANGED <<fields, network>>
  BY GotoMoves DEF Booted, Pc, LoopPc, Task

\* The end of a connection without the end of the process.
LEMMA LossMoves ==
  ASSUME TypeOK, NEW c \in Conn, Closed(c) \/ Broken(c)
  PROVE  /\ c \in open /\ open' = open \ {c}
         /\ OnClose(c)
         /\ UNCHANGED <<connectionAttempts, listening, drawn, serving, task>>
  BY DEF Closed, Broken, OnClose, fields

LEMMA CrashMoves ==
  ASSUME PublisherAssumption, TypeOK, NEW c \in Conn, Crash(c)
  PROVE  /\ task' \in TaskType
         /\ \A e \in Emit : task'[e].pc = "idle"
         /\ task'[Boot].pc = "dial"
         /\ isConnected' = FALSE /\ connectionAttempts' = 1
         /\ connection' = None /\ channel' = None
         /\ open' = {} /\ listening' = {} /\ drawn' = drawn /\ serving' = FALSE
  BY DEF Crash, TaskType, Task, At, Pc, LoopPc, PublisherAssumption

LEMMA PublisherTypes ==
  ASSUME PublisherAssumption, TypeOK, [Next]_vars
  PROVE  TypeOK'
<1>1. ASSUME NEW t \in Task, ConnectStep(t) PROVE TypeOK'
  BY <1>1, ConnectTypes
<1>2. ASSUME NEW e \in Emit, EmitEvent(e) PROVE TypeOK'
  BY <1>2, EmitMoves DEF TypeOK, Moves, TaskType
<1>3. ASSUME NEW e \in Emit, EmitStep(e) PROVE TypeOK'
  BY <1>3, RecheckMoves, DrainMoves DEF EmitStep, TypeOK, Moves, TaskType, fields, network
<1>4. CASE Booted
  BY <1>4, BootedMoves DEF TypeOK, Moves, TaskType, fields, network
<1>5. ASSUME NEW c \in Conn, Closed(c) \/ Broken(c) PROVE TypeOK'
  <2>1. CASE c \in listening
    BY <1>5, <2>1, LossMoves DEF TypeOK, OnClose
  <2>2. CASE c \notin listening
    BY <1>5, <2>2, LossMoves DEF TypeOK, OnClose, fields
  <2> QED  BY <2>1, <2>2
<1>6. ASSUME NEW c \in Conn, Crash(c) PROVE TypeOK'
  BY <1>6, CrashMoves, Attempts DEF TypeOK, TaskType
<1>7. CASE UNCHANGED vars
  BY <1>7 DEF vars, fields, network, TypeOK
<1> QED  BY <1>1, <1>2, <1>3, <1>4, <1>5, <1>6, <1>7 DEF Next

-----------------------------------------------------------------------------
(* What holds while connect loops do not overlap.                          *)

LEMMA ConnectAlone ==
  ASSUME PublisherAssumption, TypeOK, AloneInv, NEW t \in Task, ConnectStep(t),
         (\A r, s \in Loops : r = s)'
  PROVE  AloneInv'
<1>1. /\ t \in Loops
      /\ Moves(t, LoopPc \cup {"recheck"})
  BY ConnectMoves DEF Loops
<1>2. /\ ~isConnected
      /\ \A s \in Task \ {t} : task[s].pc \notin LoopPc /\ task'[s].pc \notin LoopPc
  BY <1>1 DEF AloneInv, Moves, Loops
<1>3. \A s \in Task \ {t} : ~Opening(s) /\ ~Opening(s)' /\ task'[s].pc # "assertExchange"
  BY <1>2 DEF Opening, LoopPc
<1>4. CASE DialSucceeds(t)
  <2>1. PICK c \in Conn \ drawn : /\ connection' = c
                                  /\ open' = open \cup {c}
                                  /\ Goto(t, "openChannel", c)
    BY <1>4 DEF DialSucceeds
  <2>2. task'[t].pc = "openChannel" /\ task'[t].conn = c
    BY <2>1, GotoMoves DEF Moves, Pc, LoopPc
  <2>3. open = {}
    BY <1>2, <1>3, <1>4 DEF AloneInv, DialSucceeds, Opening
  <2>4. c \notin listening /\ UNCHANGED <<isConnected, listening>>
    BY <1>4 DEF DialSucceeds, TypeOK
  <2> QED  BY <1>2, <1>3, <2>1, <2>2, <2>3, <2>4 DEF AloneInv, Opening
<1>5. CASE DialFails(t)
  <2>1. Moves(t, {"sleep", "recheck"}) /\ UNCHANGED <<isConnected, connection, channel, network>>
    BY <1>5, CatchMoves DEF DialFails
  <2>2. open = {}
    BY <1>2, <1>3, <1>5 DEF AloneInv, DialFails, Opening
  <2> QED  BY <1>2, <1>3, <2>1, <2>2 DEF AloneInv, Opening, Moves, network
<1>6. CASE OpenChannel(t) /\ task[t].conn \in open
  <2>1. /\ channel' = task[t].conn
        /\ Goto(t, "assertExchange", task[t].conn)
        /\ UNCHANGED <<isConnected, connection, network>>
    BY <1>6 DEF OpenChannel
  <2>2. task'[t].pc = "assertExchange" /\ task'[t].conn = task[t].conn
    BY <2>1, GotoMoves DEF Moves, Pc, LoopPc, TypeOK
  <2>3. Opening(t)
    BY <1>6 DEF OpenChannel, Opening
  <2> QED  BY <1>2, <1>3, <2>1, <2>2, <2>3 DEF AloneInv, Opening, network
<1>7. CASE OpenChannel(t) /\ task[t].conn \notin open
  <2>1. Moves(t, {"sleep", "recheck"}) /\ UNCHANGED <<isConnected, connection, channel, network>>
    BY <1>7, CatchMoves DEF OpenChannel
  <2>2. open = {}
    BY <1>7 DEF AloneInv, OpenChannel, Opening
  <2> QED  BY <1>2, <1>3, <2>1, <2>2 DEF AloneInv, Opening, Moves, network
<1>8. CASE AssertExchange(t) /\ task[t].conn \in open
  <2>1. Opening(t) /\ task[t].conn = connection /\ channel = connection
    BY <1>8 DEF AssertExchange, Opening, AloneInv
  <2>2. connection # None
    BY <1>8, <2>1 DEF TypeOK, PublisherAssumption
  <2>3. /\ isConnected' = TRUE
        /\ listening' = listening \cup {connection}
        /\ LoopHead(t, 0, TRUE)
        /\ UNCHANGED <<connection, channel, open>>
    BY <1>8, <2>2 DEF AssertExchange
  <2>4. Moves(t, {"recheck"})
    BY <2>3, LoopEnds
  <2>5. Loops' = {}
    BY <1>2, <2>4 DEF Loops, Moves, LoopPc
  <2> QED  BY <1>3, <1>8, <2>1, <2>3, <2>4, <2>5 DEF AloneInv, Opening, Moves
<1>9. CASE AssertExchange(t) /\ task[t].conn \notin open
  <2>1. /\ Moves(t, {"sleep", "recheck"})
        /\ UNCHANGED <<isConnected, listening, connection, channel, open>>
    BY <1>9, CatchMoves DEF AssertExchange
  <2>2. open = {}
    BY <1>9 DEF AloneInv, AssertExchange, Opening
  <2> QED  BY <1>2, <1>3, <2>1, <2>2 DEF AloneInv, Opening, Moves
<1>10. CASE Wake(t)
  <2>1. Moves(t, {"dial", "recheck"}) /\ UNCHANGED <<isConnected, connection, channel, network>>
    BY <1>2, <1>10, LoopHeadMoves DEF Wake, TypeOK
  <2>2. open = {}
    BY <1>2, <1>3, <1>10 DEF AloneInv, Wake, Opening
  <2> QED  BY <1>2, <1>3, <2>1, <2>2 DEF AloneInv, Opening, Moves, network
<1> QED  BY <1>4, <1>5, <1>6, <1>7, <1>8, <1>9, <1>10 DEF ConnectStep

\* An emit that starts or ends outside of connect touches nothing of it.
LEMMA OutsideAlone ==
  ASSUME AloneInv, NEW t \in Task, Moves(t, {"idle", "drain", "dial", "recheck"}),
         ~Opening(t), task'[t].pc = "dial" => ~isConnected,
         UNCHANGED <<isConnected, connection, channel, open, listening>>,
         (\A r, s \in Loops : r = s)'
  PROVE  AloneInv'
<1>1. \A s \in Task : Opening(s)' => Opening(s) /\ task'[s] = task[s]
  BY DEF Opening, Moves
<1>2. \A s \in Task : Opening(s) => Opening(s)'
  BY DEF Opening, Moves
<1>3. isConnected => Loops' = {}
  BY DEF AloneInv, Loops, Moves, LoopPc
<1>4. \A s \in Task : task'[s].pc = "assertExchange" => task[s].pc = "assertExchange"
  BY DEF Moves
<1> QED  BY <1>1, <1>2, <1>3, <1>4 DEF AloneInv

LEMMA LossAlone ==
  ASSUME PublisherAssumption, TypeOK, AloneInv, NEW c \in Conn, Closed(c) \/ Broken(c)
  PROVE  AloneInv'
<1>1. /\ c = connection /\ open' = {}
      /\ OnClose(c) /\ UNCHANGED <<listening, task>>
  BY LossMoves DEF AloneInv
<1>2. CASE c \in listening
  <2>1. isConnected' = FALSE /\ \A t \in Task : ~Opening(t)
    BY <1>1, <1>2 DEF OnClose, AloneInv
  <2> QED  BY <1>1, <2>1 DEF AloneInv, Opening, Loops
<1>3. CASE c \notin listening
  <2>1. ~isConnected
    BY <1>1, <1>3 DEF AloneInv
  <2> QED  BY <1>1, <1>3, <2>1 DEF AloneInv, Opening, Loops, OnClose, fields
<1> QED  BY <1>2, <1>3

LEMMA PublisherStep ==
  ASSUME PublisherAssumption, PublisherInv, [Next]_vars, Watch
  PROVE  PublisherInv'
<1>1. TypeOK /\ TypeOK' /\ alone' \in BOOLEAN
  BY PublisherTypes DEF PublisherInv, Watch
<1>2. ~serving' => \A e \in Emit : task'[e].pc = "idle"
  <2> SUFFICES ASSUME ~serving', NEW e \in Emit PROVE task'[e].pc = "idle"
    OBVIOUS
  <2>1. ASSUME NEW t \in Task, ConnectStep(t) PROVE task'[e].pc = "idle"
    <3>1. ~serving /\ task[t].pc \in LoopPc /\ Moves(t, LoopPc \cup {"recheck"})
      BY <1>1, <2>1, ConnectMoves
    <3>2. task[e].pc = "idle"
      BY <3>1 DEF PublisherInv
    <3>3. e # t
      BY <3>1, <3>2 DEF LoopPc
    <3> QED  BY <3>1, <3>2, <3>3 DEF Moves, Task
  <2>2. ASSUME NEW d \in Emit, EmitEvent(d) PROVE FALSE
    BY <1>1, <2>2, EmitMoves
  <2>3. ASSUME NEW d \in Emit, EmitStep(d) PROVE FALSE
    <3>1. ~serving /\ task[d].pc \in {"recheck", "drain"}
      BY <1>1, <2>3, RecheckMoves, DrainMoves DEF EmitStep
    <3> QED  BY <3>1 DEF PublisherInv
  <2>4. CASE Booted
    BY <1>1, <2>4, BootedMoves
  <2>5. ASSUME NEW c \in Conn, Closed(c) \/ Broken(c) PROVE task'[e].pc = "idle"
    BY <1>1, <2>5, LossMoves DEF PublisherInv
  <2>6. ASSUME NEW c \in Conn, Crash(c) PROVE task'[e].pc = "idle"
    BY <1>1, <2>6, CrashMoves
  <2>7. CASE UNCHANGED vars
    BY <2>7 DEF vars, PublisherInv
  <2> QED  BY <2>1, <2>2, <2>3, <2>4, <2>5, <2>6, <2>7 DEF Next
<1>3. ~serving' => alone'
  BY DEF Watch
<1>4. ASSUME alone' PROVE AloneInv'
  <2>1. (\A r, s \in Loops : r = s)'
    <3>1. CASE serving'
      BY <1>4, <3>1 DEF Watch
    <3>2. CASE ~serving'
      BY <1>2, <3>2 DEF Loops, Task, LoopPc
    <3> QED  BY <3>1, <3>2
  <2>2. ASSUME NEW c \in Conn, Crash(c) PROVE AloneInv'
    <3>1. \A t \in Task : ~Opening(t)' /\ task'[t].pc # "assertExchange"
      BY <1>1, <2>2, CrashMoves DEF Opening, Task
    <3> QED  BY <1>1, <2>1, <2>2, <3>1, CrashMoves DEF AloneInv
  <2>3. CASE \A c \in Conn : ~Crash(c)
    <3>1. serving => serving'
      <4>1. ASSUME NEW t \in Task, ConnectStep(t) PROVE serving' = serving
        BY <1>1, <4>1, ConnectMoves
      <4>2. ASSUME NEW e \in Emit, EmitEvent(e) \/ EmitStep(e) PROVE serving' = serving
        BY <4>2 DEF EmitEvent, EmitStep, Recheck, Drain
      <4>3. ASSUME NEW c \in Conn, Closed(c) \/ Broken(c) PROVE serving' = serving
        BY <4>3 DEF Closed, Broken
      <4> QED  BY <2>3, <4>1, <4>2, <4>3 DEF Next, Booted, vars
    <3>2. AloneInv
      BY <1>4, <3>1 DEF Watch, PublisherInv
    <3>3. ASSUME NEW t \in Task, ConnectStep(t) PROVE AloneInv'
      BY <1>1, <2>1, <3>2, <3>3, ConnectAlone
    <3>4. ASSUME NEW e \in Emit, EmitEvent(e) PROVE AloneInv'
      <4>1. ~Opening(e) /\ e \in Task
        BY <1>1, <3>4, EmitMoves DEF Opening, Task
      <4> QED  BY <1>1, <2>1, <3>2, <3>4, <4>1, EmitMoves, OutsideAlone
    <3>5. ASSUME NEW e \in Emit, EmitStep(e) PROVE AloneInv'
      <4>1. /\ ~Opening(e) /\ e \in Task
            /\ Moves(e, {"idle", "drain", "dial", "recheck"}) /\ task'[e].pc # "dial"
            /\ UNCHANGED <<isConnected, connection, channel, open, listening>>
        BY <1>1, <3>5, RecheckMoves, DrainMoves
        DEF EmitStep, Moves, Opening, fields, network, Task
      <4> QED  BY <2>1, <3>2, <4>1, OutsideAlone
    <3>6. CASE Booted
      <4>1. /\ ~Opening(Boot) /\ Boot \in Task
            /\ Moves(Boot, {"idle", "drain", "dial", "recheck"}) /\ task'[Boot].pc # "dial"
            /\ UNCHANGED <<isConnected, connection, channel, open, listening>>
        BY <1>1, <3>6, BootedMoves DEF Moves, Opening, fields, network, Task
      <4> QED  BY <2>1, <3>2, <4>1, OutsideAlone
    <3>7. ASSUME NEW c \in Conn, Closed(c) \/ Broken(c) PROVE AloneInv'
      BY <1>1, <3>2, <3>7, LossAlone
    <3>8. CASE UNCHANGED vars
      BY <3>2, <3>8 DEF vars, fields, network, AloneInv, Opening, Loops
    <3> QED  BY <2>3, <3>3, <3>4, <3>5, <3>6, <3>7, <3>8 DEF Next
  <2> QED  BY <2>2, <2>3
<1> QED  BY <1>1, <1>2, <1>3, <1>4 DEF PublisherInv

-----------------------------------------------------------------------------
(* Where the event is.                                                     *)

\* Steps that do not touch the event.
LEMMA LetterRests ==
  ASSUME LetterInv, UNCHANGED <<letter, bound>>,
         drawn \subseteq drawn', open' \cap drawn \subseteq open,
         \A e \in Emit : Tracked(e) =>
           \/ task'[e].pc = task[e].pc
           \/ task[e].pc \in LoopPc /\ task'[e].pc \in LoopPc \cup {"recheck"}
  PROVE  LetterInv'
<1>1. AnswersAreKept'
  BY DEF LetterInv, AnswersAreKept
<1>2. ASSUME NEW e \in Emit, Tracked(e)'
      PROVE  (\/ task[e].pc \in LoopPc \cup {"recheck"} /\ letter.stage = "calling"
              \/ task[e].pc = "drain" /\ letter.stage \in Handed)'
  <2>1. Tracked(e)
    BY <1>2 DEF Tracked
  <2> QED  BY <2>1 DEF LetterInv, LoopPc
<1> QED  BY <1>1, <1>2 DEF LetterInv

\* A step of the emit the event belongs to, from publish or towards it.
LEMMA FateKeeps ==
  ASSUME PublisherAssumption, TypeOK, LetterInv, NEW e \in Emit, letter' = Fate(e),
         Moves(e, {"idle", "drain", "dial", "recheck"}),
         task'[e].pc = "drain" => isConnected /\ channel \in open,
         UNCHANGED <<open, drawn, bound>>
  PROVE  LetterInv'
<1>1. task'[e].pc \in {"idle", "drain", "dial", "recheck"}
  BY DEF Moves
<1>2. channel \in open => channel \in Conn /\ channel \in drawn
  BY DEF TypeOK
<1>3. CASE task'[e].pc \notin {"idle", "drain"}
  <2>1. letter' = [stage |-> "calling", emit |-> e, conn |-> None, answer |-> "none"]
    BY <1>3 DEF Fate
  <2> QED  BY <1>1, <1>3, <2>1
      DEF LetterInv, AnswersAreKept, Tracked, Stage, Answer, LoopPc
<1>4. CASE task'[e].pc \in {"idle", "drain"} /\ isConnected /\ channel \in open
  <2>1. letter' = [stage |-> "buffered", emit |-> e, conn |-> channel,
                   answer |-> IF task'[e].pc = "drain" THEN "none" ELSE "true"]
    BY <1>4 DEF Fate
  <2> QED  BY <1>2, <1>4, <2>1
      DEF LetterInv, AnswersAreKept, Tracked, Stage, Answer, Handed
<1>5. CASE task'[e].pc = "idle" /\ ~(isConnected /\ channel \in open)
  <2>1. letter' = [stage |-> "refused", emit |-> e, conn |-> None, answer |-> "false"]
    BY <1>5 DEF Fate
  <2> QED  BY <1>5, <2>1
      DEF LetterInv, AnswersAreKept, Tracked, Stage, Answer
<1> QED  BY <1>1, <1>3, <1>4, <1>5

\* A connection or a process ends.
LEMMA CutOffKeeps ==
  ASSUME PublisherAssumption, LetterInv, NEW died \in BOOLEAN, CutOff(died),
         open' \subseteq open, UNCHANGED <<drawn, bound>>,
         ~died => UNCHANGED task
  PROVE  LetterInv'
<1> DEFINE cut == letter.stage = "buffered" /\ letter.conn \notin open'
           left == died /\ letter.answer = "none" /\ letter.stage # "unwritten"
<1>1. /\ letter'.emit = letter.emit /\ letter'.conn = letter.conn
      /\ letter'.stage = IF cut THEN "lost"
                         ELSE IF left /\ letter.stage = "calling" THEN "refused"
                         ELSE letter.stage
      /\ letter'.answer = IF left THEN "died" ELSE letter.answer
      /\ letter' \in [stage : Stage, emit : Emit \cup {None}, conn : Conn \cup {None},
                      answer : Answer]
  BY DEF CutOff, LetterInv, Stage, Answer
<1>2. AnswersAreKept'
  BY <1>1 DEF LetterInv, AnswersAreKept, Handed
<1>3. ASSUME NEW e \in Emit, Tracked(e)'
      PROVE  (\/ task[e].pc \in LoopPc \cup {"recheck"} /\ letter.stage = "calling"
              \/ task[e].pc = "drain" /\ letter.stage \in Handed)'
  <2>1. Tracked(e) /\ ~left
    BY <1>1, <1>3 DEF Tracked
  <2>2. letter.stage # "unwritten"
    BY <2>1 DEF LetterInv, Tracked, PublisherAssumption
  <2>3. ~died
    BY <2>1, <2>2 DEF Tracked
  <2> QED  BY <1>1, <2>1, <2>3 DEF LetterInv, Handed
<1>4. /\ letter'.stage = "unwritten" => letter'.emit = None /\ letter'.answer = "none"
      /\ letter'.stage # "unwritten" => letter'.emit \in Emit
      /\ letter'.stage \in {"buffered", "lost"} => letter'.conn \in drawn'
  BY <1>1 DEF LetterInv
<1> QED  BY <1>1, <1>2, <1>3, <1>4 DEF LetterInv

LEMMA LetterStep ==
  ASSUME PublisherAssumption, TypeOK, LetterInv, PipelineNext
  PROVE  LetterInv'
<1>1. ASSUME NEW t \in Task, ConnectStep(t), UNCHANGED <<letter, bound>> PROVE LetterInv'
  <2>1. /\ task[t].pc \in LoopPc
        /\ Moves(t, LoopPc \cup {"recheck"})
        /\ \/ UNCHANGED <<open, drawn>>
           \/ \E c \in Conn \ drawn : open' = open \cup {c} /\ drawn' = drawn \cup {c}
    BY <1>1, ConnectMoves
  <2>2. drawn \subseteq drawn' /\ open' \cap drawn \subseteq open
    BY <2>1
  <2>3. \A e \in Emit : \/ task'[e].pc = task[e].pc
                        \/ task[e].pc \in LoopPc /\ task'[e].pc \in LoopPc \cup {"recheck"}
    BY <2>1 DEF Moves, Task
  <2> QED  BY <1>1, <2>2, <2>3, LetterRests
<1>2. ASSUME NEW e \in Emit, Create(e), UNCHANGED bound PROVE LetterInv'
  <2>1. EmitEvent(e)
    BY <1>2 DEF Create
  <2>2. /\ task[e].pc = "idle"
        /\ Moves(e, {"idle", "drain", "dial", "recheck"})
        /\ task'[e].pc = "drain" => isConnected /\ channel \in open
        /\ UNCHANGED <<open, drawn>>
    BY <2>1, EmitMoves
  <2>3. CASE letter' = Fate(e)
    BY <1>2, <2>2, <2>3, FateKeeps
  <2>4. CASE UNCHANGED letter
    <3>1. ~Tracked(e)
      BY <2>2 DEF LetterInv, LoopPc
    <3>2. \A d \in Emit : Tracked(d) => task'[d].pc = task[d].pc
      BY <2>2, <3>1 DEF Moves, Task
    <3> QED  BY <1>2, <2>2, <2>4, <3>2, LetterRests
  <2> QED  BY <1>2, <2>3, <2>4 DEF Create
<1>3. ASSUME NEW e \in Emit, Resume(e), UNCHANGED bound PROVE LetterInv'
  <2>1. Recheck(e)
    BY <1>3 DEF Resume
  <2>2. /\ Moves(e, {"idle", "drain", "dial", "recheck"})
        /\ task'[e].pc = "drain" => isConnected /\ channel \in open
        /\ UNCHANGED <<open, drawn>>
    BY <2>1, RecheckMoves DEF Moves, fields, network
  <2>3. CASE Tracked(e)
    BY <1>3, <2>2, <2>3, FateKeeps DEF Resume
  <2>4. CASE ~Tracked(e)
    <3>1. \A d \in Emit : Tracked(d) => task'[d].pc = task[d].pc
      BY <2>2, <2>4 DEF Moves, Task
    <3> QED  BY <1>3, <2>2, <2>4, <3>1, LetterRests DEF Resume
  <2> QED  BY <2>3, <2>4
<1>4. ASSUME NEW e \in Emit, Drained(e), UNCHANGED bound PROVE LetterInv'
  <2>1. Drain(e)
    BY <1>4 DEF Drained
  <2>2. /\ task[e].pc = "drain"
        /\ Moves(e, {"idle"})
        /\ UNCHANGED <<open, drawn>>
    BY <2>1, DrainMoves DEF fields, network
  <2>3. CASE Tracked(e)
    <3>1. letter.stage \in Handed
      BY <2>2, <2>3 DEF LetterInv, LoopPc
    <3>2. letter' = [letter EXCEPT !.answer = "true"]
      BY <1>4, <2>3 DEF Drained
    <3> QED  BY <1>4, <2>2, <3>1, <3>2
        DEF LetterInv, AnswersAreKept, Tracked, Answer, Handed
  <2>4. CASE ~Tracked(e)
    <3>1. \A d \in Emit : Tracked(d) => task'[d].pc = task[d].pc
      BY <2>2, <2>4 DEF Moves, Task
    <3> QED  BY <1>4, <2>2, <2>4, <3>1, LetterRests DEF Drained
  <2> QED  BY <2>3, <2>4
<1>5. CASE Booted /\ UNCHANGED <<letter, bound>>
  <2>1. Moves(Boot, {"idle"}) /\ UNCHANGED <<open, drawn>>
    BY <1>5, BootedMoves DEF fields, network
  <2>2. \A d \in Emit : task'[d].pc = task[d].pc
    BY <2>1 DEF Moves, Task, PublisherAssumption
  <2> QED  BY <1>5, <2>1, <2>2, LetterRests
<1>6. ASSUME NEW c \in Conn, Closed(c) \/ Broken(c), CutOff(FALSE), UNCHANGED bound
      PROVE  LetterInv'
  <2>1. open' \subseteq open /\ UNCHANGED <<drawn, task>>
    BY <1>6, LossMoves
  <2> QED  BY <1>6, <2>1, CutOffKeeps
<1>7. ASSUME NEW c \in Conn, Crash(c), CutOff(TRUE), UNCHANGED bound PROVE LetterInv'
  <2>1. open' \subseteq open /\ UNCHANGED drawn
    BY <1>7, CrashMoves
  <2> QED  BY <1>7, <2>1, CutOffKeeps
<1>8. CASE Bind
  BY <1>8 DEF Bind, vars, fields, network, LetterInv, AnswersAreKept, Tracked
<1>9. CASE Transmit
  <2>1. /\ letter.stage = "buffered"
        /\ letter' = [letter EXCEPT !.stage = IF bound THEN "queued" ELSE "unrouted"]
        /\ UNCHANGED <<task, open, drawn, bound>>
    BY <1>9 DEF Transmit, vars, fields, network
  <2>2. letter'.stage \in {"queued", "unrouted"} /\ letter'.emit = letter.emit
        /\ letter'.conn = letter.conn /\ letter'.answer = letter.answer
    BY <2>1 DEF LetterInv
  <2>3. letter' \in [stage : Stage, emit : Emit \cup {None}, conn : Conn \cup {None},
                     answer : Answer]
    BY <2>1 DEF LetterInv, Stage
  <2>4. AnswersAreKept'
    BY <2>1, <2>2 DEF LetterInv, AnswersAreKept, Handed
  <2>5. \A e \in Emit : Tracked(e)' => task'[e].pc = "drain" /\ letter'.stage \in Handed
    BY <2>1, <2>2 DEF LetterInv, Tracked, Handed
  <2> QED  BY <2>1, <2>2, <2>3, <2>4, <2>5 DEF LetterInv
<1> QED  BY <1>1, <1>2, <1>3, <1>4, <1>5, <1>6, <1>7, <1>8, <1>9 DEF PipelineNext

-----------------------------------------------------------------------------
(* A stuck publisher.                                                      *)

LEMMA StuckKeeps ==
  ASSUME PublisherAssumption, TypeOK, [Next]_vars, Stuck, serving'
  PROVE  (GivenUp => GivenUp') /\ (Wedged => Wedged')
<1>1. ASSUME NEW t \in Task, ConnectStep(t) PROVE FALSE
  BY <1>1, ConnectMoves DEF Stuck, GivenUp, Wedged, Connecting
<1>2. ASSUME NEW e \in Emit, EmitEvent(e)
      PROVE  /\ UNCHANGED <<fields, network>>
             /\ Moves(e, {"idle", "drain", "recheck"})
  <2>1. /\ Moves(e, {"idle", "drain", "dial", "recheck"})
        /\ UNCHANGED <<isConnected, connection, channel, network>>
    BY <1>2, EmitMoves DEF network
  <2>2. CASE isConnected /\ channel # None
    BY <1>2, <2>1, <2>2, EmitMoves, PublishMoves DEF EmitEvent, Moves, fields
  <2>3. CASE ~(isConnected /\ channel # None)
    <3>1. LoopHead(e, connectionAttempts, isConnected)
      BY <1>2, <2>3 DEF EmitEvent
    <3>2. UNCHANGED connectionAttempts /\ Goto(e, "recheck", None)
      BY <3>1 DEF LoopHead, Stuck, GivenUp, Wedged
    <3>3. Moves(e, {"recheck"})
      BY <3>2, GotoMoves DEF Task, Pc, LoopPc
    <3> QED  BY <2>1, <3>2, <3>3 DEF Moves, fields
  <2> QED  BY <2>2, <2>3
<1>3. ASSUME NEW e \in Emit, EmitStep(e)
      PROVE  /\ UNCHANGED <<fields, network>>
             /\ Moves(e, {"idle", "drain", "recheck"})
  BY <1>3, RecheckMoves, DrainMoves DEF EmitStep, Moves
<1>4. ASSUME NEW t \in Task, UNCHANGED <<fields, network>>,
             Moves(t, {"idle", "drain", "recheck"})
      PROVE  (GivenUp => GivenUp') /\ (Wedged => Wedged')
  <2>1. Connecting' => Connecting
    BY <1>4 DEF Connecting, Moves, LoopPc
  <2> QED  BY <1>4, <2>1 DEF GivenUp, Wedged, fields, network
<1>5. CASE Booted
  <2>1. UNCHANGED <<fields, network>> /\ Moves(Boot, {"idle", "drain", "recheck"})
    BY <1>5, BootedMoves DEF Moves
  <2> QED  BY <1>4, <2>1 DEF Task
<1>6. ASSUME NEW c \in Conn, Closed(c) \/ Broken(c)
      PROVE  (GivenUp => GivenUp') /\ (Wedged => Wedged')
  <2>1. /\ c \in open /\ open' = open \ {c} /\ OnClose(c)
        /\ UNCHANGED <<connectionAttempts, listening, task>>
    BY <1>6, LossMoves
  <2>2. Connecting' = Connecting
    BY <2>1 DEF Connecting
  <2>3. GivenUp => GivenUp'
    BY <2>1, <2>2 DEF GivenUp, OnClose, fields
  <2>4. ASSUME Wedged PROVE Wedged'
    <3>1. c \notin listening
      BY <2>1, <2>4 DEF Wedged
    <3> QED  BY <2>1, <2>2, <2>4, <3>1 DEF Wedged, OnClose, fields
  <2> QED  BY <2>3, <2>4
<1>7. ASSUME NEW c \in Conn, Crash(c) PROVE FALSE
  BY <1>7, CrashMoves
<1>8. CASE UNCHANGED vars
  BY <1>8 DEF vars, fields, network, GivenUp, Wedged, Connecting
<1> QED  BY <1>1, <1>2, <1>3, <1>4, <1>5, <1>6, <1>7, <1>8 DEF Next, Task

LEMMA PipelineIsNext == [PipelineNext]_pipelineVars => [Next]_vars
  BY DEF PipelineNext, Next, Create, Resume, Drained, Bind, Transmit, EmitStep, pipelineVars

\* Publishing at this moment is refused.
LEMMA StuckRefuses ==
  ASSUME Stuck, NEW e \in Emit, letter' = Fate(e), task'[e].pc # "drain"
  PROVE  \/ letter'.stage = "refused"
         \/ letter'.stage = "calling" /\ letter'.answer = "none"
<1>1. ~(isConnected /\ channel \in open)
  BY DEF Stuck, GivenUp, Wedged
<1>2. CASE task'[e].pc = "idle"
  BY <1>1, <1>2 DEF Fate
<1>3. CASE task'[e].pc # "idle"
  BY <1>3 DEF Fate
<1> QED  BY <1>2, <1>3

LEMMA DoomedStep ==
  ASSUME PublisherAssumption, TypeOK, LetterInv, DoomedInv, PipelineNext
  PROVE  DoomedInv'
<1>1. doomed' \in BOOLEAN
  BY DEF PipelineNext, Watch, DoomedInv
<1> SUFFICES ASSUME doomed'
             PROVE  (\/ letter.stage = "refused"
                     \/ letter.stage = "calling" /\ letter.answer = "none" /\ Stuck /\ serving)'
  BY <1>1 DEF DoomedInv
<1> DEFINE Goes == letter'.stage = "calling" /\ letter'.answer = "none"
<1>2. \/ letter.stage = "refused"
      \/ letter.stage = "calling" /\ letter.answer = "none" /\ Stuck /\ serving
      \/ letter.stage = "unwritten" /\ letter' # letter /\ Stuck
  BY DEF PipelineNext, Watch, DoomedInv
<1>3. Stuck /\ serving' => Stuck'
  BY StuckKeeps, PipelineIsNext DEF Stuck
<1>4. ASSUME NEW t \in Task, ConnectStep(t), UNCHANGED <<letter, bound>>
      PROVE  letter' = letter /\ serving' = serving
  BY <1>4, ConnectMoves
<1>5. ASSUME NEW e \in Emit, Create(e)
      PROVE  /\ serving /\ serving'
             /\ \/ letter' = letter
                \/ letter.stage = "unwritten" /\ (Stuck => letter'.stage = "refused" \/ Goes)
  <2>1. EmitEvent(e) /\ (letter' = letter \/ (letter.stage = "unwritten" /\ letter' = Fate(e)))
    BY <1>5 DEF Create
  <2>2. serving /\ serving' /\ (task'[e].pc = "drain" => isConnected /\ channel \in open)
    BY <2>1, EmitMoves
  <2>3. Stuck => task'[e].pc # "drain"
    BY <2>2 DEF Stuck, GivenUp, Wedged
  <2> QED  BY <2>1, <2>2, <2>3, StuckRefuses
<1>6. ASSUME NEW e \in Emit, Resume(e)
      PROVE  serving' = serving /\ (\/ letter' = letter
                                    \/ Tracked(e) /\ (Stuck => letter'.stage = "refused" \/ Goes))
  <2>1. Recheck(e) /\ (letter' = letter \/ (Tracked(e) /\ letter' = Fate(e)))
    BY <1>6 DEF Resume
  <2>2. serving' = serving /\ (task'[e].pc = "drain" => isConnected /\ channel \in open)
    BY <2>1, RecheckMoves
  <2>3. Stuck => task'[e].pc # "drain"
    BY <2>2 DEF Stuck, GivenUp, Wedged
  <2> QED  BY <2>1, <2>2, <2>3, StuckRefuses
<1>7. ASSUME NEW e \in Emit, Drained(e)
      PROVE  serving' = serving /\ (letter' = letter \/ letter.stage \in Handed)
  <2>1. Drain(e) /\ (letter' = letter \/ Tracked(e))
    BY <1>7 DEF Drained
  <2>2. serving' = serving /\ task[e].pc = "drain"
    BY <2>1, DrainMoves
  <2> QED  BY <2>1, <2>2 DEF LetterInv, LoopPc
<1>8. ASSUME Booted, UNCHANGED <<letter, bound>> PROVE letter' = letter /\ serving'
  BY <1>8, BootedMoves
<1>9. ASSUME NEW d \in BOOLEAN, CutOff(d)
      PROVE  /\ letter.stage = "unwritten" => letter' = letter
             /\ letter.stage = "refused" => letter'.stage = "refused"
             /\ letter.stage = "calling" /\ letter.answer = "none" =>
                  IF d THEN letter'.stage = "refused" ELSE Goes
  <2>1. letter'.stage = IF letter.stage = "buffered" /\ letter.conn \notin open' THEN "lost"
                        ELSE IF d /\ letter.answer = "none" /\ letter.stage # "unwritten"
                                /\ letter.stage = "calling" THEN "refused" ELSE letter.stage
    BY <1>9 DEF CutOff, LetterInv
  <2>2. letter'.answer = IF d /\ letter.answer = "none" /\ letter.stage # "unwritten"
                         THEN "died" ELSE letter.answer
    BY <1>9 DEF CutOff, LetterInv
  <2>3. letter.stage = "unwritten" => letter' = letter
    BY <1>9 DEF CutOff, LetterInv
  <2> QED  BY <2>1, <2>2, <2>3
<1>10. ASSUME NEW c \in Conn, Closed(c) \/ Broken(c) PROVE serving' = serving
  BY <1>10, LossMoves
<1>11. CASE Bind
  BY <1>2, <1>3, <1>11 DEF Bind, vars
<1>12. CASE Transmit
  BY <1>2, <1>12 DEF Transmit
<1>13. ASSUME letter' = letter, serving' = serving \/ serving'
       PROVE  (\/ letter.stage = "refused"
               \/ letter.stage = "calling" /\ letter.answer = "none" /\ Stuck /\ serving)'
  BY <1>2, <1>3, <1>13
<1>14. CASE \E t \in Task : ConnectStep(t) /\ UNCHANGED <<letter, bound>>
  BY <1>4, <1>13, <1>14
<1>15. CASE \E e \in Emit : Create(e)
  <2>1. PICK e \in Emit : Create(e)
    BY <1>15
  <2>2. CASE letter' = letter
    BY <1>5, <1>13, <2>1, <2>2
  <2>3. CASE letter' # letter
    <3>1. /\ serving' /\ letter.stage = "unwritten"
          /\ Stuck => letter'.stage = "refused" \/ Goes
      BY <1>5, <2>1, <2>3
    <3> QED  BY <1>2, <1>3, <3>1
  <2> QED  BY <2>2, <2>3
<1>16. CASE \E e \in Emit : Resume(e)
  <2>1. PICK e \in Emit : Resume(e)
    BY <1>16
  <2>2. CASE letter' = letter
    BY <1>6, <1>13, <2>1, <2>2
  <2>3. CASE letter' # letter
    <3>1. /\ serving' = serving /\ Tracked(e)
          /\ Stuck => letter'.stage = "refused" \/ Goes
      BY <1>6, <2>1, <2>3
    <3>2. letter.stage \in {"calling"} \cup Handed
      BY <3>1 DEF LetterInv
    <3> QED  BY <1>2, <1>3, <3>1, <3>2 DEF Handed
  <2> QED  BY <2>2, <2>3
<1>17. CASE \E e \in Emit : Drained(e)
  BY <1>2, <1>7, <1>13, <1>17 DEF Handed
<1>18. CASE Booted /\ UNCHANGED <<letter, bound>>
  BY <1>8, <1>13, <1>18
<1>19. CASE \E c \in Conn : (Closed(c) \/ Broken(c)) /\ CutOff(FALSE)
  <2>1. serving' = serving
    BY <1>10, <1>19
  <2>2. CutOff(FALSE)
    BY <1>19
  <2> QED  BY <1>2, <1>3, <1>9, <2>1, <2>2
<1>20. CASE \E c \in Conn : Crash(c) /\ CutOff(TRUE)
  <2>1. CutOff(TRUE)
    BY <1>20
  <2> QED  BY <1>2, <1>9, <2>1
<1> QED  BY <1>11, <1>12, <1>14, <1>15, <1>16, <1>17, <1>18, <1>19, <1>20 DEF PipelineNext

-----------------------------------------------------------------------------
(* The announcement.                                                       *)

\* How far the caller sees the event: whether it is unwritten or on its way
\* through emit makes no difference.
Reached == IF letter.stage \in {"unwritten", "calling"} THEN "unsaid" ELSE letter.stage

\* A step of the announcement, in the terms of the pipeline.
Announces ==
  \/ /\ Reached = "unsaid" /\ Reached' = "refused"
     /\ letter'.answer \in {"false", "died"}
  \/ /\ Reached = "unsaid" /\ Reached' = "buffered"
     /\ letter'.answer \in {"none", "true"}
  \/ /\ Reached \in Handed /\ letter.answer = "none"
     /\ letter'.answer = "true" /\ Reached' = Reached
  \/ /\ Reached = "buffered" /\ Reached' \in {"queued", "unrouted"}
     /\ letter'.answer = letter.answer
  \/ /\ Reached = "buffered" /\ Reached' = "lost"
     /\ \/ letter'.answer = letter.answer
        \/ letter.answer = "none" /\ letter'.answer = "died"
  \/ /\ Reached \in Handed /\ letter.answer = "none"
     /\ letter'.answer = "died" /\ Reached' = Reached
  \/ Reached' = Reached /\ letter'.answer = letter.answer

LEMMA AnnouncesIsNext == Announces => [Said!Next]_(Said!vars)
  BY DEF Announces, Reached, Handed, Said!Next, Said!vars, Said!Handed, Said!Refuse,
     Said!HandOver, Said!Confirm, Said!Arrive, Said!Lose, Said!Die

\* An emit that has still to publish: its event is unsaid and unanswered, and the
\* answer it may get is what has become of the event.
LEMMA FateAnnounces ==
  ASSUME NEW e \in Emit, letter' = Fate(e), Reached = "unsaid", letter.answer = "none"
  PROVE  Announces
<1>1. CASE task'[e].pc \notin {"idle", "drain"}
  <2>1. letter'.stage = "calling" /\ letter'.answer = "none"
    BY <1>1 DEF Fate
  <2> QED  BY <2>1 DEF Announces, Reached
<1>2. CASE task'[e].pc \in {"idle", "drain"} /\ isConnected /\ channel \in open
  <2>1. letter'.stage = "buffered" /\ letter'.answer \in {"none", "true"}
    BY <1>2 DEF Fate
  <2> QED  BY <2>1 DEF Announces, Reached
<1>3. CASE task'[e].pc \in {"idle", "drain"} /\ ~(isConnected /\ channel \in open)
  <2>1. letter'.stage = "refused" /\ letter'.answer = "false"
    BY <1>3 DEF Fate
  <2> QED  BY <2>1 DEF Announces, Reached
<1> QED  BY <1>1, <1>2, <1>3

\* The end of a connection, or of the process, may answer an event but not take
\* an answer back.
LEMMA CutOffAnnounces ==
  ASSUME LetterInv, NEW died \in BOOLEAN, CutOff(died)
  PROVE  Announces
<1> DEFINE cut == letter.stage = "buffered" /\ letter.conn \notin open'
           left == died /\ letter.answer = "none" /\ letter.stage # "unwritten"
<1>1. /\ letter'.stage = IF cut THEN "lost"
                         ELSE IF left /\ letter.stage = "calling" THEN "refused"
                         ELSE letter.stage
      /\ letter'.answer = IF left THEN "died" ELSE letter.answer
  BY DEF CutOff, LetterInv, Stage, Answer
<1>2. CASE cut
  BY <1>1, <1>2 DEF Announces, Reached
<1>3. CASE ~cut /\ ~left
  BY <1>1, <1>3 DEF Announces, Reached
<1>4. CASE ~cut /\ left /\ letter.stage = "calling"
  BY <1>1, <1>4 DEF Announces, Reached
<1>5. CASE ~cut /\ left /\ letter.stage # "calling"
  <2>1. letter.stage \in Handed
    <3>1. letter.emit \in Emit /\ Tracked(letter.emit)
      BY <1>5 DEF LetterInv, Tracked
    <3> QED  BY <1>5, <3>1 DEF LetterInv
  <2>2. Reached = letter.stage /\ Reached' = letter.stage
    BY <1>1, <1>5, <2>1 DEF Reached, Handed
  <2> QED  BY <1>1, <1>5, <2>1, <2>2 DEF Announces
<1> QED  BY <1>2, <1>3, <1>4, <1>5

\* Every step of the pipeline is a step of the announcement, or none.
LEMMA PipelineAnnounces ==
  ASSUME PublisherAssumption, TypeOK, LetterInv, PipelineNext
  PROVE  Announces
<1>1. CASE UNCHANGED letter
  BY <1>1 DEF Announces, Reached
<1>2. ASSUME NEW e \in Emit, Create(e), ~UNCHANGED letter PROVE Announces
  <2>1. letter.stage = "unwritten" /\ letter' = Fate(e)
    BY <1>2 DEF Create
  <2> QED  BY <2>1, FateAnnounces DEF Reached, LetterInv
<1>3. ASSUME NEW e \in Emit, Resume(e), Tracked(e) PROVE Announces
  <2>1. letter' = Fate(e) /\ task[e].pc = "recheck"
    BY <1>3, RecheckMoves DEF Resume
  <2>2. letter.stage = "calling" /\ letter.answer = "none"
    BY <1>3, <2>1 DEF LetterInv, Tracked
  <2> QED  BY <2>1, <2>2, FateAnnounces DEF Reached
<1>4. ASSUME NEW e \in Emit, Drained(e), Tracked(e) PROVE Announces
  <2>1. task[e].pc = "drain" /\ letter' = [letter EXCEPT !.answer = "true"]
    BY <1>4, DrainMoves DEF Drained
  <2>2. letter.stage \in Handed /\ letter.answer = "none"
    BY <1>4, <2>1 DEF LetterInv, Tracked, LoopPc
  <2>3. letter'.stage = letter.stage /\ letter'.answer = "true"
    BY <2>1 DEF LetterInv
  <2>4. Reached = letter.stage /\ Reached' = letter.stage
    BY <2>2, <2>3 DEF Reached, Handed
  <2> QED  BY <2>2, <2>3, <2>4 DEF Announces
<1>5. CASE Transmit
  <2>1. /\ letter.stage = "buffered"
        /\ letter'.stage \in {"queued", "unrouted"} /\ letter'.answer = letter.answer
    BY <1>5 DEF Transmit, LetterInv
  <2> QED  BY <2>1 DEF Announces, Reached
<1>6. ASSUME NEW d \in BOOLEAN, CutOff(d) PROVE Announces
  BY <1>6, CutOffAnnounces
<1> QED  BY <1>1, <1>2, <1>3, <1>4, <1>5, <1>6
    DEF PipelineNext, Resume, Drained, Bind

-----------------------------------------------------------------------------
(* The start of the service.                                               *)

\* Until the service serves, its own connect runs, and has counted an attempt.
BootInv ==
  ~serving =>
    /\ task[Boot].pc \in LoopPc \cup {"recheck"}
    /\ task[Boot].pc # "recheck" => connectionAttempts \in 1..MaxRetries

LEMMA StepsByPlace ==
  \A a : /\ StepsFrom("dial", a) = 4 * (MaxRetries - a) + 5
         /\ StepsFrom("openChannel", a) = 4 * (MaxRetries - a) + 4
         /\ StepsFrom("assertExchange", a) = 4 * (MaxRetries - a) + 3
         /\ StepsFrom("sleep", a) = 4 * (MaxRetries - a) + 2
         /\ StepsFrom("recheck", a) = 1
         /\ StepsFrom("idle", a) = 0
  BY DEF StepsFrom

\* In the loop there are more steps left than after it.
LEMMA StepsInLoop ==
  ASSUME PublisherAssumption, NEW a \in 0..MaxRetries, NEW pc \in LoopPc
  PROVE  StepsFrom(pc, a) \in Nat /\ StepsFrom(pc, a) > 1
<1>1. MaxRetries \in Nat /\ a \in Nat /\ a <= MaxRetries
  BY DEF PublisherAssumption
<1>2. \E k \in 2..5 : StepsFrom(pc, a) = 4 * (MaxRetries - a) + k
  BY StepsByPlace DEF LoopPc
<1> QED  BY <1>1, <1>2

LEMMA BootBound ==
  ASSUME PublisherAssumption, BootInv
  PROVE  BootIsBounded
<1> SUFFICES ASSUME ~serving PROVE StepsToServe \in 1..(4 * MaxRetries + 1)
  BY DEF BootIsBounded
<1>1. MaxRetries \in Nat \ {0}
  BY DEF PublisherAssumption
<1>2. CASE task[Boot].pc = "recheck"
  <2>1. StepsToServe = 1
    BY <1>2, StepsByPlace DEF StepsToServe
  <2> QED  BY <1>1, <2>1
<1>3. CASE task[Boot].pc \in LoopPc
  <2>1. connectionAttempts \in 1..MaxRetries
    BY <1>3 DEF BootInv, LoopPc
  <2>2. \E k \in 2..5 : StepsToServe = 4 * (MaxRetries - connectionAttempts) + k
    BY <1>3, StepsByPlace DEF StepsToServe, LoopPc
  <2> QED  BY <1>1, <2>1, <2>2
<1> QED  BY <1>2, <1>3 DEF BootInv

\* The head of the loop dials and counts, or leaves.
LEMMA LoopHeadGoesTo ==
  ASSUME TypeOK, NEW t \in Task, NEW a, NEW b, LoopHead(t, a, b)
  PROVE  \/ a < MaxRetries /\ connectionAttempts' = a + 1 /\ task'[t].pc = "dial"
         \/ task'[t].pc = "recheck"
<1>1. CASE Goto(t, "dial", None)
  <2>1. task'[t].pc = "dial"
    BY <1>1, GotoMoves DEF Moves, Pc, LoopPc
  <2>2. ~Goto(t, "recheck", None)
    BY <2>1, GotoMoves DEF Moves, Pc, LoopPc
  <2> QED  BY <2>1, <2>2 DEF LoopHead
<1>2. CASE Goto(t, "recheck", None)
  BY <1>2, GotoMoves DEF Moves, Pc, LoopPc
<1> QED  BY <1>1, <1>2 DEF LoopHead

\* A failed attempt waits for another one, or leaves.
LEMMA CatchGoesTo ==
  ASSUME TypeOK, NEW t \in Task, Catch(t)
  PROVE  connectionAttempts' = connectionAttempts /\ task'[t].pc \in {"sleep", "recheck"}
  BY CatchMoves DEF Moves

\* Each step of the connect of onModuleInit brings serving nearer.
LEMMA ConnectNears ==
  ASSUME PublisherAssumption, TypeOK, AloneInv, BootInv, ~serving, ConnectStep(Boot)
  PROVE  BootInv' /\ StepsToServe' < StepsToServe
<1> DEFINE a == connectionAttempts
           pc == task[Boot].pc
<1>1. Boot \in Task /\ pc \in LoopPc /\ a \in 1..MaxRetries /\ ~serving'
  BY ConnectMoves DEF Task, BootInv, LoopPc
<1>2. MaxRetries \in Nat /\ a \in Nat /\ a <= MaxRetries /\ a \in 0..MaxRetries
  BY <1>1 DEF PublisherAssumption
<1>3. ASSUME task'[Boot].pc = "recheck" PROVE BootInv' /\ StepsToServe' < StepsToServe
  <2>1. StepsToServe' = 1
    BY <1>3, StepsByPlace DEF StepsToServe
  <2>2. StepsToServe \in Nat /\ StepsToServe > 1
    BY <1>1, <1>2, StepsInLoop DEF StepsToServe
  <2> QED  BY <1>3, <2>1, <2>2 DEF BootInv
<1>4. ASSUME connectionAttempts' = a, NEW from \in 3..5, NEW to \in 2..4, to < from,
             StepsFrom(pc, a) = 4 * (MaxRetries - a) + from,
             task'[Boot].pc \in LoopPc,
             StepsFrom(task'[Boot].pc, a) = 4 * (MaxRetries - a) + to
      PROVE  BootInv' /\ StepsToServe' < StepsToServe
  <2>1. StepsToServe' < StepsToServe
    BY <1>2, <1>4 DEF StepsToServe
  <2> QED  BY <1>1, <1>4, <2>1 DEF BootInv
<1>5. ASSUME Catch(Boot), pc # "sleep" PROVE BootInv' /\ StepsToServe' < StepsToServe
  <2>1. connectionAttempts' = a /\ task'[Boot].pc \in {"sleep", "recheck"}
    BY <1>1, <1>5, CatchGoesTo
  <2>2. \E k \in 3..5 : StepsFrom(pc, a) = 4 * (MaxRetries - a) + k
    BY <1>1, <1>5, StepsByPlace DEF LoopPc
  <2>3. StepsFrom("sleep", a) = 4 * (MaxRetries - a) + 2 /\ "sleep" \in LoopPc
    BY StepsByPlace DEF LoopPc
  <2> QED  BY <1>3, <1>4, <2>1, <2>2, <2>3
<1>6. CASE DialSucceeds(Boot)
  <2>1. PICK c \in Conn : Goto(Boot, "openChannel", c)
    BY <1>6 DEF DialSucceeds
  <2>2. task'[Boot].pc = "openChannel" /\ pc = "dial" /\ connectionAttempts' = a
    BY <1>1, <1>6, <2>1, GotoMoves DEF DialSucceeds, Moves, Pc, LoopPc
  <2> QED  BY <1>4, <2>2, StepsByPlace DEF LoopPc
<1>7. CASE DialFails(Boot)
  BY <1>5, <1>7 DEF DialFails
<1>8. CASE OpenChannel(Boot)
  <2>1. CASE task[Boot].conn \in open
    <3>1. Goto(Boot, "assertExchange", task[Boot].conn) /\ task[Boot].conn \in Conn
      BY <1>8, <2>1 DEF OpenChannel, TypeOK
    <3>2. task'[Boot].pc = "assertExchange" /\ pc = "openChannel" /\ connectionAttempts' = a
      BY <1>1, <1>8, <2>1, <3>1, GotoMoves DEF OpenChannel, Moves, Pc, LoopPc
    <3> QED  BY <1>4, <3>2, StepsByPlace DEF LoopPc
  <2>2. CASE task[Boot].conn \notin open
    BY <1>5, <1>8, <2>2 DEF OpenChannel
  <2> QED  BY <2>1, <2>2
<1>9. CASE AssertExchange(Boot)
  <2>1. CASE task[Boot].conn \in open
    <3>1. connection = task[Boot].conn
      BY <1>1, <1>9 DEF AssertExchange, AloneInv, Opening
    <3>2. connection # None
      BY <2>1, <3>1 DEF TypeOK, PublisherAssumption
    <3>3. LoopHead(Boot, 0, TRUE)
      BY <1>9, <2>1, <3>2 DEF AssertExchange
    <3>4. task'[Boot].pc = "recheck"
      BY <1>1, <3>3, LoopEnds DEF Moves
    <3> QED  BY <1>3, <3>4
  <2>2. CASE task[Boot].conn \notin open
    BY <1>5, <1>9, <2>2 DEF AssertExchange
  <2> QED  BY <2>1, <2>2
<1>10. CASE Wake(Boot)
  <2>1. LoopHead(Boot, a, isConnected) /\ pc = "sleep"
    BY <1>10 DEF Wake
  <2>2. \/ a < MaxRetries /\ connectionAttempts' = a + 1 /\ task'[Boot].pc = "dial"
        \/ task'[Boot].pc = "recheck"
    BY <1>1, <2>1, LoopHeadGoesTo
  <2>3. CASE a < MaxRetries /\ connectionAttempts' = a + 1 /\ task'[Boot].pc = "dial"
    <3>1. /\ StepsToServe = 4 * (MaxRetries - a) + 2
          /\ StepsToServe' = 4 * (MaxRetries - (a + 1)) + 5
      BY <2>1, <2>3, StepsByPlace DEF StepsToServe
    <3>2. StepsToServe' < StepsToServe
      BY <1>2, <2>3, <3>1
    <3>3. connectionAttempts' \in 1..MaxRetries
      BY <1>2, <2>3
    <3> QED  BY <2>3, <3>2, <3>3 DEF BootInv, LoopPc
  <2> QED  BY <1>3, <2>2, <2>3
<1> QED  BY <1>6, <1>7, <1>8, <1>9, <1>10 DEF ConnectStep

\* What the other steps do to the start.
LEMMA BootStep ==
  ASSUME PublisherAssumption, PublisherInv, BootInv, [Next]_vars
  PROVE  /\ BootInv'
         /\ ~serving => \/ UNCHANGED <<task, connectionAttempts, serving>>
                        \/ StepsToServe' < StepsToServe
                        \/ \E c \in open \ listening : c \notin open'
<1>1. TypeOK
  BY DEF PublisherInv
<1>2. ASSUME NEW t \in Task, ConnectStep(t)
      PROVE  BootInv' /\ (~serving => StepsToServe' < StepsToServe)
  <2>1. serving' = serving /\ task[t].pc \in LoopPc
    BY <1>1, <1>2, ConnectMoves
  <2>2. CASE serving
    BY <2>1, <2>2 DEF BootInv
  <2>3. CASE ~serving
    <3>1. t = Boot /\ AloneInv
      BY <2>1, <2>3 DEF PublisherInv, Task, LoopPc
    <3> QED  BY <1>1, <1>2, <2>3, <3>1, ConnectNears
  <2> QED  BY <2>2, <2>3
<1>3. ASSUME NEW e \in Emit, EmitEvent(e) \/ EmitStep(e) PROVE serving /\ serving'
  <2>1. serving' = serving /\ (~serving => task[e].pc \in {"recheck", "drain"})
    BY <1>3 DEF EmitEvent, EmitStep, Recheck, Drain
  <2> QED  BY <2>1 DEF PublisherInv
<1>4. CASE Booted
  <2>1. serving' /\ task[Boot].pc = "recheck" /\ task'[Boot].pc = "idle"
    BY <1>1, <1>4, BootedMoves DEF Moves
  <2>2. StepsToServe = 1 /\ StepsToServe' = 0
    BY <2>1, StepsByPlace DEF StepsToServe
  <2> QED  BY <2>1, <2>2 DEF BootInv
<1>5. ASSUME NEW c \in Conn, Closed(c) \/ Broken(c)
      PROVE  BootInv' /\ UNCHANGED <<task, connectionAttempts, serving>>
  BY <1>1, <1>5, LossMoves DEF BootInv
<1>6. ASSUME NEW c \in Conn, Crash(c)
      PROVE  BootInv' /\ \E d \in open \ listening : d \notin open'
  <2>1. /\ task'[Boot].pc = "dial" /\ connectionAttempts' = 1 /\ open' = {}
        /\ c \in open \ listening
    BY <1>1, <1>6, CrashMoves DEF Crash
  <2>2. 1 \in 1..MaxRetries
    BY DEF PublisherAssumption
  <2> QED  BY <2>1, <2>2 DEF BootInv, LoopPc
<1>7. CASE UNCHANGED vars
  BY <1>7 DEF vars, fields, BootInv
<1> QED  BY <1>2, <1>3, <1>4, <1>5, <1>6, <1>7 DEF Next, BootInv

-----------------------------------------------------------------------------
(* The theorems.                                                           *)

Safety == PipelineInit /\ [][PipelineNext]_pipelineVars

PipelineInv == PublisherInv /\ LetterInv /\ DoomedInv

LEMMA PipelineStarts == PublisherAssumption /\ PipelineInit => PipelineInv
<1> SUFFICES ASSUME PublisherAssumption, PipelineInit PROVE PipelineInv
  OBVIOUS
<1>1. /\ \A e \in Emit : task[e].pc = "idle"
      /\ task[Boot].pc = "dial"
      /\ task \in TaskType
  BY DEF PipelineInit, Init, Task, TaskType, At, Pc, LoopPc, PublisherAssumption
<1>2. TypeOK
  BY <1>1, Attempts DEF PipelineInit, Init, TypeOK, TaskType
<1>3. AloneInv
  BY <1>1 DEF PipelineInit, Init, AloneInv, Opening, Loops, Task, LoopPc
<1>4. LetterInv
  BY DEF PipelineInit, LetterInv, AnswersAreKept, Tracked, Stage, Answer, PublisherAssumption
<1>5. DoomedInv
  BY DEF PipelineInit, DoomedInv
<1> QED  BY <1>1, <1>2, <1>3, <1>4, <1>5 DEF PipelineInit, PublisherInv, PipelineInv

LEMMA PipelineSteps ==
  PublisherAssumption /\ PipelineInv /\ [PipelineNext]_pipelineVars => PipelineInv'
<1> SUFFICES ASSUME PublisherAssumption, PipelineInv, [PipelineNext]_pipelineVars
             PROVE  PipelineInv'
  OBVIOUS
<1>1. CASE PipelineNext
  <2>1. Next \/ UNCHANGED vars
    BY <1>1 DEF PipelineNext, Next, Create, Resume, Drained, Bind, Transmit, EmitStep
  <2>2. Watch
    BY <1>1 DEF PipelineNext
  <2> QED  BY <1>1, <2>1, <2>2, PublisherStep, LetterStep, DoomedStep DEF PipelineInv, PublisherInv
<1>2. CASE UNCHANGED pipelineVars
  <2>1. PublisherInv' /\ LetterInv'
    BY <1>2 DEF pipelineVars, vars, fields, network, PipelineInv, PublisherInv, LetterInv, TypeOK,
       AloneInv, Opening, Loops, AnswersAreKept, Tracked
  <2>2. DoomedInv'
    BY <1>2 DEF pipelineVars, vars, fields, network, PipelineInv, DoomedInv, Stuck, GivenUp,
       Wedged, Connecting
  <2> QED  BY <2>1, <2>2 DEF PipelineInv
<1> QED  BY <1>1, <1>2

\* The invariant behind the following theorems.
THEOREM PipelineInvariant == PipelineSpec => []PipelineInv
<1>1. PipelineSpec => Safety
  BY DEF PipelineSpec, Safety
<1>2. Safety => []PipelineInv
  BY PipelineStarts, PipelineSteps, PublisherAssumption, PTL DEF Safety
<1> QED  BY <1>1, <1>2

\* All fields, connections and tasks keep their types; connectionAttempts never
\* exceeds maxRetries.
THEOREM TypeCorrect == PipelineSpec => []PipelineTypeOK
<1>1. PipelineInv => PipelineTypeOK
  BY DEF PipelineInv, PublisherInv, LetterInv, DoomedInv, PipelineTypeOK
<1> QED  BY <1>1, PipelineInvariant, PTL

\* isHealthy tells the truth and no connection is left behind, as long as two
\* connect loops have not overlapped since the process started.
THEOREM AloneIsSound == PipelineSpec => []SoundWhenAlone
<1>1. PipelineInv => SoundWhenAlone
  BY DEF PipelineInv, PublisherInv, AloneInv, SoundWhenAlone, HealthyMeansUsable, NothingLeaked
<1> QED  BY <1>1, PipelineInvariant, PTL

\* What emit answers is so.
THEOREM AnswersHold == PipelineSpec => []AnswersAreKept
<1>1. PipelineInv => AnswersAreKept
  BY DEF PipelineInv, LetterInv
<1> QED  BY <1>1, PipelineInvariant, PTL

\* A publisher that has given up, or is wedged, stays so until the process ends.
THEOREM StuckHolds == PipelineSpec => StuckIsForever
<1>1. TypeOK /\ PublisherAssumption /\ [PipelineNext]_pipelineVars =>
        [(GivenUp => GivenUp' \/ ~serving') /\ (Wedged => Wedged' \/ ~serving')]_vars
  BY StuckKeeps, PipelineIsNext DEF Stuck
<1>2. PipelineInv => TypeOK
  BY DEF PipelineInv, PublisherInv
<1>3. PipelineSpec => [][PipelineNext]_pipelineVars
  BY DEF PipelineSpec
<1>4. PipelineSpec => []TypeOK
  BY <1>2, PipelineInvariant, PTL
<1> QED  BY <1>1, <1>3, <1>4, PublisherAssumption, PTL DEF StuckIsForever

\* An invite that is created while the publisher is stuck never gets a mail, not even
\* after the restart that ends the state.
THEOREM StuckInvitesGetNoMail == PipelineSpec => []StuckMeansNoMail
<1>1. PipelineInv => StuckMeansNoMail
  BY DEF PipelineInv, DoomedInv, StuckMeansNoMail
<1> QED  BY <1>1, PipelineInvariant, PTL

\* The publisher, with the socket and the broker, implements the announcement of an
\* event, however many emits overlap and whatever breaks: the event goes out at most
\* once, and what its caller was told is neither untrue nor changed.
THEOREM AnnouncementImplemented == PipelineSpec => ImplementsAnnouncement
<1>1. PipelineInit => Said!Init
  BY DEF PipelineInit, Said!Init
<1>2. PipelineInv /\ PublisherAssumption /\ [PipelineNext]_pipelineVars => [Said!Next]_(Said!vars)
  <2> SUFFICES ASSUME PipelineInv, PublisherAssumption, [PipelineNext]_pipelineVars
               PROVE  Announces
    BY AnnouncesIsNext
  <2>1. CASE PipelineNext
    BY <2>1, PipelineAnnounces DEF PipelineInv, PublisherInv
  <2>2. CASE UNCHANGED pipelineVars
    BY <2>2 DEF pipelineVars, Announces, Reached
  <2> QED  BY <2>1, <2>2
<1>3. PipelineSpec => PipelineInit /\ [][PipelineNext]_pipelineVars
  BY DEF PipelineSpec
<1> QED  BY <1>1, <1>2, <1>3, PipelineInvariant, PublisherAssumption, PTL
         DEF ImplementsAnnouncement, Said!Spec

\* The service is up after at most 4 * maxRetries + 1 steps of its start, whatever
\* the broker does, unless a connection without callbacks breaks and ends the
\* process: what is left of ServesEventually is that those steps are taken.
THEOREM BootProgress == PipelineSpec => []BootIsBounded /\ BootOnlyProgresses
<1>1. PublisherAssumption /\ PipelineInit => BootInv
  <2>1. PublisherAssumption => 1 \in 1..MaxRetries
    BY DEF PublisherAssumption
  <2> QED  BY <2>1 DEF PipelineInit, Init, BootInv, Task, At, LoopPc
<1>2. PublisherAssumption /\ PipelineInv /\ BootInv /\ [PipelineNext]_pipelineVars =>
        /\ BootInv'
        /\ [~serving => \/ UNCHANGED <<task, connectionAttempts, serving>>
                        \/ StepsToServe' < StepsToServe
                        \/ \E c \in open \ listening : c \notin open']_vars
  <2> SUFFICES ASSUME PublisherAssumption, PipelineInv, BootInv,
                      [PipelineNext]_pipelineVars
               PROVE  BootInv' /\ (~serving => \/ UNCHANGED <<task, connectionAttempts, serving>>
                                               \/ StepsToServe' < StepsToServe
                                               \/ \E c \in open \ listening : c \notin open')
    OBVIOUS
  <2> QED  BY BootStep, PipelineIsNext DEF PipelineInv
<1>3. PublisherAssumption /\ BootInv => BootIsBounded
  BY BootBound
<1>4. PipelineSpec => PipelineInit /\ [][PipelineNext]_pipelineVars
  BY DEF PipelineSpec
<1> QED  BY <1>1, <1>2, <1>3, <1>4, PipelineInvariant, PublisherAssumption, PTL
         DEF BootOnlyProgresses

=============================================================================

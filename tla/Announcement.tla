---------------------------- MODULE Announcement ----------------------------
(***************************************************************************)
(* What RabbitMQService promises of one event, whatever connections it     *)
(* uses for it: the event leaves the process at most once, what the caller *)
(* is told is told once and at a moment when it is so, and after that only *)
(* the connection the event was written to can still lose it.  The answer  *)
(* true promises no arrival, nor does the end of the process mean that the *)
(* event did not get through.                                              *)
(***************************************************************************)

VARIABLES
  stage,    \* how far the event has come
  answer    \* what the caller was told; "died" when its process has ended

vars == <<stage, answer>>

Handed == {"buffered", "lost", "queued", "unrouted"}

TypeOK ==
  /\ stage \in {"unsaid", "refused"} \cup Handed
  /\ answer \in {"none", "true", "false", "died"}

Init == stage = "unsaid" /\ answer = "none"

\* The event stays behind, and the caller knows, if there still is one.
Refuse ==
  /\ stage = "unsaid"
  /\ stage' = "refused"
  /\ answer' \in {"false", "died"}

\* The event is written to a connection; the caller is told now or later.
HandOver ==
  /\ stage = "unsaid"
  /\ stage' = "buffered"
  /\ answer' \in {"none", "true"}

Confirm ==
  /\ stage \in Handed /\ answer = "none"
  /\ answer' = "true"
  /\ UNCHANGED stage

\* The event reaches the broker, and a queue if there is one for it.
Arrive ==
  /\ stage = "buffered"
  /\ stage' \in {"queued", "unrouted"}
  /\ UNCHANGED answer

\* The connection ends, and perhaps the process with it.
Lose ==
  /\ stage = "buffered"
  /\ stage' = "lost"
  /\ \/ UNCHANGED answer
     \/ answer = "none" /\ answer' = "died"

\* The process ends before it has answered for an event that is on its way.
Die ==
  /\ stage \in Handed /\ answer = "none"
  /\ answer' = "died"
  /\ UNCHANGED stage

Next == Refuse \/ HandOver \/ Confirm \/ Arrive \/ Lose \/ Die

Spec == Init /\ [][Next]_vars

=============================================================================

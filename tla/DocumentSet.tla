----------------------------- MODULE DocumentSet -----------------------------
(***************************************************************************)
(* What the document service promises of each document, whatever two       *)
(* stores it is made of: it is listed at most once, it is whole when it is *)
(* first listed, and it leaves the list only when its content is gone, so  *)
(* that no content is left behind that nobody can name.                    *)
(***************************************************************************)

CONSTANT Doc

VARIABLE status

Status == {"absent", "available", "broken", "gone"}

TypeOK == status \in [Doc -> Status]

Init == status = [d \in Doc |-> "absent"]

Change(d, from, to) ==
  /\ status[d] = from
  /\ status' = [status EXCEPT ![d] = to]

\* The document appears in the list, with its content.
Publish(d) == Change(d, "absent", "available")

\* Its content goes away while it is still listed.
Break(d) == Change(d, "available", "broken")

Withdraw(d) == Change(d, "broken", "gone")

Next == \E d \in Doc : Publish(d) \/ Break(d) \/ Withdraw(d)

Spec == Init /\ [][Next]_status

=============================================================================

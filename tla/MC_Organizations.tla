-------------------------- MODULE MC_Organizations --------------------------
(* Instance of Organizations for TLC.  Keys, names and requests are         *)
(* interchangeable: no definition tells one from another.                   *)
EXTENDS Organizations, TLC

Symmetry == Permutations(Id) \cup Permutations(Name) \cup Permutations(Req)

=============================================================================

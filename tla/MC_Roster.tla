----------------------------- MODULE MC_Roster -----------------------------
(* Instances of Roster for TLC.  Keys, users and requests are              *)
(* interchangeable: no definition tells one from another.                  *)
EXTENDS Roster, TLC

Symmetry ==
  Permutations(MemId) \cup Permutations(InvId) \cup Permutations(User)
    \cup Permutations(Req)

=============================================================================

----------------------------- MODULE MC_Accounts -----------------------------
(* Instance of Accounts for TLC.  Keys, names, passwords and requests are   *)
(* interchangeable: no definition tells one from another.                   *)
EXTENDS Accounts, TLC

Symmetry ==
  Permutations(User) \cup Permutations(Name) \cup Permutations(Password)
    \cup Permutations(Req)

=============================================================================

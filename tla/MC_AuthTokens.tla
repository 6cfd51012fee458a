---------------------------- MODULE MC_AuthTokens ----------------------------
(* Instance of AuthTokens for TLC.                                          *)
EXTENDS AuthTokens, TLC

Symmetry == Permutations(Req)

=============================================================================

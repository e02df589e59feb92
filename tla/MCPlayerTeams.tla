---------------------------- MODULE MCPlayerTeams ----------------------------
(* Small instances of PlayerTeams.                                          *)
EXTENDS PlayerTeams, TLC

Symmetry == Permutations(Accounts) \cup Permutations(Teams) \cup Permutations(Bosses)
=============================================================================

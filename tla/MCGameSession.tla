--------------------------- MODULE MCGameSession ---------------------------
(* Small instances of GameSession.  Connections are interchangeable.        *)
EXTENDS GameSession, TLC

Symmetry == Permutations(Connections) \cup Permutations(Chats)
=============================================================================

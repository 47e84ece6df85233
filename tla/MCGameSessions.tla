--------------------------- MODULE MCGameSessions ---------------------------
(* Players of GameSessions are interchangeable. *)
EXTENDS GameSessions, TLC

PlayerSymmetry == Permutations(Players)
=============================================================================

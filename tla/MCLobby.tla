------------------------------- MODULE MCLobby -------------------------------
(* Instances of Lobby for TLC: the values of the constants are in the .cfg.  *)
EXTENDS Lobby
=============================================================================

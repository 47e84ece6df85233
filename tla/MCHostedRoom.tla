---------------------------- MODULE MCHostedRoom ----------------------------
(* A host that expects three players, two bots, one match.  Nothing here reads *)
(* "seen", so two states that differ only in it are the same.                  *)
EXTENDS HostedRoom

RoomView == <<counters, connVars, roomVars, matchVars, hostVars, botVars, wires, over, trouble>>
=============================================================================

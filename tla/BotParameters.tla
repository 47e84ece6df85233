--------------------------- MODULE BotParameters ---------------------------
(* What a bot client is started with. *)
EXTENDS Naturals

CONSTANT Bots   \* options.count

ASSUME BotAssumption == Bots \in Nat \ {0}

Bot == 1..Bots
=============================================================================

----------------------------- MODULE MCGamePlay -----------------------------
(***************************************************************************)
(* The two halves of a game server's match: GameSessions, for which the    *)
(* simulation's ticks do what AuthoritativeMatch lets them, and the rules  *)
(* of OfflineMatch, which must do no more.  A behaviour runs one of them,  *)
(* chosen at the start, and leaves the other where it begins.              *)
(***************************************************************************)
EXTENDS GameSessions, OfflineMatch, TLC

VARIABLE part

\* Three contenders and a neutral actor, an area weapon and a medkit to pick up; a
\* blade takes two points, the others one, as does the zone at the second tick.
ContendersDef == {0, 1, 2}
NeutralSpawnsDef == 3 :> [health |-> 1, weapon |-> "Rifle"]
LootItemsDef == (0 :> "ArcPulse") @@ (1 :> "MedKit")
WeaponDefinitionDef ==
  [Blade    |-> [damage |-> 2, cooldown |-> 2, area |-> FALSE],
   Rifle    |-> [damage |-> 1, cooldown |-> 1, area |-> FALSE],
   ArcPulse |-> [damage |-> 1, cooldown |-> 2, area |-> TRUE]]
SafeZoneStagesDef == <<[until |-> 2, damage |-> 2], [until |-> 4, damage |-> 1]>>

PlayInit == part \in {"server", "rules"} /\ Init /\ RulesInit

PlayNext ==
  \/ part = "server" /\ Next /\ UNCHANGED <<part, simulationVars>>
  \/ part = "rules" /\ RulesNext /\ UNCHANGED <<part, vars>>

\* The server's fairness, when it runs.
PlaySpec ==
  /\ PlayInit /\ [][PlayNext]_<<part, vars, simulationVars>>
  /\ WF_vars(part = "server" /\ Tick)
  /\ WF_vars(part = "server" /\ TimerFires)
  /\ WF_vars(part = "server" /\ (Advance \/ AdvanceThrows))
=============================================================================

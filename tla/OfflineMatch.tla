---------------------------- MODULE OfflineMatch ----------------------------
(***************************************************************************)
(* The rules of the simulation (OfflineMatch.cpp, OfflineMatchStep.cpp,    *)
(* Combat.cpp, Loot.cpp, SafeZone.cpp, MatchResolution.cpp): one tick      *)
(* disconnects who left, hands out loot, resolves all attacks at once,     *)
(* applies the safe zone and looks for a winner.                           *)
(*                                                                         *)
(* Positions are not modelled: which attacks are in range, who stands near *)
(* their targets, beside loot and outside the zone may be anything, tick   *)
(* by tick.  Who submits commands is not either: any actor may attack.     *)
(***************************************************************************)
EXTENDS Naturals, Sequences, FiniteSetsExt, Functions

CONSTANTS
  Contenders,        \* ids of the contenders; the neutral actors' follow them
  NeutralSpawns,     \* neutral actor -> [health, weapon] it spawns with
  LootItems,         \* loot id -> "Rifle", "ArcPulse" or "MedKit"
  WeaponDefinition,  \* weapon -> [damage, cooldown, area]
  FullHealth,        \* 100
  MedKitHealth,      \* 35
  SafeZoneStages,    \* stage number -> [until, damage]: its last tick and damage
  TickRate, SuddenDeathTick, HardTimeoutTick,
  EnableInternalBots,  \* whether the neutral actors attack: not on a game server
  Nobody             \* no subject, no winner

Neutrals == DOMAIN NeutralSpawns
Actors == Contenders \cup Neutrals
Weapons == {"Blade", "Rifle", "ArcPulse"}

ASSUME RulesAssumption ==
  /\ Contenders \subseteq Nat /\ IsFiniteSet(Contenders) /\ Cardinality(Contenders) >= 2
  /\ Neutrals \subseteq Nat /\ IsFiniteSet(Neutrals) /\ Neutrals \cap Contenders = {}
  /\ Nobody \notin Nat
  /\ FullHealth \in Nat \ {0} /\ MedKitHealth \in Nat \ {0}
  /\ NeutralSpawns \in [Neutrals -> [health : 1..FullHealth, weapon : Weapons]]
  /\ LootItems \in [DOMAIN LootItems -> {"Rifle", "ArcPulse", "MedKit"}]
  /\ WeaponDefinition \in
       [Weapons -> [damage : Nat \ {0}, cooldown : Nat \ {0}, area : BOOLEAN]]
  /\ SafeZoneStages \in Seq([until : Nat, damage : Nat \ {0}]) \ {<<>>}
  /\ TickRate \in Nat \ {0} /\ EnableInternalBots \in BOOLEAN
  /\ SuddenDeathTick \in Nat \ {0} /\ HardTimeoutTick \in Nat
  /\ SuddenDeathTick < HardTimeoutTick

VARIABLES
  world,    \* the actors and the loot
  phase, tick, result,
  events,   \* what the last tick reported (the server drains them every tick)
  error     \* the exception that left the last tick, or "none"

simulationVars == <<world, phase, tick, result, events, error>>

\* The fields of CombatActor by actor, with alive and loot the sets of those whose
\* flag is set.
Worlds ==
  [health : [Actors -> 0..FullHealth], alive : SUBSET Actors,
   weapon : [Actors -> Weapons], cooldown : [Actors -> Nat],
   eliminations : [Actors -> Nat], loot : SUBSET DOMAIN LootItems]

Event(type, actor, subject, amount) ==
  [type |-> type, actor |-> actor, subject |-> subject, amount |-> amount]

Spawn ==
  [health |-> [a \in Actors |-> IF a \in Contenders THEN FullHealth
                                ELSE NeutralSpawns[a].health],
   alive |-> Actors,
   weapon |-> [a \in Actors |-> IF a \in Contenders THEN "Blade"
                                ELSE NeutralSpawns[a].weapon],
   cooldown |-> [a \in Actors |-> 0], eliminations |-> [a \in Actors |-> 0],
   loot |-> DOMAIN LootItems]

AliveContenders(w) == w.alive \cap Contenders

\* The health of some actors changes, and with it who is alive.
WithHealth(w, health) ==
  [w EXCEPT !.health = health, !.alive = {a \in @ : health[a] > 0}]

-----------------------------------------------------------------------------
(* The winner among the contenders: alive, health, eliminations, lowest id. *)
Outranks(w, c, d) ==
  \/ c \in w.alive /\ d \notin w.alive
  \/ /\ c \in w.alive <=> d \in w.alive
     /\ \/ w.health[c] > w.health[d]
        \/ /\ w.health[c] = w.health[d]
           /\ \/ w.eliminations[c] > w.eliminations[d]
              \/ w.eliminations[c] = w.eliminations[d] /\ c < d

SelectSurvivalWinner(w) ==
  CHOOSE c \in Contenders : \A d \in Contenders \ {c} : Outranks(w, c, d)

-----------------------------------------------------------------------------
(* Leaving, and loot. *)
Disconnected(w, gone) ==
  WithHealth(w, [a \in Actors |-> IF a \in gone THEN 0 ELSE w.health[a]])

\* Every contender takes at most one item, and nobody an item that is taken.
PickUps(w) ==
  {f \in UNION {[S -> w.loot] : S \in SUBSET AliveContenders(w)} : IsInjective(f)}

Healing(w, takes, a) ==
  IF a \in DOMAIN takes /\ LootItems[takes[a]] = "MedKit"
    THEN IF MedKitHealth < FullHealth - w.health[a] THEN MedKitHealth
         ELSE FullHealth - w.health[a]
    ELSE 0

PickedUp(w, takes) ==
  [w EXCEPT
     !.loot = @ \ Range(takes),
     !.health = [a \in Actors |-> @[a] + Healing(w, takes, a)],
     !.weapon = [a \in Actors |->
                   IF a \in DOMAIN takes /\ LootItems[takes[a]] # "MedKit"
                     THEN LootItems[takes[a]] ELSE @[a]]]

CooledDown(w) ==
  [w EXCEPT !.cooldown = [a \in Actors |-> IF @[a] = 0 THEN 0 ELSE @[a] - 1]]

-----------------------------------------------------------------------------
(* Combat.  The attacks of a tick are resolved together: an actor that is
   killed by one still carries out its own. *)
CanTarget(w, a, t) ==
  t \in w.alive \ {a} /\ (a \in Contenders \/ t \in Contenders)

\* Who may have been told to attack.
Commanded(w) == IF EnableInternalBots THEN w.alive ELSE AliveContenders(w)

\* The attacks that are accepted: aim gives each attacker its target, and near
\* the pairs of actors within the radius of an area weapon.
Aims(w) ==
  {aim \in UNION {[S -> w.alive] : S \in SUBSET {a \in Commanded(w) : w.cooldown[a] = 0}} :
     \A a \in DOMAIN aim : CanTarget(w, a, aim[a])}

Area(w, a) == WeaponDefinition[w.weapon[a]].area
NearPairs(w, aim) ==
  {{aim[a], t} : a \in {b \in DOMAIN aim : Area(w, b)}, t \in w.alive}
    \ {{t} : t \in w.alive}

Hits(w, aim, near, a) ==
  IF Area(w, a) THEN {t \in w.alive : /\ CanTarget(w, a, t)
                                      /\ t = aim[a] \/ {t, aim[a]} \in near}
  ELSE {aim[a]}

Sources(w, aim, near, t) == {a \in DOMAIN aim : t \in Hits(w, aim, near, a)}

DamageOf(w, a) == WeaponDefinition[w.weapon[a]].damage

\* The damage of all sources together, counted point by point.
TotalDamage(w, sources) == Cardinality(UNION {{a} \X (1..DamageOf(w, a)) : a \in sources})

PrimarySource(w, sources) ==
  CHOOSE a \in sources : \A b \in sources \ {a} :
    \/ DamageOf(w, a) > DamageOf(w, b)
    \/ DamageOf(w, a) = DamageOf(w, b) /\ a < b

\* CombatResolution: the damage done and its primary source by target, and the
\* deaths, whose killers are those sources.
Resolution(w, aim, near) ==
  LET sources == [t \in w.alive |-> Sources(w, aim, near, t)]
      hurt == {t \in w.alive : sources[t] # {}}
      total == [t \in hurt |-> TotalDamage(w, sources[t])]
  IN  [damage |-> [t \in hurt |-> IF w.health[t] < total[t] THEN w.health[t] ELSE total[t]],
       source |-> [t \in hurt |-> PrimarySource(w, sources[t])],
       deaths |-> {t \in hurt : w.health[t] <= total[t]}]

KillsOf(r, a) == Cardinality({v \in r.deaths : r.source[v] = a})

Fought(w, aim, r) ==
  [WithHealth(w, [a \in Actors |-> IF a \in DOMAIN r.damage
                                     THEN w.health[a] - r.damage[a] ELSE w.health[a]])
     EXCEPT !.cooldown = [a \in Actors |->
                            IF a \in DOMAIN aim THEN WeaponDefinition[w.weapon[a]].cooldown
                            ELSE @[a]],
            !.eliminations = [a \in Actors |-> @[a] + KillsOf(r, a)]]

(* PreserveCombatWipe: a combat that kills every contender leaves the best of
   them with one health, and takes his death back. *)
Wiped(fought) == AliveContenders(fought) = {}

WipeFails(w, fought, r) ==
  LET best == SelectSurvivalWinner(w)
  IN  \/ best \notin r.deaths
      \/ fought.eliminations[r.source[best]] = 0
      \/ best \notin DOMAIN r.damage

\* Mutant: the killer keeps the kill that was taken back.
RevivedOnly(w, fought, r) ==
  LET best == SelectSurvivalWinner(w)
  IN  [fought EXCEPT !.health[best] = 1, !.alive = @ \cup {best}]

Revived(w, fought, r) ==
  LET best == SelectSurvivalWinner(w)
  IN  [fought EXCEPT !.health[best] = 1, !.alive = @ \cup {best},
                     !.eliminations[r.source[best]] = @ - 1]

TakenBack(w, r) ==
  LET best == SelectSurvivalWinner(w)
  IN  [r EXCEPT !.deaths = @ \ {best},
                !.damage = IF w.health[best] <= 1
                             THEN Restrict(@, DOMAIN @ \ {best})
                             ELSE [@ EXCEPT ![best] = w.health[best] - 1]]

CombatEvents(r) ==
  {Event("DamageApplied", t, r.source[t], r.damage[t]) : t \in DOMAIN r.damage}
    \cup {Event("ActorDied", v, r.source[v], 0) : v \in r.deaths}

-----------------------------------------------------------------------------
(* The safe zone: once a second it hurts who is outside, but spares the best of
   the contenders if it would kill them all. *)
SafeZoneDamageForTick(t) ==
  LET open == {s \in DOMAIN SafeZoneStages : t < SafeZoneStages[s].until}
      stage == IF open = {} THEN CHOOSE s \in DOMAIN SafeZoneStages :
                                   \A o \in DOMAIN SafeZoneStages : o <= s
               ELSE CHOOSE s \in open : \A o \in open : s <= o
  IN  IF t = 0 \/ t % TickRate # 0 THEN 0 ELSE SafeZoneStages[stage].damage

\* Mutant: the zone spares nobody.
SparedNobody(w, outside, damage) == {}

Spared(w, outside, damage) ==
  IF \E c \in AliveContenders(w) : c \notin outside \/ w.health[c] > damage THEN {}
  ELSE {SelectSurvivalWinner(w)}

Zoned(w, outside, damage) ==
  LET spared == Spared(w, outside, damage)
  IN  IF damage = 0 THEN w
      ELSE WithHealth(w, [a \in Actors |->
             IF a \notin outside THEN w.health[a]
             ELSE IF a \in spared THEN 1
             ELSE IF w.health[a] > damage THEN w.health[a] - damage ELSE 0])

ZoneEvents(w, z) ==
  {Event("DamageApplied", a, Nobody, w.health[a] - z.health[a]) :
     a \in {b \in Actors : z.health[b] < w.health[b]}}
    \cup {Event("ActorDied", a, Nobody, 0) : a \in w.alive \ z.alive}

-----------------------------------------------------------------------------
(* The end of a tick, and the tick. *)

\* Mutant: the match goes on at the time limit.
TimeIsUpAfter(t) == t > HardTimeoutTick

TimeIsUp(t) == t >= HardTimeoutTick
Finishes(w, t) == Cardinality(AliveContenders(w)) = 1 \/ TimeIsUp(t)
OnTime(w, t) == Cardinality(AliveContenders(w)) > 1 /\ TimeIsUp(t)

\* At the time limit the winner is left with one health, the others die.
Concluded(w, t) ==
  LET winner == SelectSurvivalWinner(w)
  IN  IF OnTime(w, t)
        THEN WithHealth(w, [a \in Actors |-> IF a \notin AliveContenders(w) THEN w.health[a]
                                             ELSE IF a = winner THEN 1 ELSE 0])
        ELSE w

Winner(w, t) ==
  IF OnTime(w, t) THEN SelectSurvivalWinner(w) ELSE CHOOSE c \in AliveContenders(w) : TRUE

Settle(w, t, reported) ==
  /\ world' = Concluded(w, t)
  /\ events' = reported \cup {Event("ActorDied", a, Nobody, 0) : a \in w.alive \ world'.alive}
  /\ error' = "none"
  /\ IF Finishes(w, t)
       THEN /\ phase' = "Finished"
            /\ result' = [winner |-> Winner(w, t),
                          reason |-> IF OnTime(w, t) THEN "TimeLimit" ELSE "LastSurvivor"]
       ELSE /\ phase' = IF t >= SuddenDeathTick THEN "SuddenDeath" ELSE "Running"
            /\ UNCHANGED result

\* An exception leaves the tick: no other follows.
Throw(e) == error' = e /\ events' = {} /\ UNCHANGED <<world, phase, result>>

\* What ValidateActors checks of every actor.
Valid(w) == \A a \in Actors : w.health[a] <= FullHealth /\ (a \in w.alive <=> w.health[a] > 0)

\* Who may be outside the zone, when that matters.
Outside(w, t) == IF SafeZoneDamageForTick(t) = 0 THEN {{}} ELSE SUBSET w.alive

\* Combat and what follows, on actors ready to fight and the events so far.  (Here
\* and in Step, a bound variable in a set of one value names that value.)
FightAndSettle(ready, aim, near, t, reported) ==
  \E r \in {Resolution(ready, aim, near)} : \E fought \in {Fought(ready, aim, r)} :
    IF ~Valid(ready) THEN Throw("actor")
    ELSE IF Wiped(fought) /\ WipeFails(ready, fought, r) THEN Throw("wipe")
    ELSE \E saved \in {IF Wiped(fought) THEN Revived(ready, fought, r) ELSE fought},
            report \in {IF Wiped(fought) THEN TakenBack(ready, r) ELSE r} :
           IF \E a \in DOMAIN report.damage : report.damage[a] <= 0 THEN Throw("damage")
           ELSE \E outside \in Outside(saved, t) :
                \E zoned \in {Zoned(saved, outside, SafeZoneDamageForTick(t))} :
                  IF AliveContenders(zoned) = {} THEN Throw("nobody")
                  ELSE Settle(zoned, t, reported \cup CombatEvents(report)
                                                 \cup ZoneEvents(saved, zoned))

PickUpEvents(w, takes) ==
  {Event("ActorHealed", a, Nobody, Healing(w, takes, a)) :
     a \in {b \in DOMAIN takes : Healing(w, takes, b) > 0}}

\* A tick, before which gone left the match (that the dead leave changes nothing).
Step(gone) ==
  /\ phase \in {"Running", "SuddenDeath"} /\ error = "none"
  /\ tick' = tick + 1
  /\ IF gone = AliveContenders(world) THEN Throw("disconnect")
     ELSE \E left \in {Disconnected(world, gone)} :
          \E takes \in PickUps(left) :
          \E ready \in {CooledDown(PickedUp(left, takes))} :
          \E aim \in Aims(ready) : \E near \in SUBSET NearPairs(ready, aim) :
            FightAndSettle(ready, aim, near, tick',
              {Event("ActorDisconnected", a, Nobody, 0) : a \in gone}
                \cup PickUpEvents(left, takes))

Start ==
  /\ phase = "Waiting"
  /\ world' = Spawn /\ phase' = "Running"
  /\ UNCHANGED <<tick, result, events, error>>

RulesInit ==
  /\ world = Spawn /\ phase = "Waiting" /\ tick = 0
  /\ result = Nobody /\ events = {} /\ error = "none"

RulesNext == Start \/ \E gone \in SUBSET AliveContenders(world) : Step(gone)

RulesSpec == RulesInit /\ [][RulesNext]_simulationVars

-----------------------------------------------------------------------------
\* One exception alone can leave a tick, that all living contenders left at once:
\* in whatever way a tick kills, through combat, the zone and the time limit, a
\* contender is left; a match goes on while there are two, and ends with the
\* winner alone alive.  (The logic_errors of OfflineMatchStep.cpp.)
RulesHold ==
  /\ world \in Worlds /\ error \in {"none", "disconnect"}
  /\ Valid(world)
  /\ phase # "Finished" => Cardinality(AliveContenders(world)) >= 2 /\ result = Nobody
  /\ phase = "Finished" =>
       /\ AliveContenders(world) = {result.winner}
       /\ result.reason = "TimeLimit" =>
            tick = HardTimeoutTick /\ world.health[result.winner] = 1

\* The events of a tick account for what it did, also when a death is taken back
\* or the zone spares somebody: health changes by the damage and healing that are
\* reported, eliminations by the deaths that name a killer, and who dies is
\* reported once.  (Time's verdict is not damage.)
Reported(type, a) == {e \in events : e.type = type /\ e.actor = a}
Sum(reports) == MapThenSumSet(LAMBDA e : e.amount, reports)
TickRan == tick' # tick /\ error' = "none"
TimeDecided == phase = "Finished" /\ result.reason = "TimeLimit"

EventsAccount ==
  [][TickRan => \A a \in Actors :
       /\ Reported("ActorDisconnected", a)' = {} /\ ~TimeDecided' =>
            world'.health[a] + Sum(Reported("DamageApplied", a))'
              = world.health[a] + Sum(Reported("ActorHealed", a))'
       /\ world'.eliminations[a] = world.eliminations[a]
            + Cardinality({e \in events' : e.type = "ActorDied" /\ e.subject = a})
       /\ Cardinality(Reported("ActorDied", a) \cup Reported("ActorDisconnected", a))'
            = IF a \in world.alive \ world'.alive THEN 1 ELSE 0
    ]_simulationVars

\* The match as AuthoritativeMatch sees it, with a tick due or none.
M == INSTANCE AuthoritativeMatch WITH
  Players <- Contenders, MaxConnection <- 0, Peers <- {}, None <- Nobody, MaxMatch <- 1,
  Lifetime <- 1, CatchUp <- 1, HardTimeout <- HardTimeoutTick, MaxInput <- 0

Playing(late, leaving) ==
  [M!Create(1) EXCEPT !.started = phase # "Finished",
                      !.ending = IF phase = "Finished" THEN "Winner" ELSE "No",
                      !.alive = AliveContenders(world), !.tick = tick,
                      !.late = late, !.pendingDisconnects = leaving]

\* A tick of the simulation is one that the game server's match expects
\* (AuthoritativeMatch.cpp:778): it loses those who left and perhaps others, never
\* everybody and nobody comes back, and is decided exactly when one contender is
\* left or the time is up.
TicksAreExpected ==
  [][TickRan =>
       LET leaving == {c \in Contenders : Reported("ActorDisconnected", c)' # {}}
           due == Playing(1, leaving)
           survivors == AliveContenders(world')
       IN  /\ M!MayReach(due, 1, survivors)
           /\ Playing(0, {})' = M!AfterTicks(due, 1, survivors)]_simulationVars
=============================================================================

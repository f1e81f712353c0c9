---------------------------- MODULE MCResolution ----------------------------
(* A ritual to interrupt, a band to rout, a friend to protect: objectives, *)
(* morale, hazards and settlement on three cells in a row, no reactions.   *)
EXTENDS CombatKernel

CONSTANTS hero, friend, boss, minion

MCCombatants == {hero, friend, boss, minion}
MCTeam == [c \in MCCombatants |->
             CASE c = hero -> "player" [] c = friend -> "ally" [] OTHER -> "enemy"]
MCOrder == <<hero, boss, friend, minion>>

MCCells == 1..3
MCAdjacent == {<<1, 2>>, <<2, 1>>, <<2, 3>>, <<3, 2>>}
MCAnywhere == MCCells \X MCCells
MCExitDistance == [c \in MCCells |-> c - 1]
MCStartCell == [c \in MCCombatants |-> IF c \in {hero, friend} THEN 2 ELSE 3]

MCLeaders == {boss}
MCProtected == {friend}
MCStartMorale == [c \in MCCombatants |-> IF c = minion THEN 2 ELSE 4]
MCMagnitude == [k \in TriggerKinds |->
                  CASE k = "leader_defeated" -> 3
                    [] k = "ally_removed" -> 1
                    [] k = "objective_failed" -> 2]

MCRule ==
  [ritual |-> [kind |-> "interact_before_deadline", required |-> FALSE,
               actors |-> {hero}, round |-> 1, target |-> "brazier",
               cells |-> {}],
   rout |-> [kind |-> "defeat_or_rout", required |-> TRUE,
             actors |-> {boss, minion}, round |-> 0, target |-> "", cells |-> {}]]
MCObjectives == DOMAIN MCRule

Still == [c \in MCCells |-> c]
Shove == [c \in MCCells |-> IF c = 3 THEN 2 ELSE c]
MCAffordances ==
  {[target |-> "brazier", cost |-> "action", from |-> {2, 3}, checked |-> TRUE,
    success |-> [blast |-> {3}, push |-> Shove, burn |-> {3}, douse |-> {}],
    failure |-> [blast |-> {}, push |-> Still, burn |-> {1, 2}, douse |-> {}]]}
=============================================================================

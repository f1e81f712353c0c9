-------------------------- MODULE CombatEncounter --------------------------
(***************************************************************************)
(* What the combat kernel promises the engine that drives it, with no      *)
(* mention of paths, queues, morale or objectives: whose turn it is, who   *)
(* has fallen, and whether the encounter is open, suspended by a reaction  *)
(* or settled.                                                             *)
(***************************************************************************)
EXTENDS Naturals

CONSTANTS Combatants

VARIABLES stage,    \* "active", "reaction" or "ended"
          round, turn,
          fallen    \* the defeated combatants

vars == <<stage, round, turn, fallen>>

Init ==
  /\ stage = "active"
  /\ round = 1
  /\ turn \in Combatants
  /\ fallen = {}

\* A command of the turn holder: anybody may fall, or the command suspends
\* and then nobody has.
Act ==
  /\ stage = "active"
  /\ stage' \in {"active", "reaction", "ended"}
  /\ fallen' \in {f \in SUBSET Combatants : fallen \subseteq f}
  /\ stage' = "reaction" => fallen' = fallen
  /\ UNCHANGED <<round, turn>>

\* A reaction: the turn stays where it is and only its holder can fall.
React ==
  /\ stage = "reaction"
  /\ stage' \in {"active", "reaction", "ended"}
  /\ fallen' \in {fallen, fallen \cup {turn}}
  /\ UNCHANGED <<round, turn>>

\* The turn passes within the round, and nobody falls, or into the next
\* round, whose hazards may fell anybody.
Pass ==
  /\ stage = "active"
  /\ stage' \in {"active", "ended"}
  /\ turn' \in Combatants
  /\ \/ round' = round /\ fallen' = fallen
     \/ round' = round + 1
        /\ fallen' \in {f \in SUBSET Combatants : fallen \subseteq f}

\* The party leaves, whatever was pending.
Leave ==
  /\ stage \in {"active", "reaction"}
  /\ stage' = "ended"
  /\ UNCHANGED <<round, turn, fallen>>

Next == Act \/ React \/ Pass \/ Leave

Spec == Init /\ [][Next]_vars
=============================================================================

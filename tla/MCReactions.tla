---------------------------- MODULE MCReactions ----------------------------
(* One party member crossing a corridor guarded by two enemies. *)
EXTENDS CombatKernel

CONSTANTS hero, guard1, guard2

MCCombatants == {hero, guard1, guard2}
MCTeam == [c \in MCCombatants |-> IF c = hero THEN "player" ELSE "enemy"]
MCOrder == <<hero, guard1, guard2>>

\* A corridor of five cells with a niche beside its second and fourth cell.
MCCells == {<<x, 0>> : x \in 0..4} \cup {<<1, 1>>, <<3, 1>>}
Gap(a, b) == IF a > b THEN a - b ELSE b - a
Dist(a, b) == Gap(a[1], b[1]) + Gap(a[2], b[2])
Within(d) == {p \in MCCells \X MCCells : Dist(p[1], p[2]) <= d}
MCAdjacent == Within(1) \ Within(0)
MCThreat == Within(1)

MCStartCell == [c \in MCCombatants |->
                  CASE c = hero -> <<0, 0>>
                    [] c = guard1 -> <<1, 1>>
                    [] c = guard2 -> <<3, 1>>]
MCExitCells == {<<2, 0>>, <<3, 0>>, <<4, 0>>}
MCExitDistance == [c \in MCCells |-> IF c[1] >= 2 THEN c[2] ELSE 2 - c[1] + c[2]]

MCStartMorale == [c \in MCCombatants |-> IF c = hero THEN 1 ELSE 3]
\* For the runs in which everybody may give up at once.
MCBroken == [c \in MCCombatants |-> 1]
MCMagnitude == [k \in {"ally_removed"} |-> 1]
MCObjectives == {}
MCRule == <<>>
=============================================================================

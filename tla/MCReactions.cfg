SPECIFICATION FairSpec
CONSTANTS
  hero = hero
  guard1 = guard1
  guard2 = guard2
  Combatants <- MCCombatants
  Team <- MCTeam
  Order <- MCOrder
  Cells <- MCCells
  Adjacent <- MCAdjacent
  Threat <- MCThreat
  ReactionReach <- MCThreat
  Reactors <- MCCombatants
  Allowance = 4
  ExitCells <- MCExitCells
  ExitDistance <- MCExitDistance
  Responses = {"retreat"}
  StartMorale <- MCStartMorale
  BreakThreshold = 1
  MoraleMax = 4
  Magnitude <- MCMagnitude
  Leaders = {}
  Objectives <- MCObjectives
  Rule <- MCRule
  Protected = {}
  StartCell <- MCStartCell
  StartBurning = {}
  AttackReach <- MCThreat
  MaxTargets = 1
  AbilityCosts = {}
  Affordances = {}
  MaxRound = 1
CHECK_DEADLOCK FALSE
INVARIANTS
  TypeOK
  PhaseCoherent
  SuspensionSound
  RemovalsShakePeers
PROPERTIES
  SettlementDue
  ReactionOncePerRound
  RefinesEncounter
  WindowCloses

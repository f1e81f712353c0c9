SPECIFICATION Spec
CONSTANTS
  hero = hero
  friend = friend
  boss = boss
  minion = minion
  Combatants <- MCCombatants
  Team <- MCTeam
  Order <- MCOrder
  Cells <- MCCells
  Adjacent <- MCAdjacent
  Threat <- MCAdjacent
  ReactionReach <- MCAdjacent
  Reactors = {}
  Allowance = 1
  ExitCells = {1}
  ExitDistance <- MCExitDistance
  Responses = {"retreat", "surrender"}
  StartMorale <- MCStartMorale
  BreakThreshold = 1
  MoraleMax = 4
  Magnitude <- MCMagnitude
  Leaders <- MCLeaders
  Objectives <- MCObjectives
  Rule <- MCRule
  Protected <- MCProtected
  StartCell <- MCStartCell
  StartBurning = {}
  AttackReach <- MCAnywhere
  MaxTargets = 1
  AbilityCosts = {"action"}
  Affordances <- MCAffordances
  MaxRound = 1
CHECK_DEADLOCK FALSE
INVARIANTS
  TypeOK
  MoraleLedger
  RemovalsShakePeers
PROPERTIES
  SettlementDue
  TurnsGoToContesters
  RefinesEncounter

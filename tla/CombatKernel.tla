---------------------------- MODULE CombatKernel ----------------------------
(***************************************************************************)
(* The combat kernel as a state machine: one encounter's CombatState and   *)
(* one action per command resolveCombatCommand and resolvePartyEscape      *)
(* accept (packages/shared/utils/src/lib/rules/combat_kernel.ts).  The     *)
(* guards are the validation's, the effect is one draft built by the rules *)
(* of CombatRules and committed whole, as the kernel commits its clone.    *)
(***************************************************************************)
EXTENDS CombatRules

CONSTANTS
  StartCell,        \* [Combatants -> Cells]
  StartBurning,     \* cells with a hazard surface when the fight starts
  AttackReach,      \* <<from, to>>: within ability range and line of sight
  MaxTargets,       \* authored target cardinality of an ability
  AbilityCosts,     \* budget costs of the abilities in the catalog
  Affordances,      \* authored affordances of the battlefield objects
  MaxRound          \* bound: no turn ends in a later round

\* An affordance names its interaction target, its cost, the cells from which
\* its requirements hold, whether it rolls a check, and what success and
\* failure do: blast cells (damage), a forced push, surfaces lit and put out.
ASSUME CommandAssumption ==
  /\ StartCell \in [Combatants -> Cells]
  /\ StartBurning \subseteq Cells
  /\ AbilityCosts \subseteq {"action", "quick", "free"}
  /\ \A a \in Affordances :
       /\ a.cost \in {"action", "quick", "free"}
       /\ \A e \in {a.success, a.failure} :
            e.burn \subseteq Cells /\ e.push \in [Cells -> Cells]

VARIABLE state

vars == <<state>>

-----------------------------------------------------------------------------

Init ==
  state = [phase |-> "active", round |-> 1, active |-> 1,
           defeated |-> {},
           status |-> [c \in Combatants |-> "active"],
           morale |-> StartMorale,
           applied |-> [c \in Combatants |-> {}],
           pos |-> StartCell,
           budget |-> FullBudget,
           ready |-> Combatants,
           windows |-> {},
           objectives |-> [o \in Objectives |-> "pending"],
           burning |-> StartBurning,
           settlement |-> None]

\* Ordinary commands: only while no window is open, only for the active actor.
Actor == Active(state)
\* Mutant: an open window does not hold other commands back.
InTurnUnlessEnded == state.phase # "ended"

InTurn == state.phase = "active"

Affordable(cost) ==
  CASE cost = "action" -> state.budget.action
    [] cost = "quick" -> state.budget.quick
    [] OTHER -> TRUE

Spend(s, cost) ==
  CASE cost = "action" -> [s EXCEPT !.budget.action = FALSE]
    [] cost = "quick" -> [s EXCEPT !.budget.quick = FALSE]
    [] OTHER -> s

Move ==
  /\ InTurn
  /\ \E path \in Routes :
       /\ Legal(state, Actor, path)
       /\ state' = Finish(Walk(state, Actor, path, {}), {}, {})

\* A retreat is recorded even when a reaction suspends its path.
Declare(s, m) ==
  [s EXCEPT !.status[m] = IF s.pos[m] \in ExitCells THEN "escaped"
                          ELSE "retreating"]

Retreat ==
  /\ InTurn
  /\ "retreat" \in Responses
  /\ state.morale[Actor] <= BreakThreshold
  /\ \E path \in Routes :
       /\ Legal(state, Actor, path)
       /\ ExitDistance[path[Len(path)]] <= ExitDistance[state.pos[Actor]]
       /\ state' = Finish(Declare(Walk(state, Actor, path, {}), Actor), {}, {})

Surrender ==
  /\ InTurn
  /\ "surrender" \in Responses
  /\ state.morale[Actor] <= BreakThreshold
  /\ state' = Finish([state EXCEPT !.status[Actor] = "surrendered"], {}, {})

Targetable(c) ==
  /\ c # Actor
  /\ c \notin state.defeated
  /\ Contests(state.status[c])
  /\ <<state.pos[Actor], state.pos[c]>> \in AttackReach

\* Each target is rolled for; `downed` are those a hit brings down.  An ability
\* that is no attack has no target here: it only spends its cost.
UseAbility ==
  /\ InTurn
  /\ \E cost \in AbilityCosts, targets \in SUBSET {c \in Combatants : Targetable(c)} :
       /\ Affordable(cost)
       /\ Cardinality(targets) <= MaxTargets
       /\ \E downed \in SUBSET targets :
            state' = Finish([Spend(state, cost) EXCEPT
                               !.defeated = @ \cup downed], downed, {})

InBlast(s, effect) ==
  {c \in Combatants \ s.defeated : s.pos[c] \in effect.blast}

Apply(s, effect, downed) ==
  [s EXCEPT !.defeated = @ \cup downed,
            !.pos = [c \in Combatants |-> effect.push[@[c]]],
            !.burning = (@ \cup effect.burn) \ effect.douse]

\* The attempt costs its price even when the check fails; only success is an
\* interaction an objective can count.
Interact ==
  /\ InTurn
  /\ \E a \in Affordances, success \in BOOLEAN :
       LET effect == IF success THEN a.success ELSE a.failure IN
       /\ a.checked \/ success
       /\ state.pos[Actor] \in a.from
       /\ Affordable(a.cost)
       /\ \E downed \in SUBSET InBlast(state, effect) :
            state' = Finish(Apply(Spend(state, a.cost), effect, downed),
                            downed,
                            IF success THEN {<<Actor, a.target>>} ELSE {})

DefendOrWait ==
  /\ InTurn
  /\ state.budget.action
  /\ state' = Finish([state EXCEPT !.budget.action = FALSE], {}, {})

\* Mutant: the turn stays with somebody the new round's hazards brought down.
StartRoundKeepingTurn(s, expired, downed) ==
  ResolutionPass([s EXCEPT !.burning = @ \ expired,
                           !.defeated = @ \cup downed], downed, {})

\* Mutant: those the hazards brought down are missing from the batch.
StartRoundForgettingDowned(s, expired, downed) ==
  LET burned == [s EXCEPT !.burning = @ \ expired, !.defeated = @ \cup downed]
      passed == ResolutionPass(burned, {}, {})
  IN  IF passed.settlement = None /\ Active(passed) \in passed.defeated
      THEN Advance(passed)
      ELSE passed

\* A new round: surfaces expire, whoever stands in a hazard takes one hit, the
\* batch is resolved, and a turn that fell to somebody just downed moves on.
StartRound(s, expired, downed) ==
  LET burned == [s EXCEPT !.burning = @ \ expired, !.defeated = @ \cup downed]
      passed == ResolutionPass(burned, downed, {})
  IN  IF passed.settlement = None /\ Active(passed) \in passed.defeated
      THEN Advance(passed)
      ELSE passed

Burnable(s, expired) ==
  {c \in Combatants \ s.defeated : s.pos[c] \in s.burning \ expired}

\* Mutant: the hazards of a new round strike on every turn.
EndTurnBurning ==
  /\ InTurn
  /\ state.round <= MaxRound
  /\ LET ended == Advance(state) IN
     \E expired \in SUBSET state.burning :
     \E downed \in SUBSET Burnable(ended, expired) :
       state' = Finish(StartRound(ended, expired, downed), {}, {})

EndTurn ==
  /\ InTurn
  /\ state.round <= MaxRound
  /\ LET ended == Advance(state) IN
     \/ /\ ended.round = state.round
        /\ state' = Finish(ended, {}, {})
     \/ /\ ended.round > state.round
        /\ \E expired \in SUBSET state.burning :
           \E downed \in SUBSET Burnable(ended, expired) :
             state' = Finish(StartRound(ended, expired, downed), {}, {})

\* Mutant: a fatal reaction is not resolved before the queue moves on.
AnswerDiscardingRemoval(w, choice) ==
  LET r == CurrentReactor(w)
      m == w.mover
      attacks == choice # "decline" /\ ReactorEligible(state, r, m, state.pos[m])
      struck == [state EXCEPT
                   !.ready = IF attacks THEN @ \ {r} ELSE @,
                   !.defeated = IF attacks /\ choice = "down" THEN @ \cup {m}
                                ELSE @]
      asked == [w EXCEPT !.queue = @ \ {r}, !.offered = @ \cup {r}]
  IN  IF asked.queue # {} THEN [struck EXCEPT !.windows = {asked}]
      ELSE Finish(Resume([struck EXCEPT !.phase = "active", !.windows = {}],
                         asked), {}, {})

\* Mutant: the resumed path forgets which reactors it has already asked.
AnswerForgettingOffered(w, choice) ==
  LET r == CurrentReactor(w)
      m == w.mover
      attacks == choice # "decline" /\ ReactorEligible(state, r, m, state.pos[m])
      downs == attacks /\ choice = "down"
      struck == [state EXCEPT
                   !.ready = IF attacks THEN @ \ {r} ELSE @,
                   !.defeated = IF downs THEN @ \cup {m} ELSE @]
      passed == IF downs THEN ResolutionPass(struck, {m}, {}) ELSE struck
      asked == [w EXCEPT !.queue = @ \ {r}]
  IN  IF passed.settlement # None THEN passed
      ELSE IF asked.queue # {} THEN [passed EXCEPT !.windows = {asked}]
      ELSE Finish(Resume([passed EXCEPT !.phase = "active", !.windows = {}],
                         asked), {}, {})

\* The reactor at the head of the queue declines, attacks without downing the
\* mover, or downs it.  A fatal reaction is resolved before anybody else is
\* asked; an emptied queue lets the suspended path go on.
Answer(w, choice) ==
  LET r == CurrentReactor(w)
      m == w.mover
      attacks == choice # "decline" /\ ReactorEligible(state, r, m, state.pos[m])
      downs == attacks /\ choice = "down"
      struck == [state EXCEPT
                   !.ready = IF attacks THEN @ \ {r} ELSE @,
                   !.defeated = IF downs THEN @ \cup {m} ELSE @]
      passed == IF downs THEN ResolutionPass(struck, {m}, {}) ELSE struck
      asked == [w EXCEPT !.queue = @ \ {r}, !.offered = @ \cup {r}]
  IN  IF passed.settlement # None THEN passed
      ELSE IF asked.queue # {} THEN [passed EXCEPT !.windows = {asked}]
      ELSE Finish(Resume([passed EXCEPT !.phase = "active", !.windows = {}],
                         asked), {}, {})

ResolveReaction ==
  /\ state.phase = "reaction"
  /\ \E w \in state.windows, choice \in {"decline", "hit", "down"} :
       state' = Answer(w, choice)

\* FLEE: legal on any turn and while a window is open; refused unless it ends
\* the encounter.
PartyEscape ==
  LET marked == {c \in Party : Contests(state.status[c])}
      gone == ResolutionPass(
                [state EXCEPT !.status =
                   [c \in Combatants |-> IF c \in marked THEN "escaped"
                                         ELSE @[c]]], {}, {})
  IN  /\ state.phase # "ended"
      /\ marked # {}
      /\ gone.settlement # None
      /\ state' = gone

Next ==
  \/ Move
  \/ Retreat
  \/ Surrender
  \/ UseAbility
  \/ Interact
  \/ DefendOrWait
  \/ EndTurn
  \/ ResolveReaction
  \/ PartyEscape

Spec == Init /\ [][Next]_vars

\* The engine answers for every reactor it controls and shows the others to
\* the player, who is assumed to answer: weak fairness of ResolveReaction,
\* which is enabled exactly in phase "reaction" (PhaseCoherent).
Answering == []<>(state.phase # "reaction") \/ []<><<ResolveReaction>>_vars
FairSpec == Spec /\ Answering

-----------------------------------------------------------------------------
(* Properties *)

Window == [mover : Combatants, queue : SUBSET Combatants, rest : Seq(Cells),
           offered : SUBSET Combatants]

Trigger == TriggerKinds \X (Combatants \cup Objectives)

StateType ==
  [phase : {"active", "reaction", "ended"}, round : Nat, active : 1..N,
   defeated : SUBSET Combatants,
   status : [Combatants -> Statuses],
   morale : [Combatants -> 0..MoraleMax],
   applied : [Combatants -> SUBSET Trigger],
   pos : [Combatants -> Cells],
   budget : [movement : Nat, action : BOOLEAN, quick : BOOLEAN],
   ready : SUBSET Combatants,
   windows : SUBSET Window,
   objectives : [Objectives -> ObjectiveStatuses],
   burning : SUBSET Cells,
   settlement : Reasons \cup {None}]

\* The type invariant of the encounter's state.
TypeOK == state \in StateType

Coherent(s) ==
  /\ s.phase = "reaction" <=> s.windows # {}
  /\ \A v, w \in s.windows : v = w
  /\ s.phase = "ended" <=> s.settlement # None

\* A window is open exactly while the phase is "reaction", reactions never
\* nest, and a settlement is recorded exactly when the encounter has ended
\* (combat_kernel.ts, resolveReactionWindowCommand and the terminal branch of
\* resolveEncounterBatch set these fields in different places).
PhaseCoherent == Coherent(state)

Resumable(s, w) ==
  /\ w.mover = Active(s)
  /\ w.queue # {}
  /\ w.queue \cap w.offered = {}
  /\ \A r \in w.queue : Hostile(r, w.mover)
  /\ w.rest # <<>>
  /\ <<s.pos[w.mover], w.rest[1]>> \in Adjacent
  /\ \A i \in 2..Len(w.rest) : <<w.rest[i - 1], w.rest[i]>> \in Adjacent
  /\ Len(w.rest) <= s.budget.movement

\* A suspended command can be picked up where it stopped: the window belongs
\* to the turn holder, somebody is left to ask who is hostile and was not
\* asked before, the rest of the path starts next to the mover, is contiguous
\* and is paid for by the movement left.
SuspensionSound == \A w \in state.windows : Resumable(state, w)

\* Two interaction objectives on one target have the same actors, or none in
\* common.
InteractionsApart ==
  \A o, x \in {y \in Objectives : Rule[y].kind = "interact_before_deadline"} :
    Rule[o].target = Rule[x].target /\ Rule[o].actors \cap Rule[x].actors # {}
      => Rule[o].actors = Rule[x].actors

Due(s) ==
  /\ InteractionsApart => s.objectives = Evaluate(s, {})
  /\ s.settlement = Verdict(s)

\* After every command the recorded objectives and settlement are those the
\* state calls for: no command leaves the encounter open although it is decided
\* (the pass skipped while a window is open is made up for), and evaluating the
\* same boundary again changes nothing, but for the interactions
\* carriedInteractionKeys makes up when objectives share a target.
SettlementDue == [][state'.phase # "reaction" => Due(state')]_vars

\* Morale is the starting morale less the triggers recorded as applied, each
\* counted once, however the batches that applied them were cut.
MoraleLedger ==
  \A c \in Combatants :
    state.morale[c] = Clamp(StartMorale[c] - Loss(state.applied[c]))

\* Every combatant that fell has shaken each of its team mates, and nothing
\* but a fall has: no removal is lost between the batches of a command
\* (accumulators, early returns of the reaction path, round boundaries).
RemovalsShakePeers ==
  \A c, d \in Combatants :
    d \in Peers(c) =>
      /\ "ally_removed" \in DOMAIN Magnitude =>
           (c \in state.defeated <=> <<"ally_removed", c>> \in state.applied[d])
      /\ "leader_defeated" \in DOMAIN Magnitude /\ c \in Leaders =>
           (c \in state.defeated <=> <<"leader_defeated", c>> \in state.applied[d])

\* A reaction is spent only by the reactor whose answer is due and comes back
\* only when its owner's turn starts (or would have, had the new round's hazards
\* not brought it down): once per round, whatever interrupts.
ReactionOncePerRound ==
  [][\A c \in Combatants :
       /\ c \in state.ready \ state'.ready =>
            \E w \in state.windows : c = CurrentReactor(w)
       /\ c \in state'.ready \ state.ready =>
            /\ state.phase = "active"
            /\ c = Active(state') \/ c \in state'.defeated]_vars

\* Whoever the turn passes to can take it, unless the encounter ended on the way
\* (round-start hazards run after the turn advanced) or nobody is left who could.
TurnsGoToContesters ==
  [][state'.active # state.active /\ state'.phase # "ended"
       => \/ ~Skipped(state', Active(state'))
          \/ \A c \in Combatants : Skipped(state', c)]_vars

\* The kernel implements the abstract encounter.
Encounter == INSTANCE CombatEncounter
  WITH stage <- state.phase, round <- state.round, turn <- Actor,
       fallen <- state.defeated

RefinesEncounter == Encounter!Spec

\* An opened window is closed again: a path of n cells asks finitely often.
WindowCloses == (state.phase = "reaction") ~> (state.phase # "reaction")

\* C-532, "Accepted surrender ends that actor's hostile participation": an
\* actor that surrendered never contests the encounter again.
SurrenderIsFinal ==
  [][\A c \in Combatants :
       state.status[c] = "surrendered" => ~Contests(state'.status[c])]_vars

\* combat_encounter_resolution.ts, "Actor-specific interaction keys committed in
\* this batch": an interaction objective completes only on the turn of an actor
\* it names.
InteractionsOwned ==
  [][\A o \in Objectives :
       /\ Rule[o].kind = "interact_before_deadline"
       /\ state.objectives[o] # "complete" /\ state'.objectives[o] = "complete"
         => Actor \in Rule[o].actors]_vars

\* combat_morale.ts, "the actor keeps its HP, its identity and its initiative
\* slot": nothing strikes down an actor that has escaped.
EscapeKeepsHp ==
  [][\A c \in Combatants \ state.defeated :
       state.status[c] = "escaped" => c \notin state'.defeated]_vars

\* C-532, "complete a registered interaction on an authored target before a
\* declared round boundary": an objective that missed its deadline stays failed.
DeadlineIsFinal ==
  [][\A o \in Objectives :
       Rule[o].kind = "interact_before_deadline"
       /\ state.objectives[o] = "failed"
         => state'.objectives[o] = "failed"]_vars

\* C-532, "A nonlethal resolution (rout, enemy surrender, ...) still resolves":
\* once no enemy contests and no authored objective is open, it is over.
EnemySurrenderResolves ==
  (\A c \in Enemies : Skipped(state, c)) /\ Required = {}
    => state.phase # "active"
=============================================================================

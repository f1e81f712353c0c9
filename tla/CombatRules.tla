---------------------------- MODULE CombatRules ----------------------------
(***************************************************************************)
(* The pure rules of the combat kernel (packages/shared/utils/src/lib/     *)
(* rules): turn order, opportunity reactions, morale, authored objectives  *)
(* and the terminal settlement.  Every operator takes a DRAFT `s`, the     *)
(* clone of CombatState a command works on, and returns a draft or a fact  *)
(* about one; CombatKernel strings them together into commands.            *)
(*                                                                         *)
(* Hit points are abstracted to "this hit downs its target or it does not",*)
(* dice to nondeterminism, and the movement cost of every passable cell to *)
(* one.  `Cells` holds the passable cells only.                            *)
(***************************************************************************)
EXTENDS Integers, Sequences, FiniteSets

CONSTANTS
  Combatants,      \* ids of the roster
  Team,            \* [Combatants -> {"player", "ally", "enemy", "neutral"}]
  Order,           \* initiative order, a bijection 1..N -> Combatants
  Cells,           \* passable cells of the battlefield
  Adjacent,        \* pairs of cells one step apart
  Threat,          \* <<from, at>>: a reactor standing at `at` threatens `from`
  ReactionReach,   \* <<from, at>>: its reaction ability reaches `from`
  Reactors,        \* combatants that own the reaction's ability
  Allowance,       \* movement per turn (DEFAULT_MOVEMENT_PER_TURN)
  ExitCells,       \* cells of the authored exit zone
  ExitDistance,    \* distance of a cell to the nearest exit cell
  Responses,       \* authored morale responses
  StartMorale, BreakThreshold, MoraleMax,
  Magnitude,       \* authored morale triggers: kind -> morale lost
  Leaders,         \* leaderIds of the morale rules
  Objectives, Rule,   \* authored objectives and the rule of each
  Protected        \* protectedActorIds

N == Cardinality(Combatants)

TriggerKinds == {"leader_defeated", "ally_removed", "objective_failed"}
Statuses == {"active", "retreating", "escaped", "surrendered", "defeated"}
ObjectiveStatuses == {"pending", "complete", "failed"}
Reasons == {"no_combatants", "party_defeated", "protected_actor_lost",
            "deadline_expired", "objective_failed", "escaped_encounter",
            "hostile_group_routed", "objective_completed",
            "all_enemies_defeated"}
None == "none"     \* no settlement yet

RuleKinds == {"defeat_or_rout", "survive_rounds", "interact_before_deadline",
              "reach_zone"}

ASSUME RosterAssumption ==
  /\ IsFiniteSet(Combatants) /\ Combatants # {}
  /\ Team \in [Combatants -> {"player", "ally", "enemy", "neutral"}]
  /\ Order \in [1..N -> Combatants]
  /\ \A c \in Combatants : \E i \in 1..N : Order[i] = c
  /\ Reactors \subseteq Combatants

ASSUME MapAssumption ==
  /\ Adjacent \subseteq Cells \X Cells
  /\ Allowance \in Nat
  /\ ExitCells \subseteq Cells
  /\ ExitDistance \in [Cells -> Nat]

ASSUME MoraleAssumption ==
  /\ MoraleMax \in Nat
  /\ StartMorale \in [Combatants -> 0..MoraleMax]
  /\ BreakThreshold \in Nat
  /\ DOMAIN Magnitude \subseteq TriggerKinds
  /\ \A k \in DOMAIN Magnitude : Magnitude[k] \in Nat
  /\ Responses \subseteq {"retreat", "surrender"}
  /\ Leaders \subseteq Combatants

ASSUME ObjectiveAssumption ==
  /\ IsFiniteSet(Objectives)
  /\ \A o \in Objectives :
       /\ Rule[o].kind \in RuleKinds
       /\ Rule[o].required \in BOOLEAN
       /\ Rule[o].actors \subseteq Combatants
       /\ Rule[o].round \in Nat
  /\ Protected \subseteq Combatants

-----------------------------------------------------------------------------
(* Participation *)

Contests(status) == status \in {"active", "retreating"}

Party == {c \in Combatants : Team[c] \in {"player", "ally"}}
Enemies == {c \in Combatants : Team[c] = "enemy"}

Hostile(r, m) ==
  /\ Team[r] # "neutral" /\ Team[m] # "neutral"
  /\ (r \in Party) # (m \in Party)

Active(s) == Order[s.active]

-----------------------------------------------------------------------------
(* Turn order: advanceTurn and the coordinator's endTurn. *)

FullBudget == [movement |-> Allowance, action |-> TRUE, quick |-> TRUE]

\* Initiative slots after the last one start over in the next round.
Slot(i) == IF i > N THEN i - N ELSE i

Skipped(s, c) == c \in s.defeated \/ ~Contests(s.status[c])

\* How many slots ahead of the active one somebody can take a turn.
Ahead(s) == {k \in 1..N : ~Skipped(s, Order[Slot(s.active + k)])}

Nearest(ks) == CHOOSE k \in ks : \A j \in ks : k <= j

\* Mutant: a new turn gives everybody their reaction back.
AdvanceReadyingAll(s) ==
  IF Ahead(s) = {} THEN s
  ELSE LET next == s.active + Nearest(Ahead(s))
       IN  [s EXCEPT !.active = Slot(next),
                     !.round = IF next > N THEN @ + 1 ELSE @,
                     !.budget = FullBudget,
                     !.ready = Combatants]

Advance(s) ==
  IF Ahead(s) = {} THEN s
  ELSE LET next == s.active + Nearest(Ahead(s))
       IN  [s EXCEPT !.active = Slot(next),
                     !.round = IF next > N THEN @ + 1 ELSE @,
                     !.budget = FullBudget,
                     !.ready = @ \cup {Order[Slot(next)]}]

-----------------------------------------------------------------------------
(* Movement and opportunity reactions. *)

\* Contiguous, non-repeating walks of at most one turn's allowance (the outer
\* set lets TLC enumerate them once).
Routes ==
  LET Contiguous(p) == \A i \in 2..Len(p) : <<p[i - 1], p[i]>> \in Adjacent
      Simple(p) == \A i, j \in 1..Len(p) : p[i] = p[j] => i = j
  IN  {q : q \in {p \in UNION {[1..n -> Cells] : n \in 1..Allowance} :
                    Contiguous(p) /\ Simple(p)}}

\* Mutant: the path is not charged against the movement left.
LegalUnpaid(s, m, path) ==
  /\ <<s.pos[m], path[1]>> \in Adjacent
  /\ \A i \in 1..Len(path) : path[i] # s.pos[m]

Legal(s, m, path) ==
  /\ Len(path) <= s.budget.movement
  /\ <<s.pos[m], path[1]>> \in Adjacent
  /\ \A i \in 1..Len(path) : path[i] # s.pos[m]

ReactorEligible(s, r, m, at) ==
  /\ Hostile(r, m)
  /\ m \notin s.defeated
  /\ r \notin s.defeated
  /\ s.status[r] = "active"
  /\ r \in s.ready
  /\ r \in Reactors
  /\ <<at, s.pos[r]>> \in ReactionReach

\* The cell the mover leaves when it takes step i of the path.
Before(s, m, path, i) == IF i = 1 THEN s.pos[m] ELSE path[i - 1]

\* Reactors whose threat range step i of the path leaves.
Triggered(s, m, path, offered, i) ==
  {r \in Combatants \ ({m} \cup offered) :
     LET from == Before(s, m, path, i) IN
       /\ <<from, s.pos[r]>> \in Threat
       /\ <<path[i], s.pos[r]>> \notin Threat
       /\ ReactorEligible(s, r, m, from)}

Interruptions(s, m, path, offered) ==
  {i \in 1..Len(path) : Triggered(s, m, path, offered, i) # {}}

CommitCells(s, m, cells) ==
  IF cells = <<>> THEN s
  ELSE [s EXCEPT !.pos[m] = cells[Len(cells)],
                 !.budget.movement = @ - Len(cells)]

\* Mutant: the provoking step is dropped from the rest of the path.
WalkSkippingStep(s, m, path, offered) ==
  IF Interruptions(s, m, path, offered) = {} THEN CommitCells(s, m, path)
  ELSE LET i == Nearest(Interruptions(s, m, path, offered))
           window == [mover |-> m,
                      queue |-> Triggered(s, m, path, offered, i),
                      rest |-> SubSeq(path, i + 1, Len(path)),
                      offered |-> offered]
       IN  [CommitCells(s, m, SubSeq(path, 1, i - 1)) EXCEPT
              !.phase = "reaction", !.windows = {window}]

\* Walk the path up to the first step that provokes; that step is not taken
\* and the rest of the path waits in the window.
Walk(s, m, path, offered) ==
  IF Interruptions(s, m, path, offered) = {} THEN CommitCells(s, m, path)
  ELSE LET i == Nearest(Interruptions(s, m, path, offered))
           window == [mover |-> m,
                      queue |-> Triggered(s, m, path, offered, i),
                      rest |-> SubSeq(path, i, Len(path)),
                      offered |-> offered]
       IN  [CommitCells(s, m, SubSeq(path, 1, i - 1)) EXCEPT
              !.phase = "reaction", !.windows = {window}]

\* The reactor the window is waiting for: the queue is in initiative order.
CurrentReactor(w) ==
  Order[Nearest({i \in 1..N : Order[i] \in w.queue})]

Arrive(s, m) ==
  IF s.status[m] = "retreating" /\ "retreat" \in Responses
     /\ s.pos[m] \in ExitCells
  THEN [s EXCEPT !.status[m] = "escaped"]
  ELSE s

CanResume(s, w) ==
  /\ w.mover \notin s.defeated
  /\ Contests(s.status[w.mover])
  /\ Legal(s, w.mover, w.rest)

Resume(s, w) ==
  IF CanResume(s, w)
  THEN Arrive(Walk(s, w.mover, w.rest, w.offered), w.mover)
  ELSE s

-----------------------------------------------------------------------------
(* Morale: a trigger <<kind, source>> costs a combatant its magnitude once. *)

\* Mutant: morale may fall below zero.
ClampAbove(x) == IF x > MoraleMax THEN MoraleMax ELSE x

Clamp(x) == IF x < 0 THEN 0 ELSE IF x > MoraleMax THEN MoraleMax ELSE x

Weight(kind) == IF kind \in DOMAIN Magnitude THEN Magnitude[kind] ELSE 0

Loss(triggers) ==
  LET Cost(kind) == Weight(kind) * Cardinality({t \in triggers : t[1] = kind})
  IN  Cost("leader_defeated") + Cost("ally_removed") + Cost("objective_failed")

Authored(triggers) == {t \in triggers : t[1] \in DOMAIN Magnitude}

\* Mutant: the applied triggers of a batch replace the earlier ones.
ShakeForgetting(s, suffered) ==
  LET fresh == [c \in Combatants |-> Authored(suffered[c]) \ s.applied[c]]
  IN  [s EXCEPT
         !.morale = [c \in Combatants |-> Clamp(@[c] - Loss(fresh[c]))],
         !.applied = fresh]

\* Apply to each combatant the triggers it suffers and has not suffered yet.
Shake(s, suffered) ==
  LET fresh == [c \in Combatants |-> Authored(suffered[c]) \ s.applied[c]]
  IN  [s EXCEPT
         !.morale = [c \in Combatants |-> Clamp(@[c] - Loss(fresh[c]))],
         !.applied = [c \in Combatants |-> @[c] \cup fresh[c]]]

Peers(c) == {d \in Combatants \ {c} : Team[d] = Team[c]}

RemovalTriggers(removed) ==
  [c \in Combatants |->
     {<<"ally_removed", r>> : r \in {x \in removed : c \in Peers(x)}} \cup
     {<<"leader_defeated", r>> : r \in {x \in removed \cap Leaders :
                                          c \in Peers(x)}}]

\* The side an objective's named actors mostly belong to; an authored tie goes
\* to the team listed first, here to one of them.
AffectedTeam(o) ==
  LET named(t) == Cardinality({a \in Rule[o].actors : Team[a] = t})
  IN  CHOOSE t \in {Team[c] : c \in Combatants} :
        \A u \in {Team[c] : c \in Combatants} : named(u) <= named(t)

FailureTriggers(failed) ==
  [c \in Combatants |->
     {<<"objective_failed", o>> : o \in {x \in failed :
        Rule[x].actors # {} /\ Team[c] = AffectedTeam(x)}}]

-----------------------------------------------------------------------------
(* Objectives.  A key <<actor, target>> is a successful interaction. *)

Eligible(s, c) == c \notin s.defeated /\ s.status[c] = "active"

Satisfied(s, o, keys) ==
  LET r == Rule[o] IN
  CASE r.kind = "defeat_or_rout" ->
         r.actors # {} /\ \A h \in r.actors : Skipped(s, h)
    [] r.kind = "survive_rounds" ->
         s.round - 1 >= r.round /\ \A a \in r.actors : Eligible(s, a)
    [] r.kind = "interact_before_deadline" ->
         \E a \in r.actors : <<a, r.target>> \in keys
    [] r.kind = "reach_zone" ->
         /\ r.actors # {}
         /\ \A a \in r.actors : Eligible(s, a) /\ s.pos[a] \in r.cells

Expired(s, o) ==
  Rule[o].kind = "interact_before_deadline" /\ s.round - 1 >= Rule[o].round

Maintained(o) == Rule[o].kind = "defeat_or_rout"

\* The new status of an objective: complete latches unless maintained, and an
\* expired deadline fails only what is still unsatisfied.
StatusOf(s, o, keys) ==
  CASE s.objectives[o] = "complete" /\ ~Maintained(o) -> "complete"
    [] OTHER ->
         IF Satisfied(s, o, keys) THEN "complete"
         ELSE IF Expired(s, o) THEN "failed"
         ELSE IF s.objectives[o] = "failed" /\ ~Maintained(o) THEN "failed"
         ELSE "pending"

\* A completed interaction objective re-adds the key of each of its actors.
CarriedKeys(s) ==
  UNION {{<<a, Rule[o].target>> : a \in Rule[o].actors} :
           o \in {x \in Objectives :
                    /\ Rule[x].kind = "interact_before_deadline"
                    /\ s.objectives[x] = "complete"}}

Evaluate(s, keys) ==
  [o \in Objectives |-> StatusOf(s, o, keys \cup CarriedKeys(s))]

-----------------------------------------------------------------------------
(* Settlement: the first rule that applies decides. *)

PartyEscaped(s) ==
  /\ \E c \in Party : s.status[c] = "escaped"
  /\ \A c \in Party : ~Contests(s.status[c])

Required == {o \in Objectives : Rule[o].required}

FailedRequired(s) == {o \in Required : s.objectives[o] = "failed"}

LostProtected(s) ==
  {c \in Protected : c \in s.defeated \/ s.status[c] = "defeated"}

Verdict(s) ==
  IF {c \in Party : s.status[c] # "escaped"} = {} /\ ~PartyEscaped(s)
    THEN "no_combatants"
  ELSE IF Party # {} /\ Party \subseteq s.defeated
    THEN "party_defeated"
  ELSE IF LostProtected(s) # {}
    THEN "protected_actor_lost"
  ELSE IF FailedRequired(s) # {}
    THEN IF \E o \in FailedRequired(s) :
              Rule[o].kind = "interact_before_deadline"
         THEN "deadline_expired" ELSE "objective_failed"
  ELSE IF PartyEscaped(s)
    THEN "escaped_encounter"
  ELSE IF Required # {} /\ \A o \in Required : s.objectives[o] = "complete"
    THEN IF \E o \in Required : Maintained(o)
         THEN "hostile_group_routed" ELSE "objective_completed"
  ELSE IF \E o \in Required : s.objectives[o] # "complete"
    THEN None
  ELSE IF Enemies # {} /\ Enemies \subseteq s.defeated
    THEN "all_enemies_defeated"
  ELSE None

\* Mutant: the settlement leaves the open window behind.
SettleKeepingWindow(s) ==
  IF Verdict(s) = None THEN s
  ELSE [s EXCEPT !.settlement = Verdict(s), !.phase = "ended"]

Settle(s) ==
  IF Verdict(s) = None THEN s
  ELSE [s EXCEPT !.settlement = Verdict(s), !.phase = "ended", !.windows = {}]

\* Participation, morale, objectives, settlement, in this order, for the
\* combatants removed and the interactions committed by the batch.  The code's
\* second objective evaluation reads no morale, so one stands for both.
ResolutionPass(s, removed, keys) ==
  LET synced == [s EXCEPT !.status =
                   [c \in Combatants |-> IF c \in removed THEN "defeated"
                                         ELSE @[c]]]
      shaken == Shake(synced, RemovalTriggers(removed))
      judged == Evaluate(shaken, keys)
      failed == {o \in Objectives : judged[o] = "failed"
                                    /\ s.objectives[o] # "failed"}
  IN  IF s.settlement # None THEN s
      ELSE Settle([Shake(shaken, FailureTriggers(failed)) EXCEPT
                     !.objectives = judged])

\* Mutant: the pass is skipped for a command that removed nobody.
FinishIfEventful(s, removed, keys) ==
  IF s.settlement = None /\ s.phase # "reaction" /\ removed \cup keys # {}
  THEN ResolutionPass(s, removed, keys)
  ELSE s

\* The pass every command ends with, unless a window now owns the encounter
\* or the command has already settled it.
Finish(s, removed, keys) ==
  IF s.settlement = None /\ s.phase # "reaction"
  THEN ResolutionPass(s, removed, keys)
  ELSE s
=============================================================================

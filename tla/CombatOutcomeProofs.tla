------------------------ MODULE CombatOutcomeProofs ------------------------
(***************************************************************************)
(* What a command of the combat kernel decides, for every roster, map,     *)
(* morale rule and list of objectives: the objectives and the settlement   *)
(* it records are those the state calls for, every fall has shaken the     *)
(* fallen's team mates and nothing else has, morale is the starting morale *)
(* less the triggers on record, and turns and reactions go to those they   *)
(* are due to.                                                             *)
(***************************************************************************)
EXTENDS CombatRefinementProofs

-----------------------------------------------------------------------------
(* Objectives: evaluating a boundary twice changes nothing *)

\* Two drafts agree on what objectives are judged by.
Alike(t, u) ==
  /\ t.defeated = u.defeated
  /\ t.status = u.status
  /\ t.round = u.round
  /\ t.pos = u.pos

IsInteraction(o) == Rule[o].kind = "interact_before_deadline"

\* Only an interaction objective depends on the keys.
LEMMA SatisfiedAlike ==
  ASSUME NEW t, NEW u, Alike(t, u), NEW o \in Objectives, ~IsInteraction(o),
         NEW k, NEW l
  PROVE  Satisfied(t, o, k) <=> Satisfied(u, o, l)
<1> DEFINE r == Rule[o]
<1>1. r.kind \in {"defeat_or_rout", "survive_rounds", "reach_zone"}
  BY ObjectiveAssumption DEF RuleKinds, IsInteraction
<1>2. CASE r.kind = "defeat_or_rout"
  <2>1. \A d : (Satisfied(t, o, d) <=> r.actors # {} /\ \A h \in r.actors : Skipped(t, h))
            /\ (Satisfied(u, o, d) <=> r.actors # {} /\ \A h \in r.actors : Skipped(u, h))
    BY <1>2 DEF Satisfied
  <2>2. \A h : Skipped(t, h) <=> Skipped(u, h)
    BY DEF Skipped, Alike
  <2>3. QED
    BY <2>1, <2>2
<1>3. CASE r.kind = "survive_rounds"
  <2>1. \A d : (Satisfied(t, o, d) <=> t.round - 1 >= r.round /\ \A a \in r.actors : Eligible(t, a))
            /\ (Satisfied(u, o, d) <=> u.round - 1 >= r.round /\ \A a \in r.actors : Eligible(u, a))
    BY <1>3 DEF Satisfied
  <2>2. \A a : Eligible(t, a) <=> Eligible(u, a)
    BY DEF Eligible, Alike
  <2>3. QED
    BY <2>1, <2>2 DEF Alike
<1>4. CASE r.kind = "reach_zone"
  <2>1. \A d : (Satisfied(t, o, d) <=> r.actors # {} /\ \A a \in r.actors : Eligible(t, a) /\ t.pos[a] \in r.cells)
            /\ (Satisfied(u, o, d) <=> r.actors # {} /\ \A a \in r.actors : Eligible(u, a) /\ u.pos[a] \in r.cells)
    BY <1>4 DEF Satisfied
  <2>2. \A a : Eligible(t, a) <=> Eligible(u, a)
    BY DEF Eligible, Alike
  <2>3. QED
    BY <2>1, <2>2 DEF Alike
<1>5. QED
  BY <1>1, <1>2, <1>3, <1>4

\* An interaction objective is satisfied by a key of one of its actors.
LEMMA SatisfiedInteraction ==
  ASSUME NEW s, NEW o, IsInteraction(o), NEW k
  PROVE  Satisfied(s, o, k) <=> \E a \in Rule[o].actors : <<a, Rule[o].target>> \in k
  BY DEF Satisfied, IsInteraction

\* The keys carried are those of the completed interactions' actors.
LEMMA CarriedKey ==
  ASSUME NEW s, NEW a, NEW target
  PROVE  <<a, target>> \in CarriedKeys(s)
           <=> \E x \in Objectives : /\ IsInteraction(x)
                                     /\ s.objectives[x] = "complete"
                                     /\ a \in Rule[x].actors
                                     /\ target = Rule[x].target
  BY DEF CarriedKeys, IsInteraction

\* What is judged unsatisfied stays so under the keys the judgement carries.
LEMMA StaysUnsatisfied ==
  ASSUME InteractionsApart, NEW u, NEW keys, NEW t, Alike(t, u),
         t.objectives = Evaluate(u, keys),
         NEW o \in Objectives,
         ~Satisfied(u, o, keys \cup CarriedKeys(u))
  PROVE  ~Satisfied(t, o, {} \cup CarriedKeys(t))
<1> DEFINE K == keys \cup CarriedKeys(u)
           T == Rule[o].target
<1>1. CASE ~IsInteraction(o)
  BY <1>1, SatisfiedAlike
<1>2. CASE IsInteraction(o)
  <2>1. SUFFICES ASSUME NEW a \in Rule[o].actors, <<a, T>> \in CarriedKeys(t)
                 PROVE  FALSE
    BY <1>2, SatisfiedInteraction
  <2>2. PICK x \in Objectives : /\ IsInteraction(x)
                                /\ t.objectives[x] = "complete"
                                /\ a \in Rule[x].actors
                                /\ T = Rule[x].target
    BY <2>1, CarriedKey
  <2>3. StatusOf(u, x, K) = "complete"
    BY <2>2 DEF Evaluate
  <2>4. CASE u.objectives[x] = "complete"
    <3>1. <<a, T>> \in CarriedKeys(u)
      BY <2>2, <2>4, CarriedKey
    <3>2. QED
      BY <1>2, <3>1, SatisfiedInteraction
  <2>5. CASE u.objectives[x] # "complete"
    <3>1. Satisfied(u, x, K)
      BY <2>3, <2>5 DEF StatusOf
    <3>2. PICK b \in Rule[x].actors : <<b, Rule[x].target>> \in K
      BY <2>2, <3>1, SatisfiedInteraction
    <3>3. Rule[o].actors = Rule[x].actors
      BY <1>2, <2>2 DEF InteractionsApart, IsInteraction
    <3>4. QED
      BY <1>2, <2>2, <3>2, <3>3, SatisfiedInteraction
  <2>6. QED
    BY <2>4, <2>5
<1>3. QED
  BY <1>1, <1>2

\* Evaluating a judged state again gives the same judgement.
LEMMA JudgementStands ==
  ASSUME InteractionsApart, NEW u, NEW keys, NEW t, Alike(t, u),
         t.objectives = Evaluate(u, keys)
  PROVE  t.objectives = Evaluate(t, {})
<1> DEFINE K == keys \cup CarriedKeys(u)
           C == {} \cup CarriedKeys(t)
<1>1. ASSUME NEW o \in Objectives
      PROVE  StatusOf(u, o, K) = StatusOf(t, o, C)
  <2>1. t.objectives[o] = StatusOf(u, o, K)
    BY DEF Evaluate
  <2>2. Expired(t, o) <=> Expired(u, o)
    BY DEF Expired, Alike
  <2>3. ~Satisfied(u, o, K) => ~Satisfied(t, o, C)
    BY StaysUnsatisfied
  <2>4. Maintained(o) => ~Expired(u, o) /\ (Satisfied(t, o, C) <=> Satisfied(u, o, K))
    BY SatisfiedAlike DEF Maintained, Expired, IsInteraction
  <2> HIDE DEF K, C
  <2>5. CASE Maintained(o)
    BY <2>2, <2>4, <2>5 DEF StatusOf
  <2>6. CASE ~Maintained(o) /\ StatusOf(u, o, K) = "complete"
    BY <2>1, <2>6 DEF StatusOf
  <2>7. CASE ~Maintained(o) /\ StatusOf(u, o, K) # "complete"
    BY <2>1, <2>2, <2>3, <2>7 DEF StatusOf
  <2>8. QED
    BY <2>5, <2>6, <2>7
<1>2. /\ Evaluate(u, keys) = [o \in Objectives |-> StatusOf(u, o, K)]
      /\ Evaluate(t, {}) = [o \in Objectives |-> StatusOf(t, o, C)]
  BY DEF Evaluate
<1> HIDE DEF K, C
<1>3. QED
  BY <1>1, <1>2

-----------------------------------------------------------------------------
(* Settlement: every command leaves what is due *)

\* The verdict depends on the fallen, participation and the objectives only.
LEMMA VerdictAlike ==
  ASSUME NEW t, NEW u, t.defeated = u.defeated, t.status = u.status,
         t.objectives = u.objectives
  PROVE  Verdict(t) = Verdict(u)
<1>1. PartyEscaped(t) <=> PartyEscaped(u)
  BY DEF PartyEscaped
<1>2. FailedRequired(t) = FailedRequired(u)
  BY DEF FailedRequired
<1>3. LostProtected(t) = LostProtected(u)
  BY DEF LostProtected
<1>4. QED
  BY <1>1, <1>2, <1>3 DEF Verdict

\* A resolution pass leaves what is due.
LEMMA PassDue ==
  ASSUME NEW s \in StateType, s.settlement = None,
         NEW removed \in SUBSET Combatants, NEW keys
  PROVE  Due(ResolutionPass(s, removed, keys))
<1> DEFINE u == Shaken(s, removed)
           scored == Scored(s, removed, keys)
           t == ResolutionPass(s, removed, keys)
<1>1. /\ u \in StateType
      /\ Batched(s, u)
      /\ u.status = Synced(s, removed).status
  BY ShakenKeeps
<1>2. /\ scored \in StateType
      /\ Batched(s, scored)
      /\ scored.status = Synced(s, removed).status
      /\ scored.objectives = Evaluate(u, keys)
      /\ t = Settle(scored)
  BY PassScores DEF Judged
<1> HIDE DEF u, scored, t
<1>3. /\ Seated(scored, t)
      /\ t.status = scored.status /\ t.objectives = scored.objectives
      /\ t.pos = scored.pos
  BY <1>2, SettleSeated, SettleKeeps
<1>4. Alike(t, u)
  BY <1>1, <1>2, <1>3 DEF Alike, Batched, Held, Seated
<1>5. InteractionsApart => t.objectives = Evaluate(t, {})
  BY <1>2, <1>3, <1>4, JudgementStands
<1>6. Verdict(t) = Verdict(scored)
  BY <1>3, VerdictAlike DEF Seated
<1>7. t.settlement = Verdict(scored)
  <2>1. CASE Verdict(scored) = None
    BY <1>2, <2>1 DEF Settle, Batched, Held, Framed
  <2>2. CASE Verdict(scored) # None
    BY <1>2, <2>2, SettleCloses
  <2>3. QED
    BY <2>1, <2>2
<1>8. QED
  BY <1>5, <1>6, <1>7 DEF Due, t

\* So does the pass a command ends with, unless a window takes over.
LEMMA FinishDue ==
  ASSUME NEW s \in StateType, s.settlement # None => Due(s),
         NEW removed \in SUBSET Combatants, NEW keys,
         Finish(s, removed, keys).phase # "reaction"
  PROVE  Due(Finish(s, removed, keys))
<1>1. CASE s.settlement = None /\ s.phase # "reaction"
  BY <1>1, PassDue DEF Finish
<1>2. CASE ~(s.settlement = None /\ s.phase # "reaction")
  <2>1. Finish(s, removed, keys) = s
    BY <1>2 DEF Finish
  <2>2. QED
    BY <1>2, <2>1
<1>3. QED
  BY <1>1, <1>2

\* What a command of the turn holder leaves is due.
LEMMA CommandDue ==
  ASSUME Commanded, state'.phase # "reaction"
  PROVE  Due(state')
<1>1. PICK t, keys : \E down \in SUBSET Combatants :
        Acted(t, down) /\ state' = Finish(t, down, keys)
  BY DEF Commanded
<1>2. PICK down \in SUBSET Combatants :
        Acted(t, down) /\ state' = Finish(t, down, keys)
  BY <1>1
<1>3. QED
  BY <1>2, FinishDue DEF Acted

\* What the end of a turn leaves is due.
LEMMA EndTurnDue ==
  ASSUME Sound(state), EndTurn, state'.phase # "reaction"
  PROVE  Due(state')
<1>1. InTurn
  BY DEF EndTurn
<1>2. state \in StateType /\ state.settlement = None
  BY <1>1, InTurnCalm DEF Sound, Coherent
<1>3. Advance(state) \in StateType /\ Advance(state).settlement = None
  BY <1>2, AdvanceType DEF Framed
<1>4. CASE state' = Finish(Advance(state), {}, {})
  <2> DEFINE ended == Advance(state)
  <2>1. ended \in StateType /\ ended.settlement = None /\ state' = Finish(ended, {}, {})
    BY <1>3, <1>4
  <2> HIDE DEF ended
  <2>2. QED
    BY <2>1, FinishDue
<1>5. CASE /\ Ahead(state) # {} /\ Passed(state) > N
           /\ \E expired : \E downed \in SUBSET Combatants :
                state' = Finish(Opened(expired, downed), {}, {})
  <2>1. PICK expired : \E downed \in SUBSET Combatants :
          state' = Finish(Opened(expired, downed), {}, {})
    BY <1>5
  <2>2. PICK downed \in SUBSET Combatants :
          state' = Finish(Opened(expired, downed), {}, {})
    BY <2>1
  <2> DEFINE b == Burned(Advance(state), expired, downed)
             p == Resolved(expired, downed)
             t == Opened(expired, downed)
  <2>3. b \in StateType /\ b.settlement = None
    BY <1>3, BurnedFields DEF Framed
  <2>4. p = ResolutionPass(b, downed, {})
    BY DEF Resolved
  <2>5. t = IF p.settlement = None /\ Active(p) \in p.defeated THEN Advance(p) ELSE p
    BY DEF Opened
  <2>6. t \in StateType /\ state' = Finish(t, {}, {})
    BY <1>1, <1>5, <2>2, OpenedSeat
  <2> HIDE DEF b, p, t
  <2>7. p \in StateType /\ Due(p)
    BY <2>3, <2>4, PassType, PassDue
  <2>8. t.settlement # None => Due(t)
    <3>1. Advance(p).settlement = p.settlement
      BY <2>7, AdvanceType DEF Framed
    <3>2. QED
      BY <2>5, <2>7, <3>1
  <2>9. QED
    BY <2>6, <2>8, FinishDue
<1>6. QED
  BY <1>4, <1>5, EndTurnCases

\* What a reaction leaves is due, unless the window stays open.
LEMMA ResolveReactionDue ==
  ASSUME Sound(state), ResolveReaction, state'.phase # "reaction"
  PROVE  Due(state')
<1>1. state.phase = "reaction"
  BY DEF ResolveReaction
<1>2. PICK w \in state.windows, choice \in {"decline", "hit", "down"} :
        state' = Answer(w, choice)
  BY DEF ResolveReaction
<1>3. PICK down \in SUBSET {Active(state)} : \E t :
        /\ Struck(t, w, down)
        /\ GoesOn(IF down = {} THEN t ELSE ResolutionPass(t, down, {}),
                  Answer(w, choice))
  BY <1>1, AnswerCases
<1>4. PICK t :
        /\ Struck(t, w, down)
        /\ GoesOn(IF down = {} THEN t ELSE ResolutionPass(t, down, {}),
                  Answer(w, choice))
  BY <1>3
<1> DEFINE p == IF down = {} THEN t ELSE ResolutionPass(t, down, {})
<1>5. down \in SUBSET Combatants
  BY ActiveType DEF Sound
<1>6. t \in StateType /\ t.settlement = None
  BY <1>1, <1>4 DEF Struck, Held, Framed, Sound, Coherent
<1>7. p.settlement # None => Due(p)
  BY <1>5, <1>6, PassDue
<1>8. GoesOn(p, state')
  BY <1>2, <1>4
<1> HIDE DEF p
<1>9. ASSUME NEW u, Sound(u), u.settlement = None, state' = Finish(u, {}, {})
      PROVE  Due(state')
  BY <1>9, FinishDue DEF Sound
<1>10. QED
  BY <1>7, <1>8, <1>9 DEF GoesOn

\* What an escape leaves is due.
LEMMA PartyEscapeDue ==
  ASSUME Sound(state), PartyEscape
  PROVE  Due(state')
<1> DEFINE marked == {c \in Party : Contests(state.status[c])}
           fates == [c \in Combatants |-> IF c \in marked THEN "escaped"
                                          ELSE state.status[c]]
           left == [state EXCEPT !.status = fates]
<1>1. /\ state' = ResolutionPass(left, {}, {})
      /\ state.phase # "ended"
  BY DEF PartyEscape
<1>2. state \in StateType /\ state.settlement = None
  BY <1>1 DEF Sound, Coherent
<1>3. fates \in [Combatants -> Statuses]
  BY <1>2, GetField DEF Statuses
<1> HIDE DEF fates
<1>4. left \in StateType /\ Held(state, left)
  BY <1>2, <1>3, SetField, HeldField
<1> HIDE DEF left
<1>5. QED
  BY <1>1, <1>2, <1>4, PassDue DEF Held, Framed

\* After every command the recorded settlement is the one the state calls for,
\* and so are the recorded objectives when no two of them share an interaction:
\* nothing decided is left open, whatever windows, removals and rounds the
\* command went through (resolveEncounterBatch and its callers).
THEOREM SettlementsAreDue == Spec => SettlementDue
<1>1. Sound(state) /\ [Next]_vars
        => [state'.phase # "reaction" => Due(state')]_vars
  <2> SUFFICES ASSUME Sound(state), Next, state'.phase # "reaction"
               PROVE  Due(state')
    OBVIOUS
  <2>1. QED
    BY TurnHolderCommands, CommandDue, EndTurnDue, ResolveReactionDue,
       PartyEscapeDue DEF Next
<1>2. QED
  BY <1>1, SoundInvariant, PTL DEF Spec, SettlementDue

-----------------------------------------------------------------------------
(* Turns and reactions go to those they are due to *)

\* The turn passes to somebody who can take it ...
LEMMA TurnTaken ==
  ASSUME NEW s \in StateType, Ahead(s) # {}
  PROVE  ~Skipped(Advance(s), Active(Advance(s)))
<1>1. Nearest(Ahead(s)) \in Ahead(s) /\ Advance(s).active = Slot(Passed(s))
  BY AdvanceMoves
<1>2. ~Skipped(s, Order[Slot(Passed(s))])
  BY <1>1 DEF Ahead, Passed
<1>3. Advance(s).defeated = s.defeated /\ Advance(s).status = s.status
  BY AdvanceMoves
<1>4. Active(Advance(s)) = Order[Slot(Passed(s))]
  BY <1>1 DEF Active
<1>5. QED
  BY <1>2, <1>3, <1>4 DEF Skipped

\* ... when there is anybody.
LEMMA NobodyLeft ==
  ASSUME NEW s \in StateType, Ahead(s) = {}
  PROVE  \A c \in Combatants : Skipped(s, c)
<1>1. SUFFICES ASSUME NEW c \in Combatants, ~Skipped(s, c) PROVE FALSE
  OBVIOUS
<1>2. PICK i \in 1..N : Order[i] = c
  BY RosterAssumption
<1>3. N \in Nat /\ s.active \in 1..N
  BY SomebodyFights, GetField
<1> DEFINE k == IF i > s.active THEN i - s.active ELSE i - s.active + N
<1>4. k \in 1..N /\ Slot(s.active + k) = i
  BY <1>2, <1>3 DEF Slot
<1> HIDE DEF k
<1>5. k \in Ahead(s)
  BY <1>1, <1>2, <1>4 DEF Ahead
<1>6. QED
  BY <1>5

\* A pass writes participation for the removed only, and gives no reaction back.
LEMMA PassFates ==
  ASSUME NEW s \in StateType, NEW removed \in SUBSET Combatants, NEW keys
  PROVE  /\ s.settlement = None =>
              \A c \in Combatants :
                ResolutionPass(s, removed, keys).status[c]
                  = IF c \in removed THEN "defeated" ELSE s.status[c]
         /\ ResolutionPass(s, removed, keys).ready = s.ready
<1>1. CASE s.settlement # None
  BY <1>1 DEF ResolutionPass
<1>2. CASE s.settlement = None
  <2> DEFINE scored == Scored(s, removed, keys)
  <2>1. /\ scored \in StateType
        /\ Batched(s, scored)
        /\ scored.status = Synced(s, removed).status
        /\ ResolutionPass(s, removed, keys) = Settle(scored)
    BY <1>2, PassScores
  <2> HIDE DEF scored
  <2>2. Settle(scored).status = scored.status /\ Settle(scored).ready = scored.ready
    BY <2>1, SettleKeeps
  <2>3. QED
    BY <2>1, <2>2, SyncedKeeps DEF Batched
<1>3. QED
  BY <1>1, <1>2

\* The last pass of a turn removes nobody.
LEMMA FinishIdle ==
  ASSUME NEW s \in StateType
  PROVE  LET t == Finish(s, {}, {}) IN
           /\ Seated(s, t)
           /\ t.ready = s.ready
           /\ \A c \in Combatants : Skipped(t, c) <=> Skipped(s, c)
<1> DEFINE t == Finish(s, {}, {})
<1>1. Seated(s, t)
  BY FinishSeated
<1>2. t.ready = s.ready /\ \A c \in Combatants : t.status[c] = s.status[c]
  BY PassFates DEF Finish
<1> HIDE DEF t
<1>3. QED
  BY <1>1, <1>2 DEF Skipped, Seated, t

\* A command of the turn holder gives no reaction back and spends none.
LEMMA CommandReady ==
  ASSUME Commanded
  PROVE  state'.ready = state.ready /\ state'.active = state.active
<1>1. PICK t, keys : \E down \in SUBSET Combatants :
        Acted(t, down) /\ state' = Finish(t, down, keys)
  BY DEF Commanded
<1>2. PICK down \in SUBSET Combatants :
        Acted(t, down) /\ state' = Finish(t, down, keys)
  BY <1>1
<1>3. state'.ready = t.ready
  BY <1>2, PassFates DEF Finish, Acted
<1>4. Seated(t, state')
  BY <1>2, FinishSeated DEF Acted
<1>5. QED
  BY <1>2, <1>3, <1>4 DEF Acted, Seated

\* An answer spends at most the reaction it is the answer of, and leaves the
\* turn where it is.
LEMMA AnswerReady ==
  ASSUME Sound(state), state.phase = "reaction",
         NEW w \in state.windows, NEW choice
  PROVE  /\ Answer(w, choice).ready \in {state.ready, state.ready \ {CurrentReactor(w)}}
         /\ Answer(w, choice).active = state.active
<1>1. PICK down \in SUBSET {Active(state)} : \E t :
        /\ Struck(t, w, down)
        /\ GoesOn(IF down = {} THEN t ELSE ResolutionPass(t, down, {}),
                  Answer(w, choice))
  BY AnswerCases
<1>2. PICK t :
        /\ Struck(t, w, down)
        /\ GoesOn(IF down = {} THEN t ELSE ResolutionPass(t, down, {}),
                  Answer(w, choice))
  BY <1>1
<1> DEFINE p == IF down = {} THEN t ELSE ResolutionPass(t, down, {})
           after == Answer(w, choice)
<1>3. down \in SUBSET Combatants
  BY ActiveType DEF Sound
<1>4. p.ready = t.ready
  BY <1>2, <1>3, PassFates DEF Struck
<1>5. GoesOn(p, after)
  BY <1>2
<1> HIDE DEF p, after
<1>6. ASSUME NEW u, Sound(u), Quiet(p, u), after = Finish(u, {}, {})
      PROVE  after.ready = p.ready
  BY <1>6, FinishIdle DEF Sound, Quiet
<1>7. after.ready = p.ready
  BY <1>5, <1>6 DEF GoesOn, Quiet
<1>8. QED
  BY <1>2, <1>4, <1>7, AnswerSeat DEF Struck, after

\* Fleeing gives no reaction back and spends none.
LEMMA PartyEscapeReady ==
  ASSUME Sound(state), PartyEscape
  PROVE  state'.ready = state.ready /\ state'.active = state.active
<1> DEFINE marked == {c \in Party : Contests(state.status[c])}
           fates == [c \in Combatants |-> IF c \in marked THEN "escaped"
                                          ELSE state.status[c]]
           left == [state EXCEPT !.status = fates]
<1>1. state' = ResolutionPass(left, {}, {})
  BY DEF PartyEscape
<1>2. state \in StateType
  BY DEF Sound
<1>3. fates \in [Combatants -> Statuses]
  BY <1>2, GetField DEF Statuses
<1> HIDE DEF fates
<1>4. left \in StateType /\ Quiet(state, left)
  BY <1>2, <1>3, SetField, QuietField
<1> HIDE DEF left
<1>5. state'.ready = left.ready /\ Seated(left, state')
  BY <1>1, <1>4, PassFates, PassSeated
<1>6. QED
  BY <1>4, <1>5 DEF Quiet, Seated

\* The draft a round opens with: the turn is with somebody who can take it, or
\* nobody is left, or the encounter is settled; and a reaction is given back to
\* nobody but those the turn came to.
LEMMA OpenedTurn ==
  ASSUME Sound(state), InTurn, Ahead(state) # {}, Passed(state) > N,
         NEW expired, NEW downed \in SUBSET Combatants
  PROVE  LET t == Opened(expired, downed) IN
           /\ \/ t.settlement # None
              \/ ~Skipped(t, Active(t))
              \/ \A c \in Combatants : Skipped(t, c)
           /\ state.ready \subseteq t.ready
           /\ \A c \in t.ready \ state.ready : c = Active(t) \/ c \in t.defeated
<1> DEFINE ended == Advance(state)
           b == Burned(ended, expired, downed)
           p == Resolved(expired, downed)
           t == Opened(expired, downed)
<1>1. state \in StateType /\ state.settlement = None
  BY InTurnCalm DEF Sound, Coherent
<1>2. /\ ended \in StateType /\ ended.settlement = None
      /\ ended.active = Slot(Passed(state))
      /\ ended.ready = state.ready \cup {Active(ended)}
      /\ ended.defeated = state.defeated
      /\ ended.status = state.status
      /\ ~Skipped(ended, Active(ended))
  BY <1>1, AdvanceType, AdvanceMoves, TurnTaken DEF Framed, Active
<1>3. p = ResolutionPass(b, downed, {})
  BY DEF Resolved
<1>4. t = IF p.settlement = None /\ Active(p) \in p.defeated THEN Advance(p) ELSE p
  BY DEF Opened
<1>5. p \in StateType /\ p.active = ended.active /\ p.defeated = state.defeated \cup downed
  BY <1>2, ResolvedFields
<1> HIDE DEF ended
<1>6. /\ b \in StateType /\ b.settlement = None
      /\ b.active = ended.active /\ b.status = ended.status /\ b.ready = ended.ready
  BY <1>2, BurnedFields DEF Framed
<1> HIDE DEF b, p, t
<1>7. /\ p.ready = ended.ready
      /\ \A c \in Combatants :
           p.status[c] = IF c \in downed THEN "defeated" ELSE ended.status[c]
  BY <1>3, <1>6, PassFates
<1>8. Active(p) = Active(ended) /\ Active(ended) \in Combatants
  BY <1>2, <1>5, ActiveType DEF Active
<1>9. CASE p.settlement = None /\ Active(p) \in p.defeated
  <2>1. t = Advance(p)
    BY <1>4, <1>9
  <2>2. /\ Ahead(p) = {} => t = p /\ \A c \in Combatants : Skipped(t, c)
        /\ Ahead(p) # {} => ~Skipped(t, Active(t))
    BY <1>5, <2>1, AdvanceMoves, NobodyLeft, TurnTaken
  <2>3. /\ t.defeated = p.defeated
        /\ Ahead(p) = {} => t.ready = p.ready
        /\ Ahead(p) # {} => t.ready = p.ready \cup {Active(t)}
    BY <1>5, <2>1, AdvanceMoves DEF Active
  <2>4. state.ready \subseteq t.ready
    BY <1>2, <1>7, <2>3
  <2>5. \A c \in t.ready \ state.ready : c = Active(t) \/ c \in t.defeated
    BY <1>2, <1>7, <1>8, <1>9, <2>3
  <2>6. QED
    BY <2>2, <2>4, <2>5 DEF t
<1>10. CASE p.settlement = None /\ Active(p) \notin p.defeated
  <2>1. t = p
    BY <1>4, <1>10
  <2>2. Active(p) \notin downed
    BY <1>5, <1>10
  <2>3. ~Skipped(t, Active(t))
    BY <1>2, <1>7, <1>8, <1>10, <2>1, <2>2 DEF Skipped
  <2>4. QED
    BY <1>2, <1>7, <1>8, <2>1, <2>3 DEF t
<1>11. CASE p.settlement # None
  <2>1. t = p
    BY <1>4, <1>11
  <2>2. QED
    BY <1>2, <1>7, <1>8, <1>11, <2>1 DEF t
<1>12. QED
  BY <1>9, <1>10, <1>11

\* What the end of a turn does to the turn and to who may react.
LEMMA EndTurnTurn ==
  ASSUME Sound(state), Sound(state'), EndTurn
  PROVE  /\ state'.active # state.active /\ state'.phase # "ended"
              => \/ ~Skipped(state', Active(state'))
                 \/ \A c \in Combatants : Skipped(state', c)
         /\ state.ready \subseteq state'.ready
         /\ \A c \in state'.ready \ state.ready :
              c = Active(state') \/ c \in state'.defeated
<1>1. InTurn /\ state \in StateType
  BY InTurnCalm DEF EndTurn, Sound
<1>2. ASSUME NEW t \in StateType, state' = Finish(t, {}, {}),
             state.ready \subseteq t.ready,
             \A c \in t.ready \ state.ready : c = Active(t) \/ c \in t.defeated,
             \/ t.settlement # None
             \/ t.active = state.active
             \/ ~Skipped(t, Active(t))
             \/ \A c \in Combatants : Skipped(t, c)
      PROVE  /\ state'.active # state.active /\ state'.phase # "ended"
                  => \/ ~Skipped(state', Active(state'))
                     \/ \A c \in Combatants : Skipped(state', c)
             /\ state.ready \subseteq state'.ready
             /\ \A c \in state'.ready \ state.ready :
                  c = Active(state') \/ c \in state'.defeated
  <2>1. /\ Seated(t, state') /\ state'.ready = t.ready
        /\ \A c \in Combatants : Skipped(state', c) <=> Skipped(t, c)
    BY <1>2, FinishIdle
  <2>2. Active(state') = Active(t) /\ Active(t) \in Combatants
    BY <2>1, ActiveType DEF Active, Seated
  <2>3. t.settlement # None => state'.phase = "ended"
    <3>1. t.settlement # None => state' = t
      BY <1>2 DEF Finish
    <3>2. QED
      BY <3>1 DEF Sound, Coherent
  <2>4. state'.active = t.active /\ state'.defeated = t.defeated
    BY <2>1 DEF Seated
  <2>5. QED
    BY <1>2, <2>1, <2>2, <2>3, <2>4
<1>3. CASE state' = Finish(Advance(state), {}, {})
  <2> DEFINE ended == Advance(state)
  <2>1. ended \in StateType
    BY <1>1, AdvanceType
  <2>2. Ahead(state) = {} => ended = state
    BY <1>1, AdvanceMoves
  <2>3. Ahead(state) # {} => /\ ended.ready = state.ready \cup {Active(ended)}
                             /\ ~Skipped(ended, Active(ended))
    BY <1>1, AdvanceMoves, TurnTaken DEF Active
  <2>4. state' = Finish(ended, {}, {})
    BY <1>3
  <2> HIDE DEF ended
  <2>5. QED
    BY <1>2, <2>1, <2>2, <2>3, <2>4
<1>4. CASE /\ Ahead(state) # {} /\ Passed(state) > N
           /\ \E expired : \E downed \in SUBSET Combatants :
                state' = Finish(Opened(expired, downed), {}, {})
  <2>1. PICK expired : \E downed \in SUBSET Combatants :
          state' = Finish(Opened(expired, downed), {}, {})
    BY <1>4
  <2>2. PICK downed \in SUBSET Combatants :
          state' = Finish(Opened(expired, downed), {}, {})
    BY <2>1
  <2> DEFINE t == Opened(expired, downed)
  <2>3. /\ t \in StateType
        /\ \/ t.settlement # None
           \/ ~Skipped(t, Active(t))
           \/ \A c \in Combatants : Skipped(t, c)
        /\ state.ready \subseteq t.ready
        /\ \A c \in t.ready \ state.ready : c = Active(t) \/ c \in t.defeated
    BY <1>1, <1>4, OpenedSeat, OpenedTurn
  <2>4. state' = Finish(t, {}, {})
    BY <2>2
  <2> HIDE DEF t
  <2>5. QED
    BY <1>2, <2>3, <2>4
<1>5. QED
  BY <1>3, <1>4, EndTurnCases

\* A turn passes to somebody who can take it, also when the hazards of the new
\* round bring down whoever it first came to (advanceTurn, endTurn).
THEOREM TurnsAreTaken == Spec => TurnsGoToContesters
<1>1. Sound(state) /\ Sound(state)' /\ [Next]_vars
        => [state'.active # state.active /\ state'.phase # "ended"
              => \/ ~Skipped(state', Active(state'))
                 \/ \A c \in Combatants : Skipped(state', c)]_vars
  <2> SUFFICES ASSUME Sound(state), Sound(state'), Next,
                      state'.active # state.active, state'.phase # "ended"
               PROVE  \/ ~Skipped(state', Active(state'))
                      \/ \A c \in Combatants : Skipped(state', c)
    BY DEF Sound, StateType, Coherent, Resumable, Active
  <2>1. CASE EndTurn
    BY <2>1, EndTurnTurn
  <2>2. CASE ResolveReaction
    BY <2>2, AnswerReady DEF ResolveReaction
  <2>3. QED
    BY <2>1, <2>2, TurnHolderCommands, CommandReady, PartyEscapeReady DEF Next
<1>2. QED
  BY <1>1, SoundInvariant, PTL DEF Spec, TurnsGoToContesters

\* A reaction is spent by its owner's answer only and comes back with its
\* owner's turn only, whatever windows open and close in between.
THEOREM ReactionsOncePerRound == Spec => ReactionOncePerRound
<1>1. Sound(state) /\ Sound(state)' /\ [Next]_vars
        => [\A c \in Combatants :
              /\ c \in state.ready \ state'.ready =>
                   \E w \in state.windows : c = CurrentReactor(w)
              /\ c \in state'.ready \ state.ready =>
                   /\ state.phase = "active"
                   /\ c = Active(state') \/ c \in state'.defeated]_vars
  <2> SUFFICES ASSUME Sound(state), Sound(state'), Next, NEW c \in Combatants
               PROVE  /\ c \in state.ready \ state'.ready =>
                           \E w \in state.windows : c = CurrentReactor(w)
                      /\ c \in state'.ready \ state.ready =>
                           /\ state.phase = "active"
                           /\ c = Active(state') \/ c \in state'.defeated
    BY DEF Sound, StateType, Coherent, Resumable, Active
  <2>1. CASE EndTurn
    BY <2>1, EndTurnTurn DEF EndTurn, InTurn
  <2>2. CASE ResolveReaction
    <3>1. PICK w \in state.windows, choice \in {"decline", "hit", "down"} :
            state' = Answer(w, choice)
      BY <2>2 DEF ResolveReaction
    <3>2. state'.ready \in {state.ready, state.ready \ {CurrentReactor(w)}}
      BY <2>2, <3>1, AnswerReady DEF ResolveReaction
    <3>3. QED
      BY <3>2
  <2>3. QED
    BY <2>1, <2>2, TurnHolderCommands, CommandReady, PartyEscapeReady DEF Next
<1>2. QED
  BY <1>1, SoundInvariant, PTL DEF Spec, ReactionOncePerRound

-----------------------------------------------------------------------------
(* Morale: the ledger and the fallen *)

\* Finitely many triggers can ever be suffered.
LEMMA TriggersFinite == IsFiniteSet(Trigger)
<1>1. IsFiniteSet(TriggerKinds)
  <2>1. TriggerKinds = {"leader_defeated"} \cup ({"ally_removed"} \cup {"objective_failed"})
    BY DEF TriggerKinds
  <2>2. QED
    BY <2>1, FS_Singleton, FS_Union
<1>2. IsFiniteSet(Combatants \cup Objectives)
  BY RosterAssumption, ObjectiveAssumption, FS_Union
<1>3. QED
  BY <1>1, <1>2, FS_Product DEF Trigger

\* Two sets of triggers with none in common cost what each costs.
LEMMA LossUnion ==
  ASSUME NEW A, NEW B, IsFiniteSet(A), IsFiniteSet(B), A \cap B = {}
  PROVE  Loss(A \cup B) = Loss(A) + Loss(B)
<1> DEFINE Of(S, kind) == {t \in S : t[1] = kind}
           Cost(S, kind) == Weight(kind) * Cardinality(Of(S, kind))
<1>1. \A w, m, n \in Nat : w * (m + n) = w * m + w * n /\ w * m \in Nat
  OBVIOUS
<1>2. ASSUME NEW kind
      PROVE  /\ Cost(A \cup B, kind) = Cost(A, kind) + Cost(B, kind)
             /\ Cost(A, kind) \in Nat /\ Cost(B, kind) \in Nat
  <2>1. /\ IsFiniteSet(Of(A, kind)) /\ IsFiniteSet(Of(B, kind))
        /\ Cardinality(Of(A, kind)) \in Nat /\ Cardinality(Of(B, kind)) \in Nat
    <3>1. Of(A, kind) \in SUBSET A /\ Of(B, kind) \in SUBSET B
      OBVIOUS
    <3>2. IsFiniteSet(Of(A, kind)) /\ IsFiniteSet(Of(B, kind))
      BY <3>1, FS_Subset
    <3> HIDE DEF Of
    <3>3. QED
      BY <3>2, FS_CardinalityType
  <2>2. Of(A \cup B, kind) = Of(A, kind) \cup Of(B, kind)
        /\ Of(A, kind) \cap Of(B, kind) = {}
    OBVIOUS
  <2> HIDE DEF Of
  <2>3. Cardinality(Of(A \cup B, kind))
          = Cardinality(Of(A, kind)) + Cardinality(Of(B, kind))
    <3>1. Cardinality(Of(A, kind) \cup Of(B, kind))
            = Cardinality(Of(A, kind)) + Cardinality(Of(B, kind))
              - Cardinality(Of(A, kind) \cap Of(B, kind))
      BY <2>1, FS_Union
    <3>2. Cardinality(Of(A, kind) \cap Of(B, kind)) = 0
      BY <2>2, FS_EmptySet
    <3>3. Cardinality(Of(A \cup B, kind)) = Cardinality(Of(A, kind) \cup Of(B, kind))
      BY <2>2, Zenon
    <3>4. QED
      BY <2>1, <3>1, <3>2, <3>3
  <2>4. Weight(kind) \in Nat
    BY MoraleAssumption DEF Weight
  <2>5. QED
    BY <1>1, <2>1, <2>3, <2>4
<1>3. \A S : Loss(S) = Cost(S, "leader_defeated") + Cost(S, "ally_removed")
                         + Cost(S, "objective_failed")
  BY DEF Loss
<1> HIDE DEF Cost
<1>4. /\ Cost(A \cup B, "leader_defeated")
           = Cost(A, "leader_defeated") + Cost(B, "leader_defeated")
      /\ Cost(A \cup B, "ally_removed")
           = Cost(A, "ally_removed") + Cost(B, "ally_removed")
      /\ Cost(A \cup B, "objective_failed")
           = Cost(A, "objective_failed") + Cost(B, "objective_failed")
  BY <1>2
<1>5. /\ Cost(A, "leader_defeated") \in Nat /\ Cost(B, "leader_defeated") \in Nat
      /\ Cost(A, "ally_removed") \in Nat /\ Cost(B, "ally_removed") \in Nat
      /\ Cost(A, "objective_failed") \in Nat /\ Cost(B, "objective_failed") \in Nat
  BY <1>2
<1>6. /\ Loss(A \cup B) = Cost(A \cup B, "leader_defeated")
           + Cost(A \cup B, "ally_removed") + Cost(A \cup B, "objective_failed")
      /\ Loss(A) = Cost(A, "leader_defeated") + Cost(A, "ally_removed")
                      + Cost(A, "objective_failed")
      /\ Loss(B) = Cost(B, "leader_defeated") + Cost(B, "ally_removed")
                      + Cost(B, "objective_failed")
  BY <1>3
<1>7. QED
  BY <1>4, <1>5, <1>6

\* Clamping on the way down makes no difference in the end.
LEMMA ClampTwice ==
  ASSUME NEW m \in 0..MoraleMax, NEW x \in Nat, NEW y \in Nat
  PROVE  Clamp(Clamp(m - x) - y) = Clamp(m - (x + y))
  BY MoraleAssumption DEF Clamp

\* Morale is the starting morale less the triggers on record.
Ledger(s) ==
  \A c \in Combatants : s.morale[c] = Clamp(StartMorale[c] - Loss(s.applied[c]))

\* What applying triggers writes.
LEMMA ShakeWrites ==
  ASSUME NEW s \in StateType, NEW suffered \in Suffered, NEW c \in Combatants
  PROVE  /\ Shake(s, suffered).morale[c]
              = Clamp(s.morale[c] - Loss(Authored(suffered[c]) \ s.applied[c]))
         /\ Shake(s, suffered).applied[c] = s.applied[c] \cup Authored(suffered[c])
<1> DEFINE fresh == [d \in Combatants |-> Authored(suffered[d]) \ s.applied[d]]
           lower == [d \in Combatants |-> Clamp(s.morale[d] - Loss(fresh[d]))]
           noted == [s EXCEPT !.morale = lower]
           entered == [d \in Combatants |-> noted.applied[d] \cup fresh[d]]
<1>1. Shake(s, suffered) = [noted EXCEPT !.applied = entered]
  BY DEF Shake
<1>2. fresh[c] = Authored(suffered[c]) \ s.applied[c]
      /\ lower[c] = Clamp(s.morale[c] - Loss(fresh[c]))
      /\ entered[c] = noted.applied[c] \cup fresh[c]
  OBVIOUS
<1> HIDE DEF fresh, lower, entered
<1>3. [noted EXCEPT !.applied = entered].morale = lower
      /\ [noted EXCEPT !.applied = entered].applied = entered
      /\ noted.applied = s.applied
  BY DEF StateType
<1> HIDE DEF noted
<1>4. QED
  BY <1>1, <1>2, <1>3

\* Who suffers triggers has them on record afterwards.
LEMMA ShakeApplies ==
  \A s \in StateType, suffered \in Suffered : \A c \in Combatants :
    Shake(s, suffered).applied[c] = s.applied[c] \cup Authored(suffered[c])
<1>1. ASSUME NEW s \in StateType, NEW suffered \in Suffered, NEW c \in Combatants
      PROVE  Shake(s, suffered).applied[c]
               = s.applied[c] \cup Authored(suffered[c])
  BY ShakeWrites
<1>2. QED
  BY <1>1

\* Applying triggers keeps the ledger straight.
LEMMA ShakeLedger ==
  ASSUME NEW s \in StateType, NEW suffered \in Suffered, Ledger(s)
  PROVE  Ledger(Shake(s, suffered))
<1>1. ASSUME NEW c \in Combatants
      PROVE  Shake(s, suffered).morale[c]
               = Clamp(StartMorale[c] - Loss(Shake(s, suffered).applied[c]))
  <2> DEFINE old == s.applied[c]
             new == Authored(suffered[c]) \ old
  <2>1. IsFiniteSet(old)
    <3>1. old \in SUBSET Trigger
      BY GetField
    <3>2. QED
      BY <3>1, TriggersFinite, FS_Subset
  <2>2. IsFiniteSet(new)
    <3>1. IsFiniteSet(suffered[c])
      BY DEF Suffered
    <3>2. new \in SUBSET suffered[c]
      BY DEF Authored
    <3>3. QED
      BY <3>1, <3>2, FS_Subset
  <2>3. Loss(old \cup new) = Loss(old) + Loss(new)
        /\ Loss(old) \in Nat /\ Loss(new) \in Nat
    BY <2>1, <2>2, LossUnion, LossType
  <2>4. Shake(s, suffered).applied[c] = old \cup new
        /\ Shake(s, suffered).morale[c] = Clamp(s.morale[c] - Loss(new))
    BY ShakeWrites
  <2>5. s.morale[c] = Clamp(StartMorale[c] - Loss(old))
    BY DEF Ledger
  <2>6. StartMorale[c] \in 0..MoraleMax
    BY MoraleAssumption
  <2> HIDE DEF old, new
  <2>7. QED
    BY <2>3, <2>4, <2>5, <2>6, ClampTwice
<1>2. QED
  BY <1>1 DEF Ledger

\* Falls that shake peers: of anybody, and of leaders.
Shaking(kind, c) ==
  /\ kind \in {"ally_removed", "leader_defeated"}
  /\ kind \in DOMAIN Magnitude
  /\ kind = "leader_defeated" => c \in Leaders

\* Every fall but those of `debt` has shaken the fallen's peers, and nothing but
\* a fall has.
Mourned(s, debt) ==
  \A kind, c : \A d \in Combatants :
    c \in Combatants /\ d \in Peers(c) /\ Shaking(kind, c) =>
      /\ <<kind, c>> \in s.applied[d] => c \in s.defeated
      /\ c \in s.defeated \ debt => <<kind, c>> \in s.applied[d]

\* What a batch applies to whom.
LEMMA ScoredApplied ==
  ASSUME NEW s \in StateType, NEW removed \in SUBSET Combatants, NEW keys,
         NEW d \in Combatants
  PROVE  Scored(s, removed, keys).applied[d]
           = (s.applied[d] \cup Authored(RemovalTriggers(removed)[d]))
               \cup Authored(FailureTriggers(Failing(s, removed, keys))[d])
<1> DEFINE again == Shake(Shaken(s, removed), FailureTriggers(Failing(s, removed, keys)))
<1>1. /\ Synced(s, removed) \in StateType
      /\ Synced(s, removed).applied = s.applied
  BY SyncedKeeps
<1>2. Shaken(s, removed).applied[d]
        = s.applied[d] \cup Authored(RemovalTriggers(removed)[d])
  <2>1. RemovalTriggers(removed) \in Suffered
    BY RemovalTriggersType
  <2> DEFINE u == Synced(s, removed)
  <2>2. u \in StateType /\ u.applied = s.applied
    BY <1>1
  <2> HIDE DEF u
  <2>3. Shake(u, RemovalTriggers(removed)).applied[d]
          = u.applied[d] \cup Authored(RemovalTriggers(removed)[d])
    BY <2>1, <2>2, ShakeWrites
  <2>4. Shaken(s, removed) = Shake(u, RemovalTriggers(removed))
    BY DEF Shaken, u
  <2>5. QED
    BY <2>2, <2>3, <2>4
<1>3. Shaken(s, removed) \in StateType
  BY ShakenKeeps
<1>4. again.applied[d] = Shaken(s, removed).applied[d]
        \cup Authored(FailureTriggers(Failing(s, removed, keys))[d])
  <2>1. FailureTriggers(Failing(s, removed, keys)) \in Suffered
    BY FailingType
  <2>2. \A fs \in Suffered :
          Shake(Shaken(s, removed), fs).applied[d]
            = Shaken(s, removed).applied[d] \cup Authored(fs[d])
    BY <1>3, ShakeApplies
  <2>3. QED
    BY <2>1, <2>2, Zenon
<1>5. again \in StateType
  BY <1>3, FailingType, ShakeType
<1>6. Scored(s, removed, keys) = [again EXCEPT !.objectives = Judged(s, removed, keys)]
  BY DEF Scored
<1> HIDE DEF again
<1>7. Scored(s, removed, keys).applied = again.applied
  BY <1>5, <1>6 DEF StateType
<1>8. QED
  BY <1>2, <1>4, <1>7

\* The ledger after a batch.
LEMMA ScoredLedger ==
  ASSUME NEW s \in StateType, NEW removed \in SUBSET Combatants, NEW keys, Ledger(s)
  PROVE  Ledger(Scored(s, removed, keys))
<1> DEFINE again == Shake(Shaken(s, removed), FailureTriggers(Failing(s, removed, keys)))
<1>1. /\ Synced(s, removed) \in StateType
      /\ Synced(s, removed).applied = s.applied
      /\ Synced(s, removed).morale = s.morale
  BY SyncedKeeps
<1>2. Ledger(Synced(s, removed))
  BY <1>1 DEF Ledger
<1>3. Ledger(Shaken(s, removed)) /\ Shaken(s, removed) \in StateType
  BY <1>1, <1>2, RemovalTriggersType, ShakeLedger, ShakenKeeps DEF Shaken
<1>4. Ledger(again) /\ again \in StateType
  BY <1>3, FailingType, ShakeLedger, ShakeType
<1>5. Scored(s, removed, keys) = [again EXCEPT !.objectives = Judged(s, removed, keys)]
  BY DEF Scored
<1> HIDE DEF again
<1>6. Scored(s, removed, keys).applied = again.applied
      /\ Scored(s, removed, keys).morale = again.morale
  BY <1>4, <1>5 DEF StateType
<1>7. QED
  BY <1>4, <1>6 DEF Ledger

\* The removals of a batch shake exactly the peers of the removed.
LEMMA RemovalShakes ==
  ASSUME NEW removed \in SUBSET Combatants, NEW kind, NEW c, NEW d \in Combatants,
         d \in Peers(c), Shaking(kind, c)
  PROVE  <<kind, c>> \in Authored(RemovalTriggers(removed)[d]) <=> c \in removed
  BY DEF RemovalTriggers, Authored, Shaking

\* A failed objective is nobody's fall.
LEMMA FailureIsNoFall ==
  ASSUME NEW failed \in SUBSET Objectives, NEW kind, NEW c, NEW d \in Combatants,
         Shaking(kind, c)
  PROVE  <<kind, c>> \notin Authored(FailureTriggers(failed)[d])
<1>1. kind # "objective_failed"
  BY DEF Shaking
<1>2. QED
  BY <1>1 DEF FailureTriggers, Authored

\* The books: the ledger is straight, and all falls but those of `debt` mourned.
Booked(s, debt) == Ledger(s) /\ Mourned(s, debt)

\* The books depend on the fallen, morale and its ledger only.
LEMMA BookedAlike ==
  ASSUME NEW s, NEW t, NEW debt, Booked(s, debt),
         t.defeated = s.defeated, t.morale = s.morale, t.applied = s.applied
  PROVE  Booked(t, debt)
  BY DEF Booked, Ledger, Mourned

\* Bringing somebody down incurs a debt ...
LEMMA FallBooked ==
  ASSUME NEW s, NEW t, NEW down, Booked(s, {}),
         t.defeated = s.defeated \cup down, t.morale = s.morale, t.applied = s.applied
  PROVE  Booked(t, down)
  BY DEF Booked, Ledger, Mourned

\* ... which the pass for that batch settles.
LEMMA PassBooks ==
  ASSUME NEW s \in StateType, s.settlement = None,
         NEW removed \in SUBSET Combatants, NEW keys,
         Booked(s, removed), removed \subseteq s.defeated
  PROVE  Booked(ResolutionPass(s, removed, keys), {})
<1> DEFINE scored == Scored(s, removed, keys)
           t == ResolutionPass(s, removed, keys)
<1>1. /\ scored \in StateType /\ Batched(s, scored) /\ t = Settle(scored)
  BY PassScores
<1>2. Ledger(scored)
  BY ScoredLedger DEF Booked
<1>3. scored.defeated = s.defeated
  BY <1>1 DEF Batched, Seated
<1>4. ASSUME NEW kind, NEW c \in Combatants, NEW d \in Combatants,
             d \in Peers(c), Shaking(kind, c)
      PROVE  /\ <<kind, c>> \in scored.applied[d] => c \in scored.defeated
             /\ c \in scored.defeated => <<kind, c>> \in scored.applied[d]
  <2>1. <<kind, c>> \in scored.applied[d]
          <=> <<kind, c>> \in s.applied[d] \/ c \in removed
    <3>1. Failing(s, removed, keys) \in SUBSET Objectives
      BY DEF Failing
    <3>2. <<kind, c>> \notin Authored(FailureTriggers(Failing(s, removed, keys))[d])
      BY <1>4, <3>1, FailureIsNoFall
    <3>3. <<kind, c>> \in Authored(RemovalTriggers(removed)[d]) <=> c \in removed
      BY <1>4, RemovalShakes
    <3>4. QED
      BY <3>2, <3>3, ScoredApplied
  <2>2. /\ <<kind, c>> \in s.applied[d] => c \in s.defeated
        /\ c \in s.defeated \ removed => <<kind, c>> \in s.applied[d]
    BY <1>4 DEF Booked, Mourned
  <2>3. QED
    BY <1>3, <2>1, <2>2
<1>5. Mourned(scored, {})
  BY <1>4 DEF Mourned
<1> HIDE DEF scored, t
<1>6. /\ t.defeated = scored.defeated /\ t.morale = scored.morale
      /\ t.applied = scored.applied
  BY <1>1, SettleSeated, SettleKeeps DEF Seated
<1>7. Booked(t, {})
  BY <1>2, <1>5, <1>6, BookedAlike DEF Booked
<1>8. QED
  BY <1>7 DEF t

\* So does the pass a command ends with; a suspended command has no debts.
LEMMA FinishBooks ==
  ASSUME NEW s \in StateType, NEW removed \in SUBSET Combatants, NEW keys,
         Booked(s, removed), removed \subseteq s.defeated,
         s.settlement # None \/ s.phase = "reaction" => removed = {}
  PROVE  Booked(Finish(s, removed, keys), {})
  BY PassBooks DEF Finish

-----------------------------------------------------------------------------
(* Every command keeps the books *)

\* Two drafts with the same books.
LEMMA QuietBooks ==
  ASSUME NEW s, NEW t, NEW debt, Booked(s, debt), Quiet(s, t)
  PROVE  Booked(t, debt)
  BY BookedAlike DEF Quiet, Seated

\* Finishing a command in which nobody is left to mourn.
LEMMA IdleBooks ==
  ASSUME NEW s \in StateType, Booked(s, {})
  PROVE  Booked(Finish(s, {}, {}), {})
  BY FinishBooks

\* Nobody has fallen yet, and nobody is shaken.
LEMMA InitBooks ==
  ASSUME Init
  PROVE  Booked(state, {})
<1>1. /\ state.morale = StartMorale /\ state.defeated = {}
      /\ state.applied = [c \in Combatants |-> {}]
  BY DEF Init
<1>2. Loss({}) = 0
  <2>1. \A w \in Nat : w * 0 = 0
    OBVIOUS
  <2>2. \A kind : Weight(kind) * Cardinality({}) = 0
    <3>1. \A kind : Weight(kind) \in Nat
      BY MoraleAssumption DEF Weight
    <3>2. Cardinality({}) = 0
      BY FS_EmptySet
    <3>3. QED
      BY <2>1, <3>1, <3>2
  <2>3. \A kind : {t \in {} : t[1] = kind} = {}
    OBVIOUS
  <2>4. Loss({}) = Weight("leader_defeated") * Cardinality({})
                     + Weight("ally_removed") * Cardinality({})
                     + Weight("objective_failed") * Cardinality({})
    BY <2>3 DEF Loss
  <2>5. QED
    BY <2>2, <2>4
<1>3. \A c \in Combatants : Clamp(StartMorale[c] - 0) = StartMorale[c]
  BY MoraleAssumption DEF Clamp
<1>4. Ledger(state)
  BY <1>1, <1>2, <1>3 DEF Ledger
<1>5. Mourned(state, {})
  BY <1>1 DEF Mourned
<1>6. QED
  BY <1>4, <1>5 DEF Booked

\* A command of the turn holder.
LEMMA CommandBooks ==
  ASSUME Booked(state, {}), Commanded
  PROVE  Booked(state', {})
<1>1. PICK t, keys : \E down \in SUBSET Combatants :
        Acted(t, down) /\ state' = Finish(t, down, keys)
  BY DEF Commanded
<1>2. PICK down \in SUBSET Combatants :
        Acted(t, down) /\ state' = Finish(t, down, keys)
  BY <1>1
<1>3. Booked(t, down)
  BY <1>2, FallBooked DEF Acted
<1>4. QED
  BY <1>2, <1>3, FinishBooks DEF Acted

\* The end of a turn: whoever a new round's hazards bring down is mourned before
\* the turn moves on.
LEMMA EndTurnBooks ==
  ASSUME Sound(state), Booked(state, {}), EndTurn
  PROVE  Booked(state', {})
<1>1. InTurn
  BY DEF EndTurn
<1>2. state \in StateType /\ state.settlement = None
  BY <1>1, InTurnCalm DEF Sound, Coherent
<1>3. /\ Advance(state) \in StateType /\ Advance(state).settlement = None
      /\ Booked(Advance(state), {})
  BY <1>2, AdvanceType, AdvanceMoves, BookedAlike DEF Framed
<1>4. CASE state' = Finish(Advance(state), {}, {})
  BY <1>3, <1>4, IdleBooks
<1>5. ASSUME Ahead(state) # {}, Passed(state) > N,
             NEW expired, NEW downed \in SUBSET Combatants,
             state' = Finish(Opened(expired, downed), {}, {})
      PROVE  Booked(state', {})
  <2> DEFINE ended == Advance(state)
             b == Burned(ended, expired, downed)
             p == Resolved(expired, downed)
             t == Opened(expired, downed)
  <2>1. ended \in StateType /\ ended.settlement = None /\ Booked(ended, {})
    BY <1>3
  <2>2. p = ResolutionPass(b, downed, {})
    BY DEF Resolved
  <2>3. t = IF p.settlement = None /\ Active(p) \in p.defeated THEN Advance(p) ELSE p
    BY DEF Opened
  <2>4. p \in StateType
    BY <1>1, <1>5, ResolvedFields
  <2>5. t \in StateType
    BY <1>1, <1>5, OpenedSeat
  <2>6. state' = Finish(t, {}, {})
    BY <1>5
  <2> HIDE DEF ended
  <2>7. /\ b \in StateType /\ b.settlement = None
        /\ b.defeated = ended.defeated \cup downed
        /\ b.morale = ended.morale /\ b.applied = ended.applied
    BY <2>1, BurnedFields DEF Framed
  <2> HIDE DEF b, p, t
  <2>8. Booked(b, downed)
    BY <2>1, <2>7, FallBooked
  <2>9. Booked(p, {})
    BY <2>2, <2>7, <2>8, PassBooks
  <2>10. Booked(t, {})
    BY <2>3, <2>4, <2>9, AdvanceMoves, BookedAlike
  <2>11. QED
    BY <2>5, <2>6, <2>10, IdleBooks
<1>6. QED
  BY <1>4, <1>5, EndTurnCases

\* The answer of a reactor: a mover it brings down is mourned before anything
\* else happens.
LEMMA ResolveReactionBooks ==
  ASSUME Sound(state), Booked(state, {}), ResolveReaction
  PROVE  Booked(state', {})
<1>1. state.phase = "reaction"
  BY DEF ResolveReaction
<1>2. PICK w \in state.windows, choice \in {"decline", "hit", "down"} :
        state' = Answer(w, choice)
  BY DEF ResolveReaction
<1>3. PICK down \in SUBSET {Active(state)} : \E t :
        /\ Struck(t, w, down)
        /\ GoesOn(IF down = {} THEN t ELSE ResolutionPass(t, down, {}),
                  Answer(w, choice))
  BY <1>1, AnswerCases
<1>4. PICK t :
        /\ Struck(t, w, down)
        /\ GoesOn(IF down = {} THEN t ELSE ResolutionPass(t, down, {}),
                  Answer(w, choice))
  BY <1>3
<1> DEFINE p == IF down = {} THEN t ELSE ResolutionPass(t, down, {})
<1>5. down \in SUBSET Combatants
  BY ActiveType DEF Sound
<1>6. t \in StateType /\ t.settlement = None
  BY <1>1, <1>4 DEF Struck, Held, Framed, Sound, Coherent
<1>7. Booked(t, down)
  BY <1>4, FallBooked DEF Struck
<1>8. Booked(p, {})
  <2>1. CASE down = {}
    BY <1>7, <2>1
  <2>2. CASE down # {}
    <3>1. down \subseteq t.defeated
      BY <1>4 DEF Struck
    <3>2. QED
      BY <1>5, <1>6, <1>7, <2>2, <3>1, PassBooks
  <2>3. QED
    BY <2>1, <2>2
<1>9. GoesOn(p, state')
  BY <1>2, <1>4
<1> HIDE DEF p
<1>10. ASSUME NEW u, Sound(u), Quiet(p, u), state' = Finish(u, {}, {})
       PROVE  Booked(state', {})
  BY <1>8, <1>10, QuietBooks, IdleBooks DEF Sound
<1>11. QED
  BY <1>8, <1>9, <1>10, QuietBooks DEF GoesOn

\* An escape brings nobody down.
LEMMA PartyEscapeBooks ==
  ASSUME Sound(state), Booked(state, {}), PartyEscape
  PROVE  Booked(state', {})
<1> DEFINE marked == {c \in Party : Contests(state.status[c])}
           fates == [c \in Combatants |-> IF c \in marked THEN "escaped"
                                          ELSE state.status[c]]
           left == [state EXCEPT !.status = fates]
<1>1. /\ state' = ResolutionPass(left, {}, {})
      /\ state.phase # "ended"
  BY DEF PartyEscape
<1>2. state \in StateType /\ state.settlement = None
  BY <1>1 DEF Sound, Coherent
<1>3. fates \in [Combatants -> Statuses]
  BY <1>2, GetField DEF Statuses
<1> HIDE DEF fates
<1>4. left \in StateType /\ Quiet(state, left)
  BY <1>2, <1>3, SetField, QuietField
<1> HIDE DEF left
<1>5. Booked(left, {}) /\ left.settlement = None
  BY <1>2, <1>4, QuietBooks DEF Quiet
<1>6. QED
  BY <1>1, <1>4, <1>5, PassBooks

\* The books are straight in every reachable state.
THEOREM BooksInvariant == Spec => []Booked(state, {})
<1>1. Init => Booked(state, {})
  BY InitBooks
<1>2. Sound(state) /\ Booked(state, {}) /\ [Next]_vars => Booked(state, {})'
  <2> SUFFICES ASSUME Sound(state), Booked(state, {}), [Next]_vars
               PROVE  Booked(state', {})
    OBVIOUS
  <2>1. CASE Next
    BY <2>1, TurnHolderCommands, CommandBooks, EndTurnBooks,
       ResolveReactionBooks, PartyEscapeBooks DEF Next
  <2>2. CASE UNCHANGED vars
    BY <2>2, Zenon DEF vars
  <2>3. QED
    BY <2>1, <2>2
<1>3. QED
  BY <1>1, <1>2, SoundInvariant, PTL DEF Spec

\* Every fall shakes the fallen's team mates, and nothing but a fall does, on
\* whatever path through the kernel it happened (resolveEncounterBatch and the
\* removals its callers collect).
THEOREM FallsShakePeers == Spec => []RemovalsShakePeers
<1>1. Booked(state, {}) => RemovalsShakePeers
  <2> SUFFICES ASSUME Mourned(state, {}) PROVE RemovalsShakePeers
    BY DEF Booked
  <2>1. ASSUME NEW c \in Combatants, NEW d \in Combatants, d \in Peers(c),
               NEW kind, Shaking(kind, c)
        PROVE  c \in state.defeated <=> <<kind, c>> \in state.applied[d]
    BY <2>1 DEF Mourned
  <2>2. QED
    BY <2>1 DEF RemovalsShakePeers, Shaking
<1>2. QED
  BY <1>1, BooksInvariant, PTL

\* Morale is always the starting morale less what its ledger lists
\* (applyMoraleTriggers and its callers).
THEOREM MoraleIsLedger == Spec => []MoraleLedger
<1>1. Booked(state, {}) => MoraleLedger
  BY DEF Booked, Ledger, MoraleLedger
<1>2. QED
  BY <1>1, BooksInvariant, PTL

================================================================================

------------------------- MODULE CombatKernelProofs -------------------------
(***************************************************************************)
(* The combat kernel keeps its state well typed, its phase, window and     *)
(* settlement in step, and every suspended command resumable, for every    *)
(* roster, map, morale rule and list of objectives.                        *)
(*                                                                         *)
(* The three invariants support one another: the reactor a window waits    *)
(* for exists because the window's queue is not empty, the resumed path is *)
(* walkable because the suspended one was, and an ordinary command finds   *)
(* no window because of the phase.  Their conjunction, Sound, is the       *)
(* inductive invariant; it is stated of a draft, so that each rule of      *)
(* CombatRules is shown to preserve it and each command strings the rules' *)
(* lemmas together the way the kernel strings the rules.                   *)
(***************************************************************************)
EXTENDS CombatKernel, FiniteSetTheorems, SequenceTheorems,
        WellFoundedInduction, TLAPS

-----------------------------------------------------------------------------
(* Reading and writing the fields of a draft *)

\* What a turn may still spend.
Budget == [movement : Nat, action : BOOLEAN, quick : BOOLEAN]

\* A draft stays well typed when one field is given a value of its type.
LEMMA SetField ==
  ASSUME NEW s \in StateType
  PROVE  /\ \A x \in {"active", "reaction", "ended"} : [s EXCEPT !.phase = x] \in StateType
         /\ \A x \in Nat : [s EXCEPT !.round = x] \in StateType
         /\ \A x \in 1..N : [s EXCEPT !.active = x] \in StateType
         /\ \A x \in SUBSET Combatants : [s EXCEPT !.defeated = x] \in StateType
         /\ \A x \in [Combatants -> Statuses] : [s EXCEPT !.status = x] \in StateType
         /\ \A x \in [Combatants -> 0..MoraleMax] : [s EXCEPT !.morale = x] \in StateType
         /\ \A x \in [Combatants -> SUBSET Trigger] : [s EXCEPT !.applied = x] \in StateType
         /\ \A x \in [Combatants -> Cells] : [s EXCEPT !.pos = x] \in StateType
         /\ \A x \in Budget : [s EXCEPT !.budget = x] \in StateType
         /\ \A x \in SUBSET Combatants : [s EXCEPT !.ready = x] \in StateType
         /\ \A x \in SUBSET Window : [s EXCEPT !.windows = x] \in StateType
         /\ \A x \in [Objectives -> ObjectiveStatuses] : [s EXCEPT !.objectives = x] \in StateType
         /\ \A x \in SUBSET Cells : [s EXCEPT !.burning = x] \in StateType
         /\ \A x \in Reasons \cup {None} : [s EXCEPT !.settlement = x] \in StateType
  BY SMTT(60) DEF StateType, Budget

\* Every field of a well-typed draft has its type.
LEMMA GetField ==
  ASSUME NEW s \in StateType
  PROVE  /\ s.phase \in {"active", "reaction", "ended"}
         /\ s.round \in Nat
         /\ s.active \in 1..N
         /\ s.defeated \in SUBSET Combatants
         /\ s.status \in [Combatants -> Statuses]
         /\ s.morale \in [Combatants -> 0..MoraleMax]
         /\ s.applied \in [Combatants -> SUBSET Trigger]
         /\ s.pos \in [Combatants -> Cells]
         /\ s.budget \in Budget
         /\ s.ready \in SUBSET Combatants
         /\ s.windows \in SUBSET Window
         /\ s.objectives \in [Objectives -> ObjectiveStatuses]
         /\ s.burning \in SUBSET Cells
         /\ s.settlement \in Reasons \cup {None}
  BY DEF StateType, Budget

-----------------------------------------------------------------------------
(* Turn order *)

\* The roster is not empty.
LEMMA SomebodyFights == N \in Nat \ {0}
  BY RosterAssumption, FS_CardinalityType, FS_EmptySet DEF N

\* The nearest of some numbers is one of them.
LEMMA NearestIn ==
  ASSUME NEW ks \in SUBSET Nat, ks # {}
  PROVE  Nearest(ks) \in ks
<1>1. PICK x \in ks : \A y \in ks : ~(<<y, x>> \in OpToRel(<, Nat))
  BY WFMin, NatLessThanWellFounded
<1>2. \A a, b \in Nat : a < b => <<a, b>> \in OpToRel(<, Nat)
  BY DEF OpToRel
<1>3. \A y \in ks : ~(y < x)
  BY <1>1, <1>2
<1>4. \A y \in ks : x <= y
  BY <1>3
<1>5. QED
  BY <1>4 DEF Nearest

\* Starting over after the last slot stays within the initiative order.
LEMMA SlotInOrder ==
  ASSUME NEW i \in 1..(N + N)
  PROVE  Slot(i) \in 1..N
  BY SomebodyFights DEF Slot

\* The active slot holds a combatant.
LEMMA ActiveType ==
  ASSUME NEW s \in StateType
  PROVE  Active(s) \in Combatants
  BY GetField, RosterAssumption DEF Active

\* Two drafts agree on the fields that say who owns the encounter ...
Framed(s, t) ==
  /\ t.phase = s.phase
  /\ t.windows = s.windows
  /\ t.settlement = s.settlement

\* ... which writing any other field does not disturb ...
LEMMA FrameField ==
  ASSUME NEW s \in StateType, NEW x
  PROVE  /\ Framed(s, [s EXCEPT !.round = x])
         /\ Framed(s, [s EXCEPT !.active = x])
         /\ Framed(s, [s EXCEPT !.defeated = x])
         /\ Framed(s, [s EXCEPT !.status = x])
         /\ Framed(s, [s EXCEPT !.morale = x])
         /\ Framed(s, [s EXCEPT !.applied = x])
         /\ Framed(s, [s EXCEPT !.pos = x])
         /\ Framed(s, [s EXCEPT !.budget = x])
         /\ Framed(s, [s EXCEPT !.ready = x])
         /\ Framed(s, [s EXCEPT !.objectives = x])
         /\ Framed(s, [s EXCEPT !.burning = x])
  BY SMTT(60) DEF StateType, Framed

\* ... however many are written in a row.
LEMMA FrameTransitive ==
  ASSUME NEW s, NEW t, NEW u, Framed(s, t), Framed(t, u)
  PROVE  Framed(s, u)
  BY DEF Framed

\* Advancing the turn keeps the draft well typed and settles nothing.
LEMMA AdvanceType ==
  ASSUME NEW s \in StateType
  PROVE  Advance(s) \in StateType /\ Framed(s, Advance(s))
<1>1. CASE Ahead(s) = {}
  BY <1>1 DEF Advance, Framed
<1>2. CASE Ahead(s) # {}
  <2> DEFINE next == s.active + Nearest(Ahead(s))
             moved == [s EXCEPT !.active = Slot(next)]
             timed == [moved EXCEPT !.round = IF next > N THEN @ + 1 ELSE @]
             paid == [timed EXCEPT !.budget = FullBudget]
  <2>1. Nearest(Ahead(s)) \in 1..N
    BY <1>2, NearestIn, SomebodyFights DEF Ahead
  <2>2. next \in 1..(N + N)
    BY <2>1, GetField, SomebodyFights
  <2>3. Slot(next) \in 1..N /\ Order[Slot(next)] \in Combatants
    BY <2>2, SlotInOrder, RosterAssumption
  <2>4. Advance(s) = [paid EXCEPT !.ready = @ \cup {Order[Slot(next)]}]
    BY <1>2 DEF Advance
  <2> HIDE DEF next
  <2>5. moved \in StateType /\ Framed(s, moved)
    BY <2>3, SetField, FrameField
  <2> HIDE DEF moved
  <2>6. timed \in StateType /\ Framed(s, timed)
    <3>1. (IF next > N THEN moved.round + 1 ELSE moved.round) \in Nat
      BY <2>5, GetField
    <3>2. QED
      BY <2>5, <3>1, SetField, FrameField, FrameTransitive
  <2> HIDE DEF timed
  <2>7. paid \in StateType /\ Framed(s, paid)
    <3>1. FullBudget \in Budget
      BY MapAssumption DEF FullBudget, Budget
    <3>2. QED
      BY <2>6, <3>1, SetField, FrameField, FrameTransitive
  <2> HIDE DEF paid
  <2>8. paid.ready \cup {Order[Slot(next)]} \in SUBSET Combatants
    BY <2>3, <2>7, GetField
  <2>9. QED
    BY <2>4, <2>7, <2>8, SetField, FrameField, FrameTransitive
<1>3. QED
  BY <1>1, <1>2

\* Two drafts also agree on everything a suspended command depends on ...
Held(s, t) ==
  /\ Framed(s, t)
  /\ t.active = s.active
  /\ t.pos = s.pos
  /\ t.budget = s.budget

\* ... which the bookkeeping of a resolution pass does not disturb ...
LEMMA HeldField ==
  ASSUME NEW s \in StateType, NEW x
  PROVE  /\ Held(s, [s EXCEPT !.defeated = x])
         /\ Held(s, [s EXCEPT !.status = x])
         /\ Held(s, [s EXCEPT !.morale = x])
         /\ Held(s, [s EXCEPT !.applied = x])
         /\ Held(s, [s EXCEPT !.ready = x])
         /\ Held(s, [s EXCEPT !.objectives = x])
         /\ Held(s, [s EXCEPT !.burning = x])
  BY SMTT(60) DEF StateType, Framed, Held

\* ... however many of its steps are taken.
LEMMA HeldTransitive ==
  ASSUME NEW s, NEW t, NEW u, Held(s, t), Held(t, u)
  PROVE  Held(s, u)
  BY DEF Held, Framed

-----------------------------------------------------------------------------
(* Morale, objectives and settlement *)

\* Clamped morale is in range.
LEMMA ClampType ==
  ASSUME NEW x \in Int
  PROVE  Clamp(x) \in 0..MoraleMax
  BY MoraleAssumption DEF Clamp

\* Finitely many triggers cost a natural number.
LEMMA LossType ==
  ASSUME NEW triggers, IsFiniteSet(triggers)
  PROVE  Loss(triggers) \in Nat
<1> DEFINE Cost(kind) == Weight(kind) * Cardinality({t \in triggers : t[1] = kind})
<1>1. ASSUME NEW kind
      PROVE  Cost(kind) \in Nat
  <2>1. {t \in triggers : t[1] = kind} \in SUBSET triggers
    OBVIOUS
  <2>2. Cardinality({t \in triggers : t[1] = kind}) \in Nat
    BY <2>1, FS_Subset, FS_CardinalityType
  <2>3. Weight(kind) \in Nat
    BY MoraleAssumption DEF Weight
  <2>4. \A m, n \in Nat : m * n \in Nat
    OBVIOUS
  <2>5. QED
    BY <2>2, <2>3, <2>4
<1> HIDE DEF Cost
<1>2. Loss(triggers) = Cost("leader_defeated") + Cost("ally_removed")
                         + Cost("objective_failed")
  BY DEF Loss, Cost
<1>3. QED
  BY <1>1, <1>2

\* What a batch makes each combatant suffer: finitely many triggers.
Suffered == [Combatants -> {ts \in SUBSET Trigger : IsFiniteSet(ts)}]

\* Applying morale triggers touches morale and its ledger only.
LEMMA ShakeType ==
  ASSUME NEW s \in StateType, NEW suffered \in Suffered
  PROVE  Shake(s, suffered) \in StateType /\ Held(s, Shake(s, suffered))
<1> DEFINE fresh == [c \in Combatants |-> Authored(suffered[c]) \ s.applied[c]]
           lower == [c \in Combatants |-> Clamp(s.morale[c] - Loss(fresh[c]))]
           noted == [s EXCEPT !.morale = lower]
           entered == [c \in Combatants |-> noted.applied[c] \cup fresh[c]]
<1>1. ASSUME NEW c \in Combatants
      PROVE  fresh[c] \in SUBSET Trigger /\ IsFiniteSet(fresh[c])
  <2>1. suffered[c] \in SUBSET Trigger /\ IsFiniteSet(suffered[c])
    BY DEF Suffered
  <2>2. fresh[c] \subseteq suffered[c]
    BY DEF Authored
  <2>3. QED
    BY <2>1, <2>2, FS_Subset
<1>2. lower \in [Combatants -> 0..MoraleMax]
  <2>1. ASSUME NEW c \in Combatants
        PROVE  Clamp(s.morale[c] - Loss(fresh[c])) \in 0..MoraleMax
    <3>1. s.morale[c] \in Nat
      BY GetField, MoraleAssumption
    <3>2. Loss(fresh[c]) \in Nat
      BY <1>1, LossType
    <3>3. QED
      BY <3>1, <3>2, ClampType
  <2>2. QED
    BY <2>1
<1>3. Shake(s, suffered) = [noted EXCEPT !.applied = entered]
  BY DEF Shake
<1> HIDE DEF fresh, lower
<1>4. noted \in StateType /\ Held(s, noted)
  BY <1>2, SetField, HeldField
<1> HIDE DEF noted
<1>5. entered \in [Combatants -> SUBSET Trigger]
  BY <1>1, <1>4, GetField
<1> HIDE DEF entered
<1>6. QED
  <2>1. Held(noted, [noted EXCEPT !.applied = entered])
    BY <1>4, HeldField
  <2>2. [noted EXCEPT !.applied = entered] \in StateType
    BY <1>4, <1>5, SetField
  <2>3. QED
    BY <1>3, <1>4, <2>1, <2>2, HeldTransitive

\* Tagging the members of a finite set gives a finite set.
LEMMA TaggedFinite ==
  ASSUME NEW kind, NEW S, IsFiniteSet(S)
  PROVE  IsFiniteSet({<<kind, x>> : x \in S})
<1>1. IsFiniteSet({kind} \X S)
  BY FS_Singleton, FS_Product
<1>2. {<<kind, x>> : x \in S} \subseteq {kind} \X S
  OBVIOUS
<1>3. QED
  BY <1>1, <1>2, FS_Subset

\* The triggers of a batch of removals are morale triggers.
LEMMA RemovalTriggersType ==
  ASSUME NEW removed \in SUBSET Combatants
  PROVE  RemovalTriggers(removed) \in Suffered
<1>1. ASSUME NEW c \in Combatants
      PROVE  /\ RemovalTriggers(removed)[c] \in SUBSET Trigger
             /\ IsFiniteSet(RemovalTriggers(removed)[c])
  <2> DEFINE A == {x \in removed : c \in Peers(x)}
             L == {x \in removed \cap Leaders : c \in Peers(x)}
             fell == {<<"ally_removed", r>> : r \in A}
             led == {<<"leader_defeated", r>> : r \in L}
  <2>1. IsFiniteSet(A) /\ IsFiniteSet(L)
    BY RosterAssumption, FS_Subset
  <2>2. IsFiniteSet(fell) /\ IsFiniteSet(led)
    BY <2>1, TaggedFinite
  <2>3. fell \cup led \in SUBSET Trigger
    BY DEF Trigger, TriggerKinds
  <2>4. RemovalTriggers(removed)[c] = fell \cup led
    BY DEF RemovalTriggers
  <2> HIDE DEF fell, led
  <2>5. QED
    BY <2>2, <2>3, <2>4, FS_Union
<1>2. QED
  BY <1>1 DEF Suffered, RemovalTriggers

\* The triggers of failed objectives are morale triggers.
LEMMA FailureTriggersType ==
  ASSUME NEW failed \in SUBSET Objectives
  PROVE  FailureTriggers(failed) \in Suffered
<1>1. ASSUME NEW c \in Combatants
      PROVE  /\ FailureTriggers(failed)[c] \in SUBSET Trigger
             /\ IsFiniteSet(FailureTriggers(failed)[c])
  <2> DEFINE F == {x \in failed : Rule[x].actors # {} /\ Team[c] = AffectedTeam(x)}
             missed == {<<"objective_failed", o>> : o \in F}
  <2>1. IsFiniteSet(F)
    BY ObjectiveAssumption, FS_Subset
  <2>2. IsFiniteSet(missed)
    BY <2>1, TaggedFinite
  <2>3. missed \in SUBSET Trigger
    BY DEF Trigger, TriggerKinds
  <2>4. FailureTriggers(failed)[c] = missed
    BY DEF FailureTriggers
  <2>5. QED
    BY <2>2, <2>3, <2>4
<1>2. QED
  BY <1>1 DEF Suffered, FailureTriggers

\* Evaluation gives every objective a status.
LEMMA EvaluateType ==
  ASSUME NEW s, NEW keys
  PROVE  Evaluate(s, keys) \in [Objectives -> ObjectiveStatuses]
<1>1. ASSUME NEW o \in Objectives, NEW k
      PROVE  StatusOf(s, o, k) \in ObjectiveStatuses
  BY DEF StatusOf, ObjectiveStatuses
<1>2. QED
  BY <1>1 DEF Evaluate

\* The verdict is one of the settlement reasons, or none.
LEMMA VerdictType ==
  ASSUME NEW s
  PROVE  Verdict(s) \in Reasons \cup {None}
  BY DEF Verdict, Reasons, None

-----------------------------------------------------------------------------
(* The inductive invariant *)

\* Well typed, phase and window in step, every suspended command resumable.
Sound(s) ==
  /\ s \in StateType
  /\ Coherent(s)
  /\ \A w \in s.windows : Resumable(s, w)

\* Soundness depends on nothing but what Held compares.
LEMMA SoundHeld ==
  ASSUME NEW s, Sound(s), NEW t \in StateType, Held(s, t)
  PROVE  Sound(t)
  BY DEF Sound, Held, Framed, Coherent, Resumable, Active

\* A settlement ends the encounter and discards its window.
LEMMA SettleCloses ==
  ASSUME NEW s \in StateType, Verdict(s) # None
  PROVE  /\ Settle(s) \in StateType
         /\ Settle(s).settlement = Verdict(s)
         /\ Settle(s).phase = "ended"
         /\ Settle(s).windows = {}
<1> DEFINE told == [s EXCEPT !.settlement = Verdict(s)]
           over == [told EXCEPT !.phase = "ended"]
           shut == [over EXCEPT !.windows = {}]
<1>1. Settle(s) = shut
  BY DEF Settle
<1>2. told \in StateType
  BY VerdictType, SetField
<1>3. told.settlement = Verdict(s)
  BY DEF StateType
<1> HIDE DEF told
<1>4. over \in StateType
  BY <1>2, SetField
<1>5. over.settlement = Verdict(s) /\ over.phase = "ended"
  BY <1>2, <1>3 DEF StateType
<1> HIDE DEF over
<1>6. shut \in StateType
  BY <1>4, SetField
<1>7. /\ shut.settlement = Verdict(s)
      /\ shut.phase = "ended"
      /\ shut.windows = {}
  BY <1>4, <1>5 DEF StateType
<1> HIDE DEF shut
<1>8. QED
  BY <1>1, <1>6, <1>7

\* A resolution pass is bookkeeping followed by the settlement.
LEMMA PassSettles ==
  ASSUME NEW s \in StateType, s.settlement = None,
         NEW removed \in SUBSET Combatants, NEW keys
  PROVE  \E t \in StateType :
           Held(s, t) /\ ResolutionPass(s, removed, keys) = Settle(t)
<1> DEFINE fates == [c \in Combatants |-> IF c \in removed THEN "defeated"
                                          ELSE s.status[c]]
           synced == [s EXCEPT !.status = fates]
           shaken == Shake(synced, RemovalTriggers(removed))
           judged == Evaluate(shaken, keys)
           failed == {o \in Objectives : judged[o] = "failed"
                                         /\ s.objectives[o] # "failed"}
           again == Shake(shaken, FailureTriggers(failed))
           scored == [again EXCEPT !.objectives = judged]
<1>1. ResolutionPass(s, removed, keys) = Settle(scored)
  BY DEF ResolutionPass
<1>2. fates \in [Combatants -> Statuses]
  BY GetField DEF Statuses
<1>3. failed \in SUBSET Objectives /\ judged \in [Objectives -> ObjectiveStatuses]
  BY EvaluateType
<1> HIDE DEF fates, failed, judged
<1>4. synced \in StateType /\ Held(s, synced)
  BY <1>2, SetField, HeldField
<1> HIDE DEF synced
<1>5. shaken \in StateType /\ Held(synced, shaken)
  BY <1>4, RemovalTriggersType, ShakeType
<1> HIDE DEF shaken
<1>6. again \in StateType /\ Held(shaken, again)
  BY <1>3, <1>5, FailureTriggersType, ShakeType
<1> HIDE DEF again
<1>7. scored \in StateType /\ Held(again, scored)
  BY <1>3, <1>6, SetField, HeldField
<1> HIDE DEF scored
<1>8. Held(s, scored)
  BY <1>4, <1>5, <1>6, <1>7, HeldTransitive
<1>9. QED
  BY <1>1, <1>7, <1>8

\* A resolution pass keeps a draft sound.
LEMMA PassSound ==
  ASSUME NEW s, Sound(s), NEW removed \in SUBSET Combatants, NEW keys
  PROVE  Sound(ResolutionPass(s, removed, keys))
<1>1. CASE s.settlement # None
  BY <1>1 DEF ResolutionPass
<1>2. CASE s.settlement = None
  <2>1. PICK t \in StateType :
          Held(s, t) /\ ResolutionPass(s, removed, keys) = Settle(t)
    BY <1>2, PassSettles DEF Sound
  <2>2. CASE Verdict(t) = None
    BY <2>1, <2>2, SoundHeld DEF Settle
  <2>3. CASE Verdict(t) # None
    BY <2>1, <2>3, SettleCloses DEF Sound, Coherent
  <2>4. QED
    BY <2>2, <2>3
<1>3. QED
  BY <1>1, <1>2

\* A pass that does not settle leaves a suspended command as it was.
LEMMA PassHeld ==
  ASSUME NEW s \in StateType, NEW removed \in SUBSET Combatants, NEW keys,
         ResolutionPass(s, removed, keys).settlement = None
  PROVE  Held(s, ResolutionPass(s, removed, keys))
<1>1. CASE s.settlement # None
  BY <1>1 DEF ResolutionPass, Held, Framed
<1>2. CASE s.settlement = None
  <2>1. PICK t \in StateType :
          Held(s, t) /\ ResolutionPass(s, removed, keys) = Settle(t)
    BY <1>2, PassSettles
  <2>2. Verdict(t) = None
    BY <2>1, SettleCloses
  <2>3. QED
    BY <2>1, <2>2 DEF Settle
<1>3. QED
  BY <1>1, <1>2

\* So does the pass a command ends with.
LEMMA FinishSound ==
  ASSUME NEW s, Sound(s), NEW removed \in SUBSET Combatants, NEW keys
  PROVE  Sound(Finish(s, removed, keys))
  BY PassSound DEF Finish

-----------------------------------------------------------------------------
(* Movement, reactions and rounds *)

\* Walking cells moves one combatant to the last of them and is paid for.
LEMMA CommitCellsType ==
  ASSUME NEW s \in StateType, NEW m \in Combatants,
         NEW cells \in Seq(Cells), Len(cells) <= s.budget.movement
  PROVE  /\ CommitCells(s, m, cells) \in StateType
         /\ Framed(s, CommitCells(s, m, cells))
         /\ CommitCells(s, m, cells).active = s.active
         /\ CommitCells(s, m, cells).budget.movement = s.budget.movement - Len(cells)
         /\ CommitCells(s, m, cells).pos[m] =
              IF cells = <<>> THEN s.pos[m] ELSE cells[Len(cells)]
<1>1. CASE cells = <<>>
  BY <1>1 DEF CommitCells, Framed, StateType
<1>2. CASE cells # <<>>
  <2> DEFINE there == [s.pos EXCEPT ![m] = cells[Len(cells)]]
             stood == [s EXCEPT !.pos = there]
             left == [stood.budget EXCEPT !.movement = @ - Len(cells)]
  <2>1. CommitCells(s, m, cells) = [stood EXCEPT !.budget = left]
    BY <1>2 DEF CommitCells
  <2>2. there \in [Combatants -> Cells] /\ there[m] = cells[Len(cells)]
    BY <1>2, GetField
  <2> HIDE DEF there
  <2>3. stood \in StateType /\ Framed(s, stood)
    BY <2>2, SetField, FrameField
  <2>4. stood.active = s.active /\ stood.budget = s.budget /\ stood.pos = there
    BY DEF StateType
  <2> HIDE DEF stood
  <2>5. left \in Budget /\ left.movement = s.budget.movement - Len(cells)
    BY <2>4, GetField DEF Budget
  <2> HIDE DEF left
  <2>6. [stood EXCEPT !.budget = left] \in StateType
        /\ Framed(s, [stood EXCEPT !.budget = left])
    BY <2>3, <2>5, SetField, FrameField, FrameTransitive
  <2>7. /\ [stood EXCEPT !.budget = left].active = stood.active
        /\ [stood EXCEPT !.budget = left].budget = left
        /\ [stood EXCEPT !.budget = left].pos = stood.pos
    BY <2>3 DEF StateType
  <2>8. QED
    BY <1>2, <2>1, <2>2, <2>4, <2>5, <2>6, <2>7
<1>3. QED
  BY <1>1, <1>2

\* Each cell of a path is next to the one before.
Contiguous(path) ==
  \A i \in 2..Len(path) : <<path[i - 1], path[i]>> \in Adjacent

\* An interrupted path has a first step that provokes.
LEMMA FirstInterruption ==
  ASSUME NEW s, NEW m, NEW path \in Seq(Cells), NEW offered,
         Interruptions(s, m, path, offered) # {}
  PROVE  Nearest(Interruptions(s, m, path, offered))
           \in Interruptions(s, m, path, offered)
<1>1. Interruptions(s, m, path, offered) \in SUBSET Nat
  BY DEF Interruptions
<1>2. QED
  BY <1>1, NearestIn

\* A legal path is walked to its end or leaves a window it can resume from:
\* the steps before the provoking one are paid, the others still affordable.
LEMMA WalkSound ==
  ASSUME NEW s, Sound(s), s.phase = "active",
         NEW path \in Seq(Cells), path # <<>>, Contiguous(path),
         Legal(s, Active(s), path),
         NEW offered \in SUBSET Combatants
  PROVE  Sound(Walk(s, Active(s), path, offered))
<1> DEFINE m == Active(s)
<1>1. s \in StateType /\ m \in Combatants
  BY ActiveType DEF Sound
<1>2. s.budget.movement \in Nat
  <2>1. s.budget \in Budget
    BY <1>1, GetField
  <2>2. QED
    BY <2>1 DEF Budget
<1>3. s.windows = {} /\ s.settlement = None
  BY DEF Sound, Coherent
<1>4. ASSUME Interruptions(s, m, path, offered) = {}
      PROVE  Sound(Walk(s, m, path, offered))
  <2>1. Len(path) <= s.budget.movement
    BY DEF Legal
  <2>2. Walk(s, m, path, offered) = CommitCells(s, m, path)
    BY <1>4 DEF Walk
  <2>3. QED
    BY <1>1, <1>3, <2>1, <2>2, CommitCellsType DEF Sound, Framed, Coherent
<1>5. ASSUME Interruptions(s, m, path, offered) # {}
      PROVE  Sound(Walk(s, m, path, offered))
  <2> DEFINE i == Nearest(Interruptions(s, m, path, offered))
             taken == SubSeq(path, 1, i - 1)
             rest == SubSeq(path, i, Len(path))
             w == [mover |-> m, queue |-> Triggered(s, m, path, offered, i),
                   rest |-> rest, offered |-> offered]
             there == CommitCells(s, m, taken)
             asking == [there EXCEPT !.phase = "reaction"]
             opened == [asking EXCEPT !.windows = {w}]
  <2>1. Walk(s, m, path, offered) = opened
    BY <1>5 DEF Walk
  <2>2. /\ i \in 1..Len(path)
        /\ Triggered(s, m, path, offered, i) # {}
    <3>1. i \in Interruptions(s, m, path, offered)
      BY <1>5, FirstInterruption
    <3>2. QED
      BY <3>1 DEF Interruptions
  <2> HIDE DEF i
  <2>3. /\ taken \in Seq(Cells)
        /\ Len(taken) = i - 1
        /\ \A j \in 1..i - 1 : taken[j] = path[j]
    BY <2>2, SubSeqProperties
  <2>4. /\ rest \in Seq(Cells)
        /\ Len(rest) = Len(path) - i + 1
        /\ \A j \in 1..Len(path) - i + 1 : rest[j] = path[i + j - 1]
    BY <2>2, SubSeqProperties
  <2>5. w \in Window
    <3>1. Triggered(s, m, path, offered, i) \in SUBSET Combatants
      BY DEF Triggered
    <3>2. QED
      BY <1>1, <2>4, <3>1 DEF Window
  <2>6. /\ w.mover = m /\ w.rest = rest /\ w.offered = offered
        /\ w.queue = Triggered(s, m, path, offered, i)
    OBVIOUS
  <2> HIDE DEF taken, rest, w
  <2>7. Len(taken) <= s.budget.movement
    BY <1>2, <2>2, <2>3 DEF Legal
  <2>8. /\ there \in StateType
        /\ there.active = s.active
        /\ Framed(s, there)
        /\ there.budget.movement = s.budget.movement - (i - 1)
        /\ there.pos[m] = IF taken = <<>> THEN s.pos[m] ELSE taken[Len(taken)]
    BY <1>1, <2>3, <2>7, CommitCellsType
  <2> HIDE DEF there
  <2>9. asking \in StateType
    BY <2>8, SetField
  <2>10. /\ asking.phase = "reaction" /\ asking.active = s.active
         /\ asking.settlement = None
         /\ asking.budget = there.budget
         /\ asking.pos = there.pos
    BY <1>3, <2>8 DEF StateType, Framed
  <2> HIDE DEF asking
  <2>11. opened \in StateType
    BY <2>5, <2>9, SetField
  <2>12. /\ opened.phase = "reaction" /\ opened.active = s.active
         /\ opened.settlement = None
         /\ opened.budget.movement = s.budget.movement - (i - 1)
         /\ opened.pos[m] = IF taken = <<>> THEN s.pos[m] ELSE taken[Len(taken)]
         /\ opened.windows = {w}
    BY <2>8, <2>9, <2>10 DEF StateType
  <2> HIDE DEF opened
  <2>13. Coherent(opened)
    BY <2>12 DEF Coherent, None
  <2>14. Resumable(opened, w)
    <3>1. w.mover = Active(opened)
      BY <2>6, <2>12 DEF Active
    <3>2. /\ w.queue # {}
          /\ w.queue \cap w.offered = {}
          /\ \A r \in w.queue : Hostile(r, w.mover)
      BY <2>2, <2>6 DEF Triggered, ReactorEligible
    <3>3. w.rest # <<>>
      BY <2>2, <2>4, <2>6
    <3>4. <<opened.pos[w.mover], w.rest[1]>> \in Adjacent
      <4>1. rest[1] = path[i]
        BY <2>2, <2>4
      <4>2. CASE i = 1
        BY <4>1, <4>2, <2>3, <2>6, <2>12 DEF Legal
      <4>3. CASE i # 1
        <5>1. taken # <<>> /\ taken[Len(taken)] = path[i - 1]
          BY <2>2, <2>3, <4>3
        <5>2. <<path[i - 1], path[i]>> \in Adjacent
          BY <2>2, <4>3 DEF Contiguous
        <5>3. QED
          BY <2>6, <2>12, <4>1, <5>1, <5>2
      <4>4. QED
        BY <4>2, <4>3
    <3>5. \A j \in 2..Len(w.rest) : <<w.rest[j - 1], w.rest[j]>> \in Adjacent
      <4>1. ASSUME NEW j \in 2..Len(rest)
            PROVE  <<rest[j - 1], rest[j]>> \in Adjacent
        <5>1. rest[j - 1] = path[i + j - 2] /\ rest[j] = path[i + j - 1]
          BY <2>2, <2>4
        <5>2. i + j - 1 \in 2..Len(path) /\ (i + j - 1) - 1 = i + j - 2
          BY <2>2, <2>4
        <5>3. QED
          BY <5>1, <5>2 DEF Contiguous
      <4>2. QED
        BY <2>6, <4>1
    <3>6. Len(w.rest) <= opened.budget.movement
      BY <1>2, <2>2, <2>4, <2>6, <2>12 DEF Legal
    <3>7. QED
      BY <3>1, <3>2, <3>3, <3>4, <3>5, <3>6 DEF Resumable
  <2>15. QED
    BY <2>1, <2>11, <2>12, <2>13, <2>14 DEF Sound
<1>6. QED
  BY <1>4, <1>5

\* Without a window it depends on even less.
LEMMA CalmSound ==
  ASSUME NEW s, Sound(s), s.windows = {}, NEW t \in StateType, Framed(s, t)
  PROVE  Sound(t)
  BY DEF Sound, Framed, Coherent

\* A change of participation keeps a draft sound.
LEMMA StatusSound ==
  ASSUME NEW s, Sound(s), NEW m \in Combatants, NEW x \in Statuses
  PROVE  /\ Sound([s EXCEPT !.status[m] = x])
         /\ [s EXCEPT !.status[m] = x].phase = s.phase
<1> DEFINE fates == [s.status EXCEPT ![m] = x]
<1>1. [s EXCEPT !.status[m] = x] = [s EXCEPT !.status = fates]
  OBVIOUS
<1>2. fates \in [Combatants -> Statuses]
  BY GetField DEF Sound
<1> HIDE DEF fates
<1>3. s \in StateType
  BY DEF Sound
<1>4. [s EXCEPT !.status = fates] \in StateType
  BY <1>2, <1>3, SetField
<1>5. Held(s, [s EXCEPT !.status = fates])
  BY <1>3, HeldField
<1>6. QED
  BY <1>1, <1>4, <1>5, SoundHeld DEF Held, Framed

\* A window with a queue waits for a member of it.
LEMMA CurrentReactorQueued ==
  ASSUME NEW w \in Window, w.queue # {}
  PROVE  CurrentReactor(w) \in w.queue
<1> DEFINE slots == {i \in 1..N : Order[i] \in w.queue}
<1>1. PICK c \in Combatants : c \in w.queue
  BY DEF Window
<1>2. slots # {}
  BY <1>1, RosterAssumption
<1>3. slots \in SUBSET Nat
  BY SomebodyFights
<1>4. Nearest(slots) \in slots
  BY <1>2, <1>3, NearestIn
<1>5. QED
  BY <1>4 DEF CurrentReactor

\* The turn passes soundly while no window is open.
LEMMA AdvanceSound ==
  ASSUME NEW s, Sound(s), s.windows = {}
  PROVE  Sound(Advance(s)) /\ Framed(s, Advance(s))
  BY AdvanceType, CalmSound DEF Sound

\* So does arriving in the exit zone.
LEMMA ArriveSound ==
  ASSUME NEW s, Sound(s), NEW m \in Combatants
  PROVE  Sound(Arrive(s, m))
  BY StatusSound DEF Arrive, Statuses

\* A suspended path is resumed, or dropped, soundly.
LEMMA ResumeSound ==
  ASSUME NEW s, Sound(s), s.phase = "active", NEW w \in Window,
         w.mover = Active(s), w.rest # <<>>, Contiguous(w.rest)
  PROVE  Sound(Resume(s, w))
<1>1. w.mover \in Combatants /\ w.rest \in Seq(Cells)
      /\ w.offered \in SUBSET Combatants
  BY DEF Window
<1>2. CASE CanResume(s, w)
  <2>1. Legal(s, Active(s), w.rest)
    BY <1>2 DEF CanResume
  <2>2. Sound(Walk(s, w.mover, w.rest, w.offered))
    BY <1>1, <2>1, WalkSound
  <2>3. QED
    BY <1>1, <1>2, <2>2, ArriveSound DEF Resume
<1>3. CASE ~CanResume(s, w)
  BY <1>3 DEF Resume
<1>4. QED
  BY <1>2, <1>3

\* The paths a client may ask for are contiguous walks over the map.
LEMMA RoutesWalkable ==
  ASSUME NEW path \in Routes
  PROVE  path \in Seq(Cells) /\ path # <<>> /\ Contiguous(path)
<1>1. PICK n \in 1..Allowance : path \in [1..n -> Cells]
  BY DEF Routes
<1>2. n \in Nat /\ n >= 1
  BY MapAssumption
<1>3. path \in Seq(Cells) /\ Len(path) = n
  BY <1>1, <1>2
<1>4. Contiguous(path)
  BY DEF Routes, Contiguous
<1>5. QED
  BY <1>2, <1>3, <1>4

-----------------------------------------------------------------------------
(* Every command *)

\* The created encounter is sound.
LEMMA InitSound == Init => Sound(state)
<1> SUFFICES ASSUME Init PROVE Sound(state)
  OBVIOUS
<1>1. FullBudget \in [movement : Nat, action : BOOLEAN, quick : BOOLEAN]
  BY MapAssumption DEF FullBudget
<1>2. 1 \in 1..N
  BY SomebodyFights
<1>3. state \in StateType
  BY <1>1, <1>2, MoraleAssumption, CommandAssumption
  DEF Init, StateType, Statuses, ObjectiveStatuses
<1>4. state.phase = "active" /\ state.windows = {} /\ state.settlement = None
  BY DEF Init
<1>5. QED
  BY <1>3, <1>4 DEF Sound, Coherent

\* No window is open while ordinary commands are accepted.
LEMMA InTurnCalm ==
  ASSUME Sound(state), InTurn
  PROVE  /\ state \in StateType
         /\ state.phase = "active" /\ state.windows = {}
         /\ Actor = Active(state) /\ Actor \in Combatants
  BY ActiveType DEF Sound, Coherent, InTurn, Actor

\* A move keeps the encounter sound.
LEMMA MoveSound == Sound(state) /\ Move => Sound(state')
<1> SUFFICES ASSUME Sound(state), Move PROVE Sound(state')
  OBVIOUS
<1>1. InTurn
  BY DEF Move
<1>2. PICK path \in Routes :
        /\ Legal(state, Actor, path)
        /\ state' = Finish(Walk(state, Actor, path, {}), {}, {})
  BY DEF Move
<1>3. Sound(Walk(state, Actor, path, {}))
  BY <1>1, <1>2, InTurnCalm, RoutesWalkable, WalkSound
<1>4. QED
  BY <1>2, <1>3, FinishSound

\* A retreat does.
LEMMA RetreatSound == Sound(state) /\ Retreat => Sound(state')
<1> SUFFICES ASSUME Sound(state), Retreat PROVE Sound(state')
  OBVIOUS
<1>1. InTurn
  BY DEF Retreat
<1>2. PICK path \in Routes :
        /\ Legal(state, Actor, path)
        /\ state' = Finish(Declare(Walk(state, Actor, path, {}), Actor), {}, {})
  BY DEF Retreat
<1>3. Sound(Walk(state, Actor, path, {}))
  BY <1>1, <1>2, InTurnCalm, RoutesWalkable, WalkSound
<1>4. Sound(Declare(Walk(state, Actor, path, {}), Actor))
  BY <1>1, <1>3, InTurnCalm, StatusSound DEF Declare, Statuses
<1>5. QED
  BY <1>2, <1>4, FinishSound

\* A surrender does.
LEMMA SurrenderSound == Sound(state) /\ Surrender => Sound(state')
<1> SUFFICES ASSUME Sound(state), Surrender PROVE Sound(state')
  OBVIOUS
<1>1. Sound([state EXCEPT !.status[Actor] = "surrendered"])
  BY InTurnCalm, StatusSound DEF Surrender, Statuses
<1>2. QED
  BY <1>1, FinishSound DEF Surrender

\* Paying for an action keeps a draft sound while no window is open.
LEMMA SpendSound ==
  ASSUME NEW s, Sound(s), s.windows = {}, NEW cost
  PROVE  Sound(Spend(s, cost)) /\ Framed(s, Spend(s, cost))
<1> DEFINE acted == [s.budget EXCEPT !.action = FALSE]
           hurried == [s.budget EXCEPT !.quick = FALSE]
<1>1. s \in StateType
  BY DEF Sound
<1>2. s.budget \in Budget
  BY <1>1, GetField
<1>3. acted \in Budget /\ hurried \in Budget
  BY <1>2 DEF Budget
<1>4. /\ [s EXCEPT !.budget.action = FALSE] = [s EXCEPT !.budget = acted]
      /\ [s EXCEPT !.budget.quick = FALSE] = [s EXCEPT !.budget = hurried]
  OBVIOUS
<1> HIDE DEF acted, hurried
<1>5. /\ Sound([s EXCEPT !.budget = acted])
      /\ Sound([s EXCEPT !.budget = hurried])
  BY <1>1, <1>3, SetField, FrameField, CalmSound
<1>6. QED
  BY <1>1, <1>4, <1>5, FrameField DEF Spend, Framed

\* So does bringing somebody down.
LEMMA DownSound ==
  ASSUME NEW s, Sound(s), NEW downed \in SUBSET Combatants
  PROVE  Sound([s EXCEPT !.defeated = @ \cup downed])
<1>1. s \in StateType
  BY DEF Sound
<1>2. s.defeated \cup downed \in SUBSET Combatants
  BY <1>1, GetField
<1>3. QED
  BY <1>1, <1>2, SetField, HeldField, SoundHeld

\* An ability does.
LEMMA UseAbilitySound == Sound(state) /\ UseAbility => Sound(state')
<1> SUFFICES ASSUME Sound(state), UseAbility PROVE Sound(state')
  OBVIOUS
<1>1. PICK cost \in AbilityCosts,
           targets \in SUBSET {c \in Combatants : Targetable(c)} :
        \E downed \in SUBSET targets :
          state' = Finish([Spend(state, cost) EXCEPT
                             !.defeated = @ \cup downed], downed, {})
  BY DEF UseAbility
<1>2. PICK downed \in SUBSET targets :
        state' = Finish([Spend(state, cost) EXCEPT
                           !.defeated = @ \cup downed], downed, {})
  BY <1>1
<1>3. downed \in SUBSET Combatants
  OBVIOUS
<1>4. Sound(Spend(state, cost))
  BY InTurnCalm, SpendSound DEF UseAbility
<1>5. QED
  BY <1>2, <1>3, <1>4, DownSound, FinishSound

\* The effects of an affordance keep a draft sound while no window is open.
LEMMA ApplySound ==
  ASSUME NEW s, Sound(s), s.windows = {},
         NEW effect, effect.burn \subseteq Cells, effect.push \in [Cells -> Cells],
         NEW downed \in SUBSET Combatants
  PROVE  Sound(Apply(s, effect, downed))
<1> DEFINE felled == [s EXCEPT !.defeated = @ \cup downed]
           there == [c \in Combatants |-> effect.push[felled.pos[c]]]
           pushed == [felled EXCEPT !.pos = there]
           lit == (pushed.burning \cup effect.burn) \ effect.douse
<1>1. Apply(s, effect, downed) = [pushed EXCEPT !.burning = lit]
  BY DEF Apply
<1>2. s \in StateType
  BY DEF Sound
<1>3. s.defeated \cup downed \in SUBSET Combatants
  BY <1>2, GetField
<1>4. felled \in StateType /\ Framed(s, felled)
  BY <1>2, <1>3, SetField, FrameField
<1> HIDE DEF felled
<1>5. there \in [Combatants -> Cells]
  BY <1>4, GetField
<1> HIDE DEF there
<1>6. pushed \in StateType /\ Framed(s, pushed)
  BY <1>4, <1>5, SetField, FrameField, FrameTransitive
<1> HIDE DEF pushed
<1>7. lit \in SUBSET Cells
  BY <1>6, GetField
<1> HIDE DEF lit
<1>8. [pushed EXCEPT !.burning = lit] \in StateType
      /\ Framed(s, [pushed EXCEPT !.burning = lit])
  BY <1>6, <1>7, SetField, FrameField, FrameTransitive
<1>9. QED
  BY <1>1, <1>8, CalmSound

\* An affordance does.
LEMMA InteractSound == Sound(state) /\ Interact => Sound(state')
<1> SUFFICES ASSUME Sound(state), Interact PROVE Sound(state')
  OBVIOUS
<1>1. PICK a \in Affordances, success \in BOOLEAN :
        \E downed \in SUBSET InBlast(state, IF success THEN a.success ELSE a.failure) :
          state' = Finish(Apply(Spend(state, a.cost),
                                IF success THEN a.success ELSE a.failure, downed),
                          downed,
                          IF success THEN {<<Actor, a.target>>} ELSE {})
  BY DEF Interact
<1> DEFINE effect == IF success THEN a.success ELSE a.failure
<1>2. PICK downed \in SUBSET InBlast(state, effect) :
        state' = Finish(Apply(Spend(state, a.cost), effect, downed), downed,
                        IF success THEN {<<Actor, a.target>>} ELSE {})
  BY <1>1
<1>3. downed \in SUBSET Combatants
  BY DEF InBlast
<1>4. effect \in {a.success, a.failure}
  OBVIOUS
<1>5. effect.burn \subseteq Cells /\ effect.push \in [Cells -> Cells]
  BY <1>4, CommandAssumption
<1>6. /\ Sound(Spend(state, a.cost))
      /\ Spend(state, a.cost).windows = {}
  BY InTurnCalm, SpendSound DEF Interact, Framed
<1> HIDE DEF effect
<1>7. Sound(Apply(Spend(state, a.cost), effect, downed))
  BY <1>3, <1>5, <1>6, ApplySound
<1>8. QED
  BY <1>2, <1>3, <1>7, FinishSound

\* Waiting does.
LEMMA DefendOrWaitSound == Sound(state) /\ DefendOrWait => Sound(state')
<1> SUFFICES ASSUME Sound(state), DefendOrWait PROVE Sound(state')
  OBVIOUS
<1>1. [state EXCEPT !.budget.action = FALSE] = Spend(state, "action")
  BY DEF Spend
<1>2. Sound(Spend(state, "action"))
  BY InTurnCalm, SpendSound DEF DefendOrWait
<1>3. QED
  BY <1>1, <1>2, FinishSound DEF DefendOrWait

\* So does the start of a round.
LEMMA StartRoundSound ==
  ASSUME NEW s, Sound(s), s.windows = {}, NEW expired,
         NEW downed \in SUBSET Combatants
  PROVE  Sound(StartRound(s, expired, downed))
<1> DEFINE faded == [s EXCEPT !.burning = @ \ expired]
           burned == [faded EXCEPT !.defeated = @ \cup downed]
           passed == ResolutionPass(burned, downed, {})
<1>1. StartRound(s, expired, downed) =
        IF passed.settlement = None /\ Active(passed) \in passed.defeated
        THEN Advance(passed) ELSE passed
  BY DEF StartRound
<1>2. s \in StateType
  BY DEF Sound
<1>3. s.burning \ expired \in SUBSET Cells
  BY <1>2, GetField
<1>4. Sound(faded) /\ faded.windows = {}
  <2>1. faded \in StateType /\ Framed(s, faded)
    BY <1>2, <1>3, SetField, FrameField
  <2> HIDE DEF faded
  <2>2. QED
    BY <2>1, CalmSound DEF Framed
<1> HIDE DEF faded
<1>5. Sound(burned)
  BY <1>4, DownSound
<1>6. burned.windows = {}
  BY <1>4 DEF Sound, StateType
<1> HIDE DEF burned
<1>7. Sound(passed)
  BY <1>5, PassSound
<1>8. passed.settlement = None => passed.windows = {}
  BY <1>5, <1>6, PassHeld DEF Sound, Held, Framed
<1> HIDE DEF passed
<1>9. QED
  BY <1>1, <1>7, <1>8, AdvanceSound

\* Ending the turn does, whatever the new round's hazards bring down.
LEMMA EndTurnSound == Sound(state) /\ EndTurn => Sound(state')
<1> SUFFICES ASSUME Sound(state), EndTurn PROVE Sound(state')
  OBVIOUS
<1> DEFINE ended == Advance(state)
<1>1. Sound(ended) /\ ended.windows = {}
  BY InTurnCalm, AdvanceSound DEF EndTurn, Framed
<1>2. CASE state' = Finish(ended, {}, {})
  BY <1>1, <1>2, FinishSound
<1>3. CASE \E expired \in SUBSET state.burning :
             \E downed \in SUBSET Burnable(ended, expired) :
               state' = Finish(StartRound(ended, expired, downed), {}, {})
  <2>1. PICK expired \in SUBSET state.burning :
             \E downed \in SUBSET Burnable(ended, expired) :
               state' = Finish(StartRound(ended, expired, downed), {}, {})
    BY <1>3
  <2>2. PICK downed \in SUBSET Burnable(ended, expired) :
               state' = Finish(StartRound(ended, expired, downed), {}, {})
    BY <2>1
  <2>3. downed \in SUBSET Combatants
    BY DEF Burnable
  <2> HIDE DEF ended
  <2>4. QED
    BY <1>1, <2>2, <2>3, StartRoundSound, FinishSound
<1>4. QED
  BY <1>2, <1>3 DEF EndTurn

\* The answer to a reaction closes the encounter, leaves a window that waits for
\* the next reactor, or resumes the path of the last one.
LEMMA AnswerSound ==
  ASSUME Sound(state), state.phase = "reaction",
         NEW w \in state.windows, NEW choice
  PROVE  Sound(Answer(w, choice))
<1> DEFINE r == CurrentReactor(w)
           m == w.mover
           attacks == choice # "decline" /\ ReactorEligible(state, r, m, state.pos[m])
           downs == attacks /\ choice = "down"
           rested == IF attacks THEN state.ready \ {r} ELSE state.ready
           spent == [state EXCEPT !.ready = rested]
           down == IF downs THEN spent.defeated \cup {m} ELSE spent.defeated
           struck == [spent EXCEPT !.defeated = down]
           passed == IF downs THEN ResolutionPass(struck, {m}, {}) ELSE struck
           asked == [w EXCEPT !.queue = @ \ {r}, !.offered = @ \cup {r}]
           going == [passed EXCEPT !.phase = "active"]
           calm == [going EXCEPT !.windows = {}]
<1>1. Answer(w, choice) =
        IF passed.settlement # None THEN passed
        ELSE IF asked.queue # {} THEN [passed EXCEPT !.windows = {asked}]
        ELSE Finish(Resume(calm, asked), {}, {})
  BY DEF Answer
<1>2. state \in StateType /\ w \in Window /\ Resumable(state, w)
      /\ state.windows = {w}
  <2>1. state \in StateType /\ Resumable(state, w) /\ state.windows = {w}
    BY DEF Sound, Coherent
  <2>2. QED
    BY <2>1, GetField
<1>3. r \in w.queue /\ r \in Combatants /\ m \in Combatants
  BY <1>2, CurrentReactorQueued DEF Resumable, Window
<1>4. /\ asked.mover = w.mover /\ asked.rest = w.rest
      /\ asked.queue = w.queue \ {r} /\ asked.offered = w.offered \cup {r}
      /\ asked \in Window
  <2>1. w.queue \ {r} \in SUBSET Combatants
        /\ w.offered \cup {r} \in SUBSET Combatants
    BY <1>2, <1>3 DEF Window
  <2> HIDE DEF r
  <2>2. QED
    BY <1>2, <2>1 DEF Window
<1>5. rested \in SUBSET Combatants
  BY <1>2, GetField
<1> HIDE DEF r, attacks, rested, asked
<1>6. Sound(spent) /\ Held(state, spent)
  BY <1>2, <1>5, SetField, HeldField, SoundHeld
<1> HIDE DEF spent
<1>7. down \in SUBSET Combatants
  BY <1>3, <1>6, GetField DEF Sound
<1> HIDE DEF down
<1>8. Sound(struck) /\ Held(state, struck)
  <2>1. spent \in StateType
    BY <1>6 DEF Sound
  <2>2. struck \in StateType /\ Held(spent, struck)
    BY <1>7, <2>1, SetField, HeldField
  <2>3. QED
    BY <1>6, <2>2, HeldTransitive, SoundHeld
<1> HIDE DEF struck
<1>9. Sound(passed)
  BY <1>3, <1>8, PassSound
<1>10. passed.settlement = None => Held(state, passed)
  BY <1>3, <1>8, PassHeld, HeldTransitive DEF Sound
<1> HIDE DEF passed
<1>11. CASE passed.settlement # None
  BY <1>1, <1>9, <1>11
<1>12. CASE passed.settlement = None /\ asked.queue # {}
  <2> DEFINE next == [passed EXCEPT !.windows = {asked}]
  <2>1. passed \in StateType /\ Held(state, passed)
    BY <1>9, <1>10, <1>12 DEF Sound
  <2>2. next \in StateType
    BY <1>4, <2>1, SetField
  <2>3. /\ next.windows = {asked} /\ next.phase = passed.phase
        /\ next.settlement = passed.settlement
        /\ next.active = passed.active /\ next.pos = passed.pos
        /\ next.budget = passed.budget
    BY <2>1 DEF StateType
  <2> HIDE DEF next
  <2>4. Coherent(next)
    BY <1>12, <2>1, <2>3 DEF Coherent, Held, Framed
  <2>5. Resumable(next, asked)
    BY <1>2, <1>4, <1>12, <2>1, <2>3 DEF Resumable, Held, Active
  <2>6. QED
    BY <1>1, <1>12, <2>2, <2>3, <2>4, <2>5 DEF Sound, next
<1>13. CASE passed.settlement = None /\ asked.queue = {}
  <2>1. passed \in StateType /\ Held(state, passed)
    BY <1>9, <1>10, <1>13 DEF Sound
  <2>2. going \in StateType
    BY <2>1, SetField
  <2>3. /\ going.phase = "active" /\ going.settlement = None
        /\ going.active = passed.active
    BY <1>13, <2>1 DEF StateType
  <2> HIDE DEF going
  <2>4. calm \in StateType
    BY <2>2, SetField
  <2>5. /\ calm.phase = "active" /\ calm.settlement = None /\ calm.windows = {}
        /\ calm.active = passed.active
    BY <2>2, <2>3 DEF StateType
  <2> HIDE DEF calm
  <2>6. Sound(calm)
    BY <2>4, <2>5 DEF Sound, Coherent
  <2>7. /\ asked.mover = Active(calm)
        /\ asked.rest # <<>>
        /\ Contiguous(asked.rest)
    BY <1>2, <1>4, <2>1, <2>5 DEF Resumable, Held, Active, Contiguous
  <2>8. Sound(Resume(calm, asked))
    BY <1>4, <2>5, <2>6, <2>7, ResumeSound
  <2>9. QED
    BY <1>1, <1>13, <2>8, FinishSound
<1>14. QED
  BY <1>11, <1>12, <1>13

\* Resolving a reaction does.
LEMMA ResolveReactionSound == Sound(state) /\ ResolveReaction => Sound(state')
  BY AnswerSound DEF ResolveReaction

\* Fleeing does.
LEMMA PartyEscapeSound == Sound(state) /\ PartyEscape => Sound(state')
<1> SUFFICES ASSUME Sound(state), PartyEscape PROVE Sound(state')
  OBVIOUS
<1> DEFINE marked == {c \in Party : Contests(state.status[c])}
           fates == [c \in Combatants |-> IF c \in marked THEN "escaped"
                                          ELSE state.status[c]]
           left == [state EXCEPT !.status = fates]
<1>1. state' = ResolutionPass(left, {}, {})
  BY DEF PartyEscape
<1>2. state \in StateType
  BY DEF Sound
<1>3. fates \in [Combatants -> Statuses]
  BY <1>2, GetField DEF Statuses
<1> HIDE DEF fates
<1>4. Sound(left)
  BY <1>2, <1>3, SetField, HeldField, SoundHeld
<1> HIDE DEF left
<1>5. QED
  BY <1>1, <1>4, PassSound

-----------------------------------------------------------------------------
(* The invariants *)

\* Sound is an invariant of the kernel: no command leaves a badly typed state,
\* phase, window and settlement out of step, or a command that cannot resume.
THEOREM SoundInvariant == Spec => []Sound(state)
<1>1. Init => Sound(state)
  BY InitSound
<1>2. Sound(state) /\ [Next]_vars => Sound(state)'
  <2> SUFFICES ASSUME Sound(state), [Next]_vars PROVE Sound(state')
    BY DEF Sound, StateType, Coherent, Resumable, Active
  <2>1. CASE Next
    BY <2>1, MoveSound, RetreatSound, SurrenderSound, UseAbilitySound,
       InteractSound, DefendOrWaitSound, EndTurnSound, ResolveReactionSound,
       PartyEscapeSound DEF Next
  <2>2. CASE UNCHANGED vars
    BY <2>2 DEF vars
  <2>3. QED
    BY <2>1, <2>2
<1>3. QED
  BY <1>1, <1>2, PTL DEF Spec

\* Every command leaves a state of the type CombatState declares; in particular
\* morale stays in range and a path never overspends the movement budget.
THEOREM TypeCorrect == Spec => []TypeOK
<1>1. Sound(state) => TypeOK
  BY DEF Sound, TypeOK
<1>2. QED
  BY <1>1, SoundInvariant, PTL

\* At most one window is open, and only in phase "reaction"; a settlement is
\* recorded exactly when the encounter has ended.
THEOREM PhaseCoherence == Spec => []PhaseCoherent
<1>1. Sound(state) => PhaseCoherent
  BY DEF Sound, PhaseCoherent
<1>2. QED
  BY <1>1, SoundInvariant, PTL

\* Whatever reactors did in between, the command a window suspends belongs to
\* the turn holder, has somebody left to ask, and its rest can be walked and paid.
THEOREM SuspensionsResume == Spec => []SuspensionSound
<1>1. Sound(state) => SuspensionSound
  BY DEF Sound, SuspensionSound
<1>2. QED
  BY <1>1, SoundInvariant, PTL
====

----------------------- MODULE CombatRefinementProofs -----------------------
(***************************************************************************)
(* The combat kernel implements CombatEncounter, for every roster, map,    *)
(* morale rule and list of objectives: what paths, windows, morale and     *)
(* objectives decide in between, an observer sees turns that pass within a *)
(* round or into the next one, a suspension in which nobody but the mover  *)
(* can fall, and one settlement.                                           *)
(*                                                                         *)
(* Each rule is shown to leave the seat of the encounter alone (whose turn *)
(* it is, the round, who has fallen) or to change it in one known way; the *)
(* commands string these facts together.  That two turns cannot pass into  *)
(* two rounds is the one argument about the turn order itself: whom the    *)
(* first pass skipped, the second skips too.                               *)
(***************************************************************************)
EXTENDS CombatKernelProofs

-----------------------------------------------------------------------------
(* The seat of the encounter *)

\* Two drafts agree on the turn, the round and the fallen.
Seated(s, t) ==
  /\ t.active = s.active
  /\ t.round = s.round
  /\ t.defeated = s.defeated

\* Writing any other field leaves the seat alone ...
LEMMA SeatField ==
  ASSUME NEW s \in StateType, NEW x
  PROVE  /\ Seated(s, [s EXCEPT !.phase = x])
         /\ Seated(s, [s EXCEPT !.status = x])
         /\ Seated(s, [s EXCEPT !.morale = x])
         /\ Seated(s, [s EXCEPT !.applied = x])
         /\ Seated(s, [s EXCEPT !.pos = x])
         /\ Seated(s, [s EXCEPT !.budget = x])
         /\ Seated(s, [s EXCEPT !.ready = x])
         /\ Seated(s, [s EXCEPT !.windows = x])
         /\ Seated(s, [s EXCEPT !.objectives = x])
         /\ Seated(s, [s EXCEPT !.burning = x])
         /\ Seated(s, [s EXCEPT !.settlement = x])
  BY SMTT(60) DEF StateType, Seated

\* ... however many are written in a row.
LEMMA SeatTransitive ==
  ASSUME NEW s, NEW t, NEW u, Seated(s, t), Seated(t, u)
  PROVE  Seated(s, u)
  BY DEF Seated

\* Morale does not move the seat.
LEMMA ShakeSeated ==
  ASSUME NEW s \in StateType, NEW suffered \in Suffered
  PROVE  Seated(s, Shake(s, suffered))
  BY SMTT(60) DEF Shake, StateType, Seated

\* A settlement does not, and either leaves the phase alone or ends it.
LEMMA SettleSeated ==
  ASSUME NEW s \in StateType
  PROVE  /\ Seated(s, Settle(s))
         /\ Settle(s).phase \in {s.phase, "ended"}
  BY SMTT(60) DEF Settle, StateType, Seated

\* What a batch makes of participation, morale and objectives, in the order of
\* ResolutionPass, before the encounter is settled.
Synced(s, removed) ==
  [s EXCEPT !.status = [c \in Combatants |-> IF c \in removed THEN "defeated"
                                             ELSE @[c]]]

Shaken(s, removed) == Shake(Synced(s, removed), RemovalTriggers(removed))

Judged(s, removed, keys) == Evaluate(Shaken(s, removed), keys)

Failing(s, removed, keys) ==
  {o \in Objectives : Judged(s, removed, keys)[o] = "failed"
                      /\ s.objectives[o] # "failed"}

Scored(s, removed, keys) ==
  [Shake(Shaken(s, removed), FailureTriggers(Failing(s, removed, keys)))
     EXCEPT !.objectives = Judged(s, removed, keys)]

\* Two drafts agree on everything but participation, morale and objectives.
Batched(s, t) ==
  /\ Seated(s, t)
  /\ Held(s, t)
  /\ t.ready = s.ready
  /\ t.burning = s.burning

\* Morale writes neither the rest of the draft nor participation.
LEMMA ShakeKeeps ==
  ASSUME NEW s \in StateType, NEW suffered \in Suffered
  PROVE  /\ Batched(s, Shake(s, suffered))
         /\ Shake(s, suffered).status = s.status
         /\ Shake(s, suffered).objectives = s.objectives
<1>1. /\ Shake(s, suffered).status = s.status
      /\ Shake(s, suffered).objectives = s.objectives
      /\ Shake(s, suffered).ready = s.ready
      /\ Shake(s, suffered).burning = s.burning
  BY SMTT(60) DEF Shake, StateType
<1>2. QED
  BY <1>1, ShakeType, ShakeSeated DEF Batched

\* Syncing participation writes nothing else.
LEMMA SyncedKeeps ==
  ASSUME NEW s \in StateType, NEW removed \in SUBSET Combatants
  PROVE  /\ Synced(s, removed) \in StateType
         /\ Batched(s, Synced(s, removed))
         /\ \A c \in Combatants : Synced(s, removed).status[c] =
              IF c \in removed THEN "defeated" ELSE s.status[c]
         /\ Synced(s, removed).objectives = s.objectives
         /\ Synced(s, removed).morale = s.morale
         /\ Synced(s, removed).applied = s.applied
<1> DEFINE fates == [c \in Combatants |-> IF c \in removed THEN "defeated"
                                          ELSE s.status[c]]
<1>1. Synced(s, removed) = [s EXCEPT !.status = fates]
  BY DEF Synced
<1>2. fates \in [Combatants -> Statuses]
  BY GetField DEF Statuses
<1>3. \A c \in Combatants : fates[c] = IF c \in removed THEN "defeated" ELSE s.status[c]
  OBVIOUS
<1> HIDE DEF fates
<1>4. [s EXCEPT !.status = fates] \in StateType
  BY <1>2, SetField
<1>5. /\ Seated(s, [s EXCEPT !.status = fates])
      /\ Held(s, [s EXCEPT !.status = fates])
  BY HeldField, SeatField
<1>6. /\ [s EXCEPT !.status = fates].status = fates
      /\ [s EXCEPT !.status = fates].ready = s.ready
      /\ [s EXCEPT !.status = fates].burning = s.burning
      /\ [s EXCEPT !.status = fates].objectives = s.objectives
      /\ [s EXCEPT !.status = fates].morale = s.morale
      /\ [s EXCEPT !.status = fates].applied = s.applied
  BY DEF StateType
<1>7. QED
  BY <1>1, <1>3, <1>4, <1>5, <1>6 DEF Batched

\* Agreement on the rest of the draft is transitive.
LEMMA BatchTransitive ==
  ASSUME NEW s, NEW t, NEW u, Batched(s, t), Batched(t, u)
  PROVE  Batched(s, u)
  BY DEF Batched, Seated, Held, Framed

\* Shaking the peers of the removed writes participation and morale only.
LEMMA ShakenKeeps ==
  ASSUME NEW s \in StateType, NEW removed \in SUBSET Combatants
  PROVE  /\ Shaken(s, removed) \in StateType
         /\ Batched(s, Shaken(s, removed))
         /\ Shaken(s, removed).status = Synced(s, removed).status
         /\ Shaken(s, removed).objectives = s.objectives
<1>1. RemovalTriggers(removed) \in Suffered
  BY RemovalTriggersType
<1>2. /\ Synced(s, removed) \in StateType
      /\ Batched(s, Synced(s, removed))
      /\ Synced(s, removed).objectives = s.objectives
  BY SyncedKeeps
<1>3. /\ Shaken(s, removed) \in StateType
      /\ Batched(Synced(s, removed), Shaken(s, removed))
      /\ Shaken(s, removed).status = Synced(s, removed).status
      /\ Shaken(s, removed).objectives = Synced(s, removed).objectives
  BY <1>1, <1>2, ShakeType, ShakeKeeps DEF Shaken
<1>4. QED
  BY <1>2, <1>3, BatchTransitive

\* The failures of a batch are failures of objectives.
LEMMA FailingType ==
  ASSUME NEW s, NEW removed, NEW keys
  PROVE  FailureTriggers(Failing(s, removed, keys)) \in Suffered
<1>1. Failing(s, removed, keys) \in SUBSET Objectives
  BY DEF Failing
<1>2. QED
  BY <1>1, FailureTriggersType

\* The whole batch: what Scored writes, and that a pass settles it.
LEMMA PassScores ==
  ASSUME NEW s \in StateType, NEW removed \in SUBSET Combatants, NEW keys
  PROVE  /\ Scored(s, removed, keys) \in StateType
         /\ Batched(s, Scored(s, removed, keys))
         /\ Scored(s, removed, keys).status = Synced(s, removed).status
         /\ Scored(s, removed, keys).objectives = Judged(s, removed, keys)
         /\ s.settlement = None =>
              ResolutionPass(s, removed, keys) = Settle(Scored(s, removed, keys))
<1> DEFINE judged == Judged(s, removed, keys)
           again == Shake(Shaken(s, removed), FailureTriggers(Failing(s, removed, keys)))
<1>1. /\ Shaken(s, removed) \in StateType
      /\ Batched(s, Shaken(s, removed))
      /\ Shaken(s, removed).status = Synced(s, removed).status
  BY ShakenKeeps
<1>2. /\ again \in StateType
      /\ Batched(Shaken(s, removed), again)
      /\ again.status = Shaken(s, removed).status
  BY <1>1, FailingType, ShakeType, ShakeKeeps
<1>3. judged \in [Objectives -> ObjectiveStatuses]
  BY EvaluateType DEF Judged
<1>4. Scored(s, removed, keys) = [again EXCEPT !.objectives = judged]
  BY DEF Scored
<1>5. s.settlement = None =>
        ResolutionPass(s, removed, keys) = Settle(Scored(s, removed, keys))
  BY DEF ResolutionPass, Scored, Failing, Judged, Shaken, Synced
<1> HIDE DEF judged, again
<1>6. [again EXCEPT !.objectives = judged] \in StateType
  BY <1>2, <1>3, SetField
<1>7. /\ Seated(again, [again EXCEPT !.objectives = judged])
      /\ Held(again, [again EXCEPT !.objectives = judged])
  BY <1>2, SeatField, HeldField
<1>8. /\ [again EXCEPT !.objectives = judged].objectives = judged
      /\ [again EXCEPT !.objectives = judged].ready = again.ready
      /\ [again EXCEPT !.objectives = judged].burning = again.burning
      /\ [again EXCEPT !.objectives = judged].status = again.status
  BY <1>2 DEF StateType
<1>9. Batched(s, [again EXCEPT !.objectives = judged])
  BY <1>1, <1>2, <1>7, <1>8, BatchTransitive DEF Batched
<1>10. QED
  BY <1>1, <1>2, <1>4, <1>5, <1>6, <1>8, <1>9 DEF judged

\* A settlement writes no more than the settlement, the phase and the windows.
LEMMA SettleKeeps ==
  ASSUME NEW s \in StateType
  PROVE  /\ Settle(s).status = s.status
         /\ Settle(s).objectives = s.objectives
         /\ Settle(s).morale = s.morale
         /\ Settle(s).applied = s.applied
         /\ Settle(s).pos = s.pos
         /\ Settle(s).ready = s.ready
  BY SMTT(60) DEF Settle, StateType

\* A resolution pass leaves the seat alone.
LEMMA PassSeated ==
  ASSUME NEW s \in StateType,
         NEW removed \in SUBSET Combatants, NEW keys
  PROVE  /\ Seated(s, ResolutionPass(s, removed, keys))
         /\ ResolutionPass(s, removed, keys).phase \in {s.phase, "ended"}
<1>1. CASE s.settlement # None
  BY <1>1 DEF ResolutionPass, Seated
<1>2. CASE s.settlement = None
  <2>1. /\ Scored(s, removed, keys) \in StateType
        /\ Batched(s, Scored(s, removed, keys))
        /\ ResolutionPass(s, removed, keys) = Settle(Scored(s, removed, keys))
    BY <1>2, PassScores
  <2>2. /\ Seated(Scored(s, removed, keys), Settle(Scored(s, removed, keys)))
        /\ Settle(Scored(s, removed, keys)).phase
             \in {Scored(s, removed, keys).phase, "ended"}
    BY <2>1, SettleSeated
  <2>3. QED
    BY <2>1, <2>2, SeatTransitive DEF Batched, Held, Framed
<1>3. QED
  BY <1>1, <1>2

\* Nor does the pass a command ends with.
LEMMA FinishSeated ==
  ASSUME NEW s \in StateType,
         NEW removed \in SUBSET Combatants, NEW keys
  PROVE  /\ Seated(s, Finish(s, removed, keys))
         /\ Finish(s, removed, keys).phase \in {s.phase, "ended"}
  BY PassSeated DEF Finish, Seated

-----------------------------------------------------------------------------
(* Movement *)

\* Two drafts agree on the seat, and on who may react, morale, its ledger and
\* the settlement.
Quiet(s, t) ==
  /\ Seated(s, t)
  /\ t.ready = s.ready
  /\ t.morale = s.morale
  /\ t.applied = s.applied
  /\ t.settlement = s.settlement

\* Writing what movement writes keeps that agreement ...
LEMMA QuietField ==
  ASSUME NEW s \in StateType, NEW x
  PROVE  /\ Quiet(s, [s EXCEPT !.phase = x])
         /\ Quiet(s, [s EXCEPT !.status = x])
         /\ Quiet(s, [s EXCEPT !.pos = x])
         /\ Quiet(s, [s EXCEPT !.budget = x])
         /\ Quiet(s, [s EXCEPT !.windows = x])
  BY SMTT(60) DEF StateType, Seated, Quiet

\* ... however many fields are written in a row.
LEMMA QuietTransitive ==
  ASSUME NEW s, NEW t, NEW u, Quiet(s, t), Quiet(t, u)
  PROVE  Quiet(s, u)
  BY DEF Quiet, Seated

\* Walking cells does.
LEMMA CommitCellsQuiet ==
  ASSUME NEW s \in StateType, NEW m \in Combatants, NEW cells
  PROVE  Quiet(s, CommitCells(s, m, cells))
  BY SMTT(60) DEF CommitCells, StateType, Seated, Quiet

\* So does a walk that a reaction suspends.
LEMMA WalkQuiet ==
  ASSUME NEW s \in StateType, NEW m \in Combatants, NEW path \in Seq(Cells),
         NEW offered
  PROVE  Quiet(s, Walk(s, m, path, offered))
<1>1. CASE Interruptions(s, m, path, offered) = {}
  BY <1>1, CommitCellsQuiet DEF Walk
<1>2. CASE Interruptions(s, m, path, offered) # {}
  <2> DEFINE i == Nearest(Interruptions(s, m, path, offered))
             w == [mover |-> m, queue |-> Triggered(s, m, path, offered, i),
                   rest |-> SubSeq(path, i, Len(path)), offered |-> offered]
             there == CommitCells(s, m, SubSeq(path, 1, i - 1))
  <2>1. Walk(s, m, path, offered)
          = [there EXCEPT !.phase = "reaction", !.windows = {w}]
    BY <1>2 DEF Walk
  <2> HIDE DEF i, w
  <2>2. Quiet(s, there)
    BY CommitCellsQuiet
  <2>3. DOMAIN there = DOMAIN s
    BY SMTT(60) DEF CommitCells, StateType
  <2>4. DOMAIN s = {"phase", "round", "active", "defeated", "status", "morale",
                    "applied", "pos", "budget", "ready", "windows",
                    "objectives", "burning", "settlement"}
    BY DEF StateType
  <2> HIDE DEF there
  <2>5. Quiet(there, [there EXCEPT !.phase = "reaction", !.windows = {w}])
    BY <2>3, <2>4 DEF Seated, Quiet
  <2>6. QED
    BY <2>1, <2>2, <2>5, QuietTransitive
<1>3. QED
  BY <1>1, <1>2

\* So does a change of participation.
LEMMA StatusQuiet ==
  ASSUME NEW s \in StateType, NEW m \in Combatants, NEW x
  PROVE  Quiet(s, [s EXCEPT !.status[m] = x])
  BY QuietField

\* So does the rest of a path.
LEMMA ResumeQuiet ==
  ASSUME NEW s, Sound(s), s.phase = "active", NEW w \in Window,
         w.mover = Active(s), w.rest # <<>>, Contiguous(w.rest)
  PROVE  Quiet(s, Resume(s, w))
<1>1. w.mover \in Combatants /\ w.rest \in Seq(Cells)
      /\ w.offered \in SUBSET Combatants
  BY DEF Window
<1>2. s \in StateType
  BY DEF Sound
<1>3. CASE CanResume(s, w)
  <2> DEFINE walked == Walk(s, w.mover, w.rest, w.offered)
  <2>1. Legal(s, Active(s), w.rest)
    BY <1>3 DEF CanResume
  <2>2. walked \in StateType
    BY <1>1, <2>1, WalkSound DEF Sound
  <2>3. Quiet(s, walked)
    BY <1>1, <1>2, WalkQuiet
  <2>4. Resume(s, w) = Arrive(walked, w.mover)
    BY <1>3 DEF Resume
  <2> HIDE DEF walked
  <2>5. Quiet(walked, Arrive(walked, w.mover))
    BY <1>1, <2>2, StatusQuiet DEF Arrive, Seated, Quiet
  <2>6. QED
    BY <2>3, <2>4, <2>5, QuietTransitive
<1>4. CASE ~CanResume(s, w)
  BY <1>4 DEF Resume, Seated, Quiet
<1>5. QED
  BY <1>3, <1>4

-----------------------------------------------------------------------------
(* Turn order *)

\* The nearest of some numbers is the least of them.
LEMMA NearestLeast ==
  ASSUME NEW ks \in SUBSET Nat, ks # {}, NEW j \in ks
  PROVE  Nearest(ks) <= j
<1>1. PICK x \in ks : \A y \in ks : ~(<<y, x>> \in OpToRel(<, Nat))
  BY WFMin, NatLessThanWellFounded
<1>2. \A a, b \in Nat : a < b => <<a, b>> \in OpToRel(<, Nat)
  BY DEF OpToRel
<1>3. \A y \in ks : ~(y < x)
  BY <1>1, <1>2
<1>4. \A y \in ks : x <= y
  BY <1>3
<1>5. QED
  BY <1>4 DEF Nearest

\* How far the turn passes.
Passed(s) == s.active + Nearest(Ahead(s))

\* The slots ahead are numbers from 1 to N.
LEMMA AheadNumbers ==
  ASSUME NEW s
  PROVE  Ahead(s) \in SUBSET Nat /\ Ahead(s) \subseteq 1..N
  BY SomebodyFights DEF Ahead

\* The turn passes to the nearest combatant who can take it, into the next
\* round when that is behind the active one.
LEMMA AdvanceMoves ==
  ASSUME NEW s \in StateType
  PROVE  /\ Advance(s).defeated = s.defeated
         /\ Advance(s).status = s.status
         /\ Advance(s).morale = s.morale
         /\ Advance(s).applied = s.applied
         /\ Ahead(s) = {} => Advance(s) = s
         /\ Ahead(s) # {} =>
              /\ Nearest(Ahead(s)) \in 1..N
              /\ Nearest(Ahead(s)) \in Ahead(s)
              /\ Advance(s).active = Slot(Passed(s))
              /\ Advance(s).round = IF Passed(s) > N THEN s.round + 1 ELSE s.round
              /\ Advance(s).ready = s.ready \cup {Order[Slot(Passed(s))]}
<1>1. CASE Ahead(s) = {}
  BY <1>1 DEF Advance
<1>2. CASE Ahead(s) # {}
  <2>1. Nearest(Ahead(s)) \in 1..N /\ Nearest(Ahead(s)) \in Ahead(s)
    BY <1>2, AheadNumbers, NearestIn
  <2>2. Advance(s) = [s EXCEPT !.active = Slot(Passed(s)),
                               !.round = IF Passed(s) > N THEN @ + 1 ELSE @,
                               !.budget = FullBudget,
                               !.ready = @ \cup {Order[Slot(Passed(s))]}]
    BY <1>2 DEF Advance, Passed
  <2>3. /\ Advance(s).defeated = s.defeated
        /\ Advance(s).status = s.status
        /\ Advance(s).morale = s.morale
        /\ Advance(s).applied = s.applied
        /\ Advance(s).active = Slot(Passed(s))
        /\ Advance(s).round = IF Passed(s) > N THEN s.round + 1 ELSE s.round
        /\ Advance(s).ready = s.ready \cup {Order[Slot(Passed(s))]}
    BY <2>2, SMTT(60) DEF StateType
  <2>4. QED
    BY <1>2, <2>1, <2>3
<1>3. QED
  BY <1>1, <1>2

\* Whoever is skipped in one draft is skipped in the other.
Wearier(s, t) ==
  \A c \in Combatants : Skipped(s, c) => Skipped(t, c)

\* A turn passes into the next round at most once, also when the combatant it
\* passed to falls at once: whom the first pass skipped, the second skips too.
LEMMA OneRoundAtATime ==
  ASSUME NEW s \in StateType, NEW t \in StateType,
         Ahead(s) # {}, Passed(s) > N, t.active = Slot(Passed(s)),
         Wearier(s, t), Active(t) \in t.defeated
  PROVE  Advance(t).round = t.round
<1> DEFINE k == Nearest(Ahead(s))
           a == s.active + k - N
           h == Nearest(Ahead(t))
           j == a + h - N
<1>1. /\ N \in Nat \ {0} /\ s.active \in 1..N /\ t.active \in 1..N
      /\ t.round \in Nat
  BY SomebodyFights, GetField
<1>2. k \in 1..N /\ s.active + k > N
  BY AdvanceMoves DEF Passed
<1>3. a \in 1..N /\ t.active = a
  BY <1>1, <1>2 DEF Passed, Slot
<1>4. CASE Ahead(t) = {}
  BY <1>4, AdvanceMoves
<1>5. CASE Ahead(t) # {} /\ a + h <= N
  BY <1>1, <1>3, <1>5, AdvanceMoves DEF Passed
<1>6. CASE Ahead(t) # {} /\ a + h > N
  <2>1. h \in 1..N /\ h \in Ahead(t)
    BY <1>6, AdvanceMoves
  <2>2. j \in 1..N /\ j <= a /\ Slot(t.active + h) = j
    BY <1>1, <1>3, <1>6, <2>1 DEF Slot
  <2>3. ~Skipped(t, Order[j])
    BY <2>1, <2>2 DEF Ahead
  <2>4. Order[a] \in t.defeated
    BY <1>3 DEF Active
  <2>5. j # a
    BY <2>3, <2>4 DEF Skipped
  <2>6. Order[j] \in Combatants
    BY <2>2, RosterAssumption
  <2>7. ~Skipped(s, Order[j])
    BY <2>3, <2>6 DEF Wearier
  <2> DEFINE i == N + j - s.active
  <2>8. i \in 1..N /\ s.active + i = N + j /\ i < k
    BY <1>1, <1>2, <2>2, <2>5
  <2>9. Slot(s.active + i) = j
    BY <1>1, <2>2, <2>8 DEF Slot
  <2> HIDE DEF i, j, a, h
  <2>10. i \in Ahead(s)
    BY <2>7, <2>8, <2>9 DEF Ahead
  <2>11. k <= i
    BY <2>10, AheadNumbers, NearestLeast
  <2>12. QED
    BY <1>1, <1>2, <2>8, <2>11
<1>7. QED
  <2>1. h \in Nat \/ Ahead(t) = {}
    BY AdvanceMoves
  <2>2. QED
    BY <1>1, <1>3, <1>4, <1>5, <1>6, <2>1

\* A pass only makes combatants wearier.
LEMMA PassWearies ==
  ASSUME NEW s \in StateType,
         NEW removed \in SUBSET Combatants, NEW keys
  PROVE  Wearier(s, ResolutionPass(s, removed, keys))
<1>1. CASE s.settlement # None
  BY <1>1 DEF ResolutionPass, Wearier
<1>2. CASE s.settlement = None
  <2> DEFINE t == ResolutionPass(s, removed, keys)
  <2>1. /\ Scored(s, removed, keys) \in StateType
        /\ Scored(s, removed, keys).status = Synced(s, removed).status
        /\ t = Settle(Scored(s, removed, keys))
    BY <1>2, PassScores
  <2>2. t.status = Synced(s, removed).status
    BY <2>1, SettleKeeps
  <2>3. t.defeated = s.defeated
    BY PassSeated DEF Seated
  <2> HIDE DEF t
  <2>4. ASSUME NEW c \in Combatants, Skipped(s, c)
        PROVE  Skipped(t, c)
    <3>1. t.status[c] = s.status[c] \/ t.status[c] = "defeated"
      BY <2>2, SyncedKeeps
    <3>2. QED
      BY <2>3, <2>4, <3>1 DEF Skipped, Contests
  <2>5. QED
    BY <2>4 DEF Wearier, t
<1>3. QED
  BY <1>1, <1>2

-----------------------------------------------------------------------------
(* Every command *)

\* The draft a command of the turn holder finishes is the state, but for who
\* falls and for what movement and effects write.
Acted(t, down) ==
  /\ t \in StateType
  /\ t.active = state.active
  /\ t.round = state.round
  /\ t.defeated = state.defeated \cup down
  /\ t.ready = state.ready
  /\ t.morale = state.morale
  /\ t.applied = state.applied
  /\ t.settlement = None
  /\ t.phase \in {"active", "reaction"}
  /\ t.phase = "reaction" => down = {}

\* Whoever falls is in the batch the command finishes with.
Commanded ==
  /\ InTurn
  /\ \E t, keys : \E down \in SUBSET Combatants :
       Acted(t, down) /\ state' = Finish(t, down, keys)

\* A sound draft with the state's seat has brought nobody down.
LEMMA ActedQuiet ==
  ASSUME Sound(state), InTurn, NEW t, Sound(t), Quiet(state, t)
  PROVE  Acted(t, {})
<1>1. state.settlement = None
  BY DEF Sound, Coherent, InTurn
<1>2. t \in StateType /\ t.settlement = None /\ t.phase # "ended"
  BY <1>1 DEF Sound, Coherent, Quiet
<1>3. t.phase \in {"active", "reaction"}
  BY <1>2, GetField
<1>4. QED
  BY <1>2, <1>3 DEF Acted, Quiet, Seated

\* Moving is a command in which nobody falls.
LEMMA MoveCommands ==
  ASSUME Sound(state), Move
  PROVE  Commanded
<1>1. InTurn
  BY DEF Move
<1>2. PICK path \in Routes :
        /\ Legal(state, Actor, path)
        /\ state' = Finish(Walk(state, Actor, path, {}), {}, {})
  BY DEF Move
<1> DEFINE walked == Walk(state, Actor, path, {})
<1>3. Sound(walked)
  BY <1>1, <1>2, InTurnCalm, RoutesWalkable, WalkSound
<1>4. Quiet(state, walked)
  BY <1>1, InTurnCalm, RoutesWalkable, WalkQuiet
<1>5. state' = Finish(walked, {}, {})
  BY <1>2
<1> HIDE DEF walked
<1>6. Acted(walked, {})
  BY <1>1, <1>3, <1>4, ActedQuiet
<1>7. QED
  BY <1>1, <1>5, <1>6 DEF Commanded

\* So is retreating.
LEMMA RetreatCommands ==
  ASSUME Sound(state), Retreat
  PROVE  Commanded
<1>1. InTurn
  BY DEF Retreat
<1>2. PICK path \in Routes :
        /\ Legal(state, Actor, path)
        /\ state' = Finish(Declare(Walk(state, Actor, path, {}), Actor), {}, {})
  BY DEF Retreat
<1> DEFINE walked == Walk(state, Actor, path, {})
           declared == Declare(walked, Actor)
<1>3. walked \in StateType /\ Sound(walked) /\ Actor \in Combatants
  BY <1>1, <1>2, InTurnCalm, RoutesWalkable, WalkSound DEF Sound
<1>4. Quiet(state, walked)
  BY <1>1, InTurnCalm, RoutesWalkable, WalkQuiet
<1>5. state' = Finish(declared, {}, {})
  BY <1>2
<1> HIDE DEF walked
<1>6. Sound(declared)
  BY <1>3, StatusSound DEF Declare, Statuses
<1>7. Quiet(walked, declared)
  BY <1>3, StatusQuiet DEF Declare
<1> HIDE DEF declared
<1>8. Acted(declared, {})
  BY <1>1, <1>4, <1>6, <1>7, QuietTransitive, ActedQuiet
<1>9. QED
  BY <1>1, <1>5, <1>8 DEF Commanded

\* So is surrendering.
LEMMA SurrenderCommands ==
  ASSUME Sound(state), Surrender
  PROVE  Commanded
<1> DEFINE given == [state EXCEPT !.status[Actor] = "surrendered"]
<1>1. InTurn /\ state' = Finish(given, {}, {})
  BY DEF Surrender
<1>2. state \in StateType /\ Actor \in Combatants
  BY <1>1, InTurnCalm
<1>3. Sound(given)
  BY <1>2, StatusSound DEF Statuses
<1>4. Quiet(state, given)
  BY <1>2, StatusQuiet
<1> HIDE DEF given
<1>5. Acted(given, {})
  BY <1>1, <1>3, <1>4, ActedQuiet
<1>6. QED
  BY <1>1, <1>5 DEF Commanded

\* Paying for an action is quiet.
LEMMA SpendQuiet ==
  ASSUME NEW s \in StateType, NEW cost
  PROVE  Quiet(s, Spend(s, cost))
  BY QuietField DEF Spend, Quiet, Seated

\* An ability brings its targets down and suspends nothing.
LEMMA UseAbilityCommands ==
  ASSUME Sound(state), UseAbility
  PROVE  Commanded
<1>1. InTurn
  BY DEF UseAbility
<1>2. PICK cost \in AbilityCosts,
           targets \in SUBSET {c \in Combatants : Targetable(c)} :
        \E downed \in SUBSET targets :
          state' = Finish([Spend(state, cost) EXCEPT
                             !.defeated = @ \cup downed], downed, {})
  BY DEF UseAbility
<1>3. PICK downed \in SUBSET targets :
        state' = Finish([Spend(state, cost) EXCEPT
                           !.defeated = @ \cup downed], downed, {})
  BY <1>2
<1> DEFINE paid == Spend(state, cost)
           struck == [paid EXCEPT !.defeated = @ \cup downed]
<1>4. downed \in SUBSET Combatants /\ state' = Finish(struck, downed, {})
  BY <1>3
<1>5. Sound(paid) /\ Framed(state, paid) /\ Quiet(state, paid)
  BY <1>1, InTurnCalm, SpendSound, SpendQuiet
<1> HIDE DEF paid
<1>6. paid \in StateType /\ struck \in StateType
  BY <1>4, <1>5, DownSound DEF Sound
<1>7. /\ struck.active = paid.active /\ struck.round = paid.round
      /\ struck.defeated = paid.defeated \cup downed
      /\ struck.ready = paid.ready
      /\ struck.morale = paid.morale /\ struck.applied = paid.applied
      /\ struck.phase = paid.phase /\ struck.settlement = paid.settlement
  BY <1>6 DEF StateType
<1> HIDE DEF struck
<1>8. state.settlement = None /\ state.phase = "active"
  BY <1>1 DEF Sound, Coherent, InTurn
<1>9. Acted(struck, downed)
  BY <1>5, <1>6, <1>7, <1>8 DEF Acted, Quiet, Seated, Framed
<1>10. QED
  BY <1>1, <1>4, <1>9 DEF Commanded

\* So does an affordance.
LEMMA InteractCommands ==
  ASSUME Sound(state), Interact
  PROVE  Commanded
<1>1. InTurn
  BY DEF Interact
<1>2. PICK a \in Affordances, success \in BOOLEAN :
        \E downed \in SUBSET InBlast(state, IF success THEN a.success ELSE a.failure) :
          state' = Finish(Apply(Spend(state, a.cost),
                                IF success THEN a.success ELSE a.failure, downed),
                          downed,
                          IF success THEN {<<Actor, a.target>>} ELSE {})
  BY DEF Interact
<1> DEFINE effect == IF success THEN a.success ELSE a.failure
           keys == IF success THEN {<<Actor, a.target>>} ELSE {}
<1>3. PICK downed \in SUBSET InBlast(state, effect) :
        state' = Finish(Apply(Spend(state, a.cost), effect, downed), downed, keys)
  BY <1>2
<1>4. downed \in SUBSET Combatants
  BY DEF InBlast
<1>5. effect.burn \subseteq Cells /\ effect.push \in [Cells -> Cells]
  <2>1. effect \in {a.success, a.failure}
    OBVIOUS
  <2>2. QED
    BY <2>1, CommandAssumption
<1> HIDE DEF effect, keys
<1> DEFINE paid == Spend(state, a.cost)
           done == Apply(paid, effect, downed)
<1>6. Sound(paid) /\ Framed(state, paid) /\ Quiet(state, paid) /\ paid.windows = {}
  BY <1>1, InTurnCalm, SpendSound, SpendQuiet DEF Framed
<1>7. state' = Finish(done, downed, keys)
  BY <1>3
<1> HIDE DEF paid
<1>8. done \in StateType
  BY <1>4, <1>5, <1>6, ApplySound DEF Sound
<1>9. /\ done.active = paid.active /\ done.round = paid.round
      /\ done.defeated = paid.defeated \cup downed
      /\ done.ready = paid.ready
      /\ done.morale = paid.morale /\ done.applied = paid.applied
      /\ done.phase = paid.phase /\ done.settlement = paid.settlement
  BY <1>6, SMTT(60) DEF Apply, Sound, StateType
<1> HIDE DEF done
<1>10. state.settlement = None /\ state.phase = "active"
  BY <1>1 DEF Sound, Coherent, InTurn
<1>11. Acted(done, downed)
  BY <1>6, <1>8, <1>9, <1>10 DEF Acted, Quiet, Seated, Framed
<1>12. QED
  BY <1>1, <1>4, <1>7, <1>11 DEF Commanded

\* Waiting is a command in which nobody falls.
LEMMA DefendOrWaitCommands ==
  ASSUME Sound(state), DefendOrWait
  PROVE  Commanded
<1> DEFINE paid == Spend(state, "action")
<1>1. InTurn /\ state' = Finish(paid, {}, {})
  BY DEF DefendOrWait, Spend
<1>2. Sound(paid) /\ Quiet(state, paid)
  BY <1>1, InTurnCalm, SpendSound, SpendQuiet DEF Sound
<1> HIDE DEF paid
<1>3. Acted(paid, {})
  BY <1>1, <1>2, ActedQuiet
<1>4. QED
  BY <1>1, <1>3 DEF Commanded

\* Every command of the turn holder but the end of its turn.
LEMMA TurnHolderCommands ==
  ASSUME Sound(state),
         Move \/ Retreat \/ Surrender \/ UseAbility \/ Interact \/ DefendOrWait
  PROVE  Commanded
  BY MoveCommands, RetreatCommands, SurrenderCommands, UseAbilityCommands,
     InteractCommands, DefendOrWaitCommands

\* Such a command acts in the abstract encounter.
LEMMA CommandActs ==
  ASSUME Sound(state), Sound(state'), Commanded
  PROVE  Encounter!Act
<1>1. PICK t, keys : \E down \in SUBSET Combatants :
        Acted(t, down) /\ state' = Finish(t, down, keys)
  BY DEF Commanded
<1>2. PICK down \in SUBSET Combatants :
        Acted(t, down) /\ state' = Finish(t, down, keys)
  BY <1>1
<1>3. Seated(t, state') /\ state'.phase \in {t.phase, "ended"}
  BY <1>2, FinishSeated DEF Acted
<1>4. state' \in StateType
  BY DEF Sound
<1>5. state'.phase \in {"active", "reaction", "ended"}
      /\ state'.defeated \in SUBSET Combatants
  BY <1>4, GetField
<1>6. state'.defeated = state.defeated \cup down
  BY <1>2, <1>3 DEF Acted, Seated
<1>7. state'.phase = "reaction" => state'.defeated = state.defeated
  BY <1>2, <1>3, <1>6 DEF Acted
<1>8. Actor' = Actor /\ state'.round = state.round
  BY <1>2, <1>3 DEF Acted, Seated, Actor, Active
<1>9. state.phase = "active"
  BY DEF Commanded, InTurn
<1>10. QED
  BY <1>5, <1>6, <1>7, <1>8, <1>9 DEF Encounter!Act

\* A new round before its batch is resolved.
Burned(s, expired, downed) ==
  [s EXCEPT !.burning = @ \ expired, !.defeated = @ \cup downed]

\* Nothing but the fallen and the surfaces has changed.
LEMMA BurnedFields ==
  ASSUME NEW s \in StateType, NEW expired, NEW downed \in SUBSET Combatants
  PROVE  LET b == Burned(s, expired, downed) IN
           /\ b \in StateType
           /\ b.active = s.active /\ b.round = s.round
           /\ b.defeated = s.defeated \cup downed
           /\ b.status = s.status /\ b.ready = s.ready
           /\ b.morale = s.morale /\ b.applied = s.applied
           /\ Framed(s, b)
<1> DEFINE faded == [s EXCEPT !.burning = @ \ expired]
           burned == [faded EXCEPT !.defeated = @ \cup downed]
<1>1. Burned(s, expired, downed) = burned
  BY DEF Burned
<1>2. faded \in StateType
  BY GetField, SetField
<1>3. /\ faded.active = s.active /\ faded.round = s.round
      /\ faded.defeated = s.defeated /\ faded.status = s.status
      /\ faded.ready = s.ready /\ faded.morale = s.morale
      /\ faded.applied = s.applied /\ Framed(s, faded)
  BY DEF StateType, Framed
<1> HIDE DEF faded
<1>4. faded.defeated \cup downed \in SUBSET Combatants
  BY <1>2, GetField
<1>5. burned \in StateType
  BY <1>2, <1>4, SetField
<1>6. /\ burned.active = faded.active /\ burned.round = faded.round
      /\ burned.defeated = faded.defeated \cup downed
      /\ burned.status = faded.status /\ burned.ready = faded.ready
      /\ burned.morale = faded.morale /\ burned.applied = faded.applied
      /\ Framed(faded, burned)
  BY <1>2 DEF StateType, Framed
<1> HIDE DEF burned
<1>7. QED
  BY <1>1, <1>3, <1>5, <1>6, FrameTransitive

\* A pass keeps a draft well typed.
LEMMA PassType ==
  ASSUME NEW s \in StateType, NEW removed \in SUBSET Combatants, NEW keys
  PROVE  ResolutionPass(s, removed, keys) \in StateType
<1>1. CASE s.settlement # None
  BY <1>1 DEF ResolutionPass
<1>2. CASE s.settlement = None
  <2>1. PICK u \in StateType : ResolutionPass(s, removed, keys) = Settle(u)
    BY <1>2, PassSettles
  <2>2. CASE Verdict(u) = None
    BY <2>1, <2>2 DEF Settle
  <2>3. CASE Verdict(u) # None
    BY <2>1, <2>3, SettleCloses
  <2>4. QED
    BY <2>2, <2>3
<1>3. QED
  BY <1>1, <1>2

\* The draft of a new round whose batch is resolved, and the one the turn's end
\* finishes: the turn moves on from a combatant just downed.
Resolved(expired, downed) ==
  ResolutionPass(Burned(Advance(state), expired, downed), downed, {})

Opened(expired, downed) ==
  IF /\ Resolved(expired, downed).settlement = None
     /\ Active(Resolved(expired, downed)) \in Resolved(expired, downed).defeated
  THEN Advance(Resolved(expired, downed))
  ELSE Resolved(expired, downed)

\* A turn ends within the round, or into a round that is opened.
LEMMA EndTurnCases ==
  ASSUME Sound(state), EndTurn
  PROVE  \/ /\ Advance(state).round = state.round
            /\ state' = Finish(Advance(state), {}, {})
         \/ /\ Ahead(state) # {} /\ Passed(state) > N
            /\ \E expired : \E downed \in SUBSET Combatants :
                 state' = Finish(Opened(expired, downed), {}, {})
<1> DEFINE ended == Advance(state)
<1>1. InTurn
  BY DEF EndTurn
<1>2. state \in StateType
  BY <1>1, InTurnCalm
<1>3. CASE /\ ended.round > state.round
           /\ \E expired \in SUBSET state.burning :
              \E downed \in SUBSET Burnable(ended, expired) :
                state' = Finish(StartRound(ended, expired, downed), {}, {})
  <2>1. PICK expired \in SUBSET state.burning :
             \E downed \in SUBSET Burnable(ended, expired) :
               state' = Finish(StartRound(ended, expired, downed), {}, {})
    BY <1>3
  <2>2. PICK downed \in SUBSET Burnable(ended, expired) :
               state' = Finish(StartRound(ended, expired, downed), {}, {})
    BY <2>1
  <2>3. downed \in SUBSET Combatants
    BY DEF Burnable
  <2>4. StartRound(ended, expired, downed) = Opened(expired, downed)
    BY DEF StartRound, Opened, Resolved, Burned
  <2>5. state.round \in Nat
    BY <1>2, GetField
  <2>6. Ahead(state) # {} /\ Passed(state) > N
    <3>1. ended.round # state.round
      BY <1>3, <2>5
    <3>2. Ahead(state) # {}
      BY <1>2, <3>1, AdvanceMoves
    <3>3. ended.round = IF Passed(state) > N THEN state.round + 1 ELSE state.round
      BY <1>2, <3>2, AdvanceMoves
    <3>4. QED
      BY <3>1, <3>2, <3>3
  <2>7. QED
    BY <2>2, <2>3, <2>4, <2>6
<1>4. CASE ended.round = state.round /\ state' = Finish(ended, {}, {})
  BY <1>4
<1>5. QED
  BY <1>3, <1>4 DEF EndTurn

\* The resolved draft of a new round.
LEMMA ResolvedFields ==
  ASSUME Sound(state), InTurn, Ahead(state) # {}, Passed(state) > N,
         NEW expired, NEW downed \in SUBSET Combatants
  PROVE  LET p == Resolved(expired, downed) IN
           /\ p \in StateType
           /\ p.active = Slot(Passed(state))
           /\ p.round = state.round + 1
           /\ p.defeated = state.defeated \cup downed
           /\ p.phase \in {"active", "ended"}
           /\ Wearier(state, p)
<1> DEFINE ended == Advance(state)
           burned == Burned(ended, expired, downed)
           p == Resolved(expired, downed)
<1>1. state \in StateType /\ state.phase = "active"
  BY InTurnCalm
<1>2. /\ ended \in StateType /\ Framed(state, ended)
      /\ ended.defeated = state.defeated
      /\ ended.status = state.status
      /\ ended.active = Slot(Passed(state))
      /\ ended.round = state.round + 1
  BY <1>1, AdvanceType, AdvanceMoves
<1>3. p = ResolutionPass(burned, downed, {})
  BY DEF Resolved
<1> HIDE DEF ended
<1>4. /\ burned \in StateType /\ Framed(ended, burned)
      /\ burned.active = ended.active /\ burned.round = ended.round
      /\ burned.defeated = ended.defeated \cup downed
      /\ burned.status = ended.status
  BY <1>2, BurnedFields
<1> HIDE DEF burned, p
<1>5. /\ Seated(burned, p) /\ p.phase \in {burned.phase, "ended"}
      /\ Wearier(burned, p) /\ p \in StateType
  BY <1>3, <1>4, PassSeated, PassWearies, PassType
<1>6. Wearier(state, p)
  <2>1. ASSUME NEW c \in Combatants, Skipped(state, c)
        PROVE  Skipped(burned, c)
    BY <1>2, <1>4, <2>1 DEF Skipped
  <2>2. QED
    BY <1>5, <2>1 DEF Wearier
<1>7. QED
  BY <1>1, <1>2, <1>4, <1>5, <1>6 DEF Seated, Framed, p

\* The start of a round on which the turn fell to somebody who can take it:
\* nobody but the downed falls, and the round stays the one just started.
LEMMA OpenedSeat ==
  ASSUME Sound(state), InTurn, Ahead(state) # {}, Passed(state) > N,
         NEW expired, NEW downed \in SUBSET Combatants
  PROVE  LET t == Opened(expired, downed) IN
           /\ t \in StateType
           /\ t.round = state.round + 1
           /\ t.defeated = state.defeated \cup downed
           /\ t.phase \in {"active", "ended"}
<1> DEFINE p == Resolved(expired, downed)
           t == Opened(expired, downed)
<1>1. /\ p \in StateType
      /\ p.active = Slot(Passed(state))
      /\ p.round = state.round + 1
      /\ p.defeated = state.defeated \cup downed
      /\ p.phase \in {"active", "ended"}
      /\ Wearier(state, p)
  BY ResolvedFields
<1>2. t = IF p.settlement = None /\ Active(p) \in p.defeated THEN Advance(p) ELSE p
  BY DEF Opened
<1> HIDE DEF p, t
<1>3. CASE p.settlement = None /\ Active(p) \in p.defeated
  <2>1. t = Advance(p)
    BY <1>2, <1>3
  <2>2. Advance(p).round = p.round
    BY <1>1, <1>3, InTurnCalm, OneRoundAtATime
  <2>3. Advance(p).defeated = p.defeated
    BY <1>1, AdvanceMoves
  <2>4. Advance(p) \in StateType /\ Advance(p).phase = p.phase
    BY <1>1, AdvanceType DEF Framed
  <2>5. QED
    BY <1>1, <2>1, <2>2, <2>3, <2>4 DEF t
<1>4. CASE ~(p.settlement = None /\ Active(p) \in p.defeated)
  <2>1. t = p
    BY <1>2, <1>4
  <2>2. QED
    BY <1>1, <2>1 DEF t
<1>5. QED
  BY <1>3, <1>4

\* Finishing a draft of the turn's end is a pass of the abstract encounter.
LEMMA PassStep ==
  ASSUME Sound(state), InTurn, Sound(state'),
         NEW t \in StateType, t.phase \in {"active", "ended"},
         \/ t.round = state.round /\ t.defeated = state.defeated
         \/ t.round = state.round + 1 /\ state.defeated \subseteq t.defeated,
         state' = Finish(t, {}, {})
  PROVE  Encounter!Pass
<1>1. Seated(t, state') /\ state'.phase \in {t.phase, "ended"}
  BY FinishSeated
<1>2. state' \in StateType
  BY DEF Sound
<1>3. state'.phase \in {"active", "ended"} /\ state'.defeated \in SUBSET Combatants
  BY <1>1, <1>2, GetField
<1>4. Active(state') \in Combatants
  BY <1>2, ActiveType
<1>5. Actor' \in Combatants
  BY <1>4 DEF Actor, Active
<1>6. \/ state'.round = state.round /\ state'.defeated = state.defeated
      \/ state'.round = state.round + 1 /\ state.defeated \subseteq state'.defeated
  BY <1>1 DEF Seated
<1>7. state.phase = "active"
  BY DEF InTurn
<1>8. QED
  BY <1>3, <1>5, <1>6, <1>7 DEF Encounter!Pass

\* Ending the turn passes it.
LEMMA EndTurnPasses ==
  ASSUME Sound(state), Sound(state'), EndTurn
  PROVE  Encounter!Pass
<1>1. InTurn
  BY DEF EndTurn
<1>2. CASE /\ Advance(state).round = state.round
           /\ state' = Finish(Advance(state), {}, {})
  <2> DEFINE ended == Advance(state)
  <2>1. state \in StateType /\ state.phase = "active"
    BY <1>1, InTurnCalm
  <2>2. ended \in StateType /\ ended.phase = "active"
    BY <2>1, AdvanceType DEF Framed
  <2>3. ended.defeated = state.defeated
    BY <2>1, AdvanceMoves
  <2>4. ended.round = state.round /\ state' = Finish(ended, {}, {})
    BY <1>2
  <2> HIDE DEF ended
  <2>5. QED
    BY <1>1, <2>2, <2>3, <2>4, PassStep
<1>3. CASE /\ Ahead(state) # {} /\ Passed(state) > N
           /\ \E expired : \E downed \in SUBSET Combatants :
                state' = Finish(Opened(expired, downed), {}, {})
  <2>1. PICK expired : \E downed \in SUBSET Combatants :
          state' = Finish(Opened(expired, downed), {}, {})
    BY <1>3
  <2>2. PICK downed \in SUBSET Combatants :
          state' = Finish(Opened(expired, downed), {}, {})
    BY <2>1
  <2> DEFINE t == Opened(expired, downed)
  <2>3. /\ t \in StateType
        /\ t.round = state.round + 1
        /\ t.defeated = state.defeated \cup downed
        /\ t.phase \in {"active", "ended"}
    BY <1>1, <1>3, OpenedSeat
  <2>4. state' = Finish(t, {}, {})
    BY <2>2
  <2> HIDE DEF t
  <2>5. QED
    BY <1>1, <2>3, <2>4, PassStep
<1>4. QED
  BY <1>2, <1>3, EndTurnCases

\* The draft an answer starts from: the reaction is spent, or not, and the mover
\* is down, or nobody is.
Struck(t, w, down) ==
  /\ t \in StateType /\ Held(state, t)
  /\ t.round = state.round
  /\ t.defeated = state.defeated \cup down
  /\ t.ready \in {state.ready, state.ready \ {CurrentReactor(w)}}
  /\ t.morale = state.morale
  /\ t.applied = state.applied

\* How the command goes on: it is settled, waits for the next reactor, or takes
\* up the suspended path again.
GoesOn(p, after) ==
  \/ p.settlement # None /\ after = p
  \/ p.settlement = None /\ after.phase = "reaction" /\ Quiet(p, after)
  \/ /\ p.settlement = None
     /\ \E t : /\ Sound(t) /\ t.settlement = None /\ Quiet(p, t)
               /\ after = Finish(t, {}, {})

\* The answer to a reaction strikes, resolves a fall at once, and goes on.
LEMMA AnswerCases ==
  ASSUME Sound(state), state.phase = "reaction",
         NEW w \in state.windows, NEW choice
  PROVE  \E down \in SUBSET {Active(state)} : \E t :
           /\ Struck(t, w, down)
           /\ GoesOn(IF down = {} THEN t ELSE ResolutionPass(t, down, {}),
                     Answer(w, choice))
<1> DEFINE r == CurrentReactor(w)
           m == w.mover
           attacks == choice # "decline" /\ ReactorEligible(state, r, m, state.pos[m])
           downs == attacks /\ choice = "down"
           rested == IF attacks THEN state.ready \ {r} ELSE state.ready
           spent == [state EXCEPT !.ready = rested]
           down == IF downs THEN spent.defeated \cup {m} ELSE spent.defeated
           struck == [spent EXCEPT !.defeated = down]
           passed == IF downs THEN ResolutionPass(struck, {m}, {}) ELSE struck
           asked == [w EXCEPT !.queue = @ \ {r}, !.offered = @ \cup {r}]
           going == [passed EXCEPT !.phase = "active"]
           calm == [going EXCEPT !.windows = {}]
           fallen == IF downs THEN {m} ELSE {}
<1>1. Answer(w, choice) =
        IF passed.settlement # None THEN passed
        ELSE IF asked.queue # {} THEN [passed EXCEPT !.windows = {asked}]
        ELSE Finish(Resume(calm, asked), {}, {})
  BY DEF Answer
<1>2. state \in StateType /\ w \in Window /\ Resumable(state, w)
  <2>1. state \in StateType /\ Resumable(state, w)
    BY DEF Sound
  <2>2. QED
    BY <2>1, GetField
<1>3. m \in Combatants /\ m = Active(state)
  BY <1>2 DEF Resumable, Window
<1>4. r \in Combatants
  BY <1>2, CurrentReactorQueued DEF Resumable, Window
<1>5. /\ asked.mover = w.mover /\ asked.rest = w.rest
      /\ asked \in Window
  <2>1. w.queue \ {r} \in SUBSET Combatants
        /\ w.offered \cup {r} \in SUBSET Combatants
    BY <1>2, <1>4 DEF Window
  <2> HIDE DEF r
  <2>2. QED
    BY <1>2, <2>1 DEF Window
<1>6. rested \in SUBSET Combatants
      /\ rested \in {state.ready, state.ready \ {CurrentReactor(w)}}
  BY <1>2, GetField
<1>7. fallen \in SUBSET {Active(state)} /\ fallen \in SUBSET Combatants
  BY <1>3
<1> HIDE DEF r, m, attacks, rested, asked, downs, fallen, passed, down
<1>8. /\ down = spent.defeated \cup fallen
      /\ passed = IF fallen = {} THEN struck ELSE ResolutionPass(struck, fallen, {})
  <2> HIDE DEF spent, struck
  <2>1. CASE downs
    BY <2>1 DEF down, fallen, passed
  <2>2. CASE ~downs
    BY <2>2 DEF down, fallen, passed
  <2>3. QED
    BY <2>1, <2>2
<1>9. /\ spent \in StateType /\ Seated(state, spent) /\ Held(state, spent)
  BY <1>2, <1>6, SetField, SeatField, HeldField
<1>10. /\ spent.ready = rested /\ spent.morale = state.morale
       /\ spent.applied = state.applied
  BY <1>2 DEF StateType
<1> HIDE DEF spent
<1>11. down \in SUBSET Combatants
  BY <1>7, <1>8, <1>9, GetField
<1>12. struck \in StateType /\ Held(state, struck)
  BY <1>9, <1>11, SetField, HeldField, HeldTransitive
<1>13. /\ struck.active = spent.active /\ struck.round = spent.round
       /\ struck.defeated = down /\ struck.ready = spent.ready
       /\ struck.morale = spent.morale /\ struck.applied = spent.applied
  BY <1>9 DEF StateType
<1> HIDE DEF struck
<1>14. Struck(struck, w, fallen)
  BY <1>6, <1>8, <1>9, <1>10, <1>12, <1>13 DEF Struck, Seated
<1>15. passed \in StateType /\ Seated(struck, passed) /\ Sound(struck)
  BY <1>2, <1>7, <1>8, <1>12, PassSeated, PassType, SoundHeld DEF Seated
<1>16. passed.settlement = None => Held(state, passed)
  BY <1>7, <1>8, <1>12, PassHeld, HeldTransitive
<1>17. ASSUME passed.settlement = None, asked.queue # {}
       PROVE  GoesOn(passed, Answer(w, choice))
  <2> DEFINE one == {asked}
  <2>1. Answer(w, choice) = [passed EXCEPT !.windows = one]
    BY <1>1, <1>17
  <2> HIDE DEF one
  <2>2. Quiet(passed, [passed EXCEPT !.windows = one])
    BY <1>15, QuietField
  <2>3. [passed EXCEPT !.windows = one].phase = passed.phase
    BY <1>15 DEF StateType
  <2>4. passed.phase = "reaction"
    BY <1>16, <1>17 DEF Held, Framed
  <2>5. QED
    BY <1>17, <2>1, <2>2, <2>3, <2>4 DEF GoesOn
<1>18. ASSUME passed.settlement = None, asked.queue = {}
       PROVE  GoesOn(passed, Answer(w, choice))
  <2>1. Held(state, passed)
    BY <1>16, <1>18
  <2>2. /\ going \in StateType /\ Quiet(passed, going)
        /\ going.phase = "active" /\ going.settlement = None
    <3>1. going \in StateType /\ Quiet(passed, going)
      BY <1>15, SetField, QuietField
    <3>2. going.phase = "active" /\ going.settlement = None
      BY <1>15, <1>18 DEF StateType
    <3>3. QED
      BY <3>1, <3>2
  <2> HIDE DEF going
  <2>3. /\ calm \in StateType /\ Quiet(going, calm)
        /\ calm.phase = "active" /\ calm.settlement = None /\ calm.windows = {}
    <3>1. calm \in StateType /\ Quiet(going, calm)
      BY <2>2, SetField, QuietField
    <3>2. calm.phase = "active" /\ calm.settlement = None /\ calm.windows = {}
      BY <2>2 DEF StateType
    <3>3. QED
      BY <3>1, <3>2
  <2> HIDE DEF calm
  <2>4. Sound(calm)
    BY <2>3 DEF Sound, Coherent
  <2>5. calm.active = state.active
    BY <2>1, <2>2, <2>3 DEF Quiet, Seated, Held
  <2>6. /\ asked.mover = Active(calm)
        /\ asked.rest # <<>>
        /\ Contiguous(asked.rest)
    BY <1>2, <1>5, <2>5 DEF Resumable, Active, Contiguous
  <2> DEFINE resumed == Resume(calm, asked)
  <2>7. Sound(resumed) /\ Quiet(calm, resumed)
    BY <1>5, <2>3, <2>4, <2>6, ResumeSound, ResumeQuiet
  <2>8. Answer(w, choice) = Finish(resumed, {}, {})
    BY <1>1, <1>18
  <2> HIDE DEF resumed
  <2>9. Quiet(passed, resumed) /\ resumed.settlement = None
    <3>1. Quiet(passed, calm)
      BY <2>2, <2>3, QuietTransitive
    <3>2. Quiet(passed, resumed)
      BY <2>7, <3>1, QuietTransitive
    <3>3. QED
      BY <1>18, <3>2 DEF Quiet
  <2>10. QED
    BY <1>18, <2>7, <2>8, <2>9 DEF GoesOn
<1>19. GoesOn(passed, Answer(w, choice))
  BY <1>1, <1>17, <1>18 DEF GoesOn
<1>20. QED
  BY <1>7, <1>8, <1>14, <1>19

\* The answer to a reaction leaves the turn and the round where they are, and
\* brings down nobody but the mover, whose turn it is.
LEMMA AnswerSeat ==
  ASSUME Sound(state), state.phase = "reaction",
         NEW w \in state.windows, NEW choice
  PROVE  /\ Answer(w, choice).active = state.active
         /\ Answer(w, choice).round = state.round
         /\ Answer(w, choice).defeated
              \in {state.defeated, state.defeated \cup {Active(state)}}
<1>1. PICK down \in SUBSET {Active(state)} : \E t :
        /\ Struck(t, w, down)
        /\ GoesOn(IF down = {} THEN t ELSE ResolutionPass(t, down, {}),
                  Answer(w, choice))
  BY AnswerCases
<1>2. PICK t :
        /\ Struck(t, w, down)
        /\ GoesOn(IF down = {} THEN t ELSE ResolutionPass(t, down, {}),
                  Answer(w, choice))
  BY <1>1
<1> DEFINE p == IF down = {} THEN t ELSE ResolutionPass(t, down, {})
           after == Answer(w, choice)
<1>3. down \in SUBSET Combatants
  BY ActiveType DEF Sound
<1>4. Seated(t, p)
  BY <1>2, <1>3, PassSeated DEF Seated, Struck
<1>5. GoesOn(p, after)
  BY <1>2
<1> HIDE DEF p, after
<1>6. Seated(p, after)
  <2>1. ASSUME NEW u, Sound(u), Quiet(p, u), after = Finish(u, {}, {})
        PROVE  Seated(p, after)
    <3>1. Seated(u, Finish(u, {}, {}))
      BY <2>1, FinishSeated DEF Sound
    <3>2. QED
      BY <2>1, <3>1, SeatTransitive DEF Quiet
  <2>2. QED
    BY <1>5, <2>1 DEF GoesOn, Quiet, Seated
<1>7. after.active = state.active /\ after.round = state.round
      /\ after.defeated = state.defeated \cup down
  BY <1>2, <1>4, <1>6 DEF Struck, Seated, Held
<1>8. down = {} \/ down = {Active(state)}
  OBVIOUS
<1>9. after.defeated \in {state.defeated, state.defeated \cup {Active(state)}}
  BY <1>7, <1>8
<1>10. QED
  BY <1>7, <1>9 DEF after

\* Resolving a reaction is a reaction of the abstract encounter.
LEMMA ResolveReactionReacts ==
  ASSUME Sound(state), Sound(state'), ResolveReaction
  PROVE  Encounter!React
<1>1. state.phase = "reaction"
  BY DEF ResolveReaction
<1>2. PICK w \in state.windows, choice \in {"decline", "hit", "down"} :
        state' = Answer(w, choice)
  BY DEF ResolveReaction
<1>3. /\ state'.active = state.active
      /\ state'.round = state.round
      /\ state'.defeated \in {state.defeated, state.defeated \cup {Active(state)}}
  BY <1>1, <1>2, AnswerSeat
<1>4. state'.phase \in {"active", "reaction", "ended"}
  BY GetField DEF Sound
<1>5. Actor = Active(state) /\ Actor' = Actor
  BY <1>3 DEF Actor, Active
<1>6. QED
  BY <1>1, <1>3, <1>4, <1>5 DEF Encounter!React

\* Fleeing leaves the encounter.
LEMMA PartyEscapeLeaves ==
  ASSUME Sound(state), Sound(state'), PartyEscape
  PROVE  Encounter!Leave
<1> DEFINE marked == {c \in Party : Contests(state.status[c])}
           fates == [c \in Combatants |-> IF c \in marked THEN "escaped"
                                          ELSE state.status[c]]
           left == [state EXCEPT !.status = fates]
<1>1. /\ state' = ResolutionPass(left, {}, {})
      /\ state.phase # "ended" /\ state'.settlement # None
  BY DEF PartyEscape
<1>2. state \in StateType
  BY DEF Sound
<1>3. fates \in [Combatants -> Statuses]
  BY <1>2, GetField DEF Statuses
<1> HIDE DEF fates
<1>4. left \in StateType /\ Seated(state, left)
  BY <1>2, <1>3, SetField, SeatField
<1> HIDE DEF left
<1>5. Seated(state, state')
  BY <1>1, <1>4, PassSeated, SeatTransitive
<1>6. state'.phase = "ended"
  BY <1>1 DEF Sound, Coherent
<1>7. state.phase \in {"active", "reaction"}
  BY <1>1, <1>2, GetField
<1>8. Actor' = Actor
  BY <1>5 DEF Actor, Active, Seated
<1>9. QED
  BY <1>5, <1>6, <1>7, <1>8 DEF Encounter!Leave, Seated

-----------------------------------------------------------------------------
(* The refinement *)

\* The created encounter is an initial state of the abstract one.
LEMMA InitEncounters == Init => Encounter!Init
<1> SUFFICES ASSUME Init PROVE Encounter!Init
  OBVIOUS
<1>1. Actor \in Combatants
  BY InitSound, ActiveType DEF Sound, Actor
<1>2. state.phase = "active" /\ state.round = 1 /\ state.defeated = {}
  BY DEF Init
<1>3. QED
  BY <1>1, <1>2 DEF Encounter!Init

\* The kernel implements the abstract encounter: every command it accepts acts,
\* reacts, passes the turn or leaves, and does nothing else to whose turn it
\* is, the round, the fallen and the phase (resolveCombatCommand and
\* resolvePartyEscape, with everything they call).
THEOREM ImplementsEncounter == Spec => RefinesEncounter
<1>1. Init => Encounter!Init
  BY InitEncounters
<1>2. Sound(state) /\ Sound(state)' /\ [Next]_vars
        => [Encounter!Next]_(Encounter!vars)
  <2> SUFFICES ASSUME Sound(state), Sound(state'), [Next]_vars
               PROVE  [Encounter!Next]_(Encounter!vars)
    BY DEF Sound, StateType, Coherent, Resumable, Active
  <2>1. CASE Next
    <3>1. CASE Move \/ Retreat \/ Surrender \/ UseAbility \/ Interact \/ DefendOrWait
      BY <3>1, TurnHolderCommands, CommandActs DEF Encounter!Next
    <3>2. CASE EndTurn
      BY <3>2, EndTurnPasses DEF Encounter!Next
    <3>3. CASE ResolveReaction
      BY <3>3, ResolveReactionReacts DEF Encounter!Next
    <3>4. CASE PartyEscape
      BY <3>4, PartyEscapeLeaves DEF Encounter!Next
    <3>5. QED
      BY <2>1, <3>1, <3>2, <3>3, <3>4 DEF Next
  <2>2. CASE UNCHANGED vars
    BY <2>2 DEF vars, Encounter!vars, Actor, Active
  <2>3. QED
    BY <2>1, <2>2
<1>3. QED
  BY <1>1, <1>2, SoundInvariant, PTL DEF Spec, RefinesEncounter, Encounter!Spec

================================================================================

# Aikami in TLA+

Aikami is a 2D role-playing game: a browser and desktop client with an engine in a worker, local and
remote inference for text, images and voice, and a hub on Cloudflare that shares content and hands
asset-generation work to runners on the owner's machine.  This directory holds a formal model of its
core, the configurations that check the model and the proofs about it.

The core chosen first is the **combat kernel** (`packages/shared/utils/src/lib/rules/combat_*.ts`): a
pure state machine that every mode of the game (client, replay, tests) drives with commands.  It is
where the rules meet: suspended movement, reactions of several combatants, participation and morale,
objectives, hazards and the settlement of the encounter are written by different functions into one
state, and what goes wrong there takes several commands of several actors to show.  Around it stand four
models of the parts where concurrency and failure are the program's own business: switching maps,
admitting inference requests, handing generation jobs out, and running them.

Paths below are relative to the repository's root; `rules/` stands for
`packages/shared/utils/src/lib/rules/`.

## 1. Inventory

For each part: the state it keeps, its operations, whom it talks to, what is hard about it, and what
would make it correct.  `PROJECT.json` lists the same parts with their files.

| Part | State | Operations and interactions | Hard behaviours | Correct when |
| --- | --- | --- | --- | --- |
| Combat kernel (`rules/combat_kernel*.ts`) | `CombatState`: phase, round, initiative, combatants, participation, reaction windows, objectives, surfaces, settlement | `resolveCombatCommand` for ten command kinds, `resolvePartyEscape`; called by the engine, replay and forecasts | a command suspended by others' reactions and resumed; early returns; a closing pass that may be skipped | phase, window and settlement agree; suspended commands stay resumable; a decided encounter ends |
| Turn order (`combat_turn_coordinator.ts`) | initiative, budgets | `endTurn`, budget checks; called by the kernel | skipping who fell or left; wrapping into a new round | the turn goes to somebody who can take it |
| Reactions (`combat_reactions.ts`) | windows: queue, offered set, continuation | trigger scan, eligibility, resumability | several reactors; state changed between question and answer | one reaction per round and reactor, every window closes |
| Morale and participation (`combat_morale.ts`) | morale, applied trigger ids, status | triggers, retreat and surrender legality | batches of one command cut in several ways | each trigger counts once |
| Objectives, resolution pass, settlement (`combat_objectives.ts`, `combat_encounter_resolution.ts`, `combat_settlement.ts`) | objective progress, settlement | one ordered pass after every command, round boundary and fatal reaction | latching, expiry, priorities between reasons | evaluation is stable; the settlement is recorded when due |
| Environment (`combat_environment_*.ts`) | surfaces, object states | interactions, hazards at a round's start | hazards strike after the turn has advanced | their victims enter the same batch as any other |
| Compilers, forecasts, replay, tactics | none of their own | pure functions over the kernel's state | - | they agree with the kernel |
| Engine combat session (`packages/frontend/engine/src/combat/`) | command log, window versions, retry snapshot, checkpoint | command envelope, reaction policy drain, retry, checkpoint; between the client's messages and the kernel | late, repeated and stale commands; restart inside a window; a drain with a step limit | a request is answered at most once and never against another window |
| Engine scene transitions (`engine/src/game_world/scene_transition.ts`) | generation counter, installed scene, checkpoint | asynchronous map loads, restores; requests to the simulation worker | a newer load overtakes an older one at any `await`; failure after teardown | only the newest load installs; a failed one leaves something playable |
| Engine world, rendering, input | ECS, buffers | systems per frame | buffers handed between worker and renderer | no buffer in two hands |
| Text requests (`client/.../ai/text_request_admission.ts`, `structured_request_deduplicator.ts`, `text_structured_dispatch.ts`) | queues per provider domain, leases, quiet window, shared attempts | admit, release, join, cancel, cancelAll, deadlines | priorities, an interactive lease against background work, one caller's cancellation against others' | one background lease per domain, nobody is stranded, an attempt lives while somebody waits for it |
| AI gateway | none kept here | provider calls, decision running | external services | - |
| Local inference runtime (`local-runtime/.../local_task_pool.ts`) | active count, FIFO of tasks | run, abort, dispose, drain | abort against start, dispose against drain | never above the limit; waiters woken |
| Hub dispatch (`hub/src/lib/server/api/asset_generation_*.ts`) | `generation_dispatches`, devices, artifacts in D1 | create, claim, status, cancel, prepare, download; polled by the runner | several isolates, expired leases, late updates, cancellation racing a report | one runner at a time; terminal states stay; cancellations are not lost |
| Batch runner and job store (`local-stack/stack/generation/`) | job documents on disk, file locks, leases, paid reservations, staged fragments | run, resume, cancel, reconcile | a kill between two files, several runs at once, requests whose outcome nobody knows | a later run finds a state it can go on from; nothing is paid for or generated twice; a cancellation wins |
| Generation job states (`packages/shared/local-ai/`) | - | transition table shared by hub and runner | - | both sides follow it |
| Client session, saves, quests, dialogue, boot | stores and IndexedDB | services called by the UI | repeated effects, interrupted saves | an operation takes effect once |
| Client audio | cues | arbitration | - | presentation only |
| Hub community, themes, saves, accounts | D1 rows | request handlers | - | mostly one statement each |
| Backend packages and worker, frontend support packages, shared packages, sites and scripts | schemas, adapters, data | - | - | - |

`PROJECT.json` lists the hazards found while reading, each at the line where it bites, those of the
parts not modelled yet included.

## 2. Modules

| Module | Models |
| --- | --- |
| `CombatEncounter` | The abstract specification: what the engine may rely on.  Whose turn it is, who has fallen, and whether the encounter is open, suspended or settled. |
| `CombatRules` | The pure rules as operators on a state record: turn order, legal paths, interruption and resumption, morale, objectives, settlement, the resolution pass. |
| `CombatKernel` | The state machine: `Init` and one action per command, with the type invariant, the safety and action properties, liveness, and the refinement of `CombatEncounter`. |
| `CombatKernelProofs` | Types, phase coherence and resumability of `CombatKernel`, with the lemmas about `CombatRules` they rest on. |
| `CombatRefinementProofs` | On top of it, that `CombatKernel` implements `CombatEncounter`. |
| `CombatOutcomeProofs` | On top of both, settlement, turns, reactions, and the books of morale and removals. |
| `HubDispatchProofs`, `SceneTransitionProofs`, `TextRequestsProofs`, `JobRunnerProofs` | The theorems about the four other models, each with its inductive invariant. |
| `MCReactions`, `MCResolution` | The two instances TLC checks. |
| `HubDispatch` | How the hub hands generation jobs to runner processes, and the runner's loop; independent of the combat modules. |
| `MCHubDispatch` | Its instances. |
| `SceneTransition`, `MCSceneTransition` | Switching maps: the transition runner, the restores that overtake it, the worker that serves it, and the caller. |
| `TextRequests`, `MCTextRequests` | Inference requests of the client: the admission gate, the deduplicator, the shared dispatch and the chat streams. |
| `JobRunner`, `MCJobRunner` | Batch runs of the local stack over one durable store. |

The last four models share no state with combat or with one another in the program, so they are not
composed; `HubDispatch` meets the local stack at its executor, of which it keeps the outcome.

### How the state corresponds to the code

The kernel clones its state, works on the draft and returns it; nobody sees a draft.  So one variable
`state` holds the record, every action is one command, and each rule takes a draft and returns the
next one.

| Field | In `CombatState` |
| --- | --- |
| `phase`, `round`, `settlement`, `active` | `phase`, `round`, `settlement.reasonCode`, `initiative.activeIndex` (from 1) |
| `defeated` | combatants whose `defeated` flag is set |
| `status`, `morale`, `applied` | `participation[c].status`, `.morale`, `.appliedTriggerIds` (a trigger is `<<kind, source>>`) |
| `pos`, `budget` | `combatants[c].position`, the budget of the active combatant |
| `ready` | combatants whose budget still has its reaction |
| `windows` | the open reaction window, as a set of at most one: mover, reactors left to ask, rest of the path, reactors already asked |
| `objectives` | status per objective |
| `burning` | cells with a hazard surface |

| Action | Code (`rules/combat_kernel.ts` and its validation) |
| --- | --- |
| `Move`, `Retreat`, `Surrender`, `UseAbility`, `Interact`, `DefendOrWait` | the cases of `resolveCombatCommand`, each with the guard of its `validate...` function and the closing pass (`Finish`) |
| `EndTurn` | the `endTurn` case: advance, and at a round's end expiry, hazards, a pass of their own and perhaps a second advance |
| `ResolveReaction` | `resolveReactionWindowCommand`: the answer, a pass if it was fatal, the next reactor or the rest of the path |
| `PartyEscape` | `resolvePartyEscape`, the FLEE that is legal at any time |

Keeping the whole record in one variable follows the code and lets a command be written as a
composition, `Finish(Walk(state, ...), ...)`, in the order in which the code calls its rules.

### What is abstracted

- Hit points: a hit downs its target or does not.  Damage, healing and dice become that choice.
- Costs of terrain: one movement per cell, and `Cells` are the passable ones.  Line of sight is part
  of the constants `AttackReach`, `ReactionReach` and `Threat`.
- An affordance is what its success and failure do: damage in some cells, a push, surfaces lit and put
  out, in this order.  The requirements on object states are dropped, which only allows more
  interactions; the cells from which they hold stay.
- A surface expires when it does: any subset may go at the start of a round.
- An ability that attacks nobody only spends its cost.  Abilities that cost a reaction are refused by
  the code (`validateUseAbility`) and so never appear.
- When the named actors of an objective split evenly between two teams, the code takes the team whose
  actor is listed first; the model takes one of them (`CHOOSE`).
- The code evaluates objectives twice in a pass; the second evaluation reads nothing the morale step
  in between writes, so one stands for both.  Progress numbers are left out: no rule reads them.
- Revisions, window ids and versions, and the refusal of stale requests belong to the engine protocol
  of the plan.  Here a command is always about the current state.

### The dispatch protocol

`HubDispatch` describes requests between two parties that share nothing.  A handler of the hub reads its
row, checks it, awaits the database and writes, so each is two actions, `Read...` and `Write...`, with
whatever else happens between them; `Create`, `Revoke` and `RecordCandidate` decide on nothing another
handler changes and stay one.

| State | In the code |
| --- | --- |
| `rows`, `created` | `generation_dispatches`: status, lease id, whether the lease has run out, whether an unconfirmed cancellation is recorded; `createdAt` as an order |
| `candidates`, `revoked` | `generation_candidates` by dispatch, `runner_devices.revokedAt` |
| `sent`, `admitted`, `cancels` | requests on their way, handlers between read and write |
| `procs` | per process: where `runHubRunnerLoop` and `runClaimed` await, the fence, the `cancelled` flag, transport failures |
| `executed`, `wanted`, `results`, `faults` | history for the properties and the bound on faults |

| Action | Code |
| --- | --- |
| `Create`, `ReadCancel`/`WriteCancel`, `Revoke` | the owner's handlers |
| `ReadClaim`/`WriteClaim` | `handleClaimDispatch` up to and from the guarded update |
| `ReadStatus`/`WriteStatus`, `RecordCandidate` | `handleUpdateStatus`, `handleRecordCandidate` |
| `Poll`, `Beat`, `Finish` | the loop's claim, the heartbeat timer, the end of `execute` and the first report after it |
| `GiveUp`, `Crash`, `Restart`, `Expire` | timeout or lost answer, end and start of the process, the lease's time limit |

Abstracted: one device and one owner; credentials and malformed requests; pairing, artifact tickets and
candidate review.  A row keeps one attempt for ever (nothing in the hub raises it), so the attempt is the
row's identity.  The bytes of different dispatches differ.  The local run is the status `outcomeFrom`
makes of it, which always releases the lease, with or without bytes.  An answer reaches the process in
the handler's last step, or, after `GiveUp`, never.  The rows a claim looks at are a set: a queued row is
among them if fewer than `Window` queued rows are older, and the claim takes the one that no other row the
device can run is older than, which is `orderBy(createdAt)`, `limit(8)` and `find`.

### Scene transitions

`SceneTransition` cuts a load where the code awaits: fetching the map (`prepare`), the snapshot
(`capture`), rendering (`render`), the worker's answer (`post`), and the same again for a recovery
(`replay`, `repost`, `rehydrate`).  A load is named by the generation it took.

| State | In the code |
| --- | --- |
| `generation`, `disposed`, `committed` | the fields of `SceneTransitionRunner` |
| `load` | per generation: where it awaits or how it ended, its map, its checkpoint, whether its caller restores the player afterwards |
| `surface` | the installed grids and the drawn bands of `GameWorld` |
| `running`, `locked` | the engine loop and the input lock |
| `queue`, `world` | messages to the worker, served in order, and its grid and entities |
| `currentMap` | `GameEngineService.currentMapId` |
| `lived` | history: the entities as the player last left them |

`Succeeded`, `Failed` and `Superseded` say what a load does with an answer, by where it waited; `Local`,
`Lost` and `Serve` are the ways an answer comes: the main thread's own work, a request that times out or
whose worker crashed, the worker's reply.  A reply to a request that was given up is dropped, but the
worker has done the work: that is what makes order matter.  `RestorePlayer` changes the player's entity
only and is a superseding event here.  Entities are abstracted to the map they were spawned for and
the player's deeds since (`plays`); `"torn"` stands for what a load that failed halfway leaves.

### Text requests

`TextRequests` describes one contention domain of the gate, which the code keeps apart from the others.

| State | In the code |
| --- | --- |
| `gate` | `DomainState`: active leases, queue, the quiet window's timer |
| `attempt`, `shared` | `SharedAttempt`s and the deduplicator's map |
| `caller` | the promise each request waits on, by the attempt it subscribed to |
| `stream` | chat streams, which take interactive leases |
| `calm` | history: how long no interactive work has counted |

`Start`, `Join`, `Cancel`, `Expire`, `Finish`, `CancelAll`, `StreamStart`, `StreamEnd` are the calls;
`Tick` and `Fire` the clock and the timer, which may be late.  A queued request that is dropped is taken
out at its place, as `splice` does (`Without`); callers and streams are finitely many.  A lease taken
before `cancelAll` belongs to state the gate has forgotten; `orphan` marks it, and its release changes nothing.  Microtasks between
the gate, the deduplicator and the caller are taken together: nothing else runs between them that reads
what they write.  Left out: the on-device attempt, routing, telemetry.

### Batch runs

`JobRunner` cuts a run where it touches shared files.

| State | In the code |
| --- | --- |
| `jobs` | job records: status, owner of the recorded lease, whether raw bytes are durable, whether a candidate is counted |
| `lease` | one lease file per resource |
| `ledger` | paid reservations |
| `manifest`, `merging` | the shared fragments and their lock |
| `candidates` | the candidate fragment |
| `run` | per process: the operation it does next, the item, the records it read when it began, and the spending it counts (kept when the run ends, for `SoloSettles`) |
| `computing` | what providers are working on, whoever waits |
| `sent`, `solo` | history: paid requests sent, whether runs ever overlapped |

Each step of `executeBatch` is an action: `Decide`, `ReadLease`, `WriteLease`, `Claim`, `Reserve`,
`Dispatch`, `Answer`, `Prepare`, `Persist`, `Stage`, `Merge`, `Review`, `AppendCandidate`, `Fail`,
`Release`.  `Commit` is `commitRunnerJob`: under the record's lock, a cancelled job stops the run's work
on it, and a transition the protocol forbids is an error of its own.  `Kill` ends a process anywhere;
the kernel drops its locks and nothing else.  `Cancel` and `Reconcile` are other invocations of the CLI.

Abstracted: the records are read in one step when a run begins; manifest and hashes are one document;
`releaseLease` reads and removes in one step; a settlement comes with the answer it settles.  Whoever
reconciles is taken to have looked at the provider.  A process has a number of its own, as the CLI's owner
tag has the process id.

## 3. Runs

| Run | Instance | Bound | Shows |
| --- | --- | --- | --- |
| `reactions` | one hero with four steps a turn in a corridor of seven cells, two guards whose threat ranges it must leave, an exit zone that begins in the middle, retreat authored, the hero's morale at the threshold | turns end in round 1 only (`MaxRound = 1`), so rounds 1 and 2 are played | suspended and resumed paths, two windows in one move, fatal answers, retreat through a window, FLEE inside a window, reactions coming back with a turn |
| `resolution` | hero and protected friend against a leader and a minion, an optional ritual with a deadline and a required rout, an affordance that burns, pushes and strikes, ranged attacks | as above: both sides of the deadline are played | every trigger kind, surrender and retreat, hazards at the round boundary, an optional and a required objective that complete, fail and lapse, the settlements they lead to |
| `hub_claims` | two processes of one device, one dispatch | one fault | two handlers between the read and the guarded update, and a lost answer, a crash, an expiry or a revocation anywhere |
| `hub_delivery` | one process, two dispatches, one the device cannot run, a claim window of two rows | one fault | reports, candidates and cancellations of one dispatch while another waits; the window filled to its limit |
| `hub_terminal` | one process, one dispatch | no fault | a statement of a comment the code does not keep (section 6) |
| `scene` | two maps, three generations | one deed of the player between switches | a first load and two more loads, restores or disposals overtaking one another at every await, every failure, recovery and its failure |
| `text` | four callers: two with the same background question, one with another, one interactive; one chat stream | a map of two entries, a window of two ticks | sharing, the map at its limit, the window started over, cancelled, due and late |
| `jobs` | a local and a paid job on different resources, room for one paid candidate | two runs, one kill, the paid job may be cancelled | runs after one another and side by side, killed at every step, and what the second finds |
| `scene_whole`; `jobs_one_generation`, `jobs_ceiling` | as `scene`; two jobs for one device, two paid jobs | as `scene`; one run, two runs | three statements of comments and contracts the code does not keep (section 6) |
| `surrender_final` | as `reactions` | as `reactions` | a statement of the contract the code does not keep (section 6) |

What the two passing combat runs check:

- `TypeOK`: the type of every field; morale within its limits, movement never negative.
- `PhaseCoherent`: a window is open exactly in phase `reaction`, never two, and a settlement exactly in
  phase `ended`.
- `SuspensionSound`: a suspended path can be picked up where it stopped.
- `SettlementDue`: after a command, the recorded objectives and settlement are those the state calls
  for.  The pass the code skips while a window is open is made up for on every path out of it.  It is a
  property of steps, as the initial state may satisfy an objective that no pass has looked at yet.  For
  the objectives it needs `InteractionsApart`: two interactions on one target have the same actors or
  none in common, because `carriedInteractionKeys` credits a completed interaction to every actor its
  objective names (section 6).
- `MoraleLedger`: morale equals the starting value less the applied triggers, each counted once.
- `RemovalsShakePeers`: whoever fell has shaken all its team mates, and nobody else has.
- `ReactionOncePerRound`: reactions are spent by the reactor asked, and come back only with its turn.
- `TurnsGoToContesters`: the turn passes to somebody who still contests, if anybody does.  (When everybody
  has surrendered or left and nothing settles the encounter, the turn stays with somebody who does not.)
- `RefinesEncounter`: every command is a step, or a stutter, of `CombatEncounter`.
- `WindowCloses`: an open window is eventually closed.

What the two passing dispatch runs check:

- `TypeOK`: rows, requests and processes are of their type.
- `LeasesSettle`: a finished dispatch holds no lease, and no lease is held twice.
- `ExecutedOnce`: no dispatch is executed twice, whatever times out or crashes.
- `ReportsTruthful`: a dispatch ends as its local run did, or as cancelled if its owner asked for that.
- `CandidateFirst`: without faults, no dispatch is finished before its candidate is recorded.
- `AnsweredWithoutFaults`: without faults, a dispatch the device can run is answered.

One fault (`MaxFaults = 1`) is enough for the hazards listed: each begins with a single lost answer,
crash or expiry.  Two processes are what a race needs, two dispatches what confusing one with another
needs, and a window of two rows with one of them out of the device's reach is the eight of the code at its
limit.  `Outcomes` holds one status that comes with bytes and one that may or may not.  Patience (5 in the
code) is two, so that one failure is retried.  These runs check deadlock: a runner never stops polling.

What the `scene` run checks:

- `TypeOK`.
- `PlayableWhole`: what is playable is one scene, drawn, installed and simulated alike, unless an
  overtaken load left its teardown behind (`Undermined`); without that exception it is `WorldWhole`, which
  fails.
- `MapIdTruthful`: the caller's map is the committed one, unless a superseded load returned to it.
- `StaleTouchesNothing`: an overtaken load's answer, good or bad, changes nothing of the engine.
- `ProgressKept`: a failed switch hands the world back as the player last left it.
- `EngineReturned`: the newest load hands the engine back or holds it with an error.

Three generations let a load be overtaken while it recovers or while its message is on the way, and the
overtaking load fail or be overtaken in turn.  One deed tells a checkpoint from a fresh spawn.

What the `text` run checks:

- `TypeOK`: in particular, no counter of the gate falls below zero.
- `AbortedIffUnwatched`, `SharedIsLive`: an attempt is given up exactly when its last subscriber leaves,
  and nobody can join one that was.
- `OneBackground`: of the background attempts somebody still wants, one runs.
- `NeverStranded`: somebody waiting in a domain with nothing running has a timer armed.
- `QuietBeforeBackground`: background work starts after a whole quiet window.
- `Drains`: if the streams stop, every request ends.

Two callers with one question are needed for sharing, a third for a queue behind it, an interactive one to
reset the window; a window of two ticks is one that can be interrupted halfway.

What the `jobs` run checks:

- `TypeOK`: no status outside the protocol is ever written.
- `ReviewStaged`: what awaits review is staged, however merges interleave.
- `HostedBilledOnce`: a paid job is sent once, whatever is killed, resumed, reconciled or run twice.
- `CancelledStays`: no run brings a cancelled job back.
- `RawReused`, `SoloSettles`: if runs do not overlap, durable bytes are not generated again, and a run leaves
  nothing half-way of what killed runs left, but for paid jobs when it has no budget left (`spent`).
  Overlapping runs have no such property (`solo`): the second leaves to the first what it finds claimed, and
  the first may be killed after that.
- `RunsEnd`: no run waits for ever for a lock, a lease or a provider.

Two runs and one kill are enough to lose every intermediate state once and to come back to it.  Only one job
may be cancelled (`Cancellable`), the paid one, which has the longer way.  These three runs turn deadlock
checking off: an engine disposed of, requests answered and runs ended really stop.

Two combat instances, because reactions and resolution hardly share state but multiply each other's: together
they take every action.  Both turn deadlock checking off: an encounter that has ended really stops, and
so does the instance at its last turn.  Two rounds are enough for what happens once per round
(reactions, hazards, deadlines) to happen, not happen, and be attempted twice.  Four steps let one move leave both guards' ranges.
No symmetry is used: the initiative order and the map tell the combatants apart.

**Fairness, combat.** Only `WindowCloses` needs any.  `FairSpec` assumes that a reaction that can be answered is
answered, weak fairness of `ResolveReaction`: the engine answers for every reactor it controls
(`engine/src/combat/combat_v2_reaction_policy.ts` drains the window after each command) and shows the
others to the player, who is assumed to answer.  It is written out as `Answering` because
`ResolveReaction` is enabled exactly in phase `reaction`, and evaluating `ENABLED` of so large an action
is slow.  Nothing is assumed of the other commands: a player may walk away.

**Fairness, dispatch.** A request that was sent is worked off (`Hub`: the platform runs every handler to
its end), an idle process polls (the loop has no other exit but those modelled), a local run ends
(assumed of the local engine), and somebody starts a stopped runner again.  Owners, heartbeats and faults are
not assumed to act.

**Fairness, the others.**  Scene: a fetch and a render settle, a request is answered or times out
(`request` arms a timer for each), the worker goes on serving; nobody has to start a load.  Text: time passes,
timers fire, an admitted attempt is answered or meets its deadline; nothing is assumed of the player's
streams, hence the condition of `Drains`.  Jobs: a process that is not killed goes on, and waits for a
provider only so long; nobody has to begin a run, cancel or reconcile.

## 4. Proofs

Every safety invariant, every action property and the refinement that a passing run checks is a theorem of
its module's `Spec`, for every value of the constants that meets the module's named assumptions; the bounds
in the guards (`MaxRound`, `MaxFaults` and the others) may be any number.  What a run shows of an instance,
the theorem of the same property shows of all.  The runs stay: TLC found the formulas before they were
proved, evaluates the assumptions, and tells a property that is false from a proof that is hard.

| Proof module | Theorem (property) | Rests on |
| --- | --- | --- |
| `CombatKernelProofs` | `TypeCorrect` (`TypeOK`), `PhaseCoherence` (`PhaseCoherent`), `SuspensionsResume` (`SuspensionSound`) | `SoundInvariant` |
| `CombatRefinementProofs` | `ImplementsEncounter` (`RefinesEncounter`) | `SoundInvariant` |
| `CombatOutcomeProofs` | `SettlementsAreDue` (`SettlementDue`), `TurnsAreTaken` (`TurnsGoToContesters`), `ReactionsOncePerRound` (`ReactionOncePerRound`) | `SoundInvariant` |
| | `FallsShakePeers` (`RemovalsShakePeers`), `MoraleIsLedger` (`MoraleLedger`) | `BooksInvariant` |
| `HubDispatchProofs` | `TypeCorrect` (`TypeOK`), `LeasesAreSettled` (`LeasesSettle`), `EndsAreTruthful` (`ReportsTruthful`), `CandidatesComeFirst` (`CandidateFirst`), `RunsOnce` (`ExecutedOnce`) | `DispatchesSound` |
| `SceneTransitionProofs` | `TypeCorrect` (`TypeOK`), `PlayedIsWhole` (`PlayableWhole`), `MapIsNamed` (`MapIdTruthful`), `StaleIsHarmless` (`StaleTouchesNothing`), `ProgressSurvives` (`ProgressKept`) | `TransitionsTidy` |
| `TextRequestsProofs` | `TypeCorrect` (`TypeOK`), `UnwatchedAreAborted` (`AbortedIffUnwatched`), `OffersAreLive` (`SharedIsLive`), `BackgroundIsAlone` (`OneBackground`), `WaitersAreWoken` (`NeverStranded`), `QuietIsKept` (`QuietBeforeBackground`) | `SteadyInvariant` |
| `JobRunnerProofs` | `TypeCorrect` (`TypeOK`), `ReviewedAreStaged` (`ReviewStaged`), `BilledOnce` (`HostedBilledOnce`), `CancellationsHold` (`CancelledStays`), `RawBytesReused` (`RawReused`), `RunsSettle` (`SoloSettles`) | `TypedInvariant` and one invariant each |

**Combat** (assumptions `RosterAssumption`, `MapAssumption`, `MoraleAssumption`, `ObjectiveAssumption` of
`CombatRules`, `CommandAssumption` of `CombatKernel`).  `Sound` is the state's type, coherence of phase,
windows and settlement, and resumability of every window; none of the three is inductive alone.  Typing
the effect of an answer needs a reactor to exist (the queue of an open window is not empty) and the rest
of the path to be a walk; that a resumed path is a walk needs its contiguity, kept while others react
because nobody but the turn holder moves in phase `reaction`; and that no other command runs then is
coherence.  The argument goes rule by rule: each rule of `CombatRules` gets a lemma that says what it
keeps, `WalkSound` is the central one (a legal path is walked to its end or leaves a window from which its
rest can be walked), and each command strings the lemmas together as the kernel strings the rules.

The refinement follows the *seat* (whose turn, which round, who has fallen) through the same rules: each
leaves it alone or changes it in one known way.  The one argument about the turn order is that the second
advance of a round boundary does not reach a third round.  Settlement needs that evaluating twice changes
nothing, from which every path through a pass ends in a state whose verdict is on record.  The books
(`Booked`) are stated of drafts with the *debt* of a command: between the fall of a combatant and the batch
that shakes its team mates the ledger may owe just those falls, and every early return is shown to settle
or hand on the debt.  Morale equals the ledger because loss is additive over disjoint trigger sets and a
clamped sum of losses clamps once.

**Dispatch** (`DispatchAssumption`).  `Sound` adds four parts to the types.  `Shaped`: what a process does
and what it waits for agree, and a report names a dispatch.  `Owned`: a lease is of one row, of the one
process that heard of it and of the reports sent under it, and a row nobody claimed has none of the three.
`Honest`: before a run has ended nobody says how, and after it everybody says the same, or a cancellation
that was asked for.  `Recorded`: while nothing has failed, whoever says an end whose run has bytes has a
recorded candidate.  `ExecutedOnce` needs all but the last: a stale report may reopen a finished row
(`hub_terminal`), but never as queued, so a lease is given for a row at most once.  The sixteen actions are first
reduced to seven kinds of steps (`StepAmounts`), and each part is shown for the kinds.

**Scenes** (`SceneAssumption`).  `Tidy` names the newest transition and says of it what is installed, drawn
and told to the worker, and what the worker has still to be told; of older ones only that their messages
come earlier in the queue and that a torn scene of theirs shows in where they stand.

**Text requests** (`TextAssumption`; callers and streams are finite sets).  `Steady` is `Sharing` (who waits
for which attempt), `Queued` (the queue holds exactly the queued attempts, each once), `Counted` (the
gate's counters count the leases that are still its own) and `Armed` (the timer runs when it should).

**Batch runs** (`JobAssumption`).  `Staged` ties a merge in progress to the lock and to the fragments it
read; `Billed` says that who may send a paid request holds the one reservation for it; `Alone` and
`Settling` say what the single live run of an unshared store still knows and will come to.

Proving showed four formulas to be wrong or too narrow as they were first stated, on instances no run had:
`SettlementDue` failed for initial states and shared interactions (hence its condition, and
`InteractionsOwned` in section 6), `TurnsGoToContesters` where nobody is left, `SoloSettles` for a paid job
of a run whose budget went to another job, and the answer of a revoked device overlapped the other answers to a
claim in `Proceed`.

Only model-checked: the liveness properties `WindowCloses`, `AnsweredWithoutFaults`, `EngineReturned`,
`Drains` and `RunsEnd`, as fairness and `ENABLED` are out of the prover's reach.  The properties of the
violation runs are refuted, not proved.

## 5. Plan

Done: the combat modules, `HubDispatch`, `SceneTransition`, `TextRequests`, `JobRunner`, their instances,
and the theorems of section 4.  Next, in this order:

1. `ReactionProtocol`: the engine's combat session over the kernel's abstraction: command envelopes
   (idempotent answers, stale revisions), window ids and versions, the bounded drain, checkpoint and
   restore inside a window.  Abstract specification: each request takes effect at most once.
2. An abstraction of `HubDispatch` (a dispatch is queued, given out once, ended), which `DispatchesSound`
   should make easy to refine; pairing and review.
3. The safety part of progress, from which the liveness properties follow on paper: a window's path and
   queue shrink with every answer; a waiting caller always has an enabled action.
4. An objectives instance with zones, survival and two interactions on one object; `LocalTaskPool`.

## 6. Where the code and its documents disagree

Found while modelling.  These are shown by a run TLC ends with a counterexample (`PROJECT.json`,
`findings`, quotes the lines):

- An actor that has surrendered may go on acting until it ends its turn; a retreat then makes it a
  contestant again, although the contract (`docs/contracts/C-532-...`) ends its hostile participation.
- A heartbeat whose handler passed the fence before the final report may be written after it: a finished
  dispatch is shown as running, with no lease, although it is said never to be reopened.
- A map load that overtakes another after its teardown, and fails before its own, resumes the engine on
  the torn-down scene as if the previous world were still whole.
- A run whose request timed out keeps the resource's lease, because the provider may still be computing,
  and then acquires it again for its next job.
- Two runs may both pass one spending ceiling: a job that gets its candidate after the second run began is
  counted neither in what that run read nor among the reservations.

These are stated as properties of the modules, and TLC refutes them on the instances of the passing runs:

- `EnemySurrenderResolves` (`CombatKernel`): when all enemies have surrendered and no objective is required,
  nothing settles the encounter and nobody is a legal target; the contract says enemy surrender resolves it.
- `EscapeKeepsHp` (`CombatKernel`): a retreat suspended inside the exit zone is recorded as escaped while the
  window is still open; the reactor may then strike the escaped actor down.
- `DeadlineIsFinal` (`CombatKernel`): an optional interaction that missed its deadline becomes complete when
  made later.
- `InteractionsOwned` (`CombatKernel`, the instance of `resolution` with two objectives on the brazier, one
  for the hero or the friend, one for the friend alone, due in round 2): an interaction that completed one
  objective is remembered for every actor that objective names (`combat_encounter_resolution.ts:154`), not
  for the one who made it; the hero's interaction completes the friend's objective too.
- `LostClaimsReturn` (`HubDispatch`, one process, one dispatch, one fault): a dispatch whose claim was
  answered into the void, or whose runner restarted, is never claimed again, although the loop's header says
  the same dispatch is re-claimed.

And these were met on the way and follow from the actions as they stand:

- A superseded load returns like one that completed, so `currentMapId` names a map that was never installed.
- Any subscriber that leaves takes the shared attempt out of the map while others still wait for it; the
  next identical request starts a second provider call.
- A run that read a job before another run brought it to review claims it again; the protocol refuses that,
  and the refusal is recorded as the job's failure.
- A run killed between a job's last record and its candidate record leaves a job that awaits review without
  one; no later run looks at it.
- A paid job whose bytes are durable is refused when resumed, if its own candidate or another paid job has
  used up the budget.

## 7. Not modelled

Within combat: which response the AI picks, forecasts, replay, intent compilation, display bands, the
legacy coordinator's automatic policies, object state requirements and impact zones.  Of scene transitions:
what a scene contains, and who calls `resumeEngine` when.  Of text requests: the on-device attempt, routing,
other contention domains.  Of batch runs: audio preparation, imports, variations, blobs that are lost,
lock timeouts, and budgets other than the spending ceiling.  Outside these, every part section 1 lists and
section 2 does not, until the plan reaches it; rendering, provider calls, schemas, sites and scripts are not
meant to be modelled: they are data, presentation or other systems' behaviour.

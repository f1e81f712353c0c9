--------------------------- MODULE SceneTransition ---------------------------
(***************************************************************************)
(* Switching the game to another map                                       *)
(* (packages/frontend/engine/src/game_world/scene_transition.ts, driven by *)
(* game_world.ts) against the simulation worker, which serves its messages *)
(* in order, and the checkpoint of world_restorer.ts that a failed switch  *)
(* is undone with.                                                         *)
(*                                                                         *)
(* A load suspends while it fetches the map, takes a snapshot, renders and *)
(* waits for the worker; a newer load, a restore of a save or disposal may *)
(* happen at any of these points.  A load is named by the generation it    *)
(* took, so that restores and disposal use up numbers of their own.        *)
(***************************************************************************)
EXTENDS Naturals, Sequences

CONSTANTS
  Maps,             \* maps of the content pack
  MaxGenerations,   \* bound: loads, restores and disposals
  MaxPlays          \* bound: times the player's deeds change the entities

NoMap == "none"     \* no scene committed, nothing drawn
Torn == "torn"      \* entities of a load the worker failed halfway
Save == "save"      \* entities of a save file, whatever map they came from

ASSUME SceneAssumption ==
  /\ Maps # {} /\ Maps \cap {NoMap, Torn, Save} = {}
  /\ MaxGenerations \in Nat /\ MaxPlays \in Nat

VARIABLES
  generation,   \* SceneTransitionRunner._generation
  disposed,     \* _disposed
  committed,    \* the map of _committed
  load,         \* each generation's load: where it is, what it holds
  surface,      \* main thread: the installed grids, the drawn bands
  running,      \* GameWorld._running
  locked,       \* InputController._locked
  queue,        \* messages on their way to the worker
  world,        \* the worker: its grid, and its entities
  currentMap,   \* GameEngineService.currentMapId
  lived         \* history: the entities as the player last left them

engine == <<running, locked>>
vars == <<generation, disposed, committed, load, surface, engine, queue,
          world, currentMap, lived>>

Generations == 1..MaxGenerations

\* Entities: the map they were spawned for and what was done to them since.
Entities == [map : Maps \cup {NoMap, Torn, Save}, plays : 0..MaxPlays]
Spawned(m) == [map |-> m, plays |-> 0]
NoCheckpoint == Spawned(NoMap)

\* Where a load waits, and the part of its way behind the teardown.
Asking == {"capture", "post", "repost", "rehydrate"}
Waiting == {"prepare", "render", "replay"} \cup Asking
Recovering == {"replay", "repost", "rehydrate"}

\* How it ends: "superseded" before it tore anything down, "abandoned" after,
\* "orphaned" while it was recovering.
Ended == {"live", "retained", "recovered", "held", "superseded", "abandoned",
          "orphaned"}

NoLoad == [at |-> "none", map |-> NoMap, kept |-> NoCheckpoint, follow |-> FALSE]

TypeOK ==
  /\ generation \in 0..MaxGenerations
  /\ disposed \in BOOLEAN /\ running \in BOOLEAN /\ locked \in BOOLEAN
  /\ committed \in Maps \cup {NoMap}
  /\ load \in [Generations ->
                 [at : Waiting \cup Ended \cup {"none", "restore", "dispose"},
                  map : Maps \cup {NoMap}, kept : Entities, follow : BOOLEAN]]
  /\ surface \in [grid : Maps \cup {NoMap}, drawn : Maps \cup {NoMap}]
  /\ queue \in Seq([by : Generations, at : Asking \cup {"restore"},
                    map : Maps \cup {NoMap}, payload : Entities])
  /\ world \in [grid : Maps \cup {NoMap}, entities : Entities]
  /\ currentMap \in Maps \cup {NoMap}
  /\ lived \in Entities

\* After initialize() and before the first map.
Init ==
  /\ generation = 0 /\ disposed = FALSE
  /\ committed = NoMap
  /\ load = [g \in Generations |-> NoLoad]
  /\ surface = [grid |-> NoMap, drawn |-> NoMap]
  /\ running = TRUE /\ locked = FALSE
  /\ queue = <<>>
  /\ world = [grid |-> NoMap, entities |-> Spawned(NoMap)]
  /\ currentMap = NoMap
  /\ lived = Spawned(NoMap)

-----------------------------------------------------------------------------
(* What a load does between two of its waits. *)

Stale(g) == g # generation \/ disposed

Move(g, at) == load' = [load EXCEPT ![g].at = at]

\* The caller of a load that returns, also one that returns silently because
\* it was superseded, takes its map for the current one.
Return(g, at) == Move(g, at) /\ currentMap' = load[g].map
\* Mutant: the caller announces the map before the load is through.
ThrowAnnounced(g, at) == Move(g, at) /\ currentMap' = load[g].map

Throw(g, at) == Move(g, at) /\ UNCHANGED currentMap

Resume == running' = TRUE /\ locked' = FALSE
HoldLocked == running' = FALSE /\ locked' = TRUE

\* resetSurface and installScene.
Install(m) == surface' = [grid |-> m, drawn |-> NoMap]

\* The request a load sends when it starts to wait for the worker.
Message(g, at, m, payload) == [by |-> g, at |-> at, map |-> m, payload |-> payload]

\* Mutant: a failed switch leaves the engine paused.
RetainPaused(g) ==
  /\ Throw(g, IF committed = NoMap THEN "held" ELSE "retained")
  /\ UNCHANGED engine

\* Failure with nothing to undo: the engine resumes on what it had.
RetainPreviousWorld(g) ==
  IF committed = NoMap THEN Throw(g, "held") /\ HoldLocked
  ELSE Throw(g, "retained") /\ Resume

\* Mutant: a recovery that fails after it went stale still locks the engine.
SupersededRelocks(g, rest) ==
  /\ Stale(g)
  /\ IF load[g].at \in Recovering THEN Throw(g, "orphaned") /\ HoldLocked
     ELSE /\ UNCHANGED engine
          /\ Return(g, IF load[g].at \in {"render", "post"} THEN "abandoned"
                       ELSE "superseded")
  /\ queue' = rest
  /\ UNCHANGED <<surface, committed>>

\* A load that went stale while it waited touches nothing, whatever the answer.
Superseded(g, rest) ==
  /\ Stale(g)
  /\ CASE load[g].at \in Recovering -> Throw(g, "orphaned")
       [] load[g].at \in {"render", "post"} -> Return(g, "abandoned")
       [] OTHER -> Return(g, "superseded")
  /\ queue' = rest
  /\ UNCHANGED <<surface, engine, committed>>

\* Mutant: the replayed scene is taken for the recovery, without its checkpoint.
RecoveredBySceneAlone(g, rest) ==
  Throw(g, "recovered") /\ Resume /\ queue' = rest

\* Mutant: the restore names the map its entities were spawned for.
RehydrateByMap(g, rest) ==
  /\ Throw(g, "rehydrate")
  /\ queue' = Append(rest, Message(g, "rehydrate", load[g].kept.map, load[g].kept))
  /\ UNCHANGED engine

\* _recoverFromFailure: the committed scene is back on both sides, now the
\* checkpoint goes over it.
Rehydrate(g, rest) ==
  /\ Throw(g, "rehydrate")
  /\ queue' = Append(rest, Message(g, "rehydrate", NoMap, load[g].kept))
  /\ UNCHANGED engine

\* What g does with a good answer, by where it waited.
Succeeded(g, rest, payload) ==
  LET m == load[g].map  IN
  /\ ~Stale(g)
  /\ \/ /\ load[g].at = "prepare" /\ committed = NoMap
        /\ Throw(g, "render") /\ Install(m)
        /\ queue' = rest /\ UNCHANGED <<engine, committed>>
     \/ /\ load[g].at = "prepare" /\ committed # NoMap
        /\ Throw(g, "capture")
        /\ queue' = Append(rest, Message(g, "capture", NoMap, NoCheckpoint))
        /\ UNCHANGED <<surface, engine, committed>>
     \/ /\ load[g].at = "capture"
        /\ load' = [load EXCEPT ![g].at = "render", ![g].kept = payload]
        /\ Install(m)
        /\ queue' = rest /\ UNCHANGED <<engine, committed, currentMap>>
     \/ /\ load[g].at = "render"
        /\ Throw(g, "post")
        /\ surface' = [surface EXCEPT !.drawn = m]
        /\ queue' = Append(rest, Message(g, "post", m, NoCheckpoint))
        /\ UNCHANGED <<engine, committed>>
     \/ /\ load[g].at = "post"
        /\ Return(g, "live") /\ Resume /\ committed' = m
        /\ queue' = rest /\ UNCHANGED surface
     \/ /\ load[g].at = "replay"
        /\ Throw(g, "repost")
        /\ surface' = [surface EXCEPT !.drawn = committed]
        /\ queue' = Append(rest, Message(g, "repost", committed, NoCheckpoint))
        /\ UNCHANGED <<engine, committed>>
     \/ /\ load[g].at = "repost"
        /\ Rehydrate(g, rest) /\ UNCHANGED <<surface, committed>>
     \/ /\ load[g].at = "rehydrate"
        /\ Throw(g, "recovered") /\ Resume
        /\ queue' = rest /\ UNCHANGED <<surface, committed>>

\* Mutant: any failed switch is made good by setting the engine running again.
FailedRetains(g, rest) ==
  /\ ~Stale(g)
  /\ RetainPreviousWorld(g)
  /\ queue' = rest
  /\ UNCHANGED <<surface, committed>>

\* What g does with a failure: a failed recovery holds the engine; a failure
\* after the teardown is recovered from, one before it retains the world.
Failed(g, rest) ==
  /\ ~Stale(g)
  /\ \/ /\ load[g].at \in Recovering
        /\ Throw(g, "held") /\ HoldLocked /\ UNCHANGED surface
     \/ /\ load[g].at \notin Recovering /\ load[g].kept = NoCheckpoint
        /\ RetainPreviousWorld(g) /\ UNCHANGED surface
     \/ /\ load[g].at \notin Recovering /\ load[g].kept # NoCheckpoint
        /\ Throw(g, "replay") /\ Install(committed) /\ UNCHANGED engine
  /\ queue' = rest
  /\ UNCHANGED committed

-----------------------------------------------------------------------------
(* Operations of the engine. *)

\* load: a new transition pauses the engine and fetches the map.
StartLoad(m, follow) ==
  /\ ~disposed /\ generation < MaxGenerations
  /\ generation' = generation + 1
  /\ load' = [load EXCEPT ![generation + 1] =
                [at |-> "prepare", map |-> m, kept |-> NoCheckpoint,
                 follow |-> follow]]
  /\ running' = FALSE /\ locked' = TRUE
  /\ lived' = IF running THEN world.entities ELSE lived
  /\ UNCHANGED <<disposed, committed, surface, queue, world, currentMap>>

\* invalidateInFlight: a restore or disposal takes a generation of its own.
Invalidate(at) ==
  /\ ~disposed /\ generation < MaxGenerations
  /\ generation' = generation + 1
  /\ load' = [load EXCEPT ![generation + 1].at = at]

\* restoreWorld: a save without a map replaces every entity of the world.
RestoreWorld ==
  /\ committed # NoMap
  /\ Invalidate("restore")
  /\ queue' = Append(queue, Message(generation + 1, "restore", NoMap, Spawned(Save)))
  /\ UNCHANGED <<disposed, committed, surface, engine, world, currentMap, lived>>

\* restorePlayer: who loaded a map from a save puts the player's own state on
\* it once the load returns.  Only the player's entity changes.
RestorePlayer(g) ==
  /\ load[g].at \in {"live", "superseded", "abandoned"} /\ load[g].follow
  /\ ~disposed /\ generation < MaxGenerations
  /\ generation' = generation + 1
  /\ load' = [load EXCEPT ![g].follow = FALSE, ![generation + 1].at = "restore"]
  /\ UNCHANGED <<disposed, committed, surface, engine, queue, world, currentMap,
                 lived>>

\* destroy: the runner is retired and the worker terminated.
Dispose ==
  /\ Invalidate("dispose")
  /\ disposed' = TRUE /\ committed' = NoMap
  /\ running' = FALSE
  /\ queue' = <<>>
  /\ UNCHANGED <<locked, surface, world, currentMap, lived>>

\* The player moves, fights, loots: the entities are no longer as spawned.
Play ==
  /\ running /\ ~locked /\ generation > 0
  /\ world.entities.plays < MaxPlays
  /\ world' = [world EXCEPT !.entities.plays = @ + 1]
  /\ UNCHANGED <<generation, disposed, committed, load, surface, engine, queue,
                 currentMap, lived>>

-----------------------------------------------------------------------------
(* Answers. *)

\* prepare and render resolve or reject on the main thread.
Local(g) ==
  /\ load[g].at \in {"prepare", "render", "replay"}
  /\ \/ Succeeded(g, queue, NoCheckpoint)
     \/ Failed(g, queue)
     \/ Superseded(g, queue)
  /\ UNCHANGED <<generation, disposed, world, lived>>

\* A request fails without an answer: timeout, crash, failed post, disposal.
Lost(g) ==
  /\ load[g].at \in Asking
  /\ Failed(g, queue) \/ Superseded(g, queue)
  /\ UNCHANGED <<generation, disposed, world, lived>>

\* The worker's world after message n, done or failed halfway.
Done(n) ==
  CASE n.at \in {"post", "repost"} -> [grid |-> n.map, entities |-> Spawned(n.map)]
    [] n.at \in {"rehydrate", "restore"} -> [world EXCEPT !.entities = n.payload]
    [] OTHER -> world
Halfway(n) ==
  CASE n.at \in {"post", "repost", "rehydrate"} ->
         {world, [world EXCEPT !.entities = Spawned(Torn)]}
    [] OTHER -> {world}

\* The worker serves the oldest message; its reply reaches the load that still
\* waits for it, and is dropped when nobody does.
Serve ==
  LET n == Head(queue)
      waited == n.at \in Asking /\ load[n.by].at = n.at
      rest == Tail(queue) IN
  /\ queue # <<>>
  /\ \/ /\ world' = Done(n)
        /\ waited =>
             Succeeded(n.by, rest, world.entities) \/ Superseded(n.by, rest)
     \/ /\ n.at # "restore" /\ world' \in Halfway(n)
        /\ waited => Failed(n.by, rest) \/ Superseded(n.by, rest)
  /\ ~waited => /\ queue' = rest
                /\ UNCHANGED <<load, surface, engine, committed, currentMap>>
  /\ lived' = IF n.at = "restore" THEN n.payload ELSE lived
  /\ UNCHANGED <<generation, disposed>>

Next ==
  \/ \E m \in Maps, follow \in BOOLEAN : StartLoad(m, follow)
  \/ RestoreWorld
  \/ \E g \in Generations : RestorePlayer(g) \/ Local(g) \/ Lost(g)
  \/ Dispose
  \/ Play
  \/ Serve

Spec == Init /\ [][Next]_vars

\* A fetch and a render settle, a request is answered or times out.
Fairness ==
  /\ \A g \in Generations : WF_vars(Local(g) \/ Lost(g))
  /\ WF_vars(Serve)

FairSpec == Spec /\ Fairness

-----------------------------------------------------------------------------
(* Properties. *)

Playable == running /\ ~locked /\ generation > 0

\* Grids, drawn bands and the worker's grid are the committed scene's, and the
\* worker's entities are that map's or come from a save.
Whole ==
  /\ surface = [grid |-> committed, drawn |-> committed]
  /\ world.grid = committed
  /\ world.entities.map \in {committed, Save}

\* A load that no longer counts, or gave up, tore the scene down, and no load
\* has completed since.
Undermined ==
  \E g \in Generations :
     /\ g # generation
     /\ load[g].at \in {"render", "post", "abandoned", "orphaned", "held"} \cup Recovering
     /\ \A h \in Generations : h > g => load[h].at # "live"

\* Whatever loads, failures and recoveries interleave, a playable engine shows
\* and simulates one and the same scene -- unless an earlier load left its
\* teardown behind (WorldWhole drops that exception and fails).
PlayableWhole == Playable /\ ~Undermined => Whole

\* The header: recovery exists so that "the renderer and the worker agree again
\* before input is handed back"; _retainPreviousWorld resumes because "the
\* previous world is still whole and consistent on screen AND in the worker".
WorldWhole == Playable => Whole

\* GameEngineService.currentMapId is the "ID of the currently loaded map": with
\* no load in flight it names the map last committed, through failed loads and
\* recoveries alike -- unless a superseded load returned: its caller cannot tell.
MapIdTruthful ==
  (Playable /\ \A g \in Generations :
                 load[g].at \notin Waiting \cup {"superseded", "abandoned"})
     => currentMap = committed

\* A stale load's answer changes nothing but the load itself and what its
\* caller believes: the newer transition owns the engine.
StaleTouchesNothing ==
  [][\A g \in Generations :
       load[g].at \in Waiting /\ Stale(g) /\ load'[g].at # load[g].at
         => UNCHANGED <<surface, engine, committed>>
            /\ Len(queue') <= Len(queue)]_vars

\* A failed switch hands the world back with everything the player did in it.
ProgressKept ==
  [][~Playable /\ Playable' /\ generation' = generation
       /\ load'[generation].at \in {"retained", "recovered"} /\ ~Undermined
       => world'.entities = lived]_vars

\* The newest transition always ends with an engine that runs, or that is held
\* locked after an error; it is never left paused without a word.
EngineReturned ==
  \A g \in Generations :
    (generation = g /\ load[g].at \in Waiting)
       ~> (generation # g \/ Playable \/ (load[g].at = "held" /\ locked))
=============================================================================

------------------------- MODULE SceneTransitionProofs -------------------------
(***************************************************************************)
(* What switching maps keeps for all maps and however many transitions     *)
(* overlap.  The invariant names the newest transition, Now, and says of    *)
(* it what is installed and drawn, what the worker was told and what it    *)
(* has still to be told; of older transitions it says only that their      *)
(* messages come first and that a torn scene shows in where they stand.     *)
(***************************************************************************)
EXTENDS SceneTransition, SequenceTheorems, TLAPS

-----------------------------------------------------------------------------
(* Types *)

Scenes == Maps \cup {NoMap}

Places == Waiting \cup Ended \cup {"none", "restore", "dispose"}

LoadRecords == [at : Places, map : Scenes, kept : Entities, follow : BOOLEAN]

Messages == [by : Generations, at : Asking \cup {"restore"}, map : Scenes,
             payload : Entities]

Surfaces == [grid : Scenes, drawn : Scenes]
Worlds == [grid : Scenes, entities : Entities]

\* The names that are not maps differ from maps and from each other.
LEMMA Names ==
  /\ NoMap \notin Maps /\ Torn \notin Maps /\ Save \notin Maps
  /\ NoMap # Torn /\ NoMap # Save /\ Torn # Save
<1>1. NoMap # Torn /\ NoMap # Save /\ Torn # Save
  BY DEF NoMap, Torn, Save
<1>2. QED
  BY <1>1, SceneAssumption

\* Entities just spawned, and the world they are spawned in.
LEMMA SpawnedType ==
  ASSUME NEW m \in Maps \cup {NoMap, Torn, Save}
  PROVE  Spawned(m) \in Entities /\ Spawned(m).map = m
  BY SceneAssumption DEF Spawned, Entities

\* Moving a load writes where it is and nothing else.
LEMMA MoveWrites ==
  ASSUME load \in [Generations -> LoadRecords], NEW g \in Generations,
         NEW x \in Places, Move(g, x)
  PROVE  /\ load' \in [Generations -> LoadRecords]
         /\ load'[g].at = x /\ load'[g].map = load[g].map
         /\ load'[g].kept = load[g].kept
         /\ \A h \in Generations : h # g => load'[h] = load[h]
<1>1. load' = [load EXCEPT ![g] = [load[g] EXCEPT !.at = x]]
  BY DEF Move
<1> DEFINE r == [load[g] EXCEPT !.at = x]
<1>2. /\ r \in LoadRecords /\ r.at = x
      /\ r.map = load[g].map /\ r.kept = load[g].kept
  BY DEF LoadRecords
<1> HIDE DEF r
<1>3. load' = [load EXCEPT ![g] = r]
  BY <1>1 DEF r
<1>4. QED
  BY <1>2, <1>3

\* So does keeping a checkpoint, but for the checkpoint.
LEMMA KeepWrites ==
  ASSUME load \in [Generations -> LoadRecords], NEW g \in Generations,
         NEW e \in Entities,
         load' = [load EXCEPT ![g].at = "render", ![g].kept = e]
  PROVE  /\ load' \in [Generations -> LoadRecords]
         /\ load'[g].at = "render" /\ load'[g].map = load[g].map
         /\ load'[g].kept = e
         /\ \A h \in Generations : h # g => load'[h] = load[h]
<1> DEFINE r == [load[g] EXCEPT !.at = "render"]
           k == [r EXCEPT !.kept = e]
           moved == [load EXCEPT ![g] = r]
<1>1. load' = [moved EXCEPT ![g] = [moved[g] EXCEPT !.kept = e]]
  OBVIOUS
<1>2. /\ r \in LoadRecords /\ r.at = "render" /\ r.map = load[g].map
  BY DEF LoadRecords, Places, Waiting
<1>3. moved[g] = r
  BY <1>2
<1>4. /\ k \in LoadRecords /\ k.at = "render" /\ k.map = load[g].map /\ k.kept = e
  BY <1>2 DEF LoadRecords
<1> HIDE DEF r, k
<1>5. load' = [moved EXCEPT ![g] = k]
  BY <1>1, <1>3 DEF k
<1>6. QED
  BY <1>4, <1>5

\* A request is a message of the worker's queue.
LEMMA MessageType ==
  ASSUME NEW g \in Generations, NEW at \in Asking \cup {"restore"},
         NEW m \in Scenes, NEW e \in Entities
  PROVE  /\ Message(g, at, m, e) \in Messages
         /\ Message(g, at, m, e).by = g /\ Message(g, at, m, e).at = at
         /\ Message(g, at, m, e).map = m /\ Message(g, at, m, e).payload = e
  BY DEF Message, Messages

\* The types, but for the bounds of the counters.
LoadTypes == load \in [Generations -> LoadRecords]

-----------------------------------------------------------------------------
(* What a load does with an answer *)

\* g goes to x with checkpoint k, and no other load moves.
Became(g, x, k) ==
  /\ load' \in [Generations -> LoadRecords]
  /\ load'[g].at = x /\ load'[g].map = load[g].map /\ load'[g].kept = k
  /\ \A h \in Generations : h # g => load'[h] = load[h]

\* With that the surface becomes s, the queue q and the committed map m.
Effect(g, x, k, s, q, m) ==
  Became(g, x, k) /\ surface' = s /\ queue' = q /\ committed' = m

Unheard == UNCHANGED <<running, locked, currentMap>>
Resumed == running' = TRUE /\ locked' = FALSE
Halted == running' = FALSE /\ locked' = TRUE /\ currentMap' = currentMap

Bare(m) == [grid |-> m, drawn |-> NoMap]

\* What g does with a good answer.
Advanced(g, rest, payload) ==
  LET m == load[g].map
      k == load[g].kept
      Ask(at, map, e) == Append(rest, Message(g, at, map, e)) IN
  \/ /\ load[g].at = "prepare" /\ committed = NoMap /\ Unheard
     /\ Effect(g, "render", k, Bare(m), rest, committed)
  \/ /\ load[g].at = "prepare" /\ committed # NoMap /\ Unheard
     /\ Effect(g, "capture", k, surface, Ask("capture", NoMap, NoCheckpoint), committed)
  \/ /\ load[g].at = "capture" /\ Unheard
     /\ Effect(g, "render", payload, Bare(m), rest, committed)
  \/ /\ load[g].at = "render" /\ Unheard
     /\ Effect(g, "post", k, [surface EXCEPT !.drawn = m],
               Ask("post", m, NoCheckpoint), committed)
  \/ /\ load[g].at = "post" /\ Resumed /\ currentMap' = m
     /\ Effect(g, "live", k, surface, rest, m)
  \/ /\ load[g].at = "replay" /\ Unheard
     /\ Effect(g, "repost", k, [surface EXCEPT !.drawn = committed],
               Ask("repost", committed, NoCheckpoint), committed)
  \/ /\ load[g].at = "repost" /\ Unheard
     /\ Effect(g, "rehydrate", k, surface, Ask("rehydrate", NoMap, k), committed)
  \/ /\ load[g].at = "rehydrate" /\ Resumed /\ currentMap' = currentMap
     /\ Effect(g, "recovered", k, surface, rest, committed)

LEMMA SucceededAdvances ==
  ASSUME LoadTypes, NEW g \in Generations, NEW rest, NEW payload \in Entities,
         Succeeded(g, rest, payload)
  PROVE  ~Stale(g) /\ Advanced(g, rest, payload)
<1>1. ~Stale(g)
  BY DEF Succeeded
<1>2. \A x \in Places : Move(g, x) => Became(g, x, load[g].kept)
  BY MoveWrites DEF LoadTypes, Became
<1>3. ASSUME load' = [load EXCEPT ![g].at = "render", ![g].kept = payload]
      PROVE  Became(g, "render", payload)
  BY <1>3, KeepWrites DEF LoadTypes, Became
<1>4. {"render", "capture", "post", "live", "repost", "rehydrate", "recovered"}
        \subseteq Places
  BY DEF Places, Waiting, Asking, Ended
<1>5. CASE load[g].at = "prepare" /\ committed = NoMap
  BY <1>2, <1>4, <1>5 DEF Succeeded, Throw, Install, engine, Advanced, Effect, Unheard, Bare
<1>6. CASE load[g].at = "prepare" /\ committed # NoMap
  BY <1>2, <1>4, <1>6 DEF Succeeded, Throw, engine, Advanced, Effect, Unheard
<1>7. CASE load[g].at = "capture"
  BY <1>3, <1>4, <1>7 DEF Succeeded, Install, engine, Advanced, Effect, Unheard, Bare
<1>8. CASE load[g].at = "render"
  BY <1>2, <1>4, <1>8 DEF Succeeded, Throw, engine, Advanced, Effect, Unheard
<1>9. CASE load[g].at = "post"
  BY <1>2, <1>4, <1>9 DEF Succeeded, Return, Resume, Advanced, Effect, Resumed
<1>10. CASE load[g].at = "replay"
  BY <1>2, <1>4, <1>10 DEF Succeeded, Throw, engine, Advanced, Effect, Unheard
<1>11. CASE load[g].at = "repost"
  BY <1>2, <1>4, <1>11 DEF Succeeded, Rehydrate, Throw, engine, Advanced, Effect, Unheard
<1>12. CASE load[g].at = "rehydrate"
  BY <1>2, <1>4, <1>12 DEF Succeeded, Throw, Resume, Advanced, Effect, Resumed
<1>13. QED
  BY <1>1, <1>5, <1>6, <1>7, <1>8, <1>9, <1>10, <1>11, <1>12 DEF Succeeded

\* What g does with a failure.
Undone(g, rest) ==
  LET k == load[g].kept IN
  \/ /\ load[g].at \in Recovering \/ (k = NoCheckpoint /\ committed = NoMap)
     /\ Halted /\ Effect(g, "held", k, surface, rest, committed)
  \/ /\ load[g].at \notin Recovering /\ k = NoCheckpoint /\ committed # NoMap
     /\ Resumed /\ currentMap' = currentMap
     /\ Effect(g, "retained", k, surface, rest, committed)
  \/ /\ load[g].at \notin Recovering /\ k # NoCheckpoint /\ Unheard
     /\ Effect(g, "replay", k, Bare(committed), rest, committed)

LEMMA FailedUndoes ==
  ASSUME LoadTypes, NEW g \in Generations, NEW rest, Failed(g, rest)
  PROVE  ~Stale(g) /\ Undone(g, rest)
<1>1. ~Stale(g)
  BY DEF Failed
<1>2. \A x \in Places : Move(g, x) => Became(g, x, load[g].kept)
  BY MoveWrites DEF LoadTypes, Became
<1>3. {"held", "retained", "replay"} \subseteq Places
  BY DEF Places, Waiting, Ended
<1>4. CASE load[g].at \in Recovering
  BY <1>2, <1>3, <1>4 DEF Failed, Throw, HoldLocked, Undone, Halted, Effect
<1>5. CASE load[g].at \notin Recovering /\ load[g].kept = NoCheckpoint
  BY <1>2, <1>3, <1>5 DEF Failed, RetainPreviousWorld, Throw, HoldLocked, Resume,
                          Undone, Halted, Resumed, Effect
<1>6. CASE load[g].at \notin Recovering /\ load[g].kept # NoCheckpoint
  BY <1>2, <1>3, <1>6 DEF Failed, Throw, Install, engine, Undone, Unheard, Effect, Bare
<1>7. QED
  BY <1>1, <1>4, <1>5, <1>6

\* Where a stale load ends.
Outlived(at) ==
  IF at \in Recovering THEN "orphaned"
  ELSE IF at \in {"render", "post"} THEN "abandoned" ELSE "superseded"

\* What it does with any answer.
Ignored(g, rest) ==
  /\ Effect(g, Outlived(load[g].at), load[g].kept, surface, rest, committed)
  /\ UNCHANGED <<running, locked>>
  /\ \/ currentMap' = currentMap
     \/ currentMap' = load[g].map /\ load[g].at \notin Recovering

LEMMA SupersededIgnores ==
  ASSUME LoadTypes, NEW g \in Generations, NEW rest, Superseded(g, rest)
  PROVE  Stale(g) /\ Ignored(g, rest)
<1>1. \A x \in Places : Move(g, x) => Became(g, x, load[g].kept)
  BY MoveWrites DEF LoadTypes, Became
<1>2. {"orphaned", "abandoned", "superseded"} \subseteq Places
  BY DEF Places, Ended
<1>3. CASE load[g].at \in Recovering
  BY <1>1, <1>2, <1>3 DEF Superseded, Throw, engine, Ignored, Effect, Outlived,
                          Recovering
<1>4. CASE load[g].at \in {"render", "post"}
  BY <1>1, <1>2, <1>4 DEF Superseded, Return, engine, Ignored, Effect, Outlived,
                          Recovering
<1>5. CASE load[g].at \notin Recovering \cup {"render", "post"}
  BY <1>1, <1>2, <1>5 DEF Superseded, Return, engine, Ignored, Effect, Outlived
<1>6. Stale(g)
  BY DEF Superseded
<1>7. QED
  BY <1>3, <1>4, <1>5, <1>6

-----------------------------------------------------------------------------
(* Type correctness *)

\* The types of the fields of a load, and of what waiting says of it.
LEMMA LoadFields ==
  ASSUME LoadTypes, NEW g \in Generations
  PROVE  /\ load[g] \in LoadRecords /\ load[g].at \in Places
         /\ load[g].map \in Scenes /\ load[g].kept \in Entities
  BY DEF LoadTypes, LoadRecords

LEMMA NoCheckpointType == NoCheckpoint \in Entities /\ NoCheckpoint.map = NoMap
  BY SpawnedType DEF NoCheckpoint

\* An answer writes what belongs there.
LEMMA AnswerTypes ==
  ASSUME TypeOK, NEW g \in Generations, NEW rest \in Seq(Messages),
         NEW payload \in Entities,
         Advanced(g, rest, payload) \/ Undone(g, rest) \/ Ignored(g, rest)
  PROVE  /\ load' \in [Generations -> LoadRecords]
         /\ surface' \in Surfaces /\ committed' \in Scenes
         /\ running' \in BOOLEAN /\ locked' \in BOOLEAN
         /\ queue' \in Seq(Messages) /\ currentMap' \in Scenes
<1>1. /\ LoadTypes /\ surface \in Surfaces /\ committed \in Scenes
      /\ running \in BOOLEAN /\ locked \in BOOLEAN /\ currentMap \in Scenes
  BY DEF TypeOK, LoadTypes, LoadRecords, Places, Scenes, Surfaces
<1>2. load[g].map \in Scenes /\ load[g].kept \in Entities /\ NoMap \in Scenes
  BY <1>1, LoadFields DEF Scenes
<1>3. \A m \in Scenes : Bare(m) \in Surfaces /\ [surface EXCEPT !.drawn = m] \in Surfaces
  BY <1>1 DEF Bare, Surfaces, Scenes
<1>4. \A at \in Asking, m \in Scenes, e \in Entities :
        Append(rest, Message(g, at, m, e)) \in Seq(Messages)
  <2>1. ASSUME NEW at \in Asking, NEW m \in Scenes, NEW e \in Entities
        PROVE  Message(g, at, m, e) \in Messages
    BY MessageType
  <2>2. QED
    BY <2>1
<1>5. {"capture", "post", "repost", "rehydrate"} \subseteq Asking
  BY DEF Asking
<1> DEFINE AllTyped(s, q, m) == /\ s \in Surfaces /\ q \in Seq(Messages) /\ m \in Scenes
<1>6. \A x, k, s, q, m : Effect(g, x, k, s, q, m) /\ AllTyped(s, q, m)
        => /\ load' \in [Generations -> LoadRecords]
           /\ surface' \in Surfaces /\ committed' \in Scenes
           /\ queue' \in Seq(Messages)
  BY DEF Effect, Became
<1>7. ASSUME Advanced(g, rest, payload)
      PROVE  \E x, k, s, q, m : Effect(g, x, k, s, q, m) /\ AllTyped(s, q, m)
  BY <1>1, <1>2, <1>3, <1>4, <1>5, <1>7, NoCheckpointType DEF Advanced
<1>8. ASSUME Undone(g, rest)
      PROVE  \E x, k, s, q, m : Effect(g, x, k, s, q, m) /\ AllTyped(s, q, m)
  BY <1>1, <1>3, <1>8 DEF Undone
<1>9. ASSUME Ignored(g, rest)
      PROVE  \E x, k, s, q, m : Effect(g, x, k, s, q, m) /\ AllTyped(s, q, m)
  BY <1>1, <1>9 DEF Ignored
<1>10. /\ load' \in [Generations -> LoadRecords]
       /\ surface' \in Surfaces /\ committed' \in Scenes
       /\ queue' \in Seq(Messages)
  BY <1>6, <1>7, <1>8, <1>9
<1>11. running' \in BOOLEAN /\ locked' \in BOOLEAN /\ currentMap' \in Scenes
  BY <1>1, <1>2 DEF Advanced, Undone, Ignored, Unheard, Resumed, Halted
<1>12. QED
  BY <1>10, <1>11

\* So does an answer of a load that waits on the main thread or gives a request
\* up: the outcome is one of three.
LEMMA OutcomeTypes ==
  ASSUME TypeOK, NEW g \in Generations, NEW rest \in Seq(Messages),
         NEW payload \in Entities,
         Succeeded(g, rest, payload) \/ Failed(g, rest) \/ Superseded(g, rest)
  PROVE  /\ load' \in [Generations -> LoadRecords]
         /\ surface' \in Surfaces /\ committed' \in Scenes
         /\ running' \in BOOLEAN /\ locked' \in BOOLEAN
         /\ queue' \in Seq(Messages) /\ currentMap' \in Scenes
<1>1. LoadTypes
  BY DEF TypeOK, LoadTypes, LoadRecords, Places, Scenes
<1>2. Advanced(g, rest, payload) \/ Undone(g, rest) \/ Ignored(g, rest)
  BY <1>1, SucceededAdvances, FailedUndoes, SupersededIgnores
<1>3. QED
  BY <1>2, AnswerTypes

\* The type invariant in terms of the sets above.
LEMMA TypePieces ==
  TypeOK <=> /\ generation \in 0..MaxGenerations
             /\ disposed \in BOOLEAN /\ running \in BOOLEAN /\ locked \in BOOLEAN
             /\ committed \in Scenes
             /\ load \in [Generations -> LoadRecords]
             /\ surface \in Surfaces
             /\ queue \in Seq(Messages)
             /\ world \in Worlds
             /\ currentMap \in Scenes
             /\ lived \in Entities
  BY DEF TypeOK, Scenes, LoadRecords, Places, Surfaces, Messages, Worlds

\* What serving a message makes of the worker is a world.
LEMMA ServedType ==
  ASSUME TypeOK, queue # <<>>
  PROVE  /\ Head(queue) \in Messages /\ Tail(queue) \in Seq(Messages)
         /\ Done(Head(queue)) \in Worlds
         /\ Halfway(Head(queue)) \subseteq Worlds
<1>1. queue \in Seq(Messages) /\ world \in Worlds
  BY TypePieces
<1>2. Head(queue) \in Messages /\ Tail(queue) \in Seq(Messages)
  BY <1>1, HeadTailProperties
<1> DEFINE n == Head(queue)
<1>3. n.map \in Scenes /\ n.payload \in Entities
  BY <1>2 DEF Messages
<1> HIDE DEF n
<1>4. Spawned(n.map) \in Entities /\ Spawned(Torn) \in Entities
  BY <1>3, SpawnedType DEF Scenes
<1>5. \A e \in Entities : [world EXCEPT !.entities = e] \in Worlds
  BY <1>1 DEF Worlds
<1>6. Done(n) \in Worlds
  BY <1>1, <1>3, <1>4, <1>5 DEF Done, Worlds
<1>7. Halfway(n) \subseteq Worlds
  BY <1>1, <1>4, <1>5 DEF Halfway
<1>8. QED
  BY <1>2, <1>6, <1>7 DEF n

\* Serving a message is delivering it, and an answer to whoever waits for it.
LEMMA ServeCases ==
  ASSUME Serve
  PROVE  LET n == Head(queue)
             waited == n.at \in Asking /\ load[n.by].at = n.at
             rest == Tail(queue) IN
         /\ queue # <<>>
         /\ \/ world' = Done(n)
            \/ n.at # "restore" /\ world' \in Halfway(n)
         /\ waited => \/ world' = Done(n) /\ Succeeded(n.by, rest, world.entities)
                      \/ Failed(n.by, rest)
                      \/ Superseded(n.by, rest)
         /\ ~waited => /\ queue' = rest
                       /\ UNCHANGED <<load, surface, running, locked, committed,
                                      currentMap>>
         /\ lived' = IF n.at = "restore" THEN n.payload ELSE lived
         /\ UNCHANGED <<generation, disposed>>
  BY DEF Serve, engine

\* Every step keeps the types.
LEMMA TypeStep ==
  ASSUME TypeOK, [Next]_vars
  PROVE  TypeOK'
<1> DEFINE Goal == /\ generation' \in 0..MaxGenerations
                   /\ disposed' \in BOOLEAN /\ running' \in BOOLEAN
                   /\ locked' \in BOOLEAN
                   /\ committed' \in Scenes
                   /\ load' \in [Generations -> LoadRecords]
                   /\ surface' \in Surfaces
                   /\ queue' \in Seq(Messages)
                   /\ world' \in Worlds
                   /\ currentMap' \in Scenes
                   /\ lived' \in Entities
<1>1. /\ generation \in 0..MaxGenerations /\ MaxGenerations \in Nat
      /\ disposed \in BOOLEAN /\ running \in BOOLEAN /\ locked \in BOOLEAN
      /\ committed \in Scenes
      /\ load \in [Generations -> LoadRecords]
      /\ surface \in Surfaces
      /\ queue \in Seq(Messages)
      /\ world \in Worlds
      /\ currentMap \in Scenes
      /\ lived \in Entities
  BY TypePieces, SceneAssumption
<1>2. world.entities \in Entities /\ NoMap \in Scenes
  BY <1>1 DEF Worlds, Scenes
<1>3. generation < MaxGenerations => /\ generation + 1 \in Generations
                                     /\ generation + 1 \in 0..MaxGenerations
  BY <1>1 DEF Generations
<1>4. ASSUME NEW ld \in [Generations -> LoadRecords], NEW g \in Generations,
             NEW x \in {"restore", "dispose"}
      PROVE  [ld EXCEPT ![g].at = x] \in [Generations -> LoadRecords]
  BY DEF LoadRecords, Places
<1>5. ASSUME NEW m \in Maps, NEW follow \in BOOLEAN, StartLoad(m, follow)
      PROVE  Goal
  <2>1. [at |-> "prepare", map |-> m, kept |-> NoCheckpoint, follow |-> follow]
          \in LoadRecords
    BY NoCheckpointType DEF LoadRecords, Places, Waiting, Scenes
  <2>2. load' \in [Generations -> LoadRecords]
    BY <1>1, <2>1, <1>5 DEF StartLoad
  <2>3. QED
    BY <1>1, <1>2, <1>3, <1>5, <2>2 DEF StartLoad
<1>6. ASSUME RestoreWorld PROVE Goal
  <2>1. Message(generation + 1, "restore", NoMap, Spawned(Save)) \in Messages
    BY <1>2, <1>3, <1>6, MessageType, SpawnedType DEF RestoreWorld, Invalidate
  <2>2. queue' \in Seq(Messages)
    BY <1>1, <1>6, <2>1 DEF RestoreWorld
  <2>3. QED
    BY <1>1, <1>3, <1>4, <1>6, <2>2 DEF RestoreWorld, Invalidate, engine
<1>7. ASSUME NEW g \in Generations, RestorePlayer(g) PROVE Goal
  <2>1. [load EXCEPT ![g].follow = FALSE] \in [Generations -> LoadRecords]
    BY <1>1 DEF LoadRecords
  <2> DEFINE quit == [load EXCEPT ![g].follow = FALSE]
  <2>2. load' = [quit EXCEPT ![generation + 1].at = "restore"]
    BY <1>7 DEF RestorePlayer
  <2> HIDE DEF quit
  <2>3. load' \in [Generations -> LoadRecords]
    <3>1. quit \in [Generations -> LoadRecords] /\ generation + 1 \in Generations
      BY <1>3, <1>7, <2>1 DEF quit, RestorePlayer
    <3>2. QED
      BY <1>4, <2>2, <3>1
  <2>4. QED
    BY <1>1, <1>3, <1>7, <2>3 DEF RestorePlayer, engine
<1>8. ASSUME Dispose PROVE Goal
  <2>1. /\ generation + 1 \in Generations /\ generation' = generation + 1
        /\ load' = [load EXCEPT ![generation + 1].at = "dispose"]
    BY <1>3, <1>8 DEF Dispose, Invalidate
  <2>2. load' \in [Generations -> LoadRecords]
    BY <1>1, <1>4, <2>1
  <2>3. queue' \in Seq(Messages)
    BY <1>8, EmptySeq DEF Dispose
  <2>4. QED
    BY <1>1, <1>2, <1>3, <1>8, <2>1, <2>2, <2>3 DEF Dispose, Invalidate
<1>9. ASSUME Play PROVE Goal
  <2>1. [world EXCEPT !.entities.plays = @ + 1] \in Worlds
    BY <1>1, <1>9, SceneAssumption DEF Play, Worlds, Entities
  <2>2. QED
    BY <1>1, <1>9, <2>1 DEF Play, engine
<1>10. ASSUME NEW g \in Generations, Local(g) \/ Lost(g) PROVE Goal
  BY <1>1, <1>10, OutcomeTypes, NoCheckpointType DEF Local, Lost
<1>11. ASSUME Serve PROVE Goal
  <2> DEFINE n == Head(queue)
             rest == Tail(queue)
  <2>1. /\ n \in Messages /\ rest \in Seq(Messages) /\ world' \in Worlds
    BY <1>11, ServeCases, ServedType
  <2>2. n.by \in Generations /\ n.payload \in Entities
    BY <2>1 DEF Messages
  <2>3. \/ Succeeded(n.by, rest, world.entities)
        \/ Failed(n.by, rest)
        \/ Superseded(n.by, rest)
        \/ queue' = rest /\ UNCHANGED <<load, surface, running, locked, committed,
                                        currentMap>>
    BY <1>11, ServeCases
  <2>4. lived' \in Entities /\ UNCHANGED <<generation, disposed>>
    BY <1>1, <1>11, <2>2, ServeCases
  <2> HIDE DEF n, rest
  <2>5. QED
    BY <1>1, <1>2, <2>1, <2>2, <2>3, <2>4, OutcomeTypes
<1>12. CASE UNCHANGED vars
  BY <1>1, <1>12 DEF vars, engine, TypeOK, Scenes, LoadRecords, Places, Surfaces,
                     Messages, Worlds
<1>13. Goal => TypeOK'
  BY DEF TypeOK, Scenes, LoadRecords, Places, Surfaces, Messages, Worlds
<1> HIDE DEF Goal
<1>14. QED
  BY <1>5, <1>6, <1>7, <1>8, <1>9, <1>10, <1>11, <1>12, <1>13 DEF Next

\* The state of a transition is always well typed.
THEOREM TypeCorrect == Spec => []TypeOK
<1>1. Init => TypeOK
  <2>1. Spawned(NoMap) \in Entities
    BY SpawnedType
  <2>2. NoLoad \in LoadRecords
    BY NoCheckpointType DEF NoLoad, LoadRecords, Places, Scenes
  <2>3. Init => /\ generation \in 0..MaxGenerations
                /\ load \in [Generations -> LoadRecords]
                /\ queue \in Seq(Messages)
    BY <2>2, SceneAssumption DEF Init
  <2>4. Init => /\ world \in Worlds /\ lived \in Entities /\ surface \in Surfaces
                /\ committed \in Scenes /\ currentMap \in Scenes
    BY <2>1 DEF Init, Worlds, Surfaces, Scenes
  <2>5. QED
    BY <2>3, <2>4, TypePieces DEF Init
<1>2. TypeOK /\ [Next]_vars => TypeOK'
  BY TypeStep
<1>3. QED
  BY <1>1, <1>2, PTL DEF Spec

-----------------------------------------------------------------------------
(* The invariant: what the newest transition and the worker's queue say of    *)
(* each other.  Its parts take the state they speak of as arguments, so that   *)
(* they can be stated of the moment between a message and its answer.          *)

\* The newest transition.
Now(gen, ld) == IF gen = 0 THEN NoLoad ELSE ld[gen]

\* Where a load stands that has torn the scene down, and not put it up again.
Tearing == {"render", "post", "abandoned", "orphaned", "held"} \cup Recovering

\* Messages that write the worker's world for a load.
Writing == {"post", "repost", "rehydrate"}

\* Loads whose caller was told nothing.
Unaware == {"superseded", "abandoned"}

\* The order in which a load sends its messages, and how far it has come.
Stage(at) ==
  CASE at = "prepare" -> 0
    [] at \in {"capture", "render"} -> 1
    [] at \in {"post", "replay"} -> 2
    [] at = "repost" -> 3
    [] OTHER -> 4

Undercut(gen, ld) ==
  \E g \in Generations :
     /\ g # gen
     /\ ld[g].at \in Tearing
     /\ \A h \in Generations : h > g => ld[h].at # "live"

\* Messages come in the order of their senders, then of their stages.
After(m, n) == m.by < n.by \/ (m.by = n.by /\ Stage(m.at) < Stage(n.at))
InOrder(q) == \A i, j \in 1..Len(q) : i < j => After(q[i], q[j])

\* A message's sender is no newer than the newest transition, was not overtaken
\* by a load that completed, and stands where it may have sent it.
Placed(n, gen, ld) ==
  /\ n.by <= gen
  /\ n.by = gen /\ Now(gen, ld).at \in Waiting =>
       Stage(n.at) <= Stage(Now(gen, ld).at)
  /\ n.at \in Writing => ld[n.by].at \in Tearing
  /\ \A h \in Generations : ld[h].at = "live" => h < n.by

\* It carries the map or the entities its sender holds.
Carries(n, gen, ld, com) ==
  /\ n.at = "post" => n.map = ld[n.by].map /\ n.map \in Maps
  /\ n.at = "repost" => n.map \in Maps /\ (n.by = gen => n.map = com)
  /\ n.at = "rehydrate" => n.payload.map # NoMap /\ n.payload = ld[n.by].kept
  /\ n.at = "restore" => n.payload = Spawned(Save)

Sent(q, gen, ld, com) ==
  /\ InOrder(q)
  /\ \A i \in 1..Len(q) : Placed(q[i], gen, ld) /\ Carries(q[i], gen, ld, com)

\* The engine waits while the newest transition does, and is held when it is.
Driven(gen, ld, dis, run, lock) ==
  /\ \A g \in Generations : g > gen => ld[g] = NoLoad
  /\ gen > 0 => Now(gen, ld).at # "none"
  /\ Now(gen, ld).at \notin {"superseded", "abandoned", "orphaned"}
  /\ Now(gen, ld).at \in Waiting \cup {"held"} => run = FALSE /\ lock = TRUE
  /\ dis = TRUE => run = FALSE /\ Now(gen, ld).at = "dispose"

\* What the newest transition holds to go back to.
Prepared(gen, ld, com) ==
  LET now == Now(gen, ld) IN
  /\ \A g \in Generations : ld[g].at \in Waiting => ld[g].map \in Maps
  /\ now.at \in {"prepare", "capture"} => now.kept = NoCheckpoint
  /\ now.at \in {"render", "post"} => (now.kept = NoCheckpoint <=> com = NoMap)
  /\ now.at \in {"capture"} \cup Recovering => com # NoMap
  /\ now.at \in Recovering => now.kept # NoCheckpoint
  /\ now.at \in Waiting /\ now.kept # NoCheckpoint => now.kept.map # NoMap

\* What is installed and drawn while it waits.
Shown(gen, ld, com, sf) ==
  LET now == Now(gen, ld) IN
  /\ now.at = "render" => sf = Bare(now.map)
  /\ now.at = "post" => sf = [grid |-> now.map, drawn |-> now.map]
  /\ now.at = "replay" => sf = Bare(com)
  /\ now.at \in {"repost", "rehydrate"} => sf = [grid |-> com, drawn |-> com]

\* What the worker simulates, and what is still on its way to it.
Simulated(q, w, gen, ld, com) ==
  LET now == Now(gen, ld) IN
  /\ com # NoMap => w.entities.map # NoMap
  /\ now.at = "rehydrate" => /\ w.grid = com
                             /\ \A i \in 1..Len(q) : q[i].at = "rehydrate"
  /\ now.at \in Waiting /\ now.kept # NoCheckpoint =>
       \A i \in 1..Len(q) : q[i].by = gen

WholeAs(sf, w, com) ==
  /\ sf = [grid |-> com, drawn |-> com]
  /\ w.grid = com
  /\ w.entities.map \in {com, Save}

\* With no torn scene left behind by an older load, the world is whole until the
\* newest tears it down, and the checkpoint it then holds is of a whole world.
Sane(gen, ld, dis, com, sf, run, w, lv) ==
  LET now == Now(gen, ld) IN
  ~Undercut(gen, ld) /\ dis = FALSE =>
    /\ now.at \notin Tearing => /\ WholeAs(sf, w, com)
                                /\ run = FALSE => w.entities = lv
    /\ now.at \in Waiting /\ now.kept # NoCheckpoint =>
         now.kept.map \in {com, Save} /\ now.kept = lv

\* The caller's map is the committed one unless somebody was told nothing.
Named(ld, dis, com, cur) ==
  dis = FALSE /\ (\A g \in Generations : ld[g].at \notin Unaware) => cur = com

Consistent(gen, ld, dis, com, sf, run, lock, q, w, cur, lv) ==
  /\ Sent(q, gen, ld, com)
  /\ Driven(gen, ld, dis, run, lock)
  /\ Prepared(gen, ld, com)
  /\ Shown(gen, ld, com, sf)
  /\ Simulated(q, w, gen, ld, com)
  /\ Sane(gen, ld, dis, com, sf, run, w, lv)
  /\ Named(ld, dis, com, cur)

\* The inductive invariant.
Tidy == Consistent(generation, load, disposed, committed, surface, running,
                   locked, queue, world, currentMap, lived)

-----------------------------------------------------------------------------
(* The queue *)

LEMMA StageType ==
  ASSUME NEW at
  PROVE  Stage(at) \in 0..4
  BY DEF Stage

LEMMA StageValues ==
  /\ Stage("prepare") = 0
  /\ Stage("capture") = 1 /\ Stage("render") = 1
  /\ Stage("post") = 2 /\ Stage("replay") = 2
  /\ Stage("repost") = 3 /\ Stage("rehydrate") = 4
  BY DEF Stage

\* What is left of the queue once its head is served.
LEMMA TailKeeps ==
  ASSUME NEW q \in Seq(Messages), q # <<>>, NEW gen, NEW ld, NEW com,
         Sent(q, gen, ld, com)
  PROVE  /\ Sent(Tail(q), gen, ld, com)
         /\ Placed(Head(q), gen, ld) /\ Carries(Head(q), gen, ld, com)
         /\ \A i \in 1..Len(Tail(q)) :
              /\ Tail(q)[i] \in Messages
              /\ Placed(Tail(q)[i], gen, ld) /\ After(Head(q), Tail(q)[i])
              /\ i + 1 \in 1..Len(q) /\ Tail(q)[i] = q[i + 1]
<1> DEFINE t == Tail(q)
<1>1. /\ t \in Seq(Messages) /\ Len(t) = Len(q) - 1 /\ Len(q) \in Nat /\ Len(q) # 0
      /\ \A i \in 1..Len(t) : t[i] = q[i + 1]
      /\ Head(q) = q[1]
  BY HeadTailProperties, EmptySeq, LenProperties
<1> HIDE DEF t
<1>2. 1 \in 1..Len(q) /\ \A i \in 1..Len(t) : i + 1 \in 1..Len(q)
  BY <1>1
<1>3. Placed(Head(q), gen, ld) /\ Carries(Head(q), gen, ld, com)
  BY <1>1, <1>2 DEF Sent
<1>4. \A i \in 1..Len(t) : Placed(t[i], gen, ld) /\ Carries(t[i], gen, ld, com)
  BY <1>1, <1>2 DEF Sent
<1>5. \A i \in 1..Len(t) : After(Head(q), t[i])
  BY <1>1, <1>2 DEF Sent, InOrder
<1>6. InOrder(t)
  <2>1. \A i, j \in 1..Len(t) : i < j => After(q[i + 1], q[j + 1])
    BY <1>1, <1>2 DEF Sent, InOrder
  <2>2. QED
    BY <1>1, <2>1 DEF InOrder
<1>7. \A i \in 1..Len(t) : t[i] \in Messages
  BY <1>1, ElementOfSeq
<1>8. QED
  BY <1>1, <1>2, <1>3, <1>4, <1>5, <1>6, <1>7 DEF Sent, t

\* A message the newest transition waits for is the last on its way.
LEMMA NothingBehind ==
  ASSUME NEW q \in Seq(Messages), q # <<>>,
         NEW gen \in Generations, NEW ld \in [Generations -> LoadRecords], NEW com,
         Sent(q, gen, ld, com),
         Head(q).by = gen, Now(gen, ld).at = Head(q).at, Head(q).at \in Waiting
  PROVE  Tail(q) = <<>>
<1> DEFINE t == Tail(q)
<1>1. t \in Seq(Messages)
  BY HeadTailProperties
<1>2. \A i \in 1..Len(t) : Placed(t[i], gen, ld) /\ After(Head(q), t[i]) /\ t[i] \in Messages
  BY TailKeeps
<1>3. gen \in Nat
  BY SceneAssumption DEF Generations
<1>4. \A i \in 1..Len(t) : t[i].by \in Nat
  BY <1>2, SceneAssumption DEF Messages, Generations
<1> HIDE DEF t
<1>5. ASSUME NEW i \in 1..Len(t) PROVE FALSE
  <2>1. Placed(t[i], gen, ld) /\ After(Head(q), t[i]) /\ t[i].by \in Nat
    BY <1>2, <1>4
  <2>2. t[i].by <= gen /\ (t[i].by = gen => Stage(t[i].at) <= Stage(Head(q).at))
    BY <2>1 DEF Placed
  <2>3. gen < t[i].by \/ (gen = t[i].by /\ Stage(Head(q).at) < Stage(t[i].at))
    BY <2>1 DEF After
  <2>4. Stage(t[i].at) \in 0..4 /\ Stage(Head(q).at) \in 0..4
    BY StageType
  <2>5. QED
    BY <1>3, <2>1, <2>2, <2>3, <2>4
<1>6. Len(t) \in Nat /\ (Len(t) = 0 => t = <<>>)
  BY <1>1, EmptySeq, LenProperties
<1>7. QED
  BY <1>5, <1>6 DEF t

\* An empty queue is in order.
LEMMA EmptySent ==
  ASSUME NEW gen, NEW ld, NEW com
  PROVE  Sent(<<>>, gen, ld, com)
  BY DEF Sent, InOrder

\* A message put behind the others keeps the order.
LEMMA AppendSent ==
  ASSUME NEW q \in Seq(Messages), NEW n \in Messages, NEW gen, NEW ld, NEW com,
         Sent(q, gen, ld, com), Placed(n, gen, ld), Carries(n, gen, ld, com),
         \A i \in 1..Len(q) : After(q[i], n)
  PROVE  Sent(Append(q, n), gen, ld, com)
<1> DEFINE t == Append(q, n)
<1>1. /\ Len(q) \in Nat /\ Len(t) = Len(q) + 1
      /\ \A i \in 1..Len(q) : t[i] = q[i]
      /\ t[Len(q) + 1] = n
  BY AppendProperties, LenProperties
<1> HIDE DEF t
<1>2. \A i \in 1..Len(t) : i \in 1..Len(q) \/ i = Len(q) + 1
  BY <1>1
<1>3. \A i \in 1..Len(t) : Placed(t[i], gen, ld) /\ Carries(t[i], gen, ld, com)
  BY <1>1, <1>2 DEF Sent
<1>4. InOrder(t)
  <2> SUFFICES ASSUME NEW i \in 1..Len(t), NEW j \in 1..Len(t), i < j
               PROVE  After(t[i], t[j])
    BY DEF InOrder
  <2>1. i \in 1..Len(q)
    BY <1>1
  <2>2. CASE j \in 1..Len(q)
    BY <1>1, <2>1, <2>2 DEF Sent, InOrder
  <2>3. CASE j = Len(q) + 1
    BY <1>1, <2>1, <2>3
  <2>4. QED
    BY <1>2, <2>2, <2>3
<1>5. QED
  BY <1>3, <1>4 DEF Sent, t

\* A load that goes on, and does not complete, leaves the queue in order.
LEMMA MoveSent ==
  ASSUME NEW gen \in 0..MaxGenerations, NEW com, NEW q \in Seq(Messages),
         NEW ld \in [Generations -> LoadRecords],
         NEW ld2 \in [Generations -> LoadRecords],
         NEW g \in Generations,
         Sent(q, gen, ld, com),
         ld[g].at \in Waiting,
         ld2[g].map = ld[g].map,
         \A h \in Generations : h # g => ld2[h] = ld[h],
         ld[g].at \in Tearing => ld2[g].at \in Tearing,
         ld2[g].at # "live",
         ld2[g].at \in Waiting => g = gen /\ Stage(ld[g].at) <= Stage(ld2[g].at),
         ld2[g].kept = ld[g].kept \/ ld[g].at \notin Tearing
  PROVE  Sent(q, gen, ld2, com)
<1>1. ASSUME NEW n \in Messages, Placed(n, gen, ld), Carries(n, gen, ld, com)
      PROVE  Placed(n, gen, ld2) /\ Carries(n, gen, ld2, com)
  <2>1. n.by \in Generations /\ n.by # 0
    BY SceneAssumption DEF Messages, Generations
  <2>2. n.by <= gen
    BY <1>1 DEF Placed
  <2>3. n.by = gen /\ Now(gen, ld2).at \in Waiting
          => Stage(n.at) <= Stage(Now(gen, ld2).at)
    <3> SUFFICES ASSUME n.by = gen, Now(gen, ld2).at \in Waiting
                 PROVE  Stage(n.at) <= Stage(Now(gen, ld2).at)
      OBVIOUS
    <3>1. gen \in Generations /\ Now(gen, ld) = ld[gen] /\ Now(gen, ld2) = ld2[gen]
      BY <2>1 DEF Now
    <3>2. CASE g = gen
      <4>1. Stage(n.at) <= Stage(ld[g].at)
        BY <1>1, <3>1, <3>2 DEF Placed
      <4>2. Stage(ld[g].at) <= Stage(ld2[g].at)
        BY <3>1, <3>2
      <4>3. Stage(n.at) \in 0..4 /\ Stage(ld[g].at) \in 0..4 /\ Stage(ld2[g].at) \in 0..4
        BY StageType
      <4>4. QED
        BY <3>1, <3>2, <4>1, <4>2, <4>3
    <3>3. CASE g # gen
      BY <1>1, <3>1, <3>3 DEF Placed
    <3>4. QED
      BY <3>2, <3>3
  <2>4. n.at \in Writing => ld2[n.by].at \in Tearing
    BY <1>1, <2>1 DEF Placed
  <2>5. \A h \in Generations : ld2[h].at = "live" => h < n.by
    BY <1>1 DEF Placed
  <2>6. ld2[n.by].map = ld[n.by].map
    BY <2>1
  <2>7. n.at = "rehydrate" => ld2[n.by].kept = ld[n.by].kept
    BY <1>1, <2>1 DEF Placed, Writing
  <2>8. Carries(n, gen, ld2, com)
    BY <1>1, <2>6, <2>7 DEF Carries
  <2>9. QED
    BY <2>2, <2>3, <2>4, <2>5, <2>8 DEF Placed
<1>2. \A i \in 1..Len(q) : q[i] \in Messages
  BY ElementOfSeq
<1>3. QED
  BY <1>1, <1>2 DEF Sent

\* What the newest transition asks next belongs behind everything that is sent.
LEMMA AskSent ==
  ASSUME NEW gen \in Generations, NEW com, NEW q \in Seq(Messages),
         NEW ld \in [Generations -> LoadRecords], NEW old, NEW n \in Messages,
         Sent(q, gen, ld, com),
         \A i \in 1..Len(q) : q[i].by = gen => Stage(q[i].at) <= Stage(old),
         n.by = gen, Stage(old) < Stage(n.at),
         Stage(n.at) <= Stage(ld[gen].at),
         n.at \in Writing => ld[gen].at \in Tearing,
         ld[gen].at # "live",
         \A h \in Generations : h > gen => ld[h].at # "live",
         Carries(n, gen, ld, com)
  PROVE  Sent(Append(q, n), gen, ld, com)
<1>1. gen \in Nat /\ gen # 0 /\ \A h \in Generations : h \in Nat
  BY SceneAssumption DEF Generations
<1>2. Placed(n, gen, ld)
  <2>1. Now(gen, ld) = ld[gen]
    BY <1>1 DEF Now
  <2>2. \A h \in Generations : ld[h].at = "live" => h < gen
    BY <1>1
  <2>3. QED
    BY <1>1, <2>1, <2>2 DEF Placed
<1>3. ASSUME NEW i \in 1..Len(q) PROVE After(q[i], n)
  <2>1. q[i] \in Messages /\ Placed(q[i], gen, ld)
    BY ElementOfSeq DEF Sent
  <2>2. q[i].by \in Nat /\ q[i].by <= gen
    BY <1>1, <2>1 DEF Placed, Messages
  <2>3. q[i].by = gen => Stage(q[i].at) < Stage(n.at)
    <3>1. Stage(q[i].at) \in 0..4 /\ Stage(old) \in 0..4 /\ Stage(n.at) \in 0..4
      BY StageType
    <3>2. q[i].by = gen => Stage(q[i].at) <= Stage(old)
      OBVIOUS
    <3> QED
      BY <3>1, <3>2
  <2>4. QED
    BY <1>1, <2>2, <2>3 DEF After
<1>4. QED
  BY <1>2, <1>3, AppendSent

-----------------------------------------------------------------------------
(* What an answer leaves in order: first the queue.  `rest` is the queue the   *)
(* answer finds, without the message it answers.                               *)

\* A load that went stale has an age; one that did not is the newest.
LEMMA Newest ==
  ASSUME TypeOK, NEW g \in Generations, ~Stale(g)
  PROVE  /\ g = generation /\ disposed = FALSE
         /\ Now(generation, load) = load[g]
         /\ \A ld : Now(generation, ld) = ld[g]
  BY SceneAssumption DEF TypeOK, Stale, Now, Generations

\* Behind the newest transition's messages there is room for the next.
LEMMA RoomBehind ==
  ASSUME NEW q, NEW gen, NEW ld, NEW com, Sent(q, gen, ld, com),
         Now(gen, ld).at \in Waiting
  PROVE  \A i \in 1..Len(q) :
           q[i].by = gen => Stage(q[i].at) <= Stage(Now(gen, ld).at)
  BY DEF Sent, Placed

\* Nobody newer has completed.
LEMMA NobodyNewer ==
  ASSUME NEW gen, NEW ld, NEW dis, NEW run, NEW lock, Driven(gen, ld, dis, run, lock)
  PROVE  \A h \in Generations : h > gen => ld[h].at = "none"
  BY DEF Driven, NoLoad

LEMMA AdvancedSent ==
  ASSUME TypeOK, NEW g \in Generations, ~Stale(g),
         NEW rest \in Seq(Messages), NEW payload \in Entities,
         load[g].at \in Waiting, load[g].at \in Asking => rest = <<>>,
         Sent(rest, generation, load, committed),
         Driven(generation, load, disposed, running, locked),
         Prepared(generation, load, committed),
         Advanced(g, rest, payload)
  PROVE  Sent(queue', generation, load', committed')
<1>1. /\ g = generation /\ generation \in 0..MaxGenerations
      /\ \A ld : Now(generation, ld) = ld[g]
      /\ load \in [Generations -> LoadRecords] /\ committed \in Scenes
  BY Newest, TypePieces
<1>2. \A h \in Generations : h > generation => load[h].at = "none"
  BY NobodyNewer
<1>3. /\ load[g].map \in Maps
      /\ load[g].kept \in Entities /\ NoMap \in Scenes /\ Maps \subseteq Scenes
      /\ load[g].at \in Recovering => committed \in Maps
      /\ load[g].at \in Recovering => load[g].kept.map # NoMap
  BY <1>1, LoadFields DEF Prepared, Scenes, LoadTypes, Waiting, Recovering
<1>4. Stage("prepare") = 0 /\ Stage("capture") = 1 /\ Stage("render") = 1
      /\ Stage("post") = 2 /\ Stage("replay") = 2
      /\ Stage("repost") = 3 /\ Stage("rehydrate") = 4
  BY StageValues
<1>5. \A i \in 1..Len(rest) :
        rest[i].by = generation => Stage(rest[i].at) <= Stage(load[g].at)
  BY <1>1, RoomBehind
<1>6. ASSUME NEW x, NEW k, Became(g, x, k), load[g].at \notin Tearing \/ x \in Tearing,
             x # "live", x \in Waiting => Stage(load[g].at) <= Stage(x),
             k = load[g].kept \/ load[g].at \notin Tearing
      PROVE  Sent(rest, generation, load', committed)
  BY <1>1, <1>6, MoveSent DEF Became
<1>7. ASSUME NEW at \in {"capture", "post", "repost", "rehydrate"},
             NEW m \in Scenes, NEW e \in Entities, NEW k,
             Became(g, at, k), Sent(rest, generation, load', committed),
             \A i \in 1..Len(rest) :
               rest[i].by = generation => Stage(rest[i].at) <= Stage(load[g].at),
             Stage(load[g].at) < Stage(at),
             queue' = Append(rest, Message(g, at, m, e)), committed' = committed,
             Carries(Message(g, at, m, e), generation, load', committed)
      PROVE  Sent(queue', generation, load', committed')
  <2> DEFINE n == Message(g, at, m, e)
  <2>1. n \in Messages /\ n.by = g /\ n.at = at
    BY MessageType DEF Asking
  <2>2. Carries(n, generation, load', committed) /\ queue' = Append(rest, n)
    BY <1>7
  <2> HIDE DEF n
  <2>3. load' \in [Generations -> LoadRecords] /\ load'[g].at = at
        /\ \A h \in Generations : h > generation => load'[h].at # "live"
    BY <1>1, <1>2, <1>7 DEF Became
  <2>4. at \in Writing => at \in Tearing
    BY DEF Writing, Tearing, Recovering
  <2>5. Stage(at) \in 0..4 /\ at # "live"
    BY StageType
  <2>6. Sent(Append(rest, n), generation, load', committed)
    BY <1>1, <1>7, <2>1, <2>2, <2>3, <2>4, <2>5, AskSent
  <2>7. QED
    BY <1>7, <2>2, <2>6
<1>8. CASE load[g].at \in {"capture", "post", "rehydrate"}
  <2>1. queue' = <<>>
    BY <1>8 DEF Advanced, Effect, Asking
  <2>2. QED
    BY <2>1, EmptySent
<1>9. CASE load[g].at = "prepare" /\ committed = NoMap
  <2>1. /\ Became(g, "render", load[g].kept)
        /\ queue' = rest /\ committed' = committed
    BY <1>9 DEF Advanced, Effect
  <2>2. Sent(rest, generation, load', committed)
    BY <1>4, <1>6, <1>9, <2>1 DEF Tearing, Recovering
  <2>3. QED
    BY <2>1, <2>2
<1>10. CASE load[g].at = "prepare" /\ committed # NoMap
  <2>1. /\ Became(g, "capture", load[g].kept)
        /\ queue' = Append(rest, Message(g, "capture", NoMap, NoCheckpoint))
        /\ committed' = committed
    BY <1>10 DEF Advanced, Effect
  <2>2. Sent(rest, generation, load', committed)
    BY <1>4, <1>6, <1>10, <2>1 DEF Tearing, Recovering
  <2>3. Carries(Message(g, "capture", NoMap, NoCheckpoint), generation, load', committed)
    BY DEF Carries, Message
  <2>4. QED
    BY <1>3, <1>4, <1>5, <1>7, <1>10, <2>1, <2>2, <2>3, NoCheckpointType
<1>11. CASE load[g].at = "render"
  <2> DEFINE m == load[g].map
  <2>1. /\ Became(g, "post", load[g].kept)
        /\ queue' = Append(rest, Message(g, "post", m, NoCheckpoint))
        /\ committed' = committed
    BY <1>11 DEF Advanced, Effect
  <2>2. Sent(rest, generation, load', committed)
    BY <1>4, <1>6, <1>11, <2>1 DEF Tearing, Recovering
  <2>3. m \in Maps /\ load'[g].map = m
    BY <1>3, <2>1 DEF Became
  <2> HIDE DEF m
  <2>4. Carries(Message(g, "post", m, NoCheckpoint), generation, load', committed)
    BY <2>3 DEF Carries, Message
  <2>5. QED
    BY <1>3, <1>4, <1>5, <1>7, <1>11, <2>1, <2>2, <2>3, <2>4, NoCheckpointType
<1>12. CASE load[g].at = "replay"
  <2>1. /\ Became(g, "repost", load[g].kept)
        /\ queue' = Append(rest, Message(g, "repost", committed, NoCheckpoint))
        /\ committed' = committed
    BY <1>12 DEF Advanced, Effect
  <2>2. Sent(rest, generation, load', committed)
    BY <1>4, <1>6, <1>12, <2>1 DEF Tearing, Recovering
  <2>3. committed \in Maps
    BY <1>3, <1>12 DEF Recovering
  <2>4. Carries(Message(g, "repost", committed, NoCheckpoint), generation, load', committed)
    BY <2>3 DEF Carries, Message
  <2>5. QED
    BY <1>3, <1>4, <1>5, <1>7, <1>12, <2>1, <2>2, <2>3, <2>4, NoCheckpointType
<1>13. CASE load[g].at = "repost"
  <2> DEFINE k == load[g].kept
  <2>1. /\ Became(g, "rehydrate", k)
        /\ queue' = Append(rest, Message(g, "rehydrate", NoMap, k))
        /\ committed' = committed
    BY <1>13 DEF Advanced, Effect
  <2>2. Sent(rest, generation, load', committed)
    BY <1>4, <1>6, <1>13, <2>1 DEF Tearing, Recovering
  <2>3. k.map # NoMap /\ load'[g].kept = k /\ k \in Entities
    BY <1>3, <1>13, <2>1 DEF Became, Recovering
  <2> HIDE DEF k
  <2>4. Carries(Message(g, "rehydrate", NoMap, k), generation, load', committed)
    BY <2>3 DEF Carries, Message
  <2>5. QED
    BY <1>3, <1>4, <1>5, <1>7, <1>13, <2>1, <2>2, <2>3, <2>4
<1>14. QED
  BY <1>8, <1>9, <1>10, <1>11, <1>12, <1>13 DEF Waiting, Asking

\* A failure before the teardown has nothing to undo; one behind it has a
\* checkpoint, unless nothing was committed.
LEMMA FailureStands ==
  ASSUME TypeOK, NEW g \in Generations, ~Stale(g), load[g].at \in Waiting,
         Prepared(generation, load, committed)
  PROVE  /\ load[g].at \in {"prepare", "capture"} => load[g].kept = NoCheckpoint
         /\ load[g].at \in {"render", "post"} =>
              (load[g].kept = NoCheckpoint <=> committed = NoMap)
  BY Newest DEF Prepared

LEMMA UndoneSent ==
  ASSUME TypeOK, NEW g \in Generations, ~Stale(g), NEW rest \in Seq(Messages),
         load[g].at \in Waiting,
         Sent(rest, generation, load, committed),
         Prepared(generation, load, committed),
         Undone(g, rest)
  PROVE  Sent(queue', generation, load', committed')
<1>1. /\ g = generation /\ generation \in 0..MaxGenerations
      /\ load \in [Generations -> LoadRecords]
  BY Newest, TypePieces
<1>2. queue' = rest /\ committed' = committed
  BY DEF Undone, Effect
<1>3. PICK x \in {"held", "retained", "replay"} :
        /\ Became(g, x, load[g].kept)
        /\ x = "retained" => load[g].at \notin Tearing
        /\ x = "replay" => load[g].at \in {"render", "post"}
  BY FailureStands DEF Undone, Effect, Tearing, Waiting, Asking, Recovering
<1>4. /\ load[g].at \in Tearing => x \in Tearing
      /\ x # "live"
      /\ x \in Waiting => x = "replay"
  BY <1>3 DEF Tearing, Recovering, Waiting, Asking
<1>5. x = "replay" => Stage(load[g].at) <= Stage(x)
  BY <1>3, StageValues
<1>6. Sent(rest, generation, load', committed)
  BY <1>1, <1>3, <1>4, <1>5, MoveSent DEF Became
<1>7. QED
  BY <1>2, <1>6

\* Who waits although stale is not the newest, and not where it went.
LEMMA Overtaken ==
  ASSUME TypeOK, NEW g \in Generations, Stale(g), load[g].at \in Waiting,
         Driven(generation, load, disposed, running, locked)
  PROVE  /\ g # generation
         /\ Outlived(load[g].at) \in {"orphaned", "abandoned", "superseded"}
         /\ Outlived(load[g].at) \in Tearing <=> load[g].at \in Tearing
<1>1. g # generation
  <2>1. SUFFICES ASSUME g = generation PROVE FALSE
    OBVIOUS
  <2>2. disposed = TRUE
    BY <2>1, TypePieces DEF Stale
  <2>3. Now(generation, load) = load[g]
    BY <2>1, SceneAssumption DEF Now, Generations
  <2>4. load[g].at = "dispose"
    BY <2>2, <2>3 DEF Driven
  <2>5. QED
    BY <2>4 DEF Waiting, Asking
<1>2. QED
  BY <1>1 DEF Outlived, Tearing, Recovering, Waiting, Asking

LEMMA IgnoredSent ==
  ASSUME TypeOK, NEW g \in Generations, Stale(g), NEW rest \in Seq(Messages),
         load[g].at \in Waiting,
         Sent(rest, generation, load, committed),
         Driven(generation, load, disposed, running, locked),
         Ignored(g, rest)
  PROVE  Sent(queue', generation, load', committed')
<1>1. /\ generation \in 0..MaxGenerations
      /\ load \in [Generations -> LoadRecords]
  BY TypePieces
<1>2. queue' = rest /\ committed' = committed
      /\ Became(g, Outlived(load[g].at), load[g].kept)
  BY DEF Ignored, Effect
<1>3. /\ Outlived(load[g].at) # "live"
      /\ Outlived(load[g].at) \notin Waiting
      /\ load[g].at \in Tearing => Outlived(load[g].at) \in Tearing
  BY Overtaken DEF Waiting, Asking
<1>4. Sent(rest, generation, load', committed)
  BY <1>1, <1>2, <1>3, MoveSent DEF Became
<1>5. QED
  BY <1>2, <1>4

-----------------------------------------------------------------------------
(* The engine, the checkpoint, the screen and the worker. *)

\* The newest transition's answer: the parts that speak of it.
LEMMA AdvancedDriven ==
  ASSUME TypeOK, NEW g \in Generations, ~Stale(g), NEW rest, NEW payload,
         load[g].at \in Waiting,
         Driven(generation, load, disposed, running, locked),
         Advanced(g, rest, payload) \/ Undone(g, rest)
  PROVE  Driven(generation, load', disposed, running', locked')
<1>1. /\ g = generation /\ disposed = FALSE
      /\ \A ld : Now(generation, ld) = ld[g]
  BY Newest
<1>2. running = FALSE /\ locked = TRUE
  BY <1>1 DEF Driven
<1>3. \E x, k : Became(g, x, k)
  BY DEF Advanced, Undone, Effect
<1>4. \A h \in Generations : h > generation => load'[h] = NoLoad
  BY <1>1, <1>3, SceneAssumption DEF Became, Driven, Generations
<1>5. /\ load'[g].at \notin {"none", "superseded", "abandoned", "orphaned"}
      /\ load'[g].at \in Waiting \cup {"held"} => running' = FALSE /\ locked' = TRUE
  BY <1>2 DEF Advanced, Undone, Effect, Became, Unheard, Halted, Resumed, Waiting,
              Asking
<1>6. QED
  BY <1>1, <1>4, <1>5 DEF Driven

LEMMA AdvancedPrepared ==
  ASSUME TypeOK, NEW g \in Generations, ~Stale(g), NEW rest, NEW payload,
         load[g].at \in Waiting,
         Prepared(generation, load, committed),
         load[g].at = "capture" => payload.map # NoMap,
         Advanced(g, rest, payload) \/ Undone(g, rest)
  PROVE  Prepared(generation, load', committed')
<1>1. /\ g = generation
      /\ \A ld : Now(generation, ld) = ld[g]
  BY Newest
<1>2. /\ \A h \in Generations : load[h].at \in Waiting => load[h].map \in Maps
      /\ load[g].at \in {"prepare", "capture"} => load[g].kept = NoCheckpoint
      /\ load[g].at \in {"render", "post"} => (load[g].kept = NoCheckpoint <=> committed = NoMap)
      /\ load[g].at \in {"capture"} \cup Recovering => committed # NoMap
      /\ load[g].at \in Recovering => load[g].kept # NoCheckpoint
      /\ load[g].kept # NoCheckpoint => load[g].kept.map # NoMap
  BY <1>1 DEF Prepared
<1>3. \A h \in Generations : load'[h].at \in Waiting => load'[h].map \in Maps
  <2>1. \E x, k : Became(g, x, k)
    BY DEF Advanced, Undone, Effect
  <2>2. load[g].map \in Maps
    BY <1>2
  <2>3. QED
    BY <1>2, <2>1, <2>2 DEF Became
<1>4. payload.map # NoMap => payload # NoCheckpoint
  BY NoCheckpointType
<1> DEFINE Of(r, com) ==
             /\ r.at \in {"prepare", "capture"} => r.kept = NoCheckpoint
             /\ r.at \in {"render", "post"} => (r.kept = NoCheckpoint <=> com = NoMap)
             /\ r.at \in {"capture"} \cup Recovering => com # NoMap
             /\ r.at \in Recovering => r.kept # NoCheckpoint
             /\ r.at \in Waiting /\ r.kept # NoCheckpoint => r.kept.map # NoMap
<1>5. ASSUME Advanced(g, rest, payload)
      PROVE  Of(load'[g], committed')
  BY <1>2, <1>4, <1>5 DEF Advanced, Effect, Became, Recovering, Waiting, Asking
<1>6. ASSUME Undone(g, rest)
      PROVE  Of(load'[g], committed')
  BY <1>2, <1>6 DEF Undone, Effect, Became, Recovering, Waiting, Asking
<1>7. Of(load'[g], committed')
  BY <1>5, <1>6
<1>8. QED
  BY <1>1, <1>3, <1>7 DEF Prepared

LEMMA AdvancedShown ==
  ASSUME TypeOK, NEW g \in Generations, ~Stale(g), NEW rest, NEW payload,
         load[g].at \in Waiting,
         Shown(generation, load, committed, surface),
         Advanced(g, rest, payload) \/ Undone(g, rest)
  PROVE  Shown(generation, load', committed', surface')
<1>1. /\ g = generation
      /\ \A ld : Now(generation, ld) = ld[g]
  BY Newest
<1>2. /\ load[g].at = "render" => surface = Bare(load[g].map)
      /\ load[g].at = "post" =>
           surface = [grid |-> load[g].map, drawn |-> load[g].map]
      /\ load[g].at = "replay" => surface = Bare(committed)
      /\ load[g].at \in {"repost", "rehydrate"} =>
           surface = [grid |-> committed, drawn |-> committed]
  BY <1>1 DEF Shown
<1>3. \A m : [Bare(m) EXCEPT !.drawn = m] = [grid |-> m, drawn |-> m]
  BY DEF Bare
<1> DEFINE Of(r, com, sf) ==
             /\ r.at = "render" => sf = Bare(r.map)
             /\ r.at = "post" => sf = [grid |-> r.map, drawn |-> r.map]
             /\ r.at = "replay" => sf = Bare(com)
             /\ r.at \in {"repost", "rehydrate"} => sf = [grid |-> com, drawn |-> com]
<1>4. ASSUME Advanced(g, rest, payload)
      PROVE  Of(load'[g], committed', surface')
  <2>1. CASE load[g].at = "render"
    <3>1. /\ load'[g].at = "post" /\ load'[g].map = load[g].map
          /\ surface' = [surface EXCEPT !.drawn = load[g].map]
      BY <1>4, <2>1 DEF Advanced, Effect, Became
    <3>2. surface' = [grid |-> load[g].map, drawn |-> load[g].map]
      BY <1>2, <1>3, <2>1, <3>1
    <3>3. QED
      BY <3>1, <3>2
  <2>2. CASE load[g].at = "replay"
    <3>1. /\ load'[g].at = "repost" /\ committed' = committed
          /\ surface' = [surface EXCEPT !.drawn = committed]
      BY <1>4, <2>2 DEF Advanced, Effect, Became
    <3>2. surface' = [grid |-> committed, drawn |-> committed]
      BY <1>2, <1>3, <2>2, <3>1
    <3>3. QED
      BY <3>1, <3>2
  <2>3. CASE load[g].at \notin {"render", "replay"}
    BY <1>2, <1>4, <2>3 DEF Advanced, Effect, Became
  <2>4. QED
    BY <2>1, <2>2, <2>3
<1>5. ASSUME Undone(g, rest)
      PROVE  Of(load'[g], committed', surface')
  BY <1>2, <1>5 DEF Undone, Effect, Became
<1>6. Of(load'[g], committed', surface')
  BY <1>4, <1>5
<1>7. QED
  BY <1>1, <1>6 DEF Shown

LEMMA AdvancedSimulated ==
  ASSUME TypeOK, NEW g \in Generations, ~Stale(g),
         NEW rest \in Seq(Messages), NEW payload \in Entities, NEW w \in Worlds,
         load[g].at \in Waiting,
         Prepared(generation, load, committed),
         Simulated(rest, w, generation, load, committed),
         Advanced(g, rest, payload) \/ Undone(g, rest),
         Advanced(g, rest, payload) =>
           /\ load[g].at \in Asking => rest = <<>>
           /\ load[g].at = "post" => w.entities = Spawned(load[g].map)
           /\ load[g].at = "repost" => w.grid = committed
  PROVE  Simulated(queue', w, generation, load', committed')
<1>1. /\ g = generation
      /\ \A ld : Now(generation, ld) = ld[g]
  BY Newest
<1>2. /\ load[g].map \in Maps
      /\ load[g].at = "prepare" => load[g].kept = NoCheckpoint
  BY <1>1 DEF Prepared
<1>3. committed' # NoMap => w.entities.map # NoMap
  <2>1. CASE committed' = committed
    BY <2>1 DEF Simulated
  <2>2. CASE committed' # committed
    <3>1. load[g].at = "post" /\ w.entities = Spawned(load[g].map)
      BY <2>2 DEF Advanced, Undone, Effect
    <3>2. QED
      BY <1>2, <3>1, SpawnedType, Names
  <2>3. QED
    BY <2>1, <2>2
<1>4. \A n : /\ Len(Append(rest, n)) = Len(rest) + 1 /\ Len(rest) \in Nat
             /\ \A i \in 1..Len(Append(rest, n)) :
                  IF i = Len(rest) + 1 THEN Append(rest, n)[i] = n
                  ELSE i \in 1..Len(rest) /\ Append(rest, n)[i] = rest[i]
  BY AppendProperties, LenProperties
<1>5. ASSUME load'[g].at = "rehydrate"
      PROVE  w.grid = committed' /\ \A i \in 1..Len(queue') : queue'[i].at = "rehydrate"
  <2> DEFINE n == Message(g, "rehydrate", NoMap, load[g].kept)
  <2>1. /\ load[g].at = "repost" /\ rest = <<>> /\ w.grid = committed
        /\ queue' = Append(rest, n) /\ committed' = committed
    BY <1>5 DEF Advanced, Undone, Effect, Became, Asking
  <2>2. n.at = "rehydrate"
    BY DEF Message
  <2> HIDE DEF n
  <2>3. Len(rest) = 0
    BY <2>1
  <2>4. QED
    BY <1>4, <2>1, <2>2, <2>3
<1>6. ASSUME load'[g].at \in Waiting, load'[g].kept # NoCheckpoint
      PROVE  \A i \in 1..Len(queue') : queue'[i].by = g
  <2>1. CASE Advanced(g, rest, payload) /\ load[g].at \in {"capture", "post", "rehydrate"}
    <3>1. queue' = <<>>
      BY <2>1 DEF Advanced, Effect, Asking
    <3>2. QED
      BY <3>1
  <2>2. CASE Advanced(g, rest, payload) /\ load[g].at = "prepare"
    BY <1>2, <1>6, <2>2 DEF Advanced, Effect, Became
  <2>3. CASE Advanced(g, rest, payload) /\ load[g].at \in {"render", "replay", "repost"}
    <3>1. PICK n : n.by = g /\ queue' = Append(rest, n)
      BY <2>3 DEF Advanced, Effect, Message
    <3>2. load[g].kept # NoCheckpoint
      BY <1>6, <2>3 DEF Advanced, Effect, Became
    <3>3. \A i \in 1..Len(rest) : rest[i].by = g
      BY <1>1, <3>2 DEF Simulated
    <3>4. QED
      BY <1>4, <3>1, <3>3
  <2>4. CASE Undone(g, rest)
    <3>1. queue' = rest /\ load[g].kept # NoCheckpoint
      BY <1>6, <2>4 DEF Undone, Effect, Became, Waiting, Asking
    <3>2. QED
      BY <1>1, <3>1 DEF Simulated
  <2>5. QED
    BY <2>1, <2>2, <2>3, <2>4 DEF Waiting, Asking
<1>7. QED
  BY <1>1, <1>3, <1>5, <1>6 DEF Simulated

\* A load that goes on without completing leaves no torn scene that was not there.
LEMMA UndercutStands ==
  ASSUME NEW gen, NEW g \in Generations, NEW ld, NEW ld2,
         \A h \in Generations : h # g => ld2[h] = ld[h],
         ld[g].at # "live", ld2[g].at # "live",
         g # gen => (ld2[g].at \in Tearing <=> ld[g].at \in Tearing)
  PROVE  Undercut(gen, ld2) <=> Undercut(gen, ld)
<1>1. \A h \in Generations : ld2[h].at = "live" <=> ld[h].at = "live"
  OBVIOUS
<1>2. \A h \in Generations : h # gen => (ld2[h].at \in Tearing <=> ld[h].at \in Tearing)
  OBVIOUS
<1>3. QED
  BY <1>1, <1>2 DEF Undercut

LEMMA AdvancedSane ==
  ASSUME TypeOK, NEW g \in Generations, ~Stale(g),
         NEW rest, NEW payload, NEW w \in Worlds, NEW lv,
         load[g].at \in Waiting,
         Driven(generation, load, disposed, running, locked),
         Prepared(generation, load, committed),
         Shown(generation, load, committed, surface),
         Simulated(rest, w, generation, load, committed),
         Sane(generation, load, disposed, committed, surface, running, w, lv),
         Advanced(g, rest, payload) \/ Undone(g, rest),
         Advanced(g, rest, payload) =>
           /\ load[g].at = "capture" => payload = w.entities
           /\ load[g].at = "post" => /\ w.grid = load[g].map
                                     /\ w.entities = Spawned(load[g].map)
           /\ load[g].at = "rehydrate" => w.entities = load[g].kept
  PROVE  Sane(generation, load', disposed, committed', surface', running', w, lv)
<1>1. /\ g = generation /\ disposed = FALSE
      /\ \A ld : Now(generation, ld) = ld[g]
  BY Newest
<1>2. /\ running = FALSE
      /\ load[g].map \in Maps
      /\ load[g].at \in {"prepare", "capture"} => load[g].kept = NoCheckpoint
      /\ load[g].at \in {"render", "post"} => (load[g].kept = NoCheckpoint <=> committed = NoMap)
      /\ load[g].at \in Recovering => load[g].kept # NoCheckpoint
      /\ load[g].at = "post" => surface = [grid |-> load[g].map, drawn |-> load[g].map]
      /\ load[g].at = "rehydrate" =>
           surface = [grid |-> committed, drawn |-> committed] /\ w.grid = committed
  BY <1>1 DEF Driven, Prepared, Shown, Simulated
<1>3. ASSUME ~Undercut(generation, load)
      PROVE  /\ load[g].at \notin Tearing => /\ WholeAs(surface, w, committed)
                                             /\ w.entities = lv
             /\ load[g].kept # NoCheckpoint =>
                  load[g].kept.map \in {committed, Save} /\ load[g].kept = lv
  BY <1>1, <1>2, <1>3 DEF Sane
<1>4. CASE Advanced(g, rest, payload) /\ load[g].at = "post"
  <2>1. /\ load'[g].at = "live" /\ surface' = surface /\ committed' = load[g].map
        /\ running' = TRUE
    BY <1>4 DEF Advanced, Effect, Became, Resumed
  <2>2. Spawned(load[g].map).map = load[g].map
    BY <1>2, SpawnedType
  <2>3. w.grid = load[g].map /\ w.entities.map = load[g].map
    BY <1>4, <2>2
  <2>4. WholeAs(surface', w, committed')
    BY <1>2, <1>4, <2>1, <2>3 DEF WholeAs
  <2>5. QED
    BY <1>1, <2>1, <2>4 DEF Sane, Waiting, Asking
<1>5. ASSUME ~(Advanced(g, rest, payload) /\ load[g].at = "post")
      PROVE  Undercut(generation, load') <=> Undercut(generation, load)
  <2>1. /\ load[g].at # "live" /\ load'[g].at # "live"
        /\ \A h \in Generations : h # g => load'[h] = load[h]
    BY <1>5 DEF Advanced, Undone, Effect, Became, Waiting, Asking
  <2>2. QED
    BY <1>1, <2>1, UndercutStands
<1> DEFINE Of(r, com, sf, run) ==
             /\ r.at \notin Tearing => /\ WholeAs(sf, w, com)
                                       /\ run = FALSE => w.entities = lv
             /\ r.at \in Waiting /\ r.kept # NoCheckpoint =>
                  r.kept.map \in {com, Save} /\ r.kept = lv
<1>6. ASSUME Advanced(g, rest, payload), load[g].at # "post",
             ~Undercut(generation, load)
      PROVE  Of(load'[g], committed', surface', running')
  <2>1. CASE load[g].at = "prepare"
    <3>1. /\ load'[g].at \in {"render", "capture"} /\ load'[g].kept = NoCheckpoint
          /\ load'[g].at = "capture" => surface' = surface /\ committed' = committed
      BY <1>2, <1>6, <2>1 DEF Advanced, Effect, Became
    <3>2. "render" \in Tearing /\ "prepare" \notin Tearing
      BY DEF Tearing, Recovering
    <3>3. QED
      BY <1>3, <1>6, <2>1, <3>1, <3>2
  <2>2. CASE load[g].at = "capture"
    <3>1. /\ load'[g].at = "render" /\ load'[g].kept = w.entities
          /\ committed' = committed
      BY <1>6, <2>2 DEF Advanced, Effect, Became
    <3>2. "render" \in Tearing /\ "capture" \notin Tearing
      BY DEF Tearing, Recovering
    <3>3. QED
      BY <1>3, <1>6, <2>2, <3>1, <3>2 DEF WholeAs
  <2>3. CASE load[g].at \in {"render", "replay", "repost"}
    <3>1. /\ load'[g].at \in {"post", "repost", "rehydrate"}
          /\ load'[g].kept = load[g].kept
          /\ committed' = committed
      BY <1>6, <2>3 DEF Advanced, Effect, Became
    <3>2. load'[g].at \in Tearing
      BY <3>1 DEF Tearing, Recovering
    <3>3. QED
      BY <1>3, <1>6, <3>1, <3>2
  <2>4. CASE load[g].at = "rehydrate"
    <3>1. /\ load'[g].at = "recovered" /\ surface' = surface /\ committed' = committed
          /\ running' = TRUE /\ w.entities = load[g].kept
      BY <1>6, <2>4 DEF Advanced, Effect, Became, Resumed
    <3>2. load[g].kept.map \in {committed, Save}
      BY <1>2, <1>3, <1>6, <2>4 DEF Recovering
    <3>3. WholeAs(surface', w, committed')
      BY <1>2, <2>4, <3>1, <3>2 DEF WholeAs
    <3>4. QED
      BY <3>1, <3>3 DEF Waiting, Asking
  <2>5. QED
    BY <1>6, <2>1, <2>2, <2>3, <2>4 DEF Waiting, Asking
<1>7. ASSUME Undone(g, rest), ~Undercut(generation, load)
      PROVE  Of(load'[g], committed', surface', running')
  <2>1. /\ committed' = committed /\ load'[g].kept = load[g].kept
        /\ \/ load'[g].at = "held"
           \/ /\ load'[g].at = "retained" /\ running' = TRUE /\ surface' = surface
              /\ load[g].at \notin Tearing
           \/ load'[g].at = "replay"
    BY <1>2, <1>7 DEF Undone, Effect, Became, Halted, Resumed, Tearing, Waiting, Asking
  <2>2. {"held", "replay"} \subseteq Tearing /\ "held" \notin Waiting
        /\ "retained" \notin Waiting
    BY DEF Tearing, Recovering, Waiting, Asking
  <2>3. QED
    BY <1>3, <1>7, <2>1, <2>2
<1>8. QED
  <2>1. CASE ~(Advanced(g, rest, payload) /\ load[g].at = "post")
    <3>1. ~Undercut(generation, load') => Of(load'[g], committed', surface', running')
      BY <1>5, <1>6, <1>7, <2>1
    <3>2. QED
      BY <1>1, <3>1 DEF Sane
  <2>2. QED
    BY <1>4, <2>1

LEMMA AdvancedNamed ==
  ASSUME TypeOK, NEW g \in Generations, NEW rest, NEW payload,
         load[g].at \in Waiting,
         Named(load, disposed, committed, currentMap),
         Advanced(g, rest, payload) \/ Undone(g, rest)
  PROVE  Named(load', disposed, committed', currentMap')
<1>1. load[g].at \notin Unaware
  BY DEF Waiting, Asking, Unaware
<1>2. /\ \A h \in Generations : h # g => load'[h] = load[h]
      /\ \/ currentMap' = currentMap /\ committed' = committed
         \/ currentMap' = committed'
  BY DEF Advanced, Undone, Effect, Became, Unheard, Halted
<1>3. QED
  BY <1>1, <1>2 DEF Named

-----------------------------------------------------------------------------
(* An answer keeps the invariant: `w` and `lv` are the worker's world and the  *)
(* entities as last left once the message it answers is served.                *)

Before(rest, w, lv) ==
  Consistent(generation, load, disposed, committed, surface, running, locked,
             rest, w, currentMap, lv)

Behind(w, lv) ==
  Consistent(generation, load', disposed, committed', surface', running',
             locked', queue', w, currentMap', lv)

LEMMA SuccessTidy ==
  ASSUME TypeOK, NEW g \in Generations, NEW rest \in Seq(Messages),
         NEW payload \in Entities, NEW w \in Worlds, NEW lv,
         load[g].at \in Waiting, Before(rest, w, lv),
         Succeeded(g, rest, payload),
         load[g].at \in Asking => rest = <<>>,
         load[g].at = "capture" => payload = w.entities,
         load[g].at = "post" => /\ w.grid = load[g].map
                                /\ w.entities = Spawned(load[g].map),
         load[g].at = "repost" => w.grid = committed,
         load[g].at = "rehydrate" => w.entities = load[g].kept
  PROVE  Behind(w, lv)
<1>1. ~Stale(g) /\ Advanced(g, rest, payload)
  BY SucceededAdvances, TypePieces DEF LoadTypes
<1>2. /\ Sent(rest, generation, load, committed)
      /\ Driven(generation, load, disposed, running, locked)
      /\ Prepared(generation, load, committed)
      /\ Shown(generation, load, committed, surface)
      /\ Simulated(rest, w, generation, load, committed)
      /\ Sane(generation, load, disposed, committed, surface, running, w, lv)
      /\ Named(load, disposed, committed, currentMap)
  BY DEF Before, Consistent
<1>3. load[g].at = "capture" => payload.map # NoMap
  <2>1. Now(generation, load) = load[g]
    BY <1>1, Newest
  <2>2. QED
    BY <1>2, <2>1 DEF Prepared, Simulated
<1>4. Sent(queue', generation, load', committed')
  BY <1>1, <1>2, AdvancedSent
<1>5. Driven(generation, load', disposed, running', locked')
  BY <1>1, <1>2, AdvancedDriven
<1>6. Prepared(generation, load', committed')
  BY <1>1, <1>2, <1>3, AdvancedPrepared
<1>7. Shown(generation, load', committed', surface')
  BY <1>1, <1>2, AdvancedShown
<1>8. Simulated(queue', w, generation, load', committed')
  BY <1>1, <1>2, AdvancedSimulated
<1>9. Sane(generation, load', disposed, committed', surface', running', w, lv)
  BY <1>1, <1>2, AdvancedSane
<1>10. Named(load', disposed, committed', currentMap')
  BY <1>1, <1>2, AdvancedNamed
<1>11. QED
  BY <1>4, <1>5, <1>6, <1>7, <1>8, <1>9, <1>10 DEF Behind, Consistent

LEMMA FailureTidy ==
  ASSUME TypeOK, NEW g \in Generations, NEW rest \in Seq(Messages),
         NEW w \in Worlds, NEW lv,
         load[g].at \in Waiting, Before(rest, w, lv),
         Failed(g, rest)
  PROVE  Behind(w, lv)
<1>1. ~Stale(g) /\ Undone(g, rest) /\ load[g].at # "live"
  BY FailedUndoes, TypePieces DEF LoadTypes, Waiting, Asking
<1>2. /\ Sent(rest, generation, load, committed)
      /\ Driven(generation, load, disposed, running, locked)
      /\ Prepared(generation, load, committed)
      /\ Shown(generation, load, committed, surface)
      /\ Simulated(rest, w, generation, load, committed)
      /\ Sane(generation, load, disposed, committed, surface, running, w, lv)
      /\ Named(load, disposed, committed, currentMap)
  BY DEF Before, Consistent
<1>3. ~Advanced(g, rest, NoCheckpoint)
  BY <1>1 DEF Advanced, Undone, Effect, Became
<1>4. Sent(queue', generation, load', committed')
  BY <1>1, <1>2, UndoneSent
<1>5. Driven(generation, load', disposed, running', locked')
  BY <1>1, <1>2, AdvancedDriven
<1>6. Prepared(generation, load', committed')
  <2>1. Spawned(Torn).map # NoMap
    BY Names, SpawnedType
  <2>2. QED
    BY <1>1, <1>2, <2>1, AdvancedPrepared
<1>7. Shown(generation, load', committed', surface')
  BY <1>1, <1>2, AdvancedShown
<1>8. Simulated(queue', w, generation, load', committed')
  BY <1>1, <1>2, <1>3, NoCheckpointType, AdvancedSimulated
<1>9. Sane(generation, load', disposed, committed', surface', running', w, lv)
  BY <1>1, <1>2, <1>3, AdvancedSane
<1>10. Named(load', disposed, committed', currentMap')
  BY <1>1, <1>2, AdvancedNamed
<1>11. QED
  BY <1>4, <1>5, <1>6, <1>7, <1>8, <1>9, <1>10 DEF Behind, Consistent

\* The answer of a load that was overtaken.
LEMMA SupersededTidy ==
  ASSUME TypeOK, NEW g \in Generations, NEW rest \in Seq(Messages),
         NEW w \in Worlds, NEW lv,
         load[g].at \in Waiting, Before(rest, w, lv),
         Superseded(g, rest)
  PROVE  Behind(w, lv)
<1>1. Stale(g) /\ Ignored(g, rest)
  BY SupersededIgnores, TypePieces DEF LoadTypes
<1>2. /\ Sent(rest, generation, load, committed)
      /\ Driven(generation, load, disposed, running, locked)
      /\ Prepared(generation, load, committed)
      /\ Shown(generation, load, committed, surface)
      /\ Simulated(rest, w, generation, load, committed)
      /\ Sane(generation, load, disposed, committed, surface, running, w, lv)
      /\ Named(load, disposed, committed, currentMap)
  BY DEF Before, Consistent
<1>3. /\ g # generation
      /\ Outlived(load[g].at) \in {"orphaned", "abandoned", "superseded"}
      /\ Outlived(load[g].at) \in Tearing <=> load[g].at \in Tearing
  BY <1>1, <1>2, Overtaken
<1>4. /\ load'[g].at = Outlived(load[g].at)
      /\ \A h \in Generations : h # g => load'[h] = load[h]
      /\ surface' = surface /\ queue' = rest /\ committed' = committed
      /\ running' = running /\ locked' = locked
  BY <1>1 DEF Ignored, Effect, Became
<1>5. Now(generation, load') = Now(generation, load)
  BY <1>3, <1>4, TypePieces DEF Now, Generations
<1>6. Sent(queue', generation, load', committed')
  BY <1>1, <1>2, IgnoredSent
<1>7. Driven(generation, load', disposed, running', locked')
  <2>1. ~(g > generation)
    <3>1. g > generation => load[g].at = "none"
      BY <1>2, NobodyNewer
    <3>2. QED
      BY <3>1 DEF Waiting, Asking
  <2>2. \A h \in Generations : h > generation => load'[h] = NoLoad
    BY <1>2, <1>4, <2>1 DEF Driven
  <2>3. QED
    BY <1>2, <1>4, <1>5, <2>2 DEF Driven
<1>8. Prepared(generation, load', committed')
  <2>1. Outlived(load[g].at) \notin Waiting
    BY <1>3 DEF Waiting, Asking
  <2>2. \A h \in Generations : load'[h].at \in Waiting => load'[h].map \in Maps
    BY <1>2, <1>4, <2>1 DEF Prepared
  <2>3. QED
    BY <1>2, <1>4, <1>5, <2>2 DEF Prepared
<1>9. Shown(generation, load', committed', surface')
  BY <1>2, <1>4, <1>5 DEF Shown
<1>10. Simulated(queue', w, generation, load', committed')
  BY <1>2, <1>4, <1>5 DEF Simulated
<1>11. Sane(generation, load', disposed, committed', surface', running', w, lv)
  <2>1. load[g].at # "live" /\ load'[g].at # "live"
    BY <1>3, <1>4 DEF Waiting, Asking
  <2>2. load'[g].at \in Tearing <=> load[g].at \in Tearing
    BY <1>3, <1>4
  <2>3. Undercut(generation, load') <=> Undercut(generation, load)
    BY <1>4, <2>1, <2>2, UndercutStands
  <2>4. QED
    BY <1>2, <1>4, <1>5, <2>3 DEF Sane
<1>12. Named(load', disposed, committed', currentMap')
  <2>1. load[g].at \notin Unaware
    BY DEF Waiting, Asking, Unaware
  <2>2. load'[g].at \notin Unaware => currentMap' = currentMap
    BY <1>1, <1>4 DEF Ignored, Outlived, Unaware
  <2>3. QED
    BY <1>2, <1>4, <2>1, <2>2 DEF Named
<1>13. QED
  BY <1>6, <1>7, <1>8, <1>9, <1>10, <1>11, <1>12 DEF Behind, Consistent

-----------------------------------------------------------------------------
(* A message served, before anybody hears of it. *)

\* What a message, done or failed halfway, makes of the worker's world.
LEMMA WorldServed ==
  ASSUME TypeOK, NEW n \in Messages, NEW w,
         w = Done(n) \/ (n.at # "restore" /\ w \in Halfway(n))
  PROVE  \/ w = world /\ n.at # "restore"
         \/ /\ n.at \in {"post", "repost"}
            /\ w = [grid |-> n.map, entities |-> Spawned(n.map)]
         \/ /\ n.at \in {"rehydrate", "restore"}
            /\ w.grid = world.grid /\ w.entities = n.payload
         \/ /\ n.at \in Writing
            /\ w.grid = world.grid /\ w.entities = Spawned(Torn)
<1>1. \A e : /\ [world EXCEPT !.entities = e].grid = world.grid
             /\ [world EXCEPT !.entities = e].entities = e
  BY TypePieces DEF Worlds
<1>2. n.at \in {"capture", "post", "repost", "rehydrate", "restore"}
  BY DEF Messages, Asking
<1>3. CASE w = Done(n)
  BY <1>1, <1>2, <1>3 DEF Done
<1>4. CASE n.at # "restore" /\ w \in Halfway(n)
  BY <1>1, <1>4 DEF Halfway, Writing
<1>5. QED
  BY <1>3, <1>4

\* With no torn scene left behind, only a load that tears one down writes.
LEMMA WritersTear ==
  ASSUME NEW gen \in 0..MaxGenerations, NEW ld, NEW n \in Messages,
         Placed(n, gen, ld), ~Undercut(gen, ld), n.at \in Writing
  PROVE  Now(gen, ld).at \in Tearing
<1>1. /\ n.by \in Generations /\ n.by # 0 /\ n.by <= gen
      /\ ld[n.by].at \in Tearing
      /\ \A h \in Generations : h \in Nat /\ (ld[h].at = "live" => h < n.by)
  BY SceneAssumption DEF Placed, Messages, Generations
<1>2. \A h \in Generations : h > n.by => ld[h].at # "live"
  BY <1>1
<1>3. n.by = gen
  BY <1>1, <1>2 DEF Undercut
<1>4. QED
  BY <1>1, <1>3 DEF Now

LEMMA ServedTidy ==
  ASSUME TypeOK, Tidy, queue # <<>>, NEW w \in Worlds,
         \/ w = Done(Head(queue))
         \/ Head(queue).at # "restore" /\ w \in Halfway(Head(queue))
  PROVE  Before(Tail(queue), w,
                IF Head(queue).at = "restore" THEN Head(queue).payload ELSE lived)
<1> DEFINE n == Head(queue)
           rest == Tail(queue)
           lv == IF n.at = "restore" THEN n.payload ELSE lived
           now == Now(generation, load)
<1>1. /\ generation \in 0..MaxGenerations /\ queue \in Seq(Messages)
      /\ committed \in Scenes /\ n \in Messages
  BY TypePieces, HeadTailProperties
<1>2. /\ Sent(queue, generation, load, committed)
      /\ Driven(generation, load, disposed, running, locked)
      /\ Prepared(generation, load, committed)
      /\ Shown(generation, load, committed, surface)
      /\ Simulated(queue, world, generation, load, committed)
      /\ Sane(generation, load, disposed, committed, surface, running, world, lived)
      /\ Named(load, disposed, committed, currentMap)
  BY DEF Tidy, Consistent
<1>3. /\ Sent(rest, generation, load, committed)
      /\ Placed(n, generation, load) /\ Carries(n, generation, load, committed)
      /\ \A i \in 1..Len(rest) : i + 1 \in 1..Len(queue) /\ rest[i] = queue[i + 1]
      /\ 1 \in 1..Len(queue) /\ n = queue[1]
  <2>1. 1 \in 1..Len(queue) /\ n = queue[1]
    BY <1>1, HeadTailProperties, EmptySeq, LenProperties
  <2>2. QED
    BY <1>1, <1>2, <2>1, TailKeeps
<1>4. \/ w = world /\ n.at # "restore"
      \/ /\ n.at \in {"post", "repost"}
         /\ w = [grid |-> n.map, entities |-> Spawned(n.map)]
      \/ /\ n.at \in {"rehydrate", "restore"}
         /\ w.grid = world.grid /\ w.entities = n.payload
      \/ /\ n.at \in Writing
         /\ w.grid = world.grid /\ w.entities = Spawned(Torn)
  BY <1>1, WorldServed
<1> HIDE DEF n, rest
<1>5. Simulated(rest, w, generation, load, committed)
  <2>1. ASSUME committed # NoMap PROVE w.entities.map # NoMap
    <3>1. world.entities.map # NoMap
      BY <1>2, <2>1 DEF Simulated
    <3>2. n.at \in {"post", "repost"} => n.map \in Maps
      BY <1>3 DEF Carries
    <3>3. n.at = "rehydrate" => n.payload.map # NoMap
      BY <1>3 DEF Carries
    <3>4. n.at = "restore" => n.payload.map # NoMap
      BY <1>3, Names, SpawnedType DEF Carries
    <3>5. Spawned(Torn).map # NoMap /\ \A m \in Maps : Spawned(m).map # NoMap
      BY Names, SpawnedType
    <3>6. QED
      BY <1>4, <3>1, <3>2, <3>3, <3>4, <3>5
  <2>2. ASSUME now.at = "rehydrate"
        PROVE  w.grid = committed /\ \A i \in 1..Len(rest) : rest[i].at = "rehydrate"
    <3>1. world.grid = committed /\ \A i \in 1..Len(queue) : queue[i].at = "rehydrate"
      BY <1>2, <2>2 DEF Simulated
    <3>2. n.at = "rehydrate"
      BY <1>3, <3>1
    <3>3. QED
      BY <1>3, <1>4, <3>1, <3>2
  <2>3. ASSUME now.at \in Waiting, now.kept # NoCheckpoint
        PROVE  \A i \in 1..Len(rest) : rest[i].by = generation
    BY <1>2, <1>3, <2>3 DEF Simulated
  <2>4. QED
    BY <2>1, <2>2, <2>3 DEF Simulated
<1>6. Sane(generation, load, disposed, committed, surface, running, w, lv)
  <2> SUFFICES ASSUME ~Undercut(generation, load), disposed = FALSE
               PROVE  /\ now.at \notin Tearing =>
                           /\ WholeAs(surface, w, committed)
                           /\ running = FALSE => w.entities = lv
                      /\ now.at \in Waiting /\ now.kept # NoCheckpoint =>
                           now.kept.map \in {committed, Save} /\ now.kept = lv
    BY DEF Sane
  <2>1. ASSUME now.at \notin Tearing
        PROVE  WholeAs(surface, w, committed) /\ (running = FALSE => w.entities = lv)
    <3>1. n.at \notin Writing
      BY <1>1, <1>3, <2>1, WritersTear
    <3>2. /\ WholeAs(surface, world, committed)
          /\ running = FALSE => world.entities = lived
      BY <1>2, <2>1 DEF Sane
    <3>3. CASE n.at # "restore"
      <4>1. w = world /\ lv = lived
        BY <1>4, <3>1, <3>3 DEF Writing
      <4>2. QED
        BY <3>2, <4>1
    <3>4. CASE n.at = "restore"
      <4>1. /\ w.grid = world.grid /\ w.entities = Spawned(Save) /\ lv = Spawned(Save)
        BY <1>3, <1>4, <3>1, <3>4 DEF Writing, Carries
      <4>2. w.entities.map = Save
        BY <4>1, SpawnedType
      <4>3. QED
        BY <3>2, <4>1, <4>2 DEF WholeAs
    <3>5. QED
      BY <3>3, <3>4
  <2>2. ASSUME now.at \in Waiting, now.kept # NoCheckpoint
        PROVE  now.kept.map \in {committed, Save} /\ now.kept = lv
    <3>1. now.kept.map \in {committed, Save} /\ now.kept = lived
      BY <1>2, <2>2 DEF Sane
    <3>2. n.by = generation
      BY <1>2, <1>3, <2>2 DEF Simulated
    <3>3. n.at # "restore"
      <4>1. SUFFICES ASSUME n.at = "restore" PROVE FALSE
        OBVIOUS
      <4>2. Stage("restore") <= Stage(now.at)
        BY <1>3, <2>2, <3>2, <4>1 DEF Placed
      <4>3. Stage("restore") = 4
        BY DEF Stage
      <4>4. now.at = "rehydrate"
        BY <2>2, <4>2, <4>3, StageValues DEF Waiting, Asking
      <4>5. n.at = "rehydrate"
        BY <1>2, <1>3, <4>4 DEF Simulated
      <4>6. QED
        BY <4>1, <4>5
    <3>4. QED
      BY <3>1, <3>3
  <2>3. QED
    BY <2>1, <2>2
<1>7. Consistent(generation, load, disposed, committed, surface, running, locked,
                 rest, w, currentMap, lv)
  BY <1>2, <1>3, <1>5, <1>6 DEF Consistent
<1>8. QED
  BY <1>7 DEF Before, n, rest

-----------------------------------------------------------------------------
(* The steps. *)

\* A request or a main-thread wait that ends by itself.
LEMMA LocalTidy ==
  ASSUME TypeOK, Tidy, NEW g \in Generations, Local(g) \/ Lost(g)
  PROVE  Behind(world, lived)
<1>1. /\ load[g].at \in Waiting
      /\ queue \in Seq(Messages) /\ world \in Worlds
      /\ Before(queue, world, lived)
  BY TypePieces DEF Local, Lost, Waiting, Tidy, Before
<1>2. \/ load[g].at \in {"prepare", "render", "replay"} /\ Succeeded(g, queue, NoCheckpoint)
      \/ Failed(g, queue) \/ Superseded(g, queue)
  BY DEF Local, Lost
<1>3. CASE load[g].at \in {"prepare", "render", "replay"} /\ Succeeded(g, queue, NoCheckpoint)
  BY <1>1, <1>3, NoCheckpointType, SuccessTidy DEF Asking
<1>4. CASE Failed(g, queue)
  BY <1>1, <1>4, FailureTidy
<1>5. CASE Superseded(g, queue)
  BY <1>1, <1>5, SupersededTidy
<1>6. QED
  BY <1>2, <1>3, <1>4, <1>5

\* The worker's answer.
LEMMA ServeTidy ==
  ASSUME TypeOK, Tidy, Serve
  PROVE  Behind(world', lived')
<1> DEFINE n == Head(queue)
           rest == Tail(queue)
           waited == n.at \in Asking /\ load[n.by].at = n.at
<1>1. /\ queue # <<>>
      /\ world' = Done(n) \/ (n.at # "restore" /\ world' \in Halfway(n))
      /\ waited => \/ world' = Done(n) /\ Succeeded(n.by, rest, world.entities)
                   \/ Failed(n.by, rest)
                   \/ Superseded(n.by, rest)
      /\ ~waited => /\ queue' = rest
                    /\ UNCHANGED <<load, surface, running, locked, committed,
                                   currentMap>>
      /\ lived' = IF n.at = "restore" THEN n.payload ELSE lived
  BY ServeCases
<1>2. /\ n \in Messages /\ rest \in Seq(Messages) /\ world' \in Worlds
  BY <1>1, ServedType
<1>3. Before(rest, world', lived')
  BY <1>1, <1>2, ServedTidy
<1>4. n.by \in Generations /\ world.entities \in Entities
  BY <1>2, TypePieces DEF Messages, Worlds
<1>5. /\ queue \in Seq(Messages) /\ load \in [Generations -> LoadRecords]
      /\ Sent(queue, generation, load, committed)
  BY TypePieces DEF Tidy, Consistent
<1>6. Carries(n, generation, load, committed)
  BY <1>1, <1>5, TailKeeps
<1>7. ASSUME waited, world' = Done(n), Succeeded(n.by, rest, world.entities)
      PROVE  Behind(world', lived')
  <2>1. n.by = generation /\ Now(generation, load) = load[n.by]
    BY <1>4, <1>7, Newest DEF Succeeded
  <2>2. n.at \in Waiting /\ n.at \in Asking
    BY <1>7 DEF Waiting
  <2>3. rest = <<>>
    BY <1>1, <1>4, <1>5, <1>7, <2>1, <2>2, NothingBehind
  <2> HIDE DEF n, rest
  <2>4. n.at = "capture" => world.entities = (world').entities
    BY <1>7 DEF Done
  <2>5. n.at = "post" => /\ (world').grid = load[n.by].map
                         /\ (world').entities = Spawned(load[n.by].map)
    BY <1>6, <1>7 DEF Done, Carries
  <2>6. n.at = "repost" => (world').grid = committed
    BY <1>6, <1>7, <2>1 DEF Done, Carries
  <2>7. n.at = "rehydrate" => (world').entities = load[n.by].kept
    <3>1. \A e : [world EXCEPT !.entities = e].entities = e
      BY TypePieces DEF Worlds
    <3>2. n.at = "rehydrate" => world' = [world EXCEPT !.entities = n.payload]
      BY <1>7 DEF Done
    <3>3. QED
      BY <1>6, <3>1, <3>2 DEF Carries
  <2>8. QED
    BY <1>2, <1>3, <1>4, <1>7, <2>2, <2>3, <2>4, <2>5, <2>6, <2>7, SuccessTidy
<1>8. waited => load[n.by].at \in Waiting
  BY DEF Waiting
<1>9. ASSUME waited, Failed(n.by, rest) PROVE Behind(world', lived')
  BY <1>2, <1>3, <1>4, <1>8, <1>9, FailureTidy
<1>10. ASSUME waited, Superseded(n.by, rest) PROVE Behind(world', lived')
  BY <1>2, <1>3, <1>4, <1>8, <1>10, SupersededTidy
<1>11. ASSUME ~waited PROVE Behind(world', lived')
  <2>1. /\ queue' = rest /\ load' = load /\ surface' = surface /\ running' = running
        /\ locked' = locked /\ committed' = committed /\ currentMap' = currentMap
    BY <1>1, <1>11
  <2> HIDE DEF n, rest
  <2>2. QED
    BY <1>3, <2>1 DEF Before, Behind
<1>12. QED
  BY <1>1, <1>7, <1>9, <1>10, <1>11

\* A new transition finds the queue as the last one left it.
LEMMA FreshSent ==
  ASSUME NEW gen \in 0..MaxGenerations, gen + 1 \in Generations,
         NEW ld, NEW ld2, NEW com, NEW q \in Seq(Messages),
         Sent(q, gen, ld, com),
         \A h \in Generations : h <= gen =>
           ld2[h].at = ld[h].at /\ ld2[h].map = ld[h].map /\ ld2[h].kept = ld[h].kept,
         \A h \in Generations : h > gen => ld2[h].at # "live"
  PROVE  Sent(q, gen + 1, ld2, com)
<1>1. /\ gen \in Nat /\ \A h \in Generations : h \in Nat
  BY SceneAssumption DEF Generations
<1>2. ASSUME NEW n \in Messages, Placed(n, gen, ld), Carries(n, gen, ld, com)
      PROVE  Placed(n, gen + 1, ld2) /\ Carries(n, gen + 1, ld2, com)
  <2>1. n.by \in Generations /\ n.by <= gen
    BY <1>2 DEF Messages, Placed
  <2>2. n.by # gen + 1 /\ n.by <= gen + 1
    BY <1>1, <2>1
  <2>3. /\ ld2[n.by].at = ld[n.by].at /\ ld2[n.by].map = ld[n.by].map
        /\ ld2[n.by].kept = ld[n.by].kept
    BY <2>1
  <2>4. \A h \in Generations : ld2[h].at = "live" => h < n.by
    BY <1>1, <1>2 DEF Placed
  <2>5. Placed(n, gen + 1, ld2)
    BY <1>2, <2>2, <2>3, <2>4 DEF Placed
  <2>6. QED
    BY <1>2, <2>2, <2>3, <2>5 DEF Carries
<1>3. \A i \in 1..Len(q) : q[i] \in Messages
  BY ElementOfSeq
<1>4. QED
  BY <1>2, <1>3 DEF Sent

\* A torn scene shows behind it: what it starts from is whole or undercut.
LEMMA FreshUndercut ==
  ASSUME NEW gen \in 0..MaxGenerations, gen + 1 \in Generations,
         NEW ld, NEW ld2,
         \A h \in Generations : h <= gen => ld2[h].at = ld[h].at,
         \A h \in Generations : h > gen => ld[h].at = "none" /\ ld2[h].at # "live",
         ~Undercut(gen + 1, ld2)
  PROVE  ~Undercut(gen, ld) /\ Now(gen, ld).at \notin Tearing
<1>1. /\ gen \in Nat /\ \A h \in Generations : h \in Nat
      /\ gen # 0 => gen \in Generations
  BY SceneAssumption DEF Generations
<1>2. "none" \notin Tearing
  BY DEF Tearing, Recovering
<1>3. ASSUME NEW g \in Generations, ld[g].at \in Tearing,
             \A h \in Generations : h > g /\ h <= gen => ld[h].at # "live"
      PROVE  FALSE
  <2>1. g <= gen
    BY <1>1, <1>2, <1>3
  <2>2. g # gen + 1 /\ ld2[g].at \in Tearing
    BY <1>1, <1>3, <2>1
  <2>3. \A h \in Generations : h > g => ld2[h].at # "live"
    BY <1>1, <1>3
  <2>4. QED
    BY <2>2, <2>3 DEF Undercut
<1>4. ~Undercut(gen, ld)
  BY <1>3 DEF Undercut
<1>5. Now(gen, ld).at \notin Tearing
  <2>1. CASE gen = 0
    BY <1>2, <2>1 DEF Now, NoLoad
  <2>2. CASE gen # 0
    BY <1>1, <1>3, <2>2 DEF Now
  <2>3. QED
    BY <2>1, <2>2
<1>6. QED
  BY <1>4, <1>5

\* A load or a restore takes the next generation.
LEMMA FreshTidy ==
  ASSUME TypeOK, Tidy, disposed = FALSE, generation + 1 \in Generations,
         NEW ld \in [Generations -> LoadRecords], NEW q, NEW run, NEW lock, NEW lv,
         \A h \in Generations : h # generation + 1 =>
           /\ ld[h].at = load[h].at /\ ld[h].map = load[h].map
           /\ ld[h].kept = load[h].kept
           /\ h > generation => ld[h] = load[h],
         \/ /\ ld[generation + 1].at = "prepare"
            /\ ld[generation + 1].kept = NoCheckpoint
            /\ ld[generation + 1].map \in Maps
            /\ run = FALSE /\ lock = TRUE
            /\ lv = IF running THEN world.entities ELSE lived
         \/ /\ ld[generation + 1].at = "restore"
            /\ run = running /\ lv = lived,
         Sent(q, generation + 1, ld, committed)
  PROVE  Consistent(generation + 1, ld, disposed, committed, surface, run, lock,
                    q, world, currentMap, lv)
<1> DEFINE gen == generation + 1
<1>1. /\ generation \in 0..MaxGenerations /\ generation \in Nat
      /\ gen \in Nat /\ gen # 0 /\ gen > generation
      /\ \A h \in Generations : h \in Nat /\ (h > gen => h > generation /\ h # gen)
  BY TypePieces, SceneAssumption DEF Generations
<1>2. /\ Driven(generation, load, disposed, running, locked)
      /\ Prepared(generation, load, committed)
      /\ Simulated(queue, world, generation, load, committed)
      /\ Sane(generation, load, disposed, committed, surface, running, world, lived)
      /\ Named(load, disposed, committed, currentMap)
  BY DEF Tidy, Consistent
<1>3. /\ ld[gen].at \in {"prepare", "restore"}
      /\ ld[gen].at = "prepare" => /\ ld[gen].kept = NoCheckpoint
                                   /\ ld[gen].map \in Maps
                                   /\ run = FALSE /\ lock = TRUE
                                   /\ lv = IF running THEN world.entities ELSE lived
      /\ ld[gen].at = "restore" => run = running /\ lv = lived
      /\ \A h \in Generations : h # gen =>
           /\ ld[h].at = load[h].at /\ ld[h].map = load[h].map
           /\ ld[h].kept = load[h].kept
           /\ h > generation => ld[h] = load[h]
      /\ Sent(q, gen, ld, committed)
      /\ gen \in Generations
  OBVIOUS
<1>4. Now(gen, ld) = ld[gen]
  BY <1>1 DEF Now
<1> HIDE DEF gen
<1>5. Driven(gen, ld, disposed, run, lock)
  <2>1. \A h \in Generations : h > gen => ld[h] = NoLoad
    BY <1>1, <1>2, <1>3 DEF Driven
  <2>2. /\ ld[gen].at \notin {"none", "superseded", "abandoned", "orphaned"}
        /\ ld[gen].at \in Waiting \cup {"held"} => run = FALSE /\ lock = TRUE
    BY <1>3 DEF Waiting, Asking
  <2>3. QED
    BY <1>4, <2>1, <2>2 DEF Driven
<1>6. Prepared(gen, ld, committed)
  <2>1. \A h \in Generations : ld[h].at \in Waiting => ld[h].map \in Maps
    BY <1>2, <1>3 DEF Prepared, Waiting, Asking
  <2>2. QED
    BY <1>3, <1>4, <2>1 DEF Prepared, Recovering, Waiting, Asking
<1>7. Shown(gen, ld, committed, surface)
  BY <1>3, <1>4 DEF Shown
<1>8. Simulated(q, world, gen, ld, committed)
  BY <1>2, <1>3, <1>4 DEF Simulated, Waiting, Asking
<1>9. Sane(gen, ld, disposed, committed, surface, run, world, lv)
  <2>1. ASSUME ~Undercut(gen, ld)
        PROVE  /\ WholeAs(surface, world, committed)
               /\ run = FALSE => world.entities = lv
    <3>1. \A h \in Generations : h <= generation => ld[h].at = load[h].at
      BY <1>1, <1>3
    <3>2. \A h \in Generations : h > generation => load[h].at = "none" /\ ld[h].at # "live"
      <4>1. \A h \in Generations : h > generation => load[h].at = "none"
        BY <1>2, NobodyNewer
      <4>2. QED
        BY <1>3, <4>1
    <3>3. ~Undercut(generation, load) /\ Now(generation, load).at \notin Tearing
      BY <1>1, <1>3, <2>1, <3>1, <3>2, FreshUndercut DEF gen
    <3>4. /\ WholeAs(surface, world, committed)
          /\ running = FALSE => world.entities = lived
      BY <1>2, <3>3 DEF Sane
    <3>5. running \in BOOLEAN
      BY TypePieces
    <3>6. QED
      BY <1>3, <3>4, <3>5
  <2>2. ld[gen].at \in Waiting => ld[gen].kept = NoCheckpoint
    BY <1>3 DEF Waiting, Asking
  <2>3. QED
    BY <1>4, <2>1, <2>2 DEF Sane
<1>10. Named(ld, disposed, committed, currentMap)
  <2>1. \A h \in Generations : ld[h].at \notin Unaware => load[h].at \notin Unaware
    <3>1. load[gen].at = "none"
      BY <1>1, <1>2, <1>3, NobodyNewer
    <3>2. "none" \notin Unaware
      BY DEF Unaware
    <3>3. QED
      BY <1>3, <3>1, <3>2
  <2>2. QED
    BY <1>2, <2>1 DEF Named
<1>11. QED
  BY <1>3, <1>5, <1>6, <1>7, <1>8, <1>9, <1>10 DEF Consistent, gen

\* What the next state keeps, spelled out variable by variable.
Kept ==
  Consistent(generation', load', disposed', committed', surface', running',
             locked', queue', world', currentMap', lived')

LEMMA StartLoadTidy ==
  ASSUME TypeOK, Tidy, NEW m \in Maps, NEW follow \in BOOLEAN, StartLoad(m, follow)
  PROVE  Kept
<1> DEFINE r == [at |-> "prepare", map |-> m, kept |-> NoCheckpoint, follow |-> follow]
<1>1. /\ generation \in 0..MaxGenerations /\ load \in [Generations -> LoadRecords]
      /\ queue \in Seq(Messages) /\ Sent(queue, generation, load, committed)
      /\ Driven(generation, load, disposed, running, locked)
  BY TypePieces DEF Tidy, Consistent
<1>2. /\ disposed = FALSE /\ generation' = generation + 1
      /\ generation + 1 \in Generations
      /\ load' = [load EXCEPT ![generation + 1] = r]
      /\ running' = FALSE /\ locked' = TRUE
      /\ lived' = IF running THEN world.entities ELSE lived
      /\ UNCHANGED <<disposed, committed, surface, queue, world, currentMap>>
  BY <1>1, TypePieces, SceneAssumption DEF StartLoad, Generations
<1>3. /\ r \in LoadRecords /\ r.at = "prepare" /\ r.kept = NoCheckpoint /\ r.map = m
  BY NoCheckpointType DEF LoadRecords, Places, Waiting, Scenes
<1> HIDE DEF r
<1>4. /\ load' \in [Generations -> LoadRecords] /\ load'[generation + 1] = r
      /\ \A h \in Generations : h # generation + 1 => load'[h] = load[h]
  BY <1>1, <1>2, <1>3
<1>5. Sent(queue, generation + 1, load', committed)
  <2>1. \A h \in Generations : h <= generation => load'[h] = load[h]
    BY <1>1, <1>4, SceneAssumption DEF Generations
  <2>2. \A h \in Generations : h > generation => load[h].at = "none"
    BY <1>1, NobodyNewer
  <2>3. \A h \in Generations : h > generation => load'[h].at # "live"
    BY <1>3, <1>4, <2>2
  <2>4. QED
    BY <1>1, <1>2, <2>1, <2>3, FreshSent
<1>6. Consistent(generation + 1, load', disposed, committed, surface, running',
                 locked', queue, world, currentMap, lived')
  BY <1>2, <1>3, <1>4, <1>5, FreshTidy
<1>7. QED
  BY <1>2, <1>6 DEF Kept

LEMMA RestoreWorldTidy ==
  ASSUME TypeOK, Tidy, RestoreWorld
  PROVE  Kept
<1> DEFINE gen == generation + 1
           n == Message(gen, "restore", NoMap, Spawned(Save))
<1>1. /\ generation \in 0..MaxGenerations /\ load \in [Generations -> LoadRecords]
      /\ queue \in Seq(Messages) /\ Sent(queue, generation, load, committed)
      /\ Driven(generation, load, disposed, running, locked)
  BY TypePieces DEF Tidy, Consistent
<1>2. /\ disposed = FALSE /\ generation' = gen /\ gen \in Generations
      /\ load' = [load EXCEPT ![gen].at = "restore"]
      /\ queue' = Append(queue, n)
      /\ UNCHANGED <<disposed, committed, surface, running, locked, world,
                     currentMap, lived>>
  BY <1>1, TypePieces, SceneAssumption DEF RestoreWorld, Invalidate, Generations, engine
<1>3. /\ load' \in [Generations -> LoadRecords] /\ load'[gen].at = "restore"
      /\ \A h \in Generations : h # gen => load'[h] = load[h]
  BY <1>1, <1>2 DEF LoadRecords, Places
<1>4. Sent(queue, gen, load', committed)
  <2>1. \A h \in Generations : h <= generation => load'[h] = load[h]
    BY <1>1, <1>3, SceneAssumption DEF Generations
  <2>2. \A h \in Generations : h > generation => load[h].at = "none"
    BY <1>1, NobodyNewer
  <2>3. \A h \in Generations : h > generation => load'[h].at # "live"
    BY <1>3, <2>2
  <2>4. QED
    BY <1>1, <1>2, <2>1, <2>3, FreshSent
<1>5. /\ n \in Messages /\ n.by = gen /\ n.at = "restore" /\ n.payload = Spawned(Save)
  <2>1. Spawned(Save) \in Entities /\ NoMap \in Scenes
    BY SpawnedType DEF Scenes
  <2>2. "restore" \in Asking \cup {"restore"} /\ gen \in Generations
    BY <1>2
  <2> HIDE DEF gen
  <2>3. QED
    BY <2>1, <2>2, MessageType
<1>6. /\ gen \in Nat /\ gen # 0 /\ generation \in Nat /\ gen = generation + 1
      /\ \A h \in Generations : h \in Nat
  BY <1>1, SceneAssumption DEF Generations
<1> HIDE DEF n, gen
<1>7. \A i \in 1..Len(queue) : After(queue[i], n)
  <2> SUFFICES ASSUME NEW i \in 1..Len(queue) PROVE After(queue[i], n)
    OBVIOUS
  <2>1. queue[i] \in Messages /\ Placed(queue[i], generation, load)
    BY <1>1, ElementOfSeq DEF Sent
  <2>2. queue[i].by \in Nat /\ queue[i].by <= generation
    BY <1>6, <2>1 DEF Placed, Messages
  <2>3. QED
    BY <1>5, <1>6, <2>2 DEF After
<1>8. Placed(n, gen, load')
  <2>1. \A h \in Generations : load'[h].at = "live" => h < gen
    <3>1. \A h \in Generations : h > generation => load[h].at = "none"
      BY <1>1, NobodyNewer
    <3>2. QED
      BY <1>3, <1>6, <3>1
  <2>2. Now(gen, load') = load'[gen]
    BY <1>6 DEF Now
  <2>3. QED
    BY <1>3, <1>5, <1>6, <2>1, <2>2 DEF Placed, Writing, Waiting, Asking
<1>9. Carries(n, gen, load', committed)
  BY <1>5 DEF Carries
<1>10. Sent(queue', gen, load', committed)
  BY <1>1, <1>2, <1>4, <1>5, <1>7, <1>8, <1>9, AppendSent
<1>11. Consistent(gen, load', disposed, committed, surface, running, locked, queue',
                  world, currentMap, lived)
  BY <1>2, <1>3, <1>10, FreshTidy DEF gen
<1>12. QED
  BY <1>2, <1>11 DEF Kept

LEMMA RestorePlayerTidy ==
  ASSUME TypeOK, Tidy, NEW g \in Generations, RestorePlayer(g)
  PROVE  Kept
<1> DEFINE gen == generation + 1
           quit == [load EXCEPT ![g].follow = FALSE]
<1>1. /\ generation \in 0..MaxGenerations /\ load \in [Generations -> LoadRecords]
      /\ queue \in Seq(Messages) /\ Sent(queue, generation, load, committed)
      /\ Driven(generation, load, disposed, running, locked)
  BY TypePieces DEF Tidy, Consistent
<1>2. /\ disposed = FALSE /\ generation' = gen /\ gen \in Generations
      /\ load[g].at \in {"live", "superseded", "abandoned"}
      /\ load' = [quit EXCEPT ![gen].at = "restore"]
      /\ UNCHANGED <<disposed, committed, surface, running, locked, queue, world,
                     currentMap, lived>>
  BY <1>1, TypePieces, SceneAssumption DEF RestorePlayer, Generations, engine
<1>3. /\ quit \in [Generations -> LoadRecords]
      /\ \A h \in Generations :
           /\ quit[h].at = load[h].at /\ quit[h].map = load[h].map
           /\ quit[h].kept = load[h].kept
           /\ h # g => quit[h] = load[h]
  BY <1>1 DEF LoadRecords
<1> HIDE DEF quit
<1>4. /\ load' \in [Generations -> LoadRecords] /\ load'[gen].at = "restore"
      /\ \A h \in Generations : h # gen => load'[h] = quit[h]
  BY <1>2, <1>3 DEF LoadRecords, Places
<1>5. \A h \in Generations : h > generation => load[h].at = "none"
  BY <1>1, NobodyNewer
<1>6. \A h \in Generations : h > generation => h # g
  BY <1>2, <1>5
<1>7. Sent(queue, gen, load', committed)
  <2>1. \A h \in Generations : h <= generation =>
          /\ load'[h].at = load[h].at /\ load'[h].map = load[h].map
          /\ load'[h].kept = load[h].kept
    BY <1>1, <1>3, <1>4, SceneAssumption DEF Generations
  <2>2. \A h \in Generations : h > generation => load'[h].at # "live"
    BY <1>3, <1>4, <1>5
  <2>3. \A ld2 :
          /\ \A h \in Generations : h <= generation =>
               /\ ld2[h].at = load[h].at /\ ld2[h].map = load[h].map
               /\ ld2[h].kept = load[h].kept
          /\ \A h \in Generations : h > generation => ld2[h].at # "live"
          => Sent(queue, gen, ld2, committed)
    BY <1>1, <1>2, FreshSent
  <2>4. QED
    BY <2>1, <2>2, <2>3
<1>8. \A h \in Generations : h # gen =>
        /\ load'[h].at = load[h].at /\ load'[h].map = load[h].map
        /\ load'[h].kept = load[h].kept
        /\ h > generation => load'[h] = load[h]
  BY <1>3, <1>4, <1>6
<1>9. Consistent(gen, load', disposed, committed, surface, running, locked, queue,
                 world, currentMap, lived)
  BY <1>2, <1>4, <1>7, <1>8, FreshTidy
<1>10. QED
  BY <1>2, <1>9 DEF Kept

LEMMA DisposeTidy ==
  ASSUME TypeOK, Tidy, Dispose
  PROVE  Kept
<1> DEFINE gen == generation + 1
<1>1. /\ generation \in 0..MaxGenerations /\ load \in [Generations -> LoadRecords]
      /\ Driven(generation, load, disposed, running, locked)
      /\ Prepared(generation, load, committed)
  BY TypePieces DEF Tidy, Consistent
<1>2. /\ generation' = gen /\ gen \in Generations
      /\ load' = [load EXCEPT ![gen].at = "dispose"]
      /\ disposed' = TRUE /\ committed' = NoMap /\ running' = FALSE /\ queue' = <<>>
  BY <1>1, SceneAssumption DEF Dispose, Invalidate, Generations
<1>3. /\ load' \in [Generations -> LoadRecords] /\ load'[gen].at = "dispose"
      /\ \A h \in Generations : h # gen => load'[h] = load[h]
  BY <1>1, <1>2 DEF LoadRecords, Places
<1>4. /\ gen # 0 /\ \A h \in Generations : h > gen => h > generation /\ h # gen
  BY <1>1, SceneAssumption DEF Generations
<1> HIDE DEF gen
<1>5. Now(gen, load') = load'[gen]
  BY <1>4 DEF Now
<1>6. Sent(queue', gen, load', committed')
  BY <1>2, EmptySent
<1>7. Driven(gen, load', disposed', running', locked')
  <2>1. \A h \in Generations : h > gen => load'[h] = NoLoad
    BY <1>1, <1>3, <1>4 DEF Driven
  <2>2. QED
    BY <1>2, <1>3, <1>5, <2>1 DEF Driven, Waiting, Asking
<1>8. Prepared(gen, load', committed')
  <2>1. \A h \in Generations : load'[h].at \in Waiting => load'[h].map \in Maps
    BY <1>1, <1>3 DEF Prepared, Waiting, Asking
  <2>2. QED
    BY <1>3, <1>5, <2>1 DEF Prepared, Recovering, Waiting, Asking
<1>9. Shown(gen, load', committed', surface')
  BY <1>3, <1>5 DEF Shown
<1>10. Simulated(queue', world', gen, load', committed')
  BY <1>2, <1>3, <1>5 DEF Simulated, Waiting, Asking
<1>11. /\ Sane(gen, load', disposed', committed', surface', running', world', lived')
       /\ Named(load', disposed', committed', currentMap')
  BY <1>2 DEF Sane, Named
<1>12. QED
  BY <1>2, <1>6, <1>7, <1>8, <1>9, <1>10, <1>11 DEF Kept, Consistent

\* While the player acts the newest transition neither waits nor is held.
LEMMA PlayingSettled ==
  ASSUME TypeOK, Tidy, running = TRUE
  PROVE  /\ disposed = FALSE
         /\ Now(generation, load).at \notin Waiting
         /\ Now(generation, load).at \notin Tearing
<1>1. Driven(generation, load, disposed, running, locked)
  BY DEF Tidy, Consistent
<1>2. /\ disposed # TRUE
      /\ Now(generation, load).at \notin Waiting \cup {"held"}
      /\ Now(generation, load).at \notin {"superseded", "abandoned", "orphaned"}
  BY <1>1 DEF Driven
<1>3. QED
  BY <1>2, TypePieces DEF Tearing, Recovering, Waiting, Asking

LEMMA PlayTidy ==
  ASSUME TypeOK, Tidy, Play
  PROVE  Kept
<1> DEFINE e == [world.entities EXCEPT !.plays = @ + 1]
<1>1. /\ running = TRUE
      /\ world' = [world EXCEPT !.entities = e]
      /\ UNCHANGED <<generation, disposed, committed, load, surface, running, locked,
                     queue, currentMap, lived>>
  BY TypePieces DEF Play, engine
<1>2. /\ e.map = world.entities.map
      /\ (world').grid = world.grid /\ (world').entities = e
  BY <1>1, TypePieces DEF Worlds, Entities
<1> HIDE DEF e
<1>3. /\ Simulated(queue, world, generation, load, committed)
      /\ Sane(generation, load, disposed, committed, surface, running, world, lived)
      /\ disposed = FALSE /\ Now(generation, load).at \notin Waiting
  BY <1>1, PlayingSettled DEF Tidy, Consistent
<1>4. Simulated(queue, world', generation, load, committed)
  BY <1>2, <1>3 DEF Simulated
<1>5. Sane(generation, load, disposed, committed, surface, running, world', lived)
  BY <1>1, <1>2, <1>3 DEF Sane, WholeAs
<1>6. Consistent(generation, load, disposed, committed, surface, running, locked,
                 queue, world', currentMap, lived)
  BY <1>4, <1>5 DEF Tidy, Consistent
<1>7. QED
  BY <1>1, <1>6 DEF Kept

LEMMA TidyStep ==
  ASSUME TypeOK, Tidy, [Next]_vars
  PROVE  Kept
<1>1. CASE \E m \in Maps, follow \in BOOLEAN : StartLoad(m, follow)
  BY <1>1, StartLoadTidy
<1>2. CASE RestoreWorld
  BY <1>2, RestoreWorldTidy
<1>3. ASSUME NEW g \in Generations, RestorePlayer(g) PROVE Kept
  BY <1>3, RestorePlayerTidy
<1>4. ASSUME NEW g \in Generations, Local(g) \/ Lost(g) PROVE Kept
  <2>1. /\ UNCHANGED <<generation, disposed, world, lived>>
        /\ Behind(world, lived)
    BY <1>4, LocalTidy DEF Local, Lost
  <2>2. QED
    BY <2>1 DEF Behind, Kept
<1>5. CASE Dispose
  BY <1>5, DisposeTidy
<1>6. CASE Play
  BY <1>6, PlayTidy
<1>7. CASE Serve
  <2>1. UNCHANGED <<generation, disposed>> /\ Behind(world', lived')
    BY <1>7, ServeCases, ServeTidy
  <2>2. QED
    BY <2>1 DEF Behind, Kept
<1>8. CASE UNCHANGED vars
  BY <1>8 DEF vars, engine, Tidy, Kept
<1>9. QED
  BY <1>1, <1>2, <1>3, <1>4, <1>5, <1>6, <1>7, <1>8 DEF Next

LEMMA TidyFirst ==
  ASSUME Init
  PROVE  Tidy
<1>1. /\ generation = 0 /\ disposed = FALSE /\ committed = NoMap
      /\ load = [g \in Generations |-> NoLoad]
      /\ surface = [grid |-> NoMap, drawn |-> NoMap]
      /\ running = TRUE /\ queue = <<>>
      /\ world = [grid |-> NoMap, entities |-> Spawned(NoMap)]
      /\ currentMap = NoMap
  BY DEF Init
<1>2. /\ Now(generation, load) = NoLoad /\ NoLoad.at = "none"
      /\ \A g \in Generations : load[g] = NoLoad
  BY <1>1 DEF Now, NoLoad
<1>3. Sent(queue, generation, load, committed)
  BY <1>1, EmptySent
<1>4. Driven(generation, load, disposed, running, locked)
  BY <1>1, <1>2 DEF Driven, Waiting, Asking
<1>5. Prepared(generation, load, committed)
  BY <1>2 DEF Prepared, Recovering, Waiting, Asking
<1>6. Shown(generation, load, committed, surface)
  BY <1>2 DEF Shown
<1>7. Simulated(queue, world, generation, load, committed)
  BY <1>1, <1>2 DEF Simulated, Waiting, Asking
<1>8. WholeAs(surface, world, committed)
  BY <1>1, SpawnedType DEF WholeAs
<1>9. Sane(generation, load, disposed, committed, surface, running, world, lived)
  BY <1>1, <1>2, <1>8 DEF Sane, Waiting, Asking
<1>10. Named(load, disposed, committed, currentMap)
  BY <1>1 DEF Named
<1>11. QED
  BY <1>3, <1>4, <1>5, <1>6, <1>7, <1>9, <1>10 DEF Tidy, Consistent

\* The newest transition and the queue of the worker always agree on what was
\* installed, sent and kept.
THEOREM TransitionsTidy == Spec => []Tidy
<1>1. Init => Tidy
  BY TidyFirst
<1>2. TypeOK /\ Tidy /\ [Next]_vars => Tidy'
  <2>1. Kept => Tidy'
    BY DEF Kept, Tidy, Consistent, Sent, InOrder, After, Stage, Placed, Carries,
           Driven, Prepared, Shown, Simulated, Sane, WholeAs, Named, Undercut, Now,
           Tearing, Writing, Unaware, Waiting, Asking, Recovering, Bare, Spawned,
           NoLoad, NoCheckpoint, Generations
  <2>2. QED
    BY <2>1, TidyStep
<1>3. QED
  BY <1>1, <1>2, TypeCorrect, PTL DEF Spec

-----------------------------------------------------------------------------
(* What follows from it. *)

\* A torn scene left behind, in the words of the property.
LEMMA UndercutIsUndermined == Undercut(generation, load) <=> Undermined
  BY DEF Undercut, Undermined, Tearing

\* A playable engine shows and simulates the committed scene, unless an older
\* load left a torn one behind.
THEOREM PlayedIsWhole == Spec => []PlayableWhole
<1>1. ASSUME TypeOK, Tidy PROVE PlayableWhole
  <2> SUFFICES ASSUME Playable, ~Undermined PROVE Whole
    BY DEF PlayableWhole
  <2>1. running = TRUE
    BY TypePieces DEF Playable
  <2>2. disposed = FALSE /\ Now(generation, load).at \notin Tearing
    BY <1>1, <2>1, PlayingSettled
  <2>3. Sane(generation, load, disposed, committed, surface, running, world, lived)
    BY <1>1 DEF Tidy, Consistent
  <2>4. WholeAs(surface, world, committed)
    BY <2>2, <2>3, UndercutIsUndermined DEF Sane
  <2>5. QED
    BY <2>4 DEF WholeAs, Whole
<1>2. QED
  BY <1>1, TypeCorrect, TransitionsTidy, PTL

\* With no load in flight, and none that returned without a word, the caller's
\* map is the committed one.
THEOREM MapIsNamed == Spec => []MapIdTruthful
<1>1. ASSUME TypeOK, Tidy PROVE MapIdTruthful
  <2> SUFFICES ASSUME Playable,
                      \A g \in Generations :
                        load[g].at \notin Waiting \cup {"superseded", "abandoned"}
               PROVE  currentMap = committed
    BY DEF MapIdTruthful
  <2>1. disposed = FALSE
    BY <1>1, TypePieces, PlayingSettled DEF Playable
  <2>2. \A g \in Generations : load[g].at \notin Unaware
    BY DEF Unaware
  <2>3. Named(load, disposed, committed, currentMap)
    BY <1>1 DEF Tidy, Consistent
  <2>4. QED
    BY <2>1, <2>2, <2>3 DEF Named
<1>2. QED
  BY <1>1, TypeCorrect, TransitionsTidy, PTL

\* An answer moves the load it is for and no other; unless that load is stale it
\* is the newest one.
LEMMA AnswerMoves ==
  ASSUME TypeOK, NEW h \in Generations, NEW rest, NEW payload \in Entities,
         Succeeded(h, rest, payload) \/ Failed(h, rest) \/ Superseded(h, rest)
  PROVE  /\ \A g \in Generations : g # h => load'[g] = load[g]
         /\ Stale(h) => Ignored(h, rest)
         /\ ~Stale(h) => Advanced(h, rest, payload) \/ Undone(h, rest)
<1>1. LoadTypes
  BY TypePieces DEF LoadTypes
<1>2. \/ ~Stale(h) /\ Advanced(h, rest, payload)
      \/ ~Stale(h) /\ Undone(h, rest)
      \/ Stale(h) /\ Ignored(h, rest)
  BY <1>1, SucceededAdvances, FailedUndoes, SupersededIgnores
<1>3. \E x, k : Became(h, x, k)
  BY <1>2 DEF Advanced, Undone, Ignored, Effect
<1>4. QED
  BY <1>2, <1>3 DEF Became

\* A new transition leaves the waits of the others alone.
LEMMA FreshMoves ==
  ASSUME TypeOK, Tidy, NEW g \in Generations, load[g].at \in Waiting,
         \/ \E m \in Maps, follow \in BOOLEAN : StartLoad(m, follow)
         \/ RestoreWorld \/ Dispose
         \/ \E h \in Generations : RestorePlayer(h)
  PROVE  load'[g].at = load[g].at
<1>1. /\ load \in [Generations -> LoadRecords]
      /\ Driven(generation, load, disposed, running, locked)
      /\ generation \in Nat
  BY TypePieces, SceneAssumption DEF Tidy, Consistent
<1>2. g # generation + 1
  <2>1. \A h \in Generations : h > generation => load[h].at = "none"
    BY <1>1, NobodyNewer
  <2>2. "none" \notin Waiting /\ g \in Nat
    BY SceneAssumption DEF Waiting, Asking, Generations
  <2>3. QED
    BY <1>1, <2>1, <2>2
<1>3. ASSUME NEW ld \in [Generations -> LoadRecords], NEW x, NEW r
      PROVE  /\ [ld EXCEPT ![generation + 1].at = x][g] = ld[g]
             /\ [ld EXCEPT ![generation + 1] = r][g] = ld[g]
  BY <1>2
<1>4. ASSUME NEW m \in Maps, NEW follow \in BOOLEAN, StartLoad(m, follow)
      PROVE  load'[g].at = load[g].at
  BY <1>1, <1>3, <1>4 DEF StartLoad
<1>5. ASSUME RestoreWorld \/ Dispose
      PROVE  load'[g].at = load[g].at
  BY <1>1, <1>3, <1>5 DEF RestoreWorld, Dispose, Invalidate
<1>6. ASSUME NEW h \in Generations, RestorePlayer(h)
      PROVE  load'[g].at = load[g].at
  <2> DEFINE quit == [load EXCEPT ![h].follow = FALSE]
  <2>1. quit \in [Generations -> LoadRecords] /\ quit[g].at = load[g].at
    BY <1>1 DEF LoadRecords
  <2>2. load' = [quit EXCEPT ![generation + 1].at = "restore"]
    BY <1>6 DEF RestorePlayer
  <2> HIDE DEF quit
  <2>3. load'[g] = quit[g]
    BY <1>3, <2>1, <2>2
  <2>4. QED
    BY <2>1, <2>3
<1>7. QED
  BY <1>4, <1>5, <1>6

LEMMA StaleStep ==
  ASSUME TypeOK, Tidy, [Next]_vars, NEW g \in Generations,
         load[g].at \in Waiting, Stale(g), load'[g].at # load[g].at
  PROVE  /\ UNCHANGED <<surface, engine, committed>>
         /\ Len(queue') <= Len(queue)
<1> DEFINE Nothing == /\ UNCHANGED <<surface, engine, committed>>
                      /\ Len(queue') <= Len(queue)
<1>1. queue \in Seq(Messages) /\ Len(queue) \in Nat
  BY TypePieces, LenProperties
<1>2. ASSUME NEW rest, Ignored(g, rest), Len(rest) <= Len(queue)
      PROVE  Nothing
  BY <1>2 DEF Ignored, Effect, engine
<1>3. ASSUME NEW h \in Generations, Local(h) \/ Lost(h)
      PROVE  Nothing
  <2>1. Succeeded(h, queue, NoCheckpoint) \/ Failed(h, queue) \/ Superseded(h, queue)
    BY <1>3 DEF Local, Lost
  <2>2. h = g /\ Ignored(g, queue)
    BY <2>1, NoCheckpointType, AnswerMoves
  <2>3. QED
    BY <1>1, <1>2, <2>2
<1>4. ASSUME Serve
      PROVE  Nothing
  <2> DEFINE n == Head(queue)
             rest == Tail(queue)
  <2>1. /\ queue # <<>> /\ n \in Messages /\ rest \in Seq(Messages)
        /\ world.entities \in Entities
    BY <1>4, ServeCases, ServedType, TypePieces DEF Worlds
  <2>2. \/ \/ Succeeded(n.by, rest, world.entities)
           \/ Failed(n.by, rest)
           \/ Superseded(n.by, rest)
        \/ UNCHANGED load
    BY <1>4, ServeCases
  <2>3. n.by \in Generations
    BY <2>1 DEF Messages
  <2>4. Len(rest) <= Len(queue)
    BY <1>1, <2>1, HeadTailProperties
  <2> HIDE DEF n, rest
  <2>5. n.by = g /\ Ignored(g, rest)
    BY <2>1, <2>2, <2>3, AnswerMoves
  <2>6. QED
    BY <1>2, <2>4, <2>5
<1>5. /\ ~Play /\ ~UNCHANGED vars
  BY DEF Play, vars
<1>6. QED
  BY <1>3, <1>4, <1>5, FreshMoves DEF Next

\* A stale load's answer touches nothing but itself.
THEOREM StaleIsHarmless == Spec => StaleTouchesNothing
<1>1. TypeOK /\ Tidy /\ [Next]_vars =>
        [\A g \in Generations :
           load[g].at \in Waiting /\ Stale(g) /\ load'[g].at # load[g].at
             => UNCHANGED <<surface, engine, committed>>
                /\ Len(queue') <= Len(queue)]_vars
  BY StaleStep
<1>2. QED
  BY <1>1, TypeCorrect, TransitionsTidy, PTL DEF Spec, StaleTouchesNothing

\* The answer that hands the world back keeps what the player did in it: before
\* the teardown the world stands, behind it the checkpoint is over it again.
LEMMA HandedBack ==
  ASSUME TypeOK, Tidy, NEW h \in Generations, NEW rest, NEW payload \in Entities,
         NEW w, load[h].at \in Waiting,
         \/ /\ Succeeded(h, rest, payload)
            /\ load[h].at = "rehydrate" => w.entities = load[h].kept
         \/ Failed(h, rest) \/ Superseded(h, rest),
         load[h].at \in {"prepare", "capture"} => w.entities = world.entities,
         ~Playable, running' /\ ~locked',
         load'[generation].at \in {"retained", "recovered"}, ~Undermined
  PROVE  w.entities = lived
<1>1. /\ running \in BOOLEAN /\ locked \in BOOLEAN /\ generation \in 0..MaxGenerations
      /\ Driven(generation, load, disposed, running, locked)
      /\ Prepared(generation, load, committed)
      /\ Sane(generation, load, disposed, committed, surface, running, world, lived)
      /\ ~Undercut(generation, load)
      /\ LoadTypes
  BY TypePieces, UndercutIsUndermined DEF Tidy, Consistent, LoadTypes
<1>2. generation > 0
  <2>1. ~(h > generation)
    BY <1>1, NobodyNewer DEF Waiting, Asking
  <2>2. QED
    BY <1>1, <2>1, SceneAssumption DEF Generations
<1>3. ~(running' = running /\ locked' = locked)
  <2>1. SUFFICES ASSUME running' = running, locked' = locked PROVE FALSE
    OBVIOUS
  <2>2. running /\ ~locked
    BY <2>1
  <2>3. QED
    BY <1>2, <2>2 DEF Playable
<1>4. ~Stale(h)
  BY <1>3, AnswerMoves DEF Ignored
<1>5. /\ h = generation /\ disposed = FALSE /\ Now(generation, load) = load[h]
  BY <1>4, Newest
<1>6. running = FALSE
  BY <1>1, <1>5 DEF Driven
<1>7. CASE /\ Succeeded(h, rest, payload)
           /\ load[h].at = "rehydrate" => w.entities = load[h].kept
  <2>1. Advanced(h, rest, payload)
    BY <1>1, <1>7, SucceededAdvances
  <2>2. load[h].at = "rehydrate"
    BY <1>3, <1>5, <2>1 DEF Advanced, Unheard, Effect, Became
  <2>3. w.entities = load[h].kept
    BY <1>7, <2>2
  <2>4. load[h].kept # NoCheckpoint
    BY <1>1, <1>5, <2>2 DEF Prepared, Recovering
  <2>5. QED
    BY <1>1, <1>5, <2>3, <2>4 DEF Sane
<1>8. CASE Failed(h, rest)
  <2>1. Undone(h, rest)
    BY <1>1, <1>8, FailedUndoes
  <2>2. load[h].at \notin Recovering /\ load[h].kept = NoCheckpoint /\ committed # NoMap
    BY <1>3, <1>5, <2>1 DEF Undone, Halted, Unheard, Effect, Became
  <2>3. load[h].at \in {"prepare", "capture"}
    BY <1>1, <1>4, <2>2, FailureStands DEF Waiting, Asking, Recovering
  <2>4. load[h].at \notin Tearing
    BY <2>3 DEF Tearing, Recovering
  <2>5. QED
    BY <1>1, <1>5, <1>6, <2>3, <2>4 DEF Sane
<1>9. QED
  BY <1>4, <1>7, <1>8 DEF Superseded

LEMMA KeptStep ==
  ASSUME TypeOK, Tidy, [Next]_vars,
         ~Playable, Playable', generation' = generation,
         load'[generation].at \in {"retained", "recovered"}, ~Undermined
  PROVE  world'.entities = lived
<1>1. running' /\ ~locked'
  BY DEF Playable
<1>2. ~UNCHANGED vars /\ ~Play
  <2>1. ~Play
    BY DEF Play, Playable
  <2>2. UNCHANGED vars => (Playable' <=> Playable)
    BY DEF vars, engine, Playable
  <2>3. QED
    BY <2>1, <2>2
<1>3. /\ \A m \in Maps, follow \in BOOLEAN : ~StartLoad(m, follow)
      /\ ~RestoreWorld /\ ~Dispose
      /\ \A g \in Generations : ~RestorePlayer(g)
  BY TypePieces DEF StartLoad, RestoreWorld, RestorePlayer, Dispose, Invalidate
<1>4. ASSUME NEW h \in Generations, Local(h) \/ Lost(h)
      PROVE  world'.entities = lived
  <2>1. world' = world /\ load[h].at \in Waiting
    BY <1>4 DEF Local, Lost, Waiting
  <2>2. \/ Succeeded(h, queue, NoCheckpoint) /\ load[h].at # "rehydrate"
        \/ Failed(h, queue) \/ Superseded(h, queue)
    BY <1>4 DEF Local, Lost
  <2>3. QED
    BY <1>1, <2>1, <2>2, NoCheckpointType, HandedBack
<1>5. ASSUME Serve
      PROVE  world'.entities = lived
  <2> DEFINE n == Head(queue)
             rest == Tail(queue)
             waited == n.at \in Asking /\ load[n.by].at = n.at
  <2>1. /\ queue # <<>>
        /\ world' = Done(n) \/ (n.at # "restore" /\ world' \in Halfway(n))
        /\ waited => \/ world' = Done(n) /\ Succeeded(n.by, rest, world.entities)
                     \/ Failed(n.by, rest)
                     \/ Superseded(n.by, rest)
        /\ ~waited => running' = running /\ locked' = locked
    BY <1>5, ServeCases
  <2>2. /\ n \in Messages /\ world.entities \in Entities
    BY <2>1, ServedType, TypePieces DEF Worlds
  <2>3. n.by \in Generations
    BY <2>2 DEF Messages
  <2>4. Carries(n, generation, load, committed)
    <3>1. queue \in Seq(Messages) /\ Sent(queue, generation, load, committed)
      BY TypePieces DEF Tidy, Consistent
    <3>2. QED
      BY <2>1, <3>1, TailKeeps
  <2> HIDE DEF n, rest
  <2>5. waited
    <3>1. generation' > 0 /\ ~(running /\ ~locked /\ generation > 0)
      BY DEF Playable
    <3>2. QED
      BY <1>1, <2>1, <3>1
  <2>6. \/ world' = world
        \/ n.at \notin {"prepare", "capture"}
    BY <2>1 DEF Done, Halfway
  <2>7. world' = Done(n) /\ n.at = "rehydrate" => world'.entities = load[n.by].kept
    <3>1. \A e : [world EXCEPT !.entities = e].entities = e
      BY TypePieces DEF Worlds
    <3>2. n.at = "rehydrate" => Done(n) = [world EXCEPT !.entities = n.payload]
      BY DEF Done
    <3>3. QED
      BY <2>4, <3>1, <3>2 DEF Carries
  <2>8. load[n.by].at \in Waiting /\ load[n.by].at = n.at
    BY <2>5 DEF Waiting
  <2>9. QED
    BY <1>1, <2>1, <2>2, <2>3, <2>5, <2>6, <2>7, <2>8, HandedBack
<1>6. QED
  BY <1>2, <1>3, <1>4, <1>5 DEF Next

\* A failed switch hands the world back with everything the player did in it.
THEOREM ProgressSurvives == Spec => ProgressKept
<1>1. TypeOK /\ Tidy /\ [Next]_vars =>
        [~Playable /\ Playable' /\ generation' = generation
           /\ load'[generation].at \in {"retained", "recovered"} /\ ~Undermined
           => world'.entities = lived]_vars
  BY KeptStep
<1>2. QED
  BY <1>1, TypeCorrect, TransitionsTidy, PTL DEF Spec, ProgressKept

================================================================================

---------------------------- MODULE TextRequests ----------------------------
(***************************************************************************)
(* Text inference requests of the client                                   *)
(* (apps/frontend/client/src/lib/services/ai/): callers that ask the same  *)
(* question share one attempt (structured_request_deduplicator.ts); the    *)
(* attempt waits at the admission gate (text_request_admission.ts), where  *)
(* interactive work passes at once and background work waits for a quiet   *)
(* window; text_structured_dispatch.ts joins the two, and                  *)
(* text_generation_service.svelte.ts streams chat past them and cancels    *)
(* everything.                                                             *)
(*                                                                         *)
(* One contention domain; every caller makes one request.  An attempt is   *)
(* named by the caller that started it.  The gate forgets a domain in      *)
(* which nothing is left, which is what a gate of zeroes says.             *)
(***************************************************************************)
EXTENDS Naturals, Sequences, FiniteSets, SequencesExt

CONSTANTS
  Callers,      \* structured requests, each asked once
  Keys,         \* what they ask: identical requests have one key
  Asks,         \* the key of each
  Urgent,       \* the keys of interactive tasks
  Streams,      \* chat streams, each again and again
  MaxEntries,   \* attempts the deduplicator keeps for sharing
  Window        \* the quiet window, in ticks

Nobody == "nobody"

ASSUME TextAssumption ==
  /\ Asks \in [Callers -> Keys] /\ Urgent \subseteq Keys
  /\ Nobody \notin Callers /\ IsFiniteSet(Callers) /\ IsFiniteSet(Streams)
  /\ MaxEntries \in Nat \ {0} /\ Window \in Nat \ {0}

VARIABLES
  caller,    \* each caller's request: how it stands, the attempt it waits on
  attempt,   \* each attempt: where it is, aborted, its lease nobody's
  shared,    \* the deduplicator's map: key -> the attempt one may join
  gate,      \* the domain's state at the admission gate
  stream,    \* each stream's lease
  calm       \* history: ticks since interactive work last counted here

vars == <<caller, attempt, shared, gate, stream, calm>>

NotArmed == Window + 1

\* grace: ticks until the quiet window's timer is due.
Idle == [interactive |-> 0, background |-> 0, queue |-> <<>>, grace |-> NotArmed]

TypeOK ==
  /\ caller \in [Callers -> [at : {"idle", "waiting", "answered", "failed",
                                   "cancelled"},
                             on : Callers \cup {Nobody}]]
  /\ attempt \in [Callers -> [at : {"none", "queued", "running", "settled"},
                              aborted : BOOLEAN, orphan : BOOLEAN]]
  /\ shared \in [Keys -> Callers \cup {Nobody}]
  /\ gate.interactive \in 0..(Cardinality(Streams) + Cardinality(Callers))
  /\ gate.background \in 0..1
  /\ gate.queue \in Seq(Callers) /\ Len(gate.queue) <= Cardinality(Callers)
  /\ gate.grace \in 0..NotArmed
  /\ stream \in [Streams -> {"idle", "talking", "orphaned"}]
  /\ calm \in 0..Window

Init ==
  /\ caller = [c \in Callers |-> [at |-> "idle", on |-> Nobody]]
  /\ attempt = [a \in Callers |-> [at |-> "none", aborted |-> FALSE, orphan |-> FALSE]]
  /\ shared = [k \in Keys |-> Nobody]
  /\ gate = Idle
  /\ stream = [s \in Streams |-> "idle"]
  /\ calm = Window

Waiters(a) == {c \in Callers : caller[c] = [at |-> "waiting", on |-> a]}

-----------------------------------------------------------------------------
(* The admission gate. *)

\* armGrace: the window starts when somebody waits and nothing runs.
ArmGrace(g) ==
  IF g.grace = NotArmed /\ g.queue # <<>> /\ g.interactive = 0 /\ g.background = 0
  THEN [g EXCEPT !.grace = Window] ELSE g

\* Mutant: an interactive request leaves the armed window running.
EnterKeepingGrace(g) == [g EXCEPT !.interactive = @ + 1]

\* acquire, interactive: admitted on the spot; a pending window starts over.
EnterInteractive(g) == [g EXCEPT !.interactive = @ + 1, !.grace = NotArmed]

\* acquire, background: queued, also in an idle domain.
Enqueue(g, a) == ArmGrace([g EXCEPT !.queue = Append(@, a)])

\* Mutant: a domain that settles is not looked at again.
ReleaseQuietly(g, k) ==
  IF k \in Urgent THEN [g EXCEPT !.interactive = @ - 1]
  ELSE [g EXCEPT !.background = @ - 1]

\* release of a lease of this domain.
Release(g, k) ==
  ArmGrace(IF k \in Urgent THEN [g EXCEPT !.interactive = @ - 1]
           ELSE [g EXCEPT !.background = @ - 1])

\* indexOf and splice: those behind a move up.
Without(queue, a) == RemoveAt(queue, CHOOSE i \in 1..Len(queue) : queue[i] = a)

\* Mutant: a dropped request takes the window of those behind it along.
DropDisarming(g, a) ==
  [g EXCEPT !.queue = Without(g.queue, a), !.grace = NotArmed]

\* dropQueued: an empty queue needs no window.
DropQueued(g, a) ==
  LET rest == Without(g.queue, a) IN
  IF rest = <<>> THEN [g EXCEPT !.queue = rest, !.grace = NotArmed]
  ELSE ArmGrace([g EXCEPT !.queue = rest])

\* Mutant: the admitted request does not claim the domain's background slot.
ClaimNothing(g) == [g EXCEPT !.queue = Tail(@), !.grace = NotArmed]

\* admitIfQuiet: the head of the queue takes the one background slot.
Claim(g) == [g EXCEPT !.queue = Tail(@), !.grace = NotArmed, !.background = 1]

Quiet(g) == g.queue # <<>> /\ g.interactive = 0 /\ g.background = 0

\* The window's timer.
Fire ==
  /\ gate.grace = 0
  /\ IF Quiet(gate)
     THEN /\ gate' = Claim(gate)
          /\ attempt' = [attempt EXCEPT ![Head(gate.queue)].at = "running"]
     ELSE /\ gate' = ArmGrace([gate EXCEPT !.grace = NotArmed])
          /\ UNCHANGED attempt
  /\ UNCHANGED <<caller, shared, stream, calm>>

\* Time passes; a due timer may be late.
Tick ==
  /\ gate' = [gate EXCEPT !.grace = IF @ \in {0, NotArmed} THEN @ ELSE @ - 1]
  /\ calm' = IF gate.interactive > 0 \/ calm = Window THEN calm ELSE calm + 1
  /\ UNCHANGED <<caller, attempt, shared, stream>>

-----------------------------------------------------------------------------
(* Structured requests. *)

\* Every subscriber of a ends as told; the map forgets a.
Settle(a, how) ==
  /\ caller' = [c \in Callers |->
                  IF c \in Waiters(a) THEN [at |-> how, on |-> Nobody] ELSE caller[c]]
  /\ shared' = [k \in Keys |->
                  IF shared[k] = a THEN Nobody ELSE shared[k]]

\* A request joins the attempt kept for its key...
Join(c) ==
  LET a == shared[Asks[c]] IN
  /\ caller[c].at = "idle" /\ a # Nobody
  /\ caller' = [caller EXCEPT ![c] = [at |-> "waiting", on |-> a]]
  /\ UNCHANGED <<attempt, shared, gate, stream, calm>>

\* ...or starts one, which the map keeps unless it is full.
Start(c) ==
  LET full == Cardinality({k \in Keys : shared[k] # Nobody}) >= MaxEntries IN
  /\ caller[c].at = "idle" /\ shared[Asks[c]] = Nobody
  /\ caller' = [caller EXCEPT ![c] = [at |-> "waiting", on |-> c]]
  /\ shared' = IF full THEN shared ELSE [shared EXCEPT ![Asks[c]] = c]
  /\ IF Asks[c] \in Urgent
     THEN /\ attempt' = [attempt EXCEPT ![c].at = "running"]
          /\ gate' = EnterInteractive(gate) /\ calm' = 0
     ELSE /\ attempt' = [attempt EXCEPT ![c].at = "queued"]
          /\ gate' = Enqueue(gate, c) /\ UNCHANGED calm
  /\ UNCHANGED stream

\* Mutant: nobody aborts the attempt the last one leaves.
LeavesRunning(C, a) == FALSE

\* The callers C are the last to wait for a.
LastLeave(C, a) == Waiters(a) # {} /\ Waiters(a) \subseteq C

\* Mutant: detaching leaves the attempt in the map.
DetachKeepingEntry(C) ==
  /\ caller' = [c \in Callers |->
                  IF c \in C THEN [at |-> "cancelled", on |-> Nobody] ELSE caller[c]]
  /\ UNCHANGED shared

\* detachWith: the callers C end, and the map forgets what they waited for.
Detach(C) ==
  /\ caller' = [c \in Callers |->
                  IF c \in C THEN [at |-> "cancelled", on |-> Nobody] ELSE caller[c]]
  /\ shared' = [k \in Keys |->
                  IF \E c \in C : caller[c].on = shared[k] THEN Nobody ELSE shared[k]]

\* ...and the attempts nobody waits for any more are aborted; queued, they end.
Abandon(C) ==
  [a \in Callers |->
     IF ~LastLeave(C, a) THEN attempt[a]
     ELSE [attempt[a] EXCEPT !.aborted = TRUE,
                             !.at = IF @ = "queued" THEN "settled" ELSE @]]

\* A caller's own signal aborts its request.
Cancel(c) ==
  LET a == caller[c].on IN
  /\ caller[c].at = "waiting"
  /\ Detach({c})
  /\ attempt' = Abandon({c})
  /\ gate' = IF attempt[a].at = "queued" /\ LastLeave({c}, a)
             THEN DropQueued(gate, a) ELSE gate
  /\ UNCHANGED <<stream, calm>>

\* The deadline the attempt inherited from its initiator finds it queued: it is
\* dropped and never reaches a provider.
Expire(a) ==
  /\ attempt[a].at = "queued"
  /\ attempt' = [attempt EXCEPT ![a].at = "settled"]
  /\ gate' = DropQueued(gate, a)
  /\ Settle(a, "failed")
  /\ UNCHANGED <<stream, calm>>

\* Mutant: a lease is released on whatever state the domain has now.
FinishOnFreshState(a) ==
  /\ attempt[a].at = "running"
  /\ attempt' = [attempt EXCEPT ![a].at = "settled"]
  /\ gate' = Release(gate, Asks[a])
  /\ \E how \in {"answered", "failed"} : Settle(a, how)
  /\ UNCHANGED <<stream, calm>>

\* The provider answers or fails, by its deadline at the latest: the lease is
\* released and the subscribers get the outcome.
Finish(a) ==
  /\ attempt[a].at = "running"
  /\ attempt' = [attempt EXCEPT ![a].at = "settled"]
  /\ gate' = IF attempt[a].orphan THEN gate ELSE Release(gate, Asks[a])
  /\ \E how \in {"answered", "failed"} : Settle(a, how)
  /\ UNCHANGED <<stream, calm>>

-----------------------------------------------------------------------------
(* Chat streams, and cancelling everything. *)

StreamStart(s) ==
  /\ stream[s] = "idle"
  /\ stream' = [stream EXCEPT ![s] = "talking"]
  /\ gate' = EnterInteractive(gate)
  /\ calm' = 0
  /\ UNCHANGED <<caller, attempt, shared>>

StreamEnd(s) ==
  /\ stream[s] # "idle"
  /\ stream' = [stream EXCEPT ![s] = "idle"]
  /\ gate' = IF stream[s] = "orphaned" THEN gate
             ELSE ArmGrace([gate EXCEPT !.interactive = @ - 1])
  /\ UNCHANGED <<caller, attempt, shared, calm>>

\* cancelAll: the gate rejects its queue and forgets its domains, so a lease
\* still out is nobody's; then every caller's controller is aborted.
CancelAll ==
  LET C == {c \in Callers : caller[c].at = "waiting"} IN
  /\ gate' = Idle
  /\ Detach(C)
  /\ attempt' = [a \in Callers |->
                   [Abandon(C)[a] EXCEPT !.orphan = @ \/ attempt[a].at = "running"]]
  /\ stream' = [s \in Streams |-> IF stream[s] = "idle" THEN "idle" ELSE "orphaned"]
  /\ UNCHANGED calm

Next ==
  \/ \E c \in Callers :
       Join(c) \/ Start(c) \/ Cancel(c) \/ Expire(c) \/ Finish(c)
  \/ \E s \in Streams : StreamStart(s) \/ StreamEnd(s)
  \/ CancelAll
  \/ Fire
  \/ Tick

Spec == Init /\ [][Next]_vars

\* Time passes, timers fire, and an admitted attempt is answered or times out.
\* Nothing makes a stream end or stop from starting again: it is the player's.
Fairness == WF_vars(Tick) /\ WF_vars(Fire) /\ \A a \in Callers : WF_vars(Finish(a))

FairSpec == Spec /\ Fairness

-----------------------------------------------------------------------------
(* Properties. *)

Live(a) == attempt[a].at \in {"queued", "running"}

\* Sharing: an attempt lives on exactly while some caller waits for it -- no
\* caller's own cancellation ends it for the others, and none goes on unwatched.
AbortedIffUnwatched ==
  \A a \in Callers : Live(a) => (attempt[a].aborted <=> Waiters(a) = {})

\* Nobody joins an attempt that was given up or is over.
SharedIsLive ==
  \A k \in Keys : shared[k] # Nobody =>
     Live(shared[k]) /\ ~attempt[shared[k]].aborted /\ Asks[shared[k]] = k

\* Rule 3, also across cancelAll, which forgets a domain with leases still out:
\* of the background attempts that run, at most one is still wanted.
OneBackground ==
  \A a, b \in Callers :
     {attempt[a].at, attempt[b].at} = {"running"}
       /\ {Asks[a], Asks[b]} \cap Urgent = {}
       /\ ~attempt[a].aborted /\ ~attempt[b].aborted => a = b

\* The lost wakeup: while somebody waits in a domain with nothing running, the
\* window that will admit him is armed -- after every release, drop and reset.
NeverStranded == Quiet(gate) => gate.grace # NotArmed

\* Rule 2: background work is admitted only after a whole quiet window since
\* interactive work last counted.
QuietBeforeBackground ==
  [][\A a \in Callers :
       attempt[a].at = "queued" /\ attempt'[a].at = "running"
         => calm = Window /\ gate.interactive = 0]_vars

\* Rule 7: once the player's streams stop, queued work drains and every caller
\* is told how its request ended.
Drains ==
  <>[](\A s \in Streams : stream[s] = "idle")
    => \A c \in Callers : (caller[c].at = "waiting") ~> (caller[c].at # "waiting")
=============================================================================

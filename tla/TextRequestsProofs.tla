--------------------------- MODULE TextRequestsProofs ---------------------------
(***************************************************************************)
(* What sharing and admission of text requests keep for all callers, keys, *)
(* streams, limits and windows.  Three invariants build on one another:    *)
(*   Sharing  - who waits for what, and which attempts live;               *)
(*   Queued   - the queue holds exactly the queued attempts, each once;    *)
(*   Counted  - the gate's counters count leases that are still its own.   *)
(* With them the quiet window is Armed as it should be.                    *)
(***************************************************************************)
EXTENDS TextRequests, FiniteSetTheorems, SequenceTheorems, TLAPS

-----------------------------------------------------------------------------
(* Types *)

CallerRecords == [at : {"idle", "waiting", "answered", "failed", "cancelled"},
                  on : Callers \cup {Nobody}]
AttemptRecords == [at : {"none", "queued", "running", "settled"},
                   aborted : BOOLEAN, orphan : BOOLEAN]
GateRecords == [interactive : Nat, background : 0..1, queue : Seq(Callers),
                grace : 0..NotArmed]

\* The types, but for the bounds of the counters.
Typed ==
  /\ caller \in [Callers -> CallerRecords]
  /\ attempt \in [Callers -> AttemptRecords]
  /\ shared \in [Keys -> Callers \cup {Nobody}]
  /\ gate \in GateRecords
  /\ stream \in [Streams -> {"idle", "talking", "orphaned"}]
  /\ calm \in 0..Window

\* No request is in the queue twice, and a is there.
Once(queue) == \A m, n \in 1..Len(queue) : queue[m] = queue[n] => m = n
In(queue, a) == \E n \in 1..Len(queue) : queue[n] = a

-----------------------------------------------------------------------------
(* The gate's operations *)

\* splice takes one request out of the queue and no other.
LEMMA WithoutOne ==
  ASSUME NEW queue \in Seq(Callers), Once(queue), NEW a, In(queue, a)
  PROVE  /\ Without(queue, a) \in Seq(Callers)
         /\ Once(Without(queue, a))
         /\ \A b : In(Without(queue, a), b) <=> In(queue, b) /\ b # a
<1> DEFINE i == CHOOSE n \in 1..Len(queue) : queue[n] = a
           front == SubSeq(queue, 1, i - 1)
           back == SubSeq(queue, i + 1, Len(queue))
           rest == Without(queue, a)
<1>1. Len(queue) \in Nat /\ i \in 1..Len(queue) /\ queue[i] = a
  BY LenProperties DEF In
<1>2. rest = front \o back
  BY DEF Without, RemoveAt
<1> HIDE DEF i
<1>3. \A n \in 1..Len(queue) : queue[n] \in Callers
  BY ElementOfSeq
<1>4. /\ front \in Seq(Callers) /\ Len(front) = i - 1
      /\ \A n \in 1..(i - 1) : front[n] = queue[n]
  BY <1>1, <1>3, SubSeqProperties
<1>5. /\ back \in Seq(Callers) /\ Len(back) = Len(queue) - i
      /\ \A n \in 1..(Len(queue) - i) : back[n] = queue[n + i]
  BY <1>1, <1>3, SubSeqProperties
<1> HIDE DEF front, back
<1>6. /\ rest \in Seq(Callers) /\ Len(rest) = Len(queue) - 1
      /\ \A n \in 1..(Len(queue) - 1) :
           rest[n] = IF n <= i - 1 THEN front[n] ELSE back[n - (i - 1)]
  <2>1. /\ rest \in Seq(Callers) /\ Len(rest) = Len(front) + Len(back)
        /\ \A n \in 1..(Len(front) + Len(back)) :
             rest[n] = IF n <= Len(front) THEN front[n] ELSE back[n - Len(front)]
    <3>1. front \in Seq(Callers) /\ back \in Seq(Callers)
      BY <1>4, <1>5
    <3> HIDE DEF rest
    <3>2. QED
      BY <1>2, <3>1, ConcatProperties, Zenon
  <2>2. Len(front) + Len(back) = Len(queue) - 1
    BY <1>1, <1>4, <1>5
  <2>3. QED
    BY <1>4, <2>1, <2>2
<1>7. \A n \in 1..(Len(queue) - 1) : rest[n] = queue[IF n < i THEN n ELSE n + 1]
  <2> SUFFICES ASSUME NEW n \in 1..(Len(queue) - 1)
               PROVE  rest[n] = queue[IF n < i THEN n ELSE n + 1]
    OBVIOUS
  <2>1. CASE n < i
    BY <1>1, <1>4, <1>6, <2>1
  <2>2. CASE ~(n < i)
    <3>1. n - (i - 1) \in 1..(Len(queue) - i) /\ n - (i - 1) + i = n + 1
      BY <1>1, <2>2
    <3>2. QED
      BY <1>1, <1>5, <1>6, <2>2, <3>1
  <2>3. QED
    BY <2>1, <2>2
<1> HIDE DEF rest
<1>8. Once(rest)
  <2> SUFFICES ASSUME NEW m \in 1..(Len(queue) - 1), NEW n \in 1..(Len(queue) - 1),
                      rest[m] = rest[n]
               PROVE  m = n
    BY <1>6 DEF Once
  <2> DEFINE was(k) == IF k < i THEN k ELSE k + 1
  <2>1. was(m) \in 1..Len(queue) /\ was(n) \in 1..Len(queue)
    BY <1>1
  <2>2. queue[was(m)] = queue[was(n)]
    BY <1>7
  <2>3. was(m) = was(n)
    BY <2>1, <2>2 DEF Once
  <2>4. QED
    BY <1>1, <2>3
<1>9. ASSUME NEW b PROVE In(rest, b) <=> In(queue, b) /\ b # a
  <2>1. ASSUME In(rest, b) PROVE In(queue, b) /\ b # a
    BY <1>1, <1>6, <1>7, <2>1 DEF In, Once
  <2>2. ASSUME NEW n \in 1..Len(queue), queue[n] = b, b # a PROVE In(rest, b)
    <3>1. CASE n < i
      BY <1>1, <1>6, <1>7, <2>2, <3>1 DEF In
    <3>2. CASE ~(n < i)
      <4>1. n - 1 \in 1..(Len(queue) - 1) /\ ~(n - 1 < i) /\ n - 1 + 1 = n
        BY <1>1, <2>2, <3>2
      <4>2. QED
        BY <1>6, <1>7, <2>2, <4>1 DEF In
    <3>3. QED
      BY <3>1, <3>2
  <2>3. QED
    BY <2>1, <2>2 DEF In
<1>10. QED
  BY <1>6, <1>8, <1>9 DEF rest

\* The window is armed only in quiet, and whoever waits in quiet waits for it.
Armed(g, c) ==
  /\ g.grace # NotArmed => g.interactive = 0 /\ c + g.grace >= Window
  /\ Quiet(g) => g.grace # NotArmed

\* armGrace arms what waits in quiet and changes nothing else.
LEMMA ArmGraceArms ==
  ASSUME NEW g \in GateRecords, NEW c \in 0..Window,
         g.grace # NotArmed => g.interactive = 0 /\ c + g.grace >= Window
  PROVE  /\ ArmGrace(g) \in GateRecords
         /\ ArmGrace(g).interactive = g.interactive
         /\ ArmGrace(g).background = g.background
         /\ ArmGrace(g).queue = g.queue
         /\ Armed(ArmGrace(g), c)
<1>1. Window \in Nat /\ Window \in 0..NotArmed /\ Window # NotArmed
  BY TextAssumption DEF NotArmed
<1>2. CASE g.grace = NotArmed /\ g.queue # <<>> /\ g.interactive = 0 /\ g.background = 0
  <2> DEFINE h == [g EXCEPT !.grace = Window]
  <2>1. ArmGrace(g) = h
    BY <1>2 DEF ArmGrace
  <2>2. /\ h \in GateRecords /\ h.interactive = g.interactive
        /\ h.background = g.background /\ h.queue = g.queue /\ h.grace = Window
    BY <1>1 DEF GateRecords
  <2> HIDE DEF h
  <2>3. QED
    BY <1>1, <1>2, <2>1, <2>2 DEF Armed
<1>3. CASE ~(g.grace = NotArmed /\ g.queue # <<>> /\ g.interactive = 0 /\ g.background = 0)
  BY <1>3 DEF ArmGrace, Armed, Quiet
<1>4. QED
  BY <1>2, <1>3

\* An interactive request takes the window back.
LEMMA EnterEnters ==
  ASSUME NEW g \in GateRecords
  PROVE  /\ EnterInteractive(g) \in GateRecords
         /\ EnterInteractive(g).interactive = g.interactive + 1
         /\ EnterInteractive(g).background = g.background
         /\ EnterInteractive(g).queue = g.queue
         /\ EnterInteractive(g).grace = NotArmed
         /\ \A c : Armed(EnterInteractive(g), c)
<1>1. NotArmed \in 0..NotArmed
  BY TextAssumption DEF NotArmed
<1>2. g.interactive + 1 \in Nat
  BY DEF GateRecords
<1> DEFINE h == [g EXCEPT !.interactive = @ + 1, !.grace = NotArmed]
<1>3. /\ h \in GateRecords /\ h.interactive = g.interactive + 1
      /\ h.background = g.background /\ h.queue = g.queue /\ h.grace = NotArmed
  BY <1>1, <1>2 DEF GateRecords
<1>4. \A c : Armed(h, c)
  BY <1>3 DEF Armed, Quiet, GateRecords
<1>5. EnterInteractive(g) = h
  BY DEF EnterInteractive
<1> HIDE DEF h
<1>6. QED
  BY <1>3, <1>4, <1>5

-----------------------------------------------------------------------------
(* Sharing *)

Waits(c, a) == caller[c].at = "waiting" /\ caller[c].on = a
Watched(a) == \E c \in Callers : Waits(c, a)

\* A caller who waits waits for a live attempt that is not given up, one who does
\* not waits for nobody, and one who has not asked yet has started nothing; the
\* map holds live attempts only, and those given up are those nobody waits for.
Placed(c) ==
  /\ caller[c].at = "waiting" => /\ caller[c].on \in Callers
                                 /\ Live(caller[c].on)
                                 /\ ~attempt[caller[c].on].aborted
  /\ caller[c].at # "waiting" => caller[c].on = Nobody
  /\ caller[c].at = "idle" => /\ attempt[c].at = "none"
                              /\ ~attempt[c].aborted /\ ~attempt[c].orphan

Sharing ==
  /\ \A c \in Callers : Placed(c)
  /\ SharedIsLive
  /\ \A a \in Callers : Live(a) => (attempt[a].aborted <=> ~Watched(a))
  /\ \A a \in Callers : attempt[a].at = "queued" => ~attempt[a].aborted

LEMMA WaitersWait ==
  ASSUME Typed
  PROVE  \A a : /\ \A c \in Callers : c \in Waiters(a) <=> Waits(c, a)
                /\ Waiters(a) = {} <=> ~Watched(a)
  BY DEF Typed, CallerRecords, Waiters, Waits, Watched

\* What Sharing says of the map and of the attempts is what the runs check.
LEMMA SharingShows ==
  ASSUME Typed, Sharing
  PROVE  AbortedIffUnwatched /\ SharedIsLive
  BY WaitersWait DEF Sharing, AbortedIffUnwatched

\* A request joins an attempt others wait for.
LEMMA JoinShares ==
  ASSUME Typed, Sharing, NEW c \in Callers, Join(c)
  PROVE  Typed' /\ Sharing'
<1> DEFINE a == shared[Asks[c]]
<1>1. Asks[c] \in Keys /\ a \in Callers /\ Live(a) /\ ~attempt[a].aborted
  <2>1. Asks[c] \in Keys /\ a # Nobody
    BY TextAssumption DEF Join
  <2>2. a \in Callers
    BY <2>1 DEF Typed
  <2>3. QED
    BY <2>1, <2>2 DEF Sharing, SharedIsLive
<1>2. /\ caller \in [Callers -> CallerRecords] /\ caller[c].at = "idle"
      /\ caller' = [caller EXCEPT ![c] = [at |-> "waiting", on |-> a]]
  BY DEF Join, Typed
<1>3. UNCHANGED <<attempt, shared, gate, stream, calm>>
  BY DEF Join
<1> HIDE DEF a
<1>4. caller'[c] = [at |-> "waiting", on |-> a]
      /\ \A d \in Callers : d # c => caller'[d] = caller[d]
  BY <1>2
<1>5. Typed'
  BY <1>1, <1>2, <1>3 DEF Typed, CallerRecords
<1>6. \A b \in Callers : (Live(b)' <=> Live(b)) /\ attempt'[b] = attempt[b]
  BY <1>3 DEF Live
<1>7. \A b \in Callers : Watched(b)' <=> Watched(b) \/ b = a
  BY <1>2, <1>4 DEF Watched, Waits
<1>8. \A b \in Callers : Live(b)' => (attempt'[b].aborted <=> ~Watched(b)')
  BY <1>1, <1>6, <1>7 DEF Sharing
<1>12. \A b \in Callers : attempt'[b].at = "queued" => ~attempt'[b].aborted
  BY <1>6 DEF Sharing
<1>9. SharedIsLive'
  BY <1>3 DEF Sharing, SharedIsLive, Live
<1>10. \A d \in Callers : Placed(d)'
  BY <1>1, <1>3, <1>4 DEF Placed, Sharing, Live
<1>13. QED
  BY <1>5, <1>8, <1>9, <1>10, <1>12 DEF Sharing

\* A caller starts an attempt and is the one who waits for it.
LEMMA StartShares ==
  ASSUME Typed, Sharing, NEW c \in Callers, Start(c)
  PROVE  /\ caller' \in [Callers -> CallerRecords]
         /\ attempt' \in [Callers -> AttemptRecords]
         /\ shared' \in [Keys -> Callers \cup {Nobody}]
         /\ Sharing'
<1>1. /\ caller \in [Callers -> CallerRecords] /\ attempt \in [Callers -> AttemptRecords]
      /\ shared \in [Keys -> Callers \cup {Nobody}] /\ Asks[c] \in Keys
      /\ Nobody \notin Callers
  BY TextAssumption DEF Typed
<1>2. /\ caller[c].at = "idle" /\ caller' = [caller EXCEPT ![c] = [at |-> "waiting", on |-> c]]
      /\ shared' = shared \/ shared' = [shared EXCEPT ![Asks[c]] = c]
      /\ \E at \in {"running", "queued"} : attempt' = [attempt EXCEPT ![c].at = at]
  BY DEF Start
<1>3. attempt[c].at = "none" /\ ~attempt[c].aborted /\ ~attempt[c].orphan
  BY <1>2 DEF Sharing, Placed
<1>4. caller'[c] = [at |-> "waiting", on |-> c]
      /\ \A d \in Callers : d # c => caller'[d] = caller[d]
  BY <1>1, <1>2
<1>5. /\ attempt'[c].at \in {"running", "queued"} /\ ~attempt'[c].aborted
      /\ \A d \in Callers : d # c => attempt'[d] = attempt[d]
  BY <1>1, <1>2, <1>3 DEF AttemptRecords
<1>6. /\ caller' \in [Callers -> CallerRecords] /\ attempt' \in [Callers -> AttemptRecords]
      /\ shared' \in [Keys -> Callers \cup {Nobody}]
  BY <1>1, <1>2 DEF CallerRecords, AttemptRecords
<1>7. Live(c)' /\ ~Live(c) /\ \A d \in Callers : d # c => (Live(d)' <=> Live(d))
  BY <1>3, <1>5 DEF Live
<1>8. \A d \in Callers : Waits(d, c) => FALSE
  BY <1>7 DEF Sharing, Placed, Waits
<1>9. \A b \in Callers : Watched(b)' <=> Watched(b) \/ b = c
  BY <1>2, <1>4 DEF Watched, Waits
<1>10. \A b \in Callers : Live(b)' => (attempt'[b].aborted <=> ~Watched(b)')
  BY <1>5, <1>7, <1>9 DEF Sharing
<1>11. SharedIsLive'
  BY <1>1, <1>2, <1>5, <1>7 DEF Sharing, SharedIsLive
<1>12. \A d \in Callers : Placed(d)'
  BY <1>2, <1>4, <1>5, <1>7 DEF Placed, Sharing
<1>13. \A b \in Callers : attempt'[b].at = "queued" => ~attempt'[b].aborted
  BY <1>5 DEF Sharing
<1>14. QED
  BY <1>6, <1>10, <1>11, <1>12, <1>13 DEF Sharing

\* What a caller who leaves alone does to the attempt it waited for, if it was the
\* last one there.
LEMMA LastOne ==
  ASSUME Typed, NEW c \in Callers, caller[c].at = "waiting"
  PROVE  /\ \A b \in Callers : LastLeave({c}, b) <=>
              b = caller[c].on /\ \A d \in Callers : Waits(d, b) => d = c
         /\ \A b \in Callers : Waits(c, b) <=> b = caller[c].on
<1>1. \A b \in Callers : Waits(c, b) <=> b = caller[c].on
  BY DEF Waits
<1>2. \A b, d \in Callers : d \in Waiters(b) <=> Waits(d, b)
  BY WaitersWait
<1>3. \A b : Waiters(b) \subseteq Callers
  BY DEF Waiters
<1> SUFFICES ASSUME NEW b \in Callers
             PROVE  LastLeave({c}, b) <=>
                      b = caller[c].on /\ \A d \in Callers : Waits(d, b) => d = c
  BY <1>1
<1>4. LastLeave({c}, b) <=> /\ \E d \in Callers : Waits(d, b)
                           /\ \A d \in Callers : Waits(d, b) => d = c
  BY <1>2, <1>3 DEF LastLeave
<1>5. QED
  BY <1>1, <1>4

\* An attempt that is given up: queued it ends, running it goes on.
GivenUp(a) ==
  /\ attempt'[a].aborted /\ attempt'[a].orphan = attempt[a].orphan
  /\ attempt'[a].at = IF attempt[a].at = "queued" THEN "settled" ELSE attempt[a].at

\* A caller cancels: the last one gives the attempt up.
LEMMA CancelShares ==
  ASSUME Typed, Sharing, NEW c \in Callers, Cancel(c)
  PROVE  /\ caller' \in [Callers -> CallerRecords]
         /\ attempt' \in [Callers -> AttemptRecords]
         /\ shared' \in [Keys -> Callers \cup {Nobody}]
         /\ Sharing'
         /\ caller[c].on \in Callers /\ Live(caller[c].on)
         /\ ~attempt[caller[c].on].aborted
         /\ \A b \in Callers : IF LastLeave({c}, b) THEN b = caller[c].on /\ GivenUp(b)
                               ELSE attempt'[b] = attempt[b]
<1> DEFINE a == caller[c].on
<1>1. /\ caller \in [Callers -> CallerRecords] /\ attempt \in [Callers -> AttemptRecords]
      /\ shared \in [Keys -> Callers \cup {Nobody}] /\ Nobody \notin Callers
  BY TextAssumption DEF Typed
<1>2. caller[c].at = "waiting" /\ Detach({c}) /\ attempt' = Abandon({c})
  BY DEF Cancel
<1>3. a \in Callers /\ Live(a) /\ ~attempt[a].aborted
  BY <1>2 DEF Sharing, Placed
<1>4. /\ caller' = [d \in Callers |-> IF d = c THEN [at |-> "cancelled", on |-> Nobody]
                                      ELSE caller[d]]
      /\ shared' = [k \in Keys |-> IF a = shared[k] THEN Nobody ELSE shared[k]]
  BY <1>2 DEF Detach
<1>5. \A b \in Callers :
        attempt'[b] = IF ~LastLeave({c}, b) THEN attempt[b]
                      ELSE [attempt[b] EXCEPT !.aborted = TRUE,
                              !.at = IF @ = "queued" THEN "settled" ELSE @]
  BY <1>2 DEF Abandon
<1>6. \A b \in Callers : LastLeave({c}, b) =>
                           b = a /\ \A d \in Callers : Waits(d, a) => d = c
  BY <1>2, LastOne
<1>7. \A b \in Callers : ~LastLeave({c}, b) /\ b = a =>
                           \E d \in Callers : Waits(d, a) /\ d # c
  BY <1>2, LastOne
<1> HIDE DEF a
<1>19. \A b \in Callers :
        attempt[b] \in AttemptRecords /\ attempt'[b] \in AttemptRecords
        /\ IF LastLeave({c}, b) THEN GivenUp(b) ELSE attempt'[b] = attempt[b]
  <2> SUFFICES ASSUME NEW b \in Callers
               PROVE  attempt[b] \in AttemptRecords /\ attempt'[b] \in AttemptRecords
                      /\ IF LastLeave({c}, b) THEN GivenUp(b)
                         ELSE attempt'[b] = attempt[b]
    OBVIOUS
  <2>1. attempt[b] \in AttemptRecords
    BY <1>1
  <2> DEFINE left == [attempt[b] EXCEPT !.aborted = TRUE,
                              !.at = IF @ = "queued" THEN "settled" ELSE @]
  <2>2. /\ left \in AttemptRecords /\ left.aborted /\ left.orphan = attempt[b].orphan
        /\ left.at = IF attempt[b].at = "queued" THEN "settled" ELSE attempt[b].at
    BY <2>1 DEF AttemptRecords
  <2>3. attempt'[b] = IF ~LastLeave({c}, b) THEN attempt[b] ELSE left
    BY <1>5
  <2> HIDE DEF left
  <2>4. QED
    BY <2>1, <2>2, <2>3 DEF GivenUp
<1>8. \A b \in Callers : IF LastLeave({c}, b) THEN b = a /\ GivenUp(b)
                         ELSE attempt'[b] = attempt[b]
  BY <1>6, <1>19
<1>9. caller' \in [Callers -> CallerRecords]
      /\ shared' \in [Keys -> Callers \cup {Nobody}]
  BY <1>1, <1>4 DEF CallerRecords
<1>10. attempt' \in [Callers -> AttemptRecords]
  BY <1>2, <1>19 DEF Abandon
<1>11. \A b \in Callers : Watched(b)' <=> \E d \in Callers : d # c /\ Waits(d, b)
  BY <1>4 DEF Watched, Waits
<1>12. \A b \in Callers : b # a => ~Waits(c, b)
  BY DEF Waits, a
<1>13. \A b \in Callers : ~LastLeave({c}, b) => (Live(b)' <=> Live(b))
  BY <1>8 DEF Live
<1>14. \A b \in Callers : Live(b)' => (attempt'[b].aborted <=> ~Watched(b)')
  <2> SUFFICES ASSUME NEW b \in Callers, Live(b)'
               PROVE  attempt'[b].aborted <=> ~Watched(b)'
    OBVIOUS
  <2>1. CASE LastLeave({c}, b)
    BY <1>6, <1>8, <1>11, <2>1 DEF GivenUp
  <2>2. CASE ~LastLeave({c}, b) /\ b = a
    BY <1>3, <1>7, <1>8, <1>11, <2>2
  <2>3. CASE ~LastLeave({c}, b) /\ b # a
    BY <1>8, <1>11, <1>12, <1>13, <2>3 DEF Sharing, Watched
  <2>4. QED
    BY <2>1, <2>2, <2>3
<1>15. SharedIsLive'
  <2>1. \A k \in Keys : shared'[k] # Nobody => shared'[k] = shared[k] /\ shared[k] # a
    BY <1>4
  <2>2. \A k \in Keys : shared'[k] # Nobody =>
          /\ shared[k] \in Callers /\ ~LastLeave({c}, shared[k])
          /\ Live(shared[k]) /\ ~attempt[shared[k]].aborted /\ Asks[shared[k]] = k
    <3> SUFFICES ASSUME NEW k \in Keys, shared'[k] # Nobody
                 PROVE  /\ shared[k] \in Callers /\ ~LastLeave({c}, shared[k])
                        /\ Live(shared[k]) /\ ~attempt[shared[k]].aborted
                        /\ Asks[shared[k]] = k
      OBVIOUS
    <3>1. shared[k] \in Callers /\ shared[k] # Nobody /\ shared[k] # a
      BY <1>1, <2>1
    <3>2. ~LastLeave({c}, shared[k])
      BY <1>6, <3>1
    <3>3. QED
      BY <3>1, <3>2 DEF Sharing, SharedIsLive
  <2>3. QED
    BY <1>8, <1>13, <2>1, <2>2 DEF SharedIsLive
<1>16. \A d \in Callers : Placed(d)'
  <2> SUFFICES ASSUME NEW d \in Callers, d # c PROVE Placed(d)'
    BY <1>4 DEF Placed
  <2>1. caller'[d] = caller[d] /\ Placed(d)
    BY <1>4 DEF Sharing
  <2>2. CASE caller[d].at = "waiting"
    <3>1. caller[d].on \in Callers /\ Waits(d, caller[d].on)
      BY <2>1, <2>2 DEF Placed, Waits
    <3>2. ~LastLeave({c}, caller[d].on)
      BY <1>6, <3>1
    <3>3. QED
      BY <1>8, <1>13, <2>1, <2>2, <3>1, <3>2 DEF Placed, Live
  <2>3. CASE caller[d].at # "waiting"
    <3>1. caller[d].at = "idle" => attempt'[d] = attempt[d]
      BY <1>3, <1>6, <1>8, <2>1 DEF Placed, Live
    <3>2. QED
      BY <2>1, <2>3, <3>1 DEF Placed
  <2>4. QED
    BY <2>2, <2>3
<1>17. \A b \in Callers : attempt'[b].at = "queued" => ~attempt'[b].aborted
  BY <1>8 DEF Sharing, GivenUp
<1>18. QED
  BY <1>3, <1>8, <1>9, <1>10, <1>14, <1>15, <1>16, <1>17 DEF Sharing, a

\* An attempt that ends: its subscribers are told, and the map forgets it.
Ends(a) ==
  /\ attempt' = [attempt EXCEPT ![a].at = "settled"]
  /\ \E how \in {"answered", "failed"} : Settle(a, how)

LEMMA EndShares ==
  ASSUME Typed, Sharing, NEW a \in Callers, Live(a), Ends(a)
  PROVE  /\ caller' \in [Callers -> CallerRecords]
         /\ attempt' \in [Callers -> AttemptRecords]
         /\ shared' \in [Keys -> Callers \cup {Nobody}]
         /\ Sharing'
         /\ attempt'[a].at = "settled"
         /\ \A b \in Callers : b # a => attempt'[b] = attempt[b]
<1>1. /\ caller \in [Callers -> CallerRecords] /\ attempt \in [Callers -> AttemptRecords]
      /\ shared \in [Keys -> Callers \cup {Nobody}] /\ Nobody \notin Callers
  BY TextAssumption DEF Typed
<1>2. PICK how \in {"answered", "failed"} :
        /\ caller' = [c \in Callers |-> IF c \in Waiters(a) THEN [at |-> how, on |-> Nobody]
                                        ELSE caller[c]]
        /\ shared' = [k \in Keys |-> IF shared[k] = a THEN Nobody ELSE shared[k]]
  BY DEF Ends, Settle
<1>3. \A c \in Callers : c \in Waiters(a) <=> Waits(c, a)
  BY WaitersWait
<1>4. /\ caller' \in [Callers -> CallerRecords]
      /\ shared' \in [Keys -> Callers \cup {Nobody}]
  BY <1>1, <1>2 DEF CallerRecords
<1>5. /\ attempt' \in [Callers -> AttemptRecords] /\ attempt'[a].at = "settled"
      /\ \A b \in Callers : b # a => attempt'[b] = attempt[b]
  BY <1>1 DEF Ends, AttemptRecords
<1>6. ~Live(a)' /\ \A b \in Callers : b # a => (Live(b)' <=> Live(b))
  BY <1>5 DEF Live
<1>7. \A c \in Callers : IF Waits(c, a) THEN caller'[c] = [at |-> how, on |-> Nobody]
                         ELSE caller'[c] = caller[c]
  BY <1>2, <1>3
<1>8. \A b \in Callers : b # a => (Watched(b)' <=> Watched(b))
  BY <1>2, <1>7 DEF Watched, Waits
<1>9. SharedIsLive'
  BY <1>1, <1>2, <1>5, <1>6 DEF Sharing, SharedIsLive
<1>10. \A d \in Callers : Placed(d)'
  <2> SUFFICES ASSUME NEW d \in Callers PROVE Placed(d)'
    OBVIOUS
  <2>1. CASE Waits(d, a)
    BY <1>2, <1>7, <2>1 DEF Placed
  <2>2. CASE ~Waits(d, a)
    <3>1. caller'[d] = caller[d] /\ Placed(d)
      BY <1>7, <2>2 DEF Sharing
    <3>2. caller[d].at = "idle" => d # a
      BY <3>1 DEF Placed, Live
    <3>3. caller[d].at = "waiting" => caller[d].on # a
      BY <2>2 DEF Waits
    <3>4. QED
      BY <1>5, <3>1, <3>2, <3>3 DEF Placed, Live
  <2>3. QED
    BY <2>1, <2>2
<1>11. \A b \in Callers : Live(b)' => (attempt'[b].aborted <=> ~Watched(b)')
  BY <1>5, <1>6, <1>8 DEF Sharing
<1>12. \A b \in Callers : attempt'[b].at = "queued" => ~attempt'[b].aborted
  BY <1>5 DEF Sharing
<1>13. QED
  BY <1>4, <1>5, <1>9, <1>10, <1>11, <1>12 DEF Sharing

\* Everything is cancelled: every attempt that still lives is given up, and one
\* that runs is nobody's.
LEMMA CancelAllShares ==
  ASSUME Typed, Sharing, CancelAll
  PROVE  /\ caller' \in [Callers -> CallerRecords]
         /\ attempt' \in [Callers -> AttemptRecords]
         /\ shared' \in [Keys -> Callers \cup {Nobody}]
         /\ Sharing'
         /\ \A b \in Callers :
              /\ attempt'[b].at \in {"none", "running", "settled"}
              /\ attempt'[b].at = "running" => attempt'[b].aborted /\ attempt'[b].orphan
<1> DEFINE C == {c \in Callers : caller[c].at = "waiting"}
<1>1. /\ caller \in [Callers -> CallerRecords] /\ attempt \in [Callers -> AttemptRecords]
      /\ shared \in [Keys -> Callers \cup {Nobody}] /\ Nobody \notin Callers
  BY TextAssumption DEF Typed
<1>2. /\ Detach(C)
      /\ attempt' = [a \in Callers |->
           [Abandon(C)[a] EXCEPT !.orphan = @ \/ attempt[a].at = "running"]]
  BY DEF CancelAll
<1>3. /\ caller' = [c \in Callers |-> IF c \in C THEN [at |-> "cancelled", on |-> Nobody]
                                      ELSE caller[c]]
      /\ shared' = [k \in Keys |-> IF \E c \in C : caller[c].on = shared[k] THEN Nobody
                                   ELSE shared[k]]
  BY <1>2 DEF Detach
<1>4. \A b \in Callers : LastLeave(C, b) <=> Watched(b)
  <2>1. \A b : Waiters(b) \subseteq C
    BY DEF Waiters
  <2>2. QED
    BY <2>1, WaitersWait DEF LastLeave
<1>5. \A b \in Callers :
        /\ attempt'[b].at = IF Watched(b) /\ attempt[b].at = "queued" THEN "settled"
                            ELSE attempt[b].at
        /\ attempt'[b].aborted = (attempt[b].aborted \/ Watched(b))
        /\ attempt'[b].orphan = (attempt[b].orphan \/ attempt[b].at = "running")
        /\ attempt'[b] \in AttemptRecords
  <2> SUFFICES ASSUME NEW b \in Callers
               PROVE  /\ attempt'[b].at = IF Watched(b) /\ attempt[b].at = "queued"
                                          THEN "settled" ELSE attempt[b].at
                      /\ attempt'[b].aborted = (attempt[b].aborted \/ Watched(b))
                      /\ attempt'[b].orphan = (attempt[b].orphan \/ attempt[b].at = "running")
                      /\ attempt'[b] \in AttemptRecords
    OBVIOUS
  <2> DEFINE left == Abandon(C)[b]
  <2>1. attempt[b] \in AttemptRecords
    BY <1>1
  <2>2. /\ left \in AttemptRecords /\ left.orphan = attempt[b].orphan
        /\ left.aborted = (attempt[b].aborted \/ Watched(b))
        /\ left.at = IF Watched(b) /\ attempt[b].at = "queued" THEN "settled"
                     ELSE attempt[b].at
    BY <1>4, <2>1 DEF Abandon, AttemptRecords
  <2>3. attempt'[b] = [left EXCEPT !.orphan = @ \/ attempt[b].at = "running"]
    BY <1>2
  <2> HIDE DEF left
  <2>4. QED
    BY <2>2, <2>3 DEF AttemptRecords
<1>6. attempt' \in [Callers -> AttemptRecords]
  BY <1>2, <1>5
<1>7. caller' \in [Callers -> CallerRecords]
      /\ shared' \in [Keys -> Callers \cup {Nobody}]
  BY <1>1, <1>3 DEF CallerRecords
<1>8. \A c \in Callers : caller'[c].at # "waiting"
  BY <1>3
<1>9. \A k \in Keys : shared'[k] = Nobody
  <2> SUFFICES ASSUME NEW k \in Keys, shared[k] # Nobody
               PROVE  \E c \in C : caller[c].on = shared[k]
    BY <1>3
  <2>1. shared[k] \in Callers /\ Watched(shared[k])
    BY <1>1 DEF Sharing, SharedIsLive
  <2>2. QED
    BY <2>1 DEF Watched, Waits
<1>10. \A b \in Callers : Live(b) => (attempt[b].aborted <=> ~Watched(b))
  BY DEF Sharing
<1>11. \A b \in Callers : Live(b)' => Live(b) /\ attempt'[b].aborted
  BY <1>5, <1>10 DEF Live
<1>12. \A b \in Callers :
         /\ attempt'[b].at \in {"none", "running", "settled"}
         /\ attempt'[b].at = "running" => attempt'[b].aborted /\ attempt'[b].orphan
  <2> SUFFICES ASSUME NEW b \in Callers
               PROVE  /\ attempt'[b].at \in {"none", "running", "settled"}
                      /\ attempt'[b].at = "running" =>
                           attempt'[b].aborted /\ attempt'[b].orphan
    OBVIOUS
  <2>1. attempt[b].at = "queued" => Watched(b)
    BY <1>10 DEF Sharing, Live
  <2>2. attempt[b].at \in {"none", "queued", "running", "settled"}
    BY <1>1 DEF AttemptRecords
  <2>3. attempt[b].at = "running" => attempt[b].aborted \/ Watched(b)
    BY <1>10 DEF Live
  <2>4. QED
    BY <1>5, <2>1, <2>2, <2>3
<1>13. \A b \in Callers : ~Watched(b)'
  BY <1>8 DEF Watched, Waits
<1>14. \A d \in Callers : Placed(d)'
  <2> SUFFICES ASSUME NEW d \in Callers PROVE Placed(d)'
    OBVIOUS
  <2>1. Placed(d)
    BY DEF Sharing
  <2>2. CASE d \in C
    BY <1>3, <2>2 DEF Placed
  <2>3. CASE d \notin C
    <3>1. caller'[d] = caller[d] /\ caller[d].at # "waiting"
      BY <1>3, <2>3
    <3>2. caller[d].at = "idle" => ~Watched(d)
      BY <2>1 DEF Placed, Sharing, Watched, Waits, Live
    <3>3. QED
      BY <1>5, <2>1, <3>1, <3>2 DEF Placed
  <2>4. QED
    BY <2>2, <2>3
<1>15. SharedIsLive'
  BY <1>9 DEF SharedIsLive
<1>16. QED
  BY <1>6, <1>7, <1>11, <1>12, <1>13, <1>14, <1>15 DEF Sharing

-----------------------------------------------------------------------------
(* The queue and the counters *)

\* The queue holds exactly the queued attempts; they are background work.
Queued ==
  /\ Once(gate.queue)
  /\ \A a \in Callers : attempt[a].at = "queued" <=> In(gate.queue, a)
  /\ \A a \in Callers : attempt[a].at = "queued" => Asks[a] \notin Urgent /\ ~attempt[a].orphan

\* The streams and the attempts of the keys K with a lease the gate still knows.
Talking == {s \in Streams : stream[s] = "talking"}
Holding(K) == {a \in Callers : attempt[a].at = "running" /\ ~attempt[a].orphan
                                 /\ Asks[a] \in K}

\* The gate counts these leases; one it has forgotten is of an attempt given up.
Counted ==
  /\ gate.interactive = Cardinality(Talking) + Cardinality(Holding(Urgent))
  /\ gate.background = 0 => Holding(Keys \ Urgent) = {}
  /\ gate.background = 1 => \E a \in Callers : Holding(Keys \ Urgent) = {a}
  /\ \A a \in Callers :
       attempt[a].at = "running" /\ attempt[a].orphan => attempt[a].aborted

\* The inductive invariant.
Steady == Typed /\ Sharing /\ Queued /\ Counted /\ Armed(gate, calm)

LEMMA Finite ==
  /\ \A S \in SUBSET Callers : IsFiniteSet(S) /\ Cardinality(S) \in Nat
  /\ \A S \in SUBSET Streams : IsFiniteSet(S) /\ Cardinality(S) \in Nat
  BY TextAssumption, FS_Subset, FS_CardinalityType

\* One more, one less.
LEMMA OneMore ==
  /\ \A S \in SUBSET Callers, a \in Callers :
       /\ a \notin S => Cardinality(S \cup {a}) = Cardinality(S) + 1
       /\ a \in S => Cardinality(S) \in Nat \ {0}
                     /\ Cardinality(S \ {a}) = Cardinality(S) - 1
  /\ \A S \in SUBSET Streams, a \in Streams :
       /\ a \notin S => Cardinality(S \cup {a}) = Cardinality(S) + 1
       /\ a \in S => Cardinality(S) \in Nat \ {0}
                     /\ Cardinality(S \ {a}) = Cardinality(S) - 1
<1>1. ASSUME NEW S, IsFiniteSet(S), NEW a
      PROVE  /\ a \notin S => Cardinality(S \cup {a}) = Cardinality(S) + 1
             /\ a \in S => Cardinality(S) \in Nat \ {0}
                           /\ Cardinality(S \ {a}) = Cardinality(S) - 1
  <2>1. a \notin S => Cardinality(S \cup {a}) = Cardinality(S) + 1
    BY <1>1, FS_AddElement
  <2>2. a \in S => Cardinality(S \ {a}) = Cardinality(S) - 1
    BY <1>1, FS_RemoveElement
  <2>3. a \in S => Cardinality(S) \in Nat /\ Cardinality(S) # 0
    BY <1>1, FS_CardinalityType, FS_EmptySet
  <2>4. QED
    BY <2>1, <2>2, <2>3
<1>2. QED
  BY <1>1, Finite

\* Neither queue nor counters change when no attempt enters or leaves them.
LEMMA SameCounts ==
  ASSUME Queued, Counted,
         gate'.queue = gate.queue, gate'.interactive = gate.interactive,
         gate'.background = gate.background, stream' = stream,
         \A b \in Callers : /\ attempt'[b].at = "queued" <=> attempt[b].at = "queued"
                            /\ attempt'[b].at = "running" <=> attempt[b].at = "running"
                            /\ attempt'[b].orphan = attempt[b].orphan
                            /\ attempt[b].aborted => attempt'[b].aborted
  PROVE  Queued' /\ Counted'
<1>1. Talking' = Talking
  BY DEF Talking
<1>2. ASSUME NEW K PROVE Holding(K)' = Holding(K)
  BY <1>2 DEF Holding
<1>3. Queued'
  BY DEF Queued, Once, In
<1>4. Counted'
  BY <1>1, <1>2 DEF Counted
<1>5. QED
  BY <1>3, <1>4

LEMMA JoinSteady ==
  ASSUME Steady, NEW c \in Callers, Join(c)
  PROVE  Steady'
<1>1. Typed' /\ Sharing'
  BY JoinShares DEF Steady
<1>2. UNCHANGED <<attempt, gate, stream, calm>>
  BY DEF Join
<1>3. Queued' /\ Counted'
  BY <1>2, SameCounts DEF Steady
<1>4. Armed(gate, calm)'
  BY <1>2 DEF Steady, Armed, Quiet
<1>5. QED
  BY <1>1, <1>3, <1>4 DEF Steady

\* An urgent request enters, and the window it finds armed is taken back.
LEMMA StartUrgent ==
  ASSUME Steady, NEW c \in Callers, Start(c), Asks[c] \in Urgent
  PROVE  Steady'
<1>1. /\ caller' \in [Callers -> CallerRecords] /\ attempt' \in [Callers -> AttemptRecords]
      /\ shared' \in [Keys -> Callers \cup {Nobody}] /\ Sharing'
  BY StartShares DEF Steady
<1>2. /\ attempt' = [attempt EXCEPT ![c].at = "running"] /\ gate' = EnterInteractive(gate)
      /\ calm' = 0 /\ stream' = stream /\ caller[c].at = "idle"
  BY DEF Start
<1>3. attempt \in [Callers -> AttemptRecords] /\ gate \in GateRecords
  BY DEF Steady, Typed
<1>4. attempt[c].at = "none" /\ ~attempt[c].orphan
  BY <1>2 DEF Steady, Sharing, Placed
<1>5. /\ attempt'[c].at = "running" /\ ~attempt'[c].orphan
      /\ \A b \in Callers : b # c => attempt'[b] = attempt[b]
  BY <1>2, <1>3, <1>4 DEF AttemptRecords
<1>6. /\ gate' \in GateRecords /\ gate'.interactive = gate.interactive + 1
      /\ gate'.background = gate.background /\ gate'.queue = gate.queue
      /\ \A t : Armed(gate', t)
  BY <1>2, <1>3, EnterEnters
<1>7. Typed'
  BY <1>1, <1>2, <1>6, TextAssumption DEF Steady, Typed
<1>8. Queued'
  BY <1>4, <1>5, <1>6 DEF Steady, Queued, Once, In
<1>9. Counted'
  <2>1. Holding(Urgent)' = Holding(Urgent) \cup {c} /\ c \notin Holding(Urgent)
    BY <1>4, <1>5 DEF Holding
  <2>2. Holding(Keys \ Urgent)' = Holding(Keys \ Urgent)
    BY <1>4, <1>5 DEF Holding
  <2>3. Talking' = Talking
    BY <1>2 DEF Talking
  <2>4. Holding(Urgent) \in SUBSET Callers /\ Talking \in SUBSET Streams
    BY DEF Holding, Talking
  <2>5. Cardinality(Holding(Urgent))' = Cardinality(Holding(Urgent)) + 1
    BY <2>1, <2>4, OneMore
  <2>6. gate'.interactive = Cardinality(Talking)' + Cardinality(Holding(Urgent))'
    BY <1>6, <2>3, <2>4, <2>5, Finite DEF Steady, Counted
  <2>7. QED
    BY <1>5, <1>6, <2>2, <2>6 DEF Steady, Counted
<1>10. Armed(gate, calm)'
  BY <1>6
<1>11. QED
  BY <1>1, <1>7, <1>8, <1>9, <1>10 DEF Steady

\* A background request is queued, also in an idle domain.
LEMMA StartBackground ==
  ASSUME Steady, NEW c \in Callers, Start(c), Asks[c] \notin Urgent
  PROVE  Steady'
<1>1. /\ caller' \in [Callers -> CallerRecords] /\ attempt' \in [Callers -> AttemptRecords]
      /\ shared' \in [Keys -> Callers \cup {Nobody}] /\ Sharing'
  BY StartShares DEF Steady
<1>2. /\ attempt' = [attempt EXCEPT ![c].at = "queued"] /\ gate' = Enqueue(gate, c)
      /\ calm' = calm /\ stream' = stream /\ caller[c].at = "idle"
  BY DEF Start
<1>3. attempt \in [Callers -> AttemptRecords] /\ gate \in GateRecords /\ calm \in 0..Window
  BY DEF Steady, Typed
<1>4. attempt[c].at = "none" /\ ~attempt[c].orphan
  BY <1>2 DEF Steady, Sharing, Placed
<1>5. /\ attempt'[c].at = "queued" /\ ~attempt'[c].orphan
      /\ \A b \in Callers : b # c => attempt'[b] = attempt[b]
  BY <1>2, <1>3, <1>4 DEF AttemptRecords
<1> DEFINE longer == Append(gate.queue, c)
           g == [gate EXCEPT !.queue = longer]
<1>6. gate.queue \in Seq(Callers)
  BY <1>3 DEF GateRecords
<1>7. /\ longer \in Seq(Callers) /\ Len(longer) = Len(gate.queue) + 1
      /\ \A n \in 1..Len(gate.queue) : longer[n] = gate.queue[n]
      /\ longer[Len(gate.queue) + 1] = c /\ Len(gate.queue) \in Nat
  BY <1>6, AppendProperties, LenProperties
<1>8. gate' = ArmGrace(g)
  BY <1>2 DEF Enqueue
<1> HIDE DEF longer
<1>9. /\ g \in GateRecords /\ g.queue = longer /\ g.interactive = gate.interactive
      /\ g.background = gate.background /\ g.grace = gate.grace
  BY <1>3, <1>7 DEF GateRecords
<1> HIDE DEF g
<1>10. g.grace # NotArmed => g.interactive = 0 /\ calm + g.grace >= Window
  BY <1>9 DEF Steady, Armed
<1>11. /\ gate' \in GateRecords /\ gate'.interactive = gate.interactive
       /\ gate'.background = gate.background /\ gate'.queue = longer
       /\ Armed(gate', calm)
  <2>1. /\ ArmGrace(g) \in GateRecords /\ ArmGrace(g).interactive = g.interactive
        /\ ArmGrace(g).background = g.background /\ ArmGrace(g).queue = g.queue
        /\ Armed(ArmGrace(g), calm)
    BY <1>3, <1>9, <1>10, ArmGraceArms
  <2>2. QED
    BY <1>8, <1>9, <2>1
<1>12. Typed'
  BY <1>1, <1>2, <1>11 DEF Steady, Typed
<1>13. ~In(gate.queue, c) /\ Once(gate.queue)
  BY <1>4 DEF Steady, Queued
<1>14. Once(longer)
  BY <1>7, <1>13 DEF Once, In
<1>15. \A b : In(longer, b) <=> In(gate.queue, b) \/ b = c
  BY <1>7 DEF In
<1>16. \A b \in Callers : attempt'[b].at = "queued" <=> In(longer, b)
  BY <1>5, <1>15 DEF Steady, Queued
<1>17. \A b \in Callers :
         attempt'[b].at = "queued" => Asks[b] \notin Urgent /\ ~attempt'[b].orphan
  BY <1>5 DEF Steady, Queued
<1>18. Queued'
  BY <1>11, <1>14, <1>16, <1>17 DEF Queued
<1>19. Counted'
  <2>1. Talking' = Talking
    BY <1>2 DEF Talking
  <2>2. ASSUME NEW K PROVE Holding(K)' = Holding(K)
    BY <1>4, <1>5 DEF Holding
  <2>3. QED
    BY <1>5, <1>11, <2>1, <2>2 DEF Steady, Counted
<1>20. QED
  BY <1>1, <1>2, <1>11, <1>12, <1>18, <1>19 DEF Steady

\* A dropped request leaves the queue; those behind it keep their window.
LEMMA DropDrops ==
  ASSUME Steady, NEW a \in Callers, attempt[a].at = "queued"
  PROVE  /\ DropQueued(gate, a) \in GateRecords
         /\ DropQueued(gate, a).interactive = gate.interactive
         /\ DropQueued(gate, a).background = gate.background
         /\ Once(DropQueued(gate, a).queue)
         /\ \A b : In(DropQueued(gate, a).queue, b) <=> In(gate.queue, b) /\ b # a
         /\ Armed(DropQueued(gate, a), calm)
<1> DEFINE rest == Without(gate.queue, a)
           g == [gate EXCEPT !.queue = rest]
           h == [gate EXCEPT !.queue = rest, !.grace = NotArmed]
<1>1. gate \in GateRecords /\ gate.queue \in Seq(Callers) /\ calm \in 0..Window
  BY DEF Steady, Typed, GateRecords
<1>2. Once(gate.queue) /\ In(gate.queue, a)
  BY DEF Steady, Queued
<1>3. /\ rest \in Seq(Callers) /\ Once(rest)
      /\ \A b : In(rest, b) <=> In(gate.queue, b) /\ b # a
  BY <1>1, <1>2, WithoutOne
<1>4. DropQueued(gate, a) = IF rest = <<>> THEN h ELSE ArmGrace(g)
  BY DEF DropQueued
<1> HIDE DEF rest
<1>5. NotArmed \in 0..NotArmed
  BY TextAssumption DEF NotArmed
<1>6. /\ g \in GateRecords /\ g.queue = rest /\ g.interactive = gate.interactive
      /\ g.background = gate.background /\ g.grace = gate.grace
      /\ h \in GateRecords /\ h.queue = rest /\ h.interactive = gate.interactive
      /\ h.background = gate.background /\ h.grace = NotArmed
  BY <1>1, <1>3, <1>5 DEF GateRecords
<1> HIDE DEF g, h
<1>7. g.grace # NotArmed => g.interactive = 0 /\ calm + g.grace >= Window
  BY <1>6 DEF Steady, Armed
<1>8. /\ ArmGrace(g) \in GateRecords /\ ArmGrace(g).interactive = g.interactive
      /\ ArmGrace(g).background = g.background /\ ArmGrace(g).queue = g.queue
      /\ Armed(ArmGrace(g), calm)
  BY <1>1, <1>6, <1>7, ArmGraceArms
<1>9. rest = <<>> => Armed(h, calm)
  BY <1>6 DEF Armed, Quiet
<1>10. QED
  BY <1>3, <1>4, <1>6, <1>8, <1>9

LEMMA CancelSteady ==
  ASSUME Steady, NEW c \in Callers, Cancel(c)
  PROVE  Steady'
<1> DEFINE a == caller[c].on
<1>1. /\ caller' \in [Callers -> CallerRecords] /\ attempt' \in [Callers -> AttemptRecords]
      /\ shared' \in [Keys -> Callers \cup {Nobody}] /\ Sharing'
      /\ a \in Callers /\ Live(a) /\ ~attempt[a].aborted
      /\ \A b \in Callers : IF LastLeave({c}, b) THEN b = a /\ GivenUp(b)
                            ELSE attempt'[b] = attempt[b]
  BY CancelShares DEF Steady
<1>2. /\ gate' = IF attempt[a].at = "queued" /\ LastLeave({c}, a)
                 THEN DropQueued(gate, a) ELSE gate
      /\ stream' = stream /\ calm' = calm
  BY DEF Cancel
<1> HIDE DEF a
<1>3. \A b \in Callers : attempt'[b].orphan = attempt[b].orphan
      /\ (attempt'[b].at = "running" <=> attempt[b].at = "running")
      /\ (attempt[b].aborted => attempt'[b].aborted)
  BY <1>1 DEF GivenUp
<1>4. CASE attempt[a].at = "queued" /\ LastLeave({c}, a)
  <2>1. /\ gate' \in GateRecords /\ gate'.interactive = gate.interactive
        /\ gate'.background = gate.background /\ Once(gate'.queue)
        /\ \A b : In(gate'.queue, b) <=> In(gate.queue, b) /\ b # a
        /\ Armed(gate', calm)
    BY <1>1, <1>2, <1>4, DropDrops
  <2>2. \A b \in Callers : attempt'[b].at = "queued" <=> attempt[b].at = "queued" /\ b # a
    BY <1>1, <1>4 DEF GivenUp
  <2>3. \A b \in Callers : attempt'[b].at = "queued" <=> In(gate'.queue, b)
    BY <2>1, <2>2 DEF Steady, Queued
  <2>4. Queued'
    BY <1>3, <2>1, <2>2, <2>3 DEF Steady, Queued
  <2>5. Counted'
    <3>1. Talking' = Talking
      BY <1>2 DEF Talking
    <3>2. ASSUME NEW K PROVE Holding(K)' = Holding(K)
      BY <1>3 DEF Holding
    <3>3. QED
      BY <1>3, <2>1, <3>1, <3>2 DEF Steady, Counted
  <2>6. QED
    BY <1>1, <1>2, <2>1, <2>4, <2>5 DEF Steady, Typed
<1>5. CASE ~(attempt[a].at = "queued" /\ LastLeave({c}, a))
  <2>1. gate' = gate
    BY <1>2, <1>5
  <2>2. \A b \in Callers : attempt'[b].at = "queued" <=> attempt[b].at = "queued"
    BY <1>1, <1>5 DEF GivenUp
  <2>3. Queued' /\ Counted'
    BY <1>2, <1>3, <2>1, <2>2, SameCounts DEF Steady
  <2>4. QED
    BY <1>1, <1>2, <2>1, <2>3 DEF Steady, Typed, Armed, Quiet
<1>6. QED
  BY <1>4, <1>5

LEMMA ExpireSteady ==
  ASSUME Steady, NEW a \in Callers, Expire(a)
  PROVE  Steady'
<1>1. /\ attempt[a].at = "queued" /\ Live(a) /\ Ends(a) /\ gate' = DropQueued(gate, a)
      /\ stream' = stream /\ calm' = calm
  BY DEF Expire, Ends, Live
<1>2. /\ caller' \in [Callers -> CallerRecords] /\ attempt' \in [Callers -> AttemptRecords]
      /\ shared' \in [Keys -> Callers \cup {Nobody}] /\ Sharing'
      /\ attempt'[a].at = "settled"
      /\ \A b \in Callers : b # a => attempt'[b] = attempt[b]
  BY <1>1, EndShares DEF Steady
<1>3. /\ gate' \in GateRecords /\ gate'.interactive = gate.interactive
      /\ gate'.background = gate.background /\ Once(gate'.queue)
      /\ \A b : In(gate'.queue, b) <=> In(gate.queue, b) /\ b # a
      /\ Armed(gate', calm)
  BY <1>1, DropDrops
<1>4. \A b \in Callers : attempt'[b].at = "queued" <=> In(gate'.queue, b)
  BY <1>2, <1>3 DEF Steady, Queued
<1>5. Queued'
  BY <1>2, <1>3, <1>4 DEF Steady, Queued
<1>6. Counted'
  <2>1. Talking' = Talking
    BY <1>1 DEF Talking
  <2>2. ASSUME NEW K PROVE Holding(K)' = Holding(K)
    BY <1>1, <1>2 DEF Holding
  <2>3. QED
    BY <1>2, <1>3, <2>1, <2>2 DEF Steady, Counted
<1>7. QED
  BY <1>1, <1>2, <1>3, <1>5, <1>6 DEF Steady, Typed

\* A lease the gate still knows is given back, an interactive one or the background
\* one: the window is armed for those who wait, once nothing runs any more.
LEMMA LeaseBack ==
  ASSUME Steady
  PROVE  /\ gate.interactive # 0 =>
              LET g == ArmGrace([gate EXCEPT !.interactive = @ - 1]) IN
              /\ g \in GateRecords /\ g.interactive = gate.interactive - 1
              /\ g.background = gate.background
              /\ g.queue = gate.queue /\ Armed(g, calm)
         /\ gate.background = 1 =>
              LET g == ArmGrace([gate EXCEPT !.background = @ - 1]) IN
              /\ g \in GateRecords /\ g.interactive = gate.interactive
              /\ g.background = 0
              /\ g.queue = gate.queue /\ Armed(g, calm)
<1>1. gate \in GateRecords /\ calm \in 0..Window
  BY DEF Steady, Typed
<1>2. gate.interactive \in Nat /\ gate.background \in 0..1
  BY <1>1 DEF GateRecords
<1>3. ASSUME gate.interactive # 0
      PROVE  LET g == ArmGrace([gate EXCEPT !.interactive = @ - 1]) IN
             /\ g \in GateRecords /\ g.interactive = gate.interactive - 1
             /\ g.background = gate.background
             /\ g.queue = gate.queue /\ Armed(g, calm)
  <2> DEFINE h == [gate EXCEPT !.interactive = @ - 1]
  <2>1. gate.interactive - 1 \in Nat /\ gate.grace = NotArmed
    BY <1>2, <1>3 DEF Steady, Armed
  <2>2. /\ h \in GateRecords /\ h.interactive = gate.interactive - 1
        /\ h.background = gate.background /\ h.queue = gate.queue /\ h.grace = NotArmed
    BY <1>1, <2>1 DEF GateRecords
  <2> HIDE DEF h
  <2>3. /\ ArmGrace(h) \in GateRecords /\ ArmGrace(h).interactive = h.interactive
        /\ ArmGrace(h).background = h.background /\ ArmGrace(h).queue = h.queue
        /\ Armed(ArmGrace(h), calm)
    BY <1>1, <2>2, ArmGraceArms
  <2>4. QED
    BY <2>2, <2>3 DEF h
<1>4. ASSUME gate.background = 1
      PROVE  LET g == ArmGrace([gate EXCEPT !.background = @ - 1]) IN
             /\ g \in GateRecords /\ g.interactive = gate.interactive
             /\ g.background = 0
             /\ g.queue = gate.queue /\ Armed(g, calm)
  <2> DEFINE h == [gate EXCEPT !.background = @ - 1]
  <2>1. gate.background - 1 = 0
    BY <1>4
  <2>2. /\ h \in GateRecords /\ h.interactive = gate.interactive
        /\ h.background = 0 /\ h.queue = gate.queue /\ h.grace = gate.grace
    BY <1>1, <2>1 DEF GateRecords
  <2> HIDE DEF h
  <2>3. h.grace # NotArmed => h.interactive = 0 /\ calm + h.grace >= Window
    BY <2>2 DEF Steady, Armed
  <2>4. /\ ArmGrace(h) \in GateRecords /\ ArmGrace(h).interactive = h.interactive
        /\ ArmGrace(h).background = h.background /\ ArmGrace(h).queue = h.queue
        /\ Armed(ArmGrace(h), calm)
    BY <1>1, <2>2, <2>3, ArmGraceArms
  <2>5. QED
    BY <2>2, <2>4 DEF h
<1>5. QED
  BY <1>3, <1>4

\* The lease of an attempt that ends is released, unless the gate has forgotten it.
LEMMA FinishSteady ==
  ASSUME Steady, NEW a \in Callers, Finish(a)
  PROVE  Steady'
<1>1. /\ attempt[a].at = "running" /\ Live(a) /\ Ends(a)
      /\ gate' = IF attempt[a].orphan THEN gate ELSE Release(gate, Asks[a])
      /\ stream' = stream /\ calm' = calm
  BY DEF Finish, Ends, Live
<1>2. /\ caller' \in [Callers -> CallerRecords] /\ attempt' \in [Callers -> AttemptRecords]
      /\ shared' \in [Keys -> Callers \cup {Nobody}] /\ Sharing'
      /\ attempt'[a].at = "settled"
      /\ \A b \in Callers : b # a => attempt'[b] = attempt[b]
  BY <1>1, EndShares DEF Steady
<1>3. \A K : Holding(K)' = Holding(K) \ {a}
  BY <1>2 DEF Holding
<1>4. /\ Talking' = Talking /\ Talking \in SUBSET Streams
      /\ \A K : Holding(K) \in SUBSET Callers
  BY <1>1 DEF Talking, Holding
<1>5. Asks[a] \in Keys
  BY TextAssumption
<1>6. CASE attempt[a].orphan
  <2>1. \A K : Holding(K)' = Holding(K)
    BY <1>3, <1>6 DEF Holding
  <2>2. gate' = gate
    BY <1>1, <1>6
  <2>3. Counted'
    BY <1>2, <1>4, <2>1, <2>2 DEF Steady, Counted
  <2>4. Queued'
    BY <1>1, <1>2, <2>2 DEF Steady, Queued, Once, In
  <2>5. QED
    BY <1>1, <1>2, <2>2, <2>3, <2>4 DEF Steady, Typed, Armed, Quiet
<1>7. CASE ~attempt[a].orphan /\ Asks[a] \in Urgent
  <2>1. a \in Holding(Urgent) /\ a \notin Holding(Keys \ Urgent)
    BY <1>1, <1>7 DEF Holding
  <2>2. Holding(Keys \ Urgent)' = Holding(Keys \ Urgent)
    BY <1>3, <2>1
  <2>3. /\ Cardinality(Holding(Urgent)) \in Nat \ {0} /\ Cardinality(Talking) \in Nat
        /\ Cardinality(Holding(Urgent))' = Cardinality(Holding(Urgent)) - 1
    BY <1>3, <1>4, <2>1, OneMore, Finite
  <2>4. gate.interactive = Cardinality(Talking) + Cardinality(Holding(Urgent))
    BY DEF Steady, Counted
  <2>5. gate' = ArmGrace([gate EXCEPT !.interactive = @ - 1]) /\ gate.interactive # 0
    BY <1>1, <1>7, <2>3, <2>4 DEF Release
  <2>6. /\ gate' \in GateRecords /\ gate'.interactive = gate.interactive - 1
        /\ gate'.background = gate.background
        /\ gate'.queue = gate.queue /\ Armed(gate', calm)
    BY <2>5, LeaseBack
  <2>7. gate'.interactive = Cardinality(Talking)' + Cardinality(Holding(Urgent))'
    BY <1>4, <2>3, <2>4, <2>6
  <2>8. Counted'
    BY <1>2, <2>2, <2>6, <2>7 DEF Steady, Counted
  <2>9. Queued'
    BY <1>1, <1>2, <2>6 DEF Steady, Queued, Once, In
  <2>10. QED
    BY <1>1, <1>2, <2>6, <2>8, <2>9 DEF Steady, Typed
<1>8. CASE ~attempt[a].orphan /\ Asks[a] \notin Urgent
  <2>1. a \in Holding(Keys \ Urgent) /\ a \notin Holding(Urgent)
    BY <1>1, <1>5, <1>8 DEF Holding
  <2>2. gate.background = 1 /\ Holding(Keys \ Urgent) = {a}
    <3>1. gate.background \in 0..1
      BY DEF Steady, Typed, GateRecords
    <3>2. gate.background = 1
      BY <2>1, <3>1 DEF Steady, Counted
    <3>3. QED
      BY <2>1, <3>2 DEF Steady, Counted
  <2>3. Holding(Urgent)' = Holding(Urgent) /\ Holding(Keys \ Urgent)' = {}
    BY <1>3, <2>1, <2>2
  <2>4. gate' = ArmGrace([gate EXCEPT !.background = @ - 1])
    BY <1>1, <1>8 DEF Release
  <2>5. /\ gate' \in GateRecords /\ gate'.interactive = gate.interactive
        /\ gate'.background = 0
        /\ gate'.queue = gate.queue /\ Armed(gate', calm)
    BY <2>2, <2>4, LeaseBack
  <2>6. Counted'
    BY <1>2, <1>4, <2>3, <2>5 DEF Steady, Counted
  <2>7. Queued'
    BY <1>1, <1>2, <2>5 DEF Steady, Queued, Once, In
  <2>8. QED
    BY <1>1, <1>2, <2>5, <2>6, <2>7 DEF Steady, Typed
<1>9. QED
  BY <1>6, <1>7, <1>8

LEMMA StreamSteady ==
  ASSUME Steady, NEW s \in Streams, StreamStart(s) \/ StreamEnd(s)
  PROVE  Steady'
<1>1. UNCHANGED <<caller, attempt, shared>>
  BY DEF StreamStart, StreamEnd
<1>2. stream \in [Streams -> {"idle", "talking", "orphaned"}] /\ gate \in GateRecords
      /\ calm \in 0..Window
  BY DEF Steady, Typed
<1>3. Sharing'
  BY <1>1 DEF Steady, Sharing, Placed, SharedIsLive, Watched, Waits, Live
<1>4. \A K : Holding(K)' = Holding(K)
  BY <1>1 DEF Holding
<1>5. Talking \in SUBSET Streams /\ Holding(Urgent) \in SUBSET Callers
  BY DEF Talking, Holding
<1>6. /\ Cardinality(Talking) \in Nat /\ Cardinality(Holding(Urgent)) \in Nat
      /\ gate.interactive = Cardinality(Talking) + Cardinality(Holding(Urgent))
  BY <1>5, Finite DEF Steady, Counted
<1>7. ASSUME gate'.queue = gate.queue, gate'.background = gate.background,
             gate'.interactive = Cardinality(Talking)' + Cardinality(Holding(Urgent))'
      PROVE  Queued' /\ Counted'
  <2>1. Queued'
    BY <1>1, <1>7 DEF Steady, Queued, Once, In
  <2>2. Holding(Keys \ Urgent)' = Holding(Keys \ Urgent)
    BY <1>4
  <2>3. Counted'
    BY <1>1, <1>7, <2>2 DEF Steady, Counted
  <2>4. QED
    BY <2>1, <2>3
<1>8. CASE StreamStart(s)
  <2>1. /\ stream[s] = "idle" /\ stream' = [stream EXCEPT ![s] = "talking"]
        /\ gate' = EnterInteractive(gate) /\ calm' = 0
    BY <1>8 DEF StreamStart
  <2>2. s \notin Talking /\ Talking' = Talking \cup {s}
    BY <1>2, <2>1 DEF Talking
  <2>3. Cardinality(Talking)' = Cardinality(Talking) + 1
    BY <1>5, <2>2, OneMore
  <2>4. /\ gate' \in GateRecords /\ gate'.interactive = gate.interactive + 1
        /\ gate'.background = gate.background /\ gate'.queue = gate.queue
        /\ \A t : Armed(gate', t)
    BY <1>2, <2>1, EnterEnters
  <2>5. Queued' /\ Counted'
    BY <1>4, <1>6, <1>7, <2>3, <2>4
  <2>6. stream' \in [Streams -> {"idle", "talking", "orphaned"}] /\ calm' \in 0..Window
    BY <1>2, <2>1, TextAssumption
  <2>7. QED
    BY <1>1, <1>3, <2>4, <2>5, <2>6 DEF Steady, Typed
<1>9. CASE StreamEnd(s)
  <2>1. /\ stream[s] # "idle" /\ stream' = [stream EXCEPT ![s] = "idle"] /\ calm' = calm
        /\ gate' = IF stream[s] = "orphaned" THEN gate
                   ELSE ArmGrace([gate EXCEPT !.interactive = @ - 1])
    BY <1>9 DEF StreamEnd
  <2>2. Talking' = Talking \ {s} /\ (s \in Talking <=> stream[s] # "orphaned")
    BY <1>2, <2>1 DEF Talking
  <2>3. stream' \in [Streams -> {"idle", "talking", "orphaned"}]
    BY <1>2, <2>1
  <2>4. CASE stream[s] = "orphaned"
    <3>1. gate' = gate /\ Talking' = Talking
      BY <2>1, <2>2, <2>4
    <3>2. Queued' /\ Counted'
      BY <1>4, <1>6, <1>7, <3>1
    <3>3. QED
      BY <1>1, <1>3, <2>1, <2>3, <3>1, <3>2 DEF Steady, Typed, Armed, Quiet
  <2>5. CASE stream[s] # "orphaned"
    <3>1. Cardinality(Talking)' = Cardinality(Talking) - 1 /\ Cardinality(Talking) # 0
      BY <1>5, <2>2, <2>5, OneMore
    <3>2. gate.interactive # 0
      BY <1>6, <3>1
    <3>3. /\ gate' \in GateRecords /\ gate'.interactive = gate.interactive - 1
          /\ gate'.background = gate.background
          /\ gate'.queue = gate.queue /\ Armed(gate', calm)
      BY <2>1, <2>5, <3>2, LeaseBack
    <3>4. gate'.interactive = Cardinality(Talking)' + Cardinality(Holding(Urgent))'
      BY <1>4, <1>6, <3>1, <3>3
    <3>5. Queued' /\ Counted'
      BY <1>7, <3>3, <3>4
    <3>6. QED
      BY <1>1, <1>3, <2>1, <2>3, <3>3, <3>5 DEF Steady, Typed
  <2>6. QED
    BY <2>4, <2>5
<1>10. QED
  BY <1>8, <1>9

\* Everything is cancelled: the gate starts anew, and no lease is one it knows.
LEMMA CancelAllSteady ==
  ASSUME Steady, CancelAll
  PROVE  Steady'
<1>1. /\ caller' \in [Callers -> CallerRecords] /\ attempt' \in [Callers -> AttemptRecords]
      /\ shared' \in [Keys -> Callers \cup {Nobody}] /\ Sharing'
      /\ \A b \in Callers :
           /\ attempt'[b].at \in {"none", "running", "settled"}
           /\ attempt'[b].at = "running" => attempt'[b].aborted /\ attempt'[b].orphan
  BY CancelAllShares DEF Steady
<1>2. /\ gate' = Idle /\ calm' = calm
      /\ stream' = [s \in Streams |-> IF stream[s] = "idle" THEN "idle" ELSE "orphaned"]
  BY DEF CancelAll
<1>3. /\ gate' \in GateRecords /\ gate'.interactive = 0 /\ gate'.background = 0
      /\ gate'.queue = <<>> /\ gate'.grace = NotArmed
  BY <1>2, TextAssumption, EmptySeq DEF Idle, GateRecords, NotArmed
<1>4. Len(gate'.queue) = 0
  BY <1>3, EmptySeq
<1>5. Talking' = {} /\ \A K : Holding(K)' = {}
  BY <1>1, <1>2 DEF Talking, Holding
<1>6. Cardinality({}) = 0
  BY FS_EmptySet
<1>7. \A b \in Callers : attempt'[b].at # "queued"
  BY <1>1
<1>8. Queued'
  BY <1>4, <1>7 DEF Queued, Once, In
<1>9. Counted'
  <2>1. Holding(Urgent)' = {} /\ Holding(Keys \ Urgent)' = {}
    BY <1>5
  <2>2. Cardinality(Talking)' = 0 /\ Cardinality(Holding(Urgent))' = 0
    BY <1>5, <1>6, <2>1
  <2>3. gate'.interactive = Cardinality(Talking)' + Cardinality(Holding(Urgent))'
    BY <1>3, <2>2
  <2>4. gate'.background = 0 => Holding(Keys \ Urgent)' = {}
    BY <2>1
  <2>5. gate'.background # 1
    BY <1>3
  <2>6. \A b \in Callers : attempt'[b].at = "running" /\ attempt'[b].orphan =>
                             attempt'[b].aborted
    BY <1>1
  <2>7. QED
    BY <2>3, <2>4, <2>5, <2>6 DEF Counted
<1>10. Armed(gate, calm)'
  BY <1>3 DEF Armed, Quiet
<1>11. stream' \in [Streams -> {"idle", "talking", "orphaned"}]
  BY <1>2
<1>12. QED
  BY <1>1, <1>2, <1>3, <1>8, <1>9, <1>10, <1>11 DEF Steady, Typed

\* The timer finds quiet and admits the head of the queue.
LEMMA AdmitSteady ==
  ASSUME Steady, Fire, Quiet(gate)
  PROVE  Steady'
<1> DEFINE a == Head(gate.queue)
<1>1. /\ gate' = Claim(gate) /\ attempt' = [attempt EXCEPT ![a].at = "running"]
      /\ UNCHANGED <<caller, shared, stream, calm>>
      /\ gate.queue # <<>> /\ gate.interactive = 0 /\ gate.background = 0
  BY DEF Fire, Quiet
<1>2. /\ gate \in GateRecords /\ gate.queue \in Seq(Callers)
      /\ attempt \in [Callers -> AttemptRecords]
  BY DEF Steady, Typed, GateRecords
<1>3. /\ Tail(gate.queue) \in Seq(Callers) /\ Len(Tail(gate.queue)) = Len(gate.queue) - 1
      /\ \A n \in 1..Len(Tail(gate.queue)) : Tail(gate.queue)[n] = gate.queue[n + 1]
      /\ a \in Callers /\ Len(gate.queue) \in Nat \ {0}
  BY <1>1, <1>2, HeadTailProperties, EmptySeq
<1>4. a = gate.queue[1]
  BY <1>1, <1>2
<1> HIDE DEF a
<1>5. In(gate.queue, a) /\ Once(gate.queue)
  BY <1>3, <1>4 DEF Steady, Queued, In
<1>6. attempt[a].at = "queued" /\ Asks[a] \notin Urgent /\ ~attempt[a].orphan
  BY <1>3, <1>5 DEF Steady, Queued
<1>7. /\ attempt' \in [Callers -> AttemptRecords] /\ attempt'[a].at = "running"
      /\ attempt'[a].aborted = attempt[a].aborted /\ attempt'[a].orphan = attempt[a].orphan
      /\ \A b \in Callers : b # a => attempt'[b] = attempt[b]
  BY <1>1, <1>2, <1>3 DEF AttemptRecords
<1> DEFINE rest == Tail(gate.queue)
           h == [gate EXCEPT !.queue = rest, !.grace = NotArmed, !.background = 1]
<1>8. gate' = h
  BY <1>1 DEF Claim
<1> HIDE DEF rest
<1>9. NotArmed \in 0..NotArmed /\ rest \in Seq(Callers) /\ 1 \in 0..1
  BY <1>3, TextAssumption DEF NotArmed, rest
<1>10. /\ h \in GateRecords /\ h.interactive = gate.interactive /\ h.background = 1
       /\ h.queue = rest /\ h.grace = NotArmed
  BY <1>2, <1>9 DEF GateRecords
<1> HIDE DEF h
<1>11. /\ gate' \in GateRecords /\ gate'.interactive = gate.interactive
       /\ gate'.background = 1 /\ gate'.queue = rest /\ gate'.grace = NotArmed
  BY <1>8, <1>10
<1>12. Sharing'
  <2>1. \A b \in Callers : Live(b)' <=> Live(b)
    BY <1>6, <1>7 DEF Live
  <2>2. \A b \in Callers : attempt'[b].aborted = attempt[b].aborted
                           /\ (attempt'[b].at = "none" <=> attempt[b].at = "none")
                           /\ (attempt'[b].at = "queued" => attempt[b].at = "queued")
                           /\ attempt'[b].orphan = attempt[b].orphan
    BY <1>6, <1>7
  <2>3. \A b \in Callers : Watched(b)' <=> Watched(b)
    BY <1>1 DEF Watched, Waits
  <2>4. \A d \in Callers : Placed(d)'
    BY <1>1, <2>1, <2>2 DEF Steady, Sharing, Placed
  <2>5. SharedIsLive'
    <3> SUFFICES ASSUME NEW k \in Keys, shared[k] # Nobody
                 PROVE  Live(shared[k])' /\ ~attempt'[shared[k]].aborted
                        /\ Asks[shared[k]] = k
      BY <1>1 DEF SharedIsLive
    <3>1. shared[k] \in Callers
      BY DEF Steady, Typed
    <3>2. Live(shared[k]) /\ ~attempt[shared[k]].aborted /\ Asks[shared[k]] = k
      BY DEF Steady, Sharing, SharedIsLive
    <3>3. QED
      BY <1>1, <2>1, <2>2, <3>1, <3>2
  <2>6. QED
    BY <2>1, <2>2, <2>3, <2>4, <2>5 DEF Steady, Sharing
<1>13. Once(rest) /\ \A b : In(rest, b) <=> In(gate.queue, b) /\ b # a
  <2>1. Once(rest)
    BY <1>3, <1>5 DEF Once, rest
  <2>2. ASSUME NEW b, In(rest, b) PROVE In(gate.queue, b) /\ b # a
    BY <1>3, <1>4, <1>5, <2>2 DEF Once, In, rest
  <2>3. ASSUME NEW b, NEW n \in 1..Len(gate.queue), gate.queue[n] = b, b # a
        PROVE  In(rest, b)
    <3>1. n - 1 \in 1..Len(Tail(gate.queue)) /\ n - 1 + 1 = n
      BY <1>3, <1>4, <2>3
    <3>2. Tail(gate.queue)[n - 1] = b
      BY <1>3, <2>3, <3>1
    <3>3. QED
      BY <3>1, <3>2 DEF In, rest
  <2>4. QED
    BY <2>1, <2>2, <2>3 DEF In
<1>14. Queued'
  <2>1. \A b \in Callers : attempt'[b].at = "queued" <=> attempt[b].at = "queued" /\ b # a
    BY <1>7
  <2>2. \A b \in Callers : attempt'[b].at = "queued" <=> In(gate'.queue, b)
    BY <1>11, <1>13, <2>1 DEF Steady, Queued
  <2>3. \A b \in Callers :
          attempt'[b].at = "queued" => Asks[b] \notin Urgent /\ ~attempt'[b].orphan
    BY <1>7 DEF Steady, Queued
  <2>4. QED
    BY <1>11, <1>13, <2>2, <2>3 DEF Queued
<1>15. Counted'
  <2>1. Talking' = Talking
    BY <1>1 DEF Talking
  <2>2. Holding(Urgent)' = Holding(Urgent)
    BY <1>6, <1>7 DEF Holding
  <2>3. Asks[a] \in Keys
    BY <1>3, TextAssumption
  <2>4. Holding(Keys \ Urgent)' = Holding(Keys \ Urgent) \cup {a}
    BY <1>3, <1>6, <1>7, <2>3 DEF Holding
  <2>5. Holding(Keys \ Urgent)' = {a}
    BY <1>1, <2>4 DEF Steady, Counted
  <2>6. gate'.interactive = Cardinality(Talking)' + Cardinality(Holding(Urgent))'
    BY <1>11, <2>1, <2>2 DEF Steady, Counted
  <2>7. \A b \in Callers : attempt'[b].at = "running" /\ attempt'[b].orphan =>
                             attempt'[b].aborted
    BY <1>6, <1>7 DEF Steady, Counted
  <2>8. gate'.background # 0
    BY <1>11
  <2>9. \E b \in Callers : Holding(Keys \ Urgent)' = {b}
    BY <1>3, <2>5
  <2>10. QED
    BY <2>6, <2>7, <2>8, <2>9 DEF Counted
<1>16. Armed(gate, calm)'
  BY <1>11 DEF Armed, Quiet
<1>17. QED
  BY <1>1, <1>7, <1>11, <1>12, <1>14, <1>15, <1>16 DEF Steady, Typed

\* The timer finds no quiet, or time passes.
LEMMA TimeSteady ==
  ASSUME Steady, Tick \/ (Fire /\ ~Quiet(gate))
  PROVE  Steady'
<1>1. UNCHANGED <<caller, attempt, shared, stream>>
  BY DEF Tick, Fire
<1>2. gate \in GateRecords /\ calm \in 0..Window /\ Window \in Nat /\ NotArmed = Window + 1
  BY TextAssumption DEF Steady, Typed, NotArmed
<1>3. ASSUME gate' \in GateRecords, gate'.interactive = gate.interactive,
             gate'.background = gate.background, gate'.queue = gate.queue,
             calm' \in 0..Window, Armed(gate, calm)'
      PROVE  Steady'
  <2>1. Queued' /\ Counted'
    BY <1>1, <1>3, SameCounts DEF Steady
  <2>2. Sharing'
    BY <1>1 DEF Steady, Sharing, Placed, SharedIsLive, Watched, Waits, Live
  <2>3. QED
    BY <1>1, <1>3, <2>1, <2>2 DEF Steady, Typed
<1>4. CASE Tick
  <2> DEFINE left == IF gate.grace \in {0, NotArmed} THEN gate.grace ELSE gate.grace - 1
             h == [gate EXCEPT !.grace = left]
  <2>1. gate' = h /\ calm' = IF gate.interactive > 0 \/ calm = Window THEN calm ELSE calm + 1
    BY <1>4 DEF Tick
  <2>2. gate.grace \in 0..NotArmed /\ gate.interactive \in Nat
    BY <1>2 DEF GateRecords
  <2>3. left \in 0..NotArmed /\ (left = NotArmed <=> gate.grace = NotArmed)
    BY <1>2, <2>2
  <2>4. gate.grace # NotArmed => gate.interactive = 0 /\ calm + gate.grace >= Window
    BY DEF Steady, Armed
  <2>5. calm' \in 0..Window
    BY <1>2, <2>1, <2>2
  <2>6. left # NotArmed => gate.interactive = 0 /\ calm' + left >= Window
    <3> SUFFICES ASSUME left # NotArmed
                 PROVE  gate.interactive = 0 /\ calm' + left >= Window
      OBVIOUS
    <3>1. gate.interactive = 0 /\ calm + gate.grace >= Window
      BY <2>3, <2>4
    <3>2. left = IF gate.grace = 0 THEN 0 ELSE gate.grace - 1
      BY <2>3
    <3>3. calm' = IF calm = Window THEN calm ELSE calm + 1
      BY <2>1, <3>1
    <3> HIDE DEF left
    <3>4. QED
      BY <1>2, <2>2, <3>1, <3>2, <3>3
  <2> HIDE DEF left
  <2>7. /\ h \in GateRecords /\ h.interactive = gate.interactive
        /\ h.background = gate.background /\ h.queue = gate.queue /\ h.grace = left
    BY <1>2, <2>3 DEF GateRecords
  <2> HIDE DEF h
  <2>8. Quiet(gate) => gate.grace # NotArmed
    BY DEF Steady, Armed
  <2>9. Armed(gate, calm)'
    BY <2>1, <2>3, <2>6, <2>7, <2>8 DEF Armed, Quiet
  <2>10. QED
    BY <1>3, <2>1, <2>5, <2>7, <2>9
<1>5. CASE Fire /\ ~Quiet(gate)
  <2> DEFINE h == [gate EXCEPT !.grace = NotArmed]
  <2>1. gate' = ArmGrace(h) /\ calm' = calm
    BY <1>5 DEF Fire
  <2>2. NotArmed \in 0..NotArmed
    BY <1>2
  <2>3. /\ h \in GateRecords /\ h.interactive = gate.interactive
        /\ h.background = gate.background /\ h.queue = gate.queue /\ h.grace = NotArmed
    BY <1>2, <2>2 DEF GateRecords
  <2> HIDE DEF h
  <2>4. /\ ArmGrace(h) \in GateRecords /\ ArmGrace(h).interactive = h.interactive
        /\ ArmGrace(h).background = h.background /\ ArmGrace(h).queue = h.queue
        /\ Armed(ArmGrace(h), calm)
    BY <1>2, <2>3, ArmGraceArms
  <2>5. QED
    BY <1>2, <1>3, <2>1, <2>3, <2>4
<1>6. QED
  BY <1>4, <1>5

-----------------------------------------------------------------------------
(* The theorems *)

LEMMA InitSteady == Init => Steady
<1> SUFFICES ASSUME Init PROVE Steady
  OBVIOUS
<1>1. /\ gate \in GateRecords /\ gate.interactive = 0 /\ gate.background = 0
      /\ gate.queue = <<>> /\ gate.grace = NotArmed
  BY TextAssumption, EmptySeq DEF Init, Idle, GateRecords, NotArmed
<1>2. Typed
  BY <1>1, TextAssumption DEF Init, Typed, CallerRecords, AttemptRecords
<1>3. Sharing
  BY DEF Init, Sharing, Placed, SharedIsLive, Live
<1>4. Len(gate.queue) = 0
  BY <1>1, EmptySeq
<1>5. Queued
  BY <1>4 DEF Init, Queued, Once, In
<1>6. Talking = {} /\ Holding(Urgent) = {} /\ Holding(Keys \ Urgent) = {}
  BY DEF Init, Talking, Holding
<1>7. Cardinality(Talking) = 0 /\ Cardinality(Holding(Urgent)) = 0
  BY <1>6, FS_EmptySet
<1>8. Counted
  <2>1. gate.interactive = Cardinality(Talking) + Cardinality(Holding(Urgent))
    BY <1>1, <1>7
  <2>2. gate.background # 1
    BY <1>1
  <2>3. \A a \in Callers : attempt[a].at # "running"
    BY DEF Init
  <2>4. QED
    BY <1>6, <2>1, <2>2, <2>3 DEF Counted
<1>9. Armed(gate, calm)
  BY <1>1 DEF Armed, Quiet
<1>10. QED
  BY <1>2, <1>3, <1>5, <1>8, <1>9 DEF Steady

\* Who waits for what, the queue, the counters and the window stay as they should,
\* through every interleaving of requests, cancellations, expiries, streams and time.
THEOREM SteadyInvariant == Spec => []Steady
<1>1. Steady /\ [Next]_vars => Steady'
  <2> SUFFICES ASSUME Steady, [Next]_vars PROVE Steady'
    OBVIOUS
  <2>1. ASSUME NEW c \in Callers, Start(c) PROVE Steady'
    BY <2>1, StartUrgent, StartBackground
  <2>2. ASSUME Tick \/ Fire PROVE Steady'
    BY <2>2, AdmitSteady, TimeSteady
  <2>3. CASE UNCHANGED vars
    <3>1. UNCHANGED <<caller, attempt, shared, gate, stream, calm>>
      BY <2>3 DEF vars
    <3>2. Queued' /\ Counted'
      BY <3>1, SameCounts DEF Steady
    <3>3. Sharing'
      BY <3>1 DEF Steady, Sharing, Placed, SharedIsLive, Watched, Waits, Live
    <3>4. QED
      BY <3>1, <3>2, <3>3 DEF Steady, Typed, Armed, Quiet
  <2>4. QED
    BY <2>1, <2>2, <2>3, JoinSteady, CancelSteady, ExpireSteady, FinishSteady,
       StreamSteady, CancelAllSteady DEF Next
<1>2. QED
  BY <1>1, InitSteady, PTL DEF Spec

\* The type invariant, with the bounds of the counters and of the queue: no lease
\* is counted twice or given back twice, and no request is queued twice.
THEOREM TypeCorrect == Spec => []TypeOK
<1>1. Steady => TypeOK
  <2> SUFFICES ASSUME Steady PROVE TypeOK
    OBVIOUS
  <2>1. gate \in GateRecords /\ gate.queue \in Seq(Callers) /\ Len(gate.queue) \in Nat
    BY LenProperties DEF Steady, Typed, GateRecords
  <2>2. Talking \in SUBSET Streams /\ Holding(Urgent) \in SUBSET Callers
    BY DEF Talking, Holding
  <2>3. /\ Cardinality(Talking) \in Nat /\ Cardinality(Talking) <= Cardinality(Streams)
        /\ Cardinality(Holding(Urgent)) \in Nat
        /\ Cardinality(Holding(Urgent)) <= Cardinality(Callers)
        /\ Cardinality(Streams) \in Nat /\ Cardinality(Callers) \in Nat
    BY <2>2, Finite, TextAssumption, FS_Subset, FS_CardinalityType
  <2>4. gate.interactive \in 0..(Cardinality(Streams) + Cardinality(Callers))
    BY <2>3 DEF Steady, Counted
  <2>5. Len(gate.queue) <= Cardinality(Callers)
    <3>1. gate.queue \in Injection(1..Len(gate.queue), Callers)
      BY <2>1, LenProperties DEF Steady, Queued, Once, Injection, IsInjective
    <3>2. Cardinality(1..Len(gate.queue)) <= Cardinality(Callers)
      BY <3>1, FS_Injection, TextAssumption
    <3>3. Cardinality(1..Len(gate.queue)) = Len(gate.queue)
      BY <2>1, FS_Interval
    <3>4. QED
      BY <3>2, <3>3
  <2>6. QED
    BY <2>1, <2>4, <2>5 DEF Steady, Typed, TypeOK, CallerRecords, AttemptRecords,
       GateRecords
<1>2. QED
  BY <1>1, SteadyInvariant, PTL

\* An attempt lives on exactly while some caller waits for it.
THEOREM UnwatchedAreAborted == Spec => []AbortedIffUnwatched
<1>1. Steady => AbortedIffUnwatched
  BY SharingShows DEF Steady
<1>2. QED
  BY <1>1, SteadyInvariant, PTL

\* The deduplicator's map offers live attempts only.
THEOREM OffersAreLive == Spec => []SharedIsLive
<1>1. Steady => SharedIsLive
  BY SharingShows DEF Steady
<1>2. QED
  BY <1>1, SteadyInvariant, PTL

\* Of the background attempts that run, at most one is still wanted, also when
\* everything was cancelled with leases still out.
THEOREM BackgroundIsAlone == Spec => []OneBackground
<1>1. Steady => OneBackground
  <2> SUFFICES ASSUME Steady,
                      NEW a \in Callers, NEW b \in Callers,
                      attempt[a].at = "running", attempt[b].at = "running",
                      Asks[a] \notin Urgent, Asks[b] \notin Urgent,
                      ~attempt[a].aborted, ~attempt[b].aborted
               PROVE  a = b
    BY DEF OneBackground
  <2>1. ~attempt[a].orphan /\ ~attempt[b].orphan
    BY DEF Steady, Counted
  <2>2. a \in Holding(Keys \ Urgent) /\ b \in Holding(Keys \ Urgent)
    BY <2>1, TextAssumption DEF Holding
  <2>3. gate.background \in 0..1
    BY DEF Steady, Typed, GateRecords
  <2>4. \E c \in Callers : Holding(Keys \ Urgent) = {c}
    <3>1. gate.background # 0
      BY <2>2 DEF Steady, Counted
    <3>2. gate.background = 1
      BY <2>3, <3>1
    <3>3. QED
      BY <3>2 DEF Steady, Counted
  <2>5. QED
    BY <2>2, <2>4
<1>2. QED
  BY <1>1, SteadyInvariant, PTL

\* No wakeup is lost: whoever waits in a quiet domain waits for an armed window.
THEOREM WaitersAreWoken == Spec => []NeverStranded
<1>1. Steady => NeverStranded
  BY DEF Steady, Armed, NeverStranded
<1>2. QED
  BY <1>1, SteadyInvariant, PTL

\* Background work is admitted only after a whole quiet window.
THEOREM QuietIsKept == Spec => QuietBeforeBackground
<1> DEFINE Kept == \A a \in Callers :
                     attempt[a].at = "queued" /\ attempt'[a].at = "running"
                       => calm = Window /\ gate.interactive = 0
<1>1. Steady /\ [Next]_vars => [Kept]_vars
  <2> SUFFICES ASSUME Steady, Next, NEW a \in Callers,
                      attempt[a].at = "queued", attempt'[a].at = "running"
               PROVE  calm = Window /\ gate.interactive = 0
    OBVIOUS
  <2>1. attempt \in [Callers -> AttemptRecords] /\ calm \in 0..Window
    BY DEF Steady, Typed
  <2>2. ~(\E c \in Callers : Join(c)) /\ ~(\E s \in Streams : StreamStart(s) \/ StreamEnd(s))
        /\ ~Tick
    BY DEF Join, StreamStart, StreamEnd, Tick
  <2>3. ASSUME NEW c \in Callers, Start(c) PROVE FALSE
    <3>1. caller[c].at = "idle" /\ \E at \in {"running", "queued"} :
                                     attempt' = [attempt EXCEPT ![c].at = at]
      BY <2>3 DEF Start
    <3>2. attempt[c].at = "none"
      BY <3>1 DEF Steady, Sharing, Placed
    <3>3. QED
      BY <2>1, <3>1, <3>2 DEF AttemptRecords
  <2>4. ASSUME NEW c \in Callers, Expire(c) \/ Finish(c) PROVE FALSE
    <3>1. attempt' = [attempt EXCEPT ![c].at = "settled"]
      BY <2>4 DEF Expire, Finish
    <3>2. attempt'[c].at = "settled" /\ \A b \in Callers : b # c => attempt'[b] = attempt[b]
      BY <2>1, <3>1 DEF AttemptRecords
    <3>3. QED
      BY <3>2
  <2>5. ASSUME NEW c \in Callers, Cancel(c) PROVE FALSE
    <3>1. IF LastLeave({c}, a) THEN GivenUp(a) ELSE attempt'[a] = attempt[a]
      BY <2>5, CancelShares DEF Steady
    <3>2. QED
      BY <3>1 DEF GivenUp
  <2>6. ASSUME CancelAll PROVE FALSE
    <3>1. attempt'[a].aborted /\ attempt'[a].orphan
      BY <2>6, CancelAllShares DEF Steady
    <3>2. attempt[a].at = "queued" /\ ~attempt[a].orphan
      BY DEF Steady, Queued
    <3>3. attempt'[a] = [Abandon({c \in Callers : caller[c].at = "waiting"})[a]
                           EXCEPT !.orphan = @ \/ attempt[a].at = "running"]
      BY <2>6 DEF CancelAll
    <3>4. QED
      BY <2>1, <3>1, <3>2, <3>3 DEF Abandon, AttemptRecords
  <2>7. CASE Fire
    <3>1. gate.grace = 0 /\ Quiet(gate)
      BY <2>7 DEF Fire
    <3>2. gate.grace # NotArmed
      BY <3>1 DEF Steady, Armed
    <3>3. calm + gate.grace >= Window /\ gate.interactive = 0
      BY <3>2 DEF Steady, Armed
    <3>4. QED
      BY <2>1, <3>1, <3>3, TextAssumption
  <2>8. QED
    BY <2>2, <2>3, <2>4, <2>5, <2>6, <2>7 DEF Next
<1>2. QED
  BY <1>1, SteadyInvariant, PTL DEF Spec, QuietBeforeBackground

================================================================================

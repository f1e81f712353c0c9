--------------------------- MODULE HubDispatchProofs ---------------------------
(***************************************************************************)
(* What the hub and its runners keep for any number of dispatches and      *)
(* processes and however many requests overlap.  A row leaves the queue    *)
(* once, by a claim with a lease of its own; the invariant follows that    *)
(* lease through the process that heard of it and the reports sent under   *)
(* it, and the words of those reports back to the local run.               *)
(***************************************************************************)
EXTENDS HubDispatch, TLAPS

-----------------------------------------------------------------------------
(* The invariant. *)

\* Where a process carries a dispatch.
Carrying == {"starting", "executing", "delivering", "finishing"}

\* What a process is doing and what it waits for say the same.
Shape(p, pr) ==
  /\ pr.at \in Carrying => pr.job \in Dispatches /\ pr.lease # NoLease
  /\ pr.at \notin Carrying =>
       pr.job = None /\ pr.lease = NoLease /\ pr.cancelled = FALSE
  /\ pr.at \notin Waiting => pr.waits = NoRequest
  /\ pr.at \in Waiting =>
       /\ pr.waits \in RequestType /\ pr.waits.by = p
       /\ pr.waits.job = pr.job /\ pr.waits.lease = pr.lease
       /\ pr.waits.kind = CASE pr.at = "claiming" -> "claim"
                            [] pr.at = "delivering" -> "candidate"
                            [] OTHER -> "status"
  /\ pr.at = "starting" => pr.waits.status = "preparing"
  /\ pr.at = "finishing" => pr.waits.status = pr.final
  /\ pr.at \in {"delivering", "finishing"} => pr.final \in Releasing

\* Reports on their way, whether or not the hub has looked at them.
Reports == {r \in sent \cup {h.of : h \in admitted} : r.kind # "claim"}

\* A report speaks of a dispatch it has a lease of.
Proper(r) ==
  /\ r.job \in Dispatches
  /\ r.kind = "candidate" => r.status = None
  /\ r.kind = "status" => r.status \in {"running", "preparing"} \cup Releasing

Shaped ==
  /\ \A p \in Processes : Shape(p, procs[p])
  /\ \A r \in Reports : Proper(r)

Unclaimed(d) == rows[d].status \in {"absent", "queued"}

\* A lease is of one row, known to the process that heard of it and to the
\* reports under it; a row nobody claimed has neither.
Owned ==
  /\ \A d \in Dispatches :
       /\ rows[d].lease <= minted
       /\ rows[d].status \in Releasing => rows[d].lease = NoLease
  /\ \A d, e \in Dispatches :
       d # e /\ rows[d].lease # NoLease => rows[d].lease # rows[e].lease
  /\ \A p \in Processes :
       /\ procs[p].lease <= minted
       /\ procs[p].lease # NoLease =>
            /\ rows[procs[p].job].lease \in {NoLease, procs[p].lease}
            /\ ~Unclaimed(procs[p].job)
  /\ \A p, q \in Processes :
       p # q /\ procs[p].lease # NoLease =>
         /\ procs[p].lease # procs[q].lease
         /\ procs[q].lease # NoLease => procs[p].job # procs[q].job
  /\ \A r \in Reports :
       /\ r.lease # NoLease /\ r.lease <= minted
       /\ rows[r.job].lease \in {NoLease, r.lease}
       /\ ~Unclaimed(r.job)
       /\ \A p \in Processes : procs[p].lease = r.lease => procs[p].job = r.job

\* The status is how the local run ended, or a cancellation asked for.
Told(d, status) ==
  status = results[d].status \/ (status = "cancelled" /\ d \in wanted)

\* A dispatch runs once; before it has ended nobody says how.
Honest ==
  /\ \A d \in Dispatches :
       /\ Unclaimed(d) => d \notin executed /\ results[d].status = None
       /\ rows[d].status \in Releasing =>
            results[d].status # None /\ Told(d, rows[d].status)
       /\ rows[d].asked => d \in wanted \/ results[d].status = "cancelled"
  /\ \A p \in Processes :
       LET pr == procs[p] IN
       /\ pr.at = "starting" => pr.job \notin executed
       /\ pr.at \in {"starting", "executing"} => results[pr.job].status = None
       /\ pr.at \in {"delivering", "finishing"} =>
            results[pr.job].status # None /\ Told(pr.job, pr.final)
       /\ pr.cancelled /\ pr.lease # NoLease => pr.job \in wanted
  /\ \A r \in Reports :
       r.status \in Releasing =>
         results[r.job].status # None /\ Told(r.job, r.status)

\* Until something fails, the candidate is recorded before anybody says the end.
Recorded ==
  faults = 0 =>
    /\ revoked = FALSE
    /\ \A d \in Dispatches :
         rows[d].status \in Releasing /\ results[d].bytes => d \in candidates
    /\ \A p \in Processes :
         procs[p].at = "finishing" /\ results[procs[p].job].bytes
           => procs[p].job \in candidates
    /\ \A r \in Reports :
         r.status \in Releasing /\ results[r.job].bytes => r.job \in candidates

\* The inductive invariant.
Sound == TypeOK /\ Shaped /\ Owned /\ Honest /\ Recorded

-----------------------------------------------------------------------------
(* Types *)

RowType == [status : Status, lease : Nat, expired : BOOLEAN, asked : BOOLEAN]

ProcType == [at : Waiting \cup {"idle", "executing", "stopped"}, job : Jobs,
             lease : Nat, cancelled : BOOLEAN, final : Releasing \cup {None},
             failures : Nat, waits : RequestType \cup {NoRequest}]

ResultType == [status : Outcomes \cup {None}, bytes : BOOLEAN]

AdmittedType == [of : RequestType, job : Dispatches]

LEMMA TypePieces ==
  TypeOK <=> /\ rows \in [Dispatches -> RowType]
             /\ created \in Seq(Dispatches)
             /\ candidates \subseteq Dispatches
             /\ revoked \in BOOLEAN
             /\ minted \in Nat
             /\ sent \subseteq RequestType
             /\ admitted \subseteq AdmittedType
             /\ cancels \subseteq Dispatches
             /\ procs \in [Processes -> ProcType]
             /\ executed \subseteq Dispatches /\ wanted \subseteq Dispatches
             /\ results \in [Dispatches -> ResultType]
             /\ faults \in 0..MaxFaults
  BY DEF TypeOK, RowType, ProcType, ResultType, AdmittedType

\* What a request says.
Asks(r, p, kind, d, lease, status) ==
  /\ r \in RequestType
  /\ r.kind = kind /\ r.by = p /\ r.job = d /\ r.lease = lease /\ r.status = status

LEMMA RequestSays ==
  ASSUME TypeOK, NEW p \in Processes, NEW kind \in {"claim", "status", "candidate"},
         NEW d \in Jobs, NEW lease \in Nat, NEW status \in Status \cup {None}
  PROVE  Asks(Request(kind, p, d, lease, status), p, kind, d, lease, status)
  BY TypePieces DEF Asks, Request, RequestType

LEMMA NamesDiffer ==
  /\ None \notin Releasing /\ "running" \notin Releasing /\ "preparing" \notin Releasing
  /\ "absent" \notin Releasing /\ "queued" \notin Releasing
  /\ Releasing \subseteq Status /\ Outcomes \subseteq Releasing
  BY DispatchAssumption DEF None, Releasing, Status

-----------------------------------------------------------------------------
(* How a process goes on. *)

\* It carries nothing.
Free(p, x) ==
  /\ x \in ProcType /\ Shape(p, x)
  /\ x.at \notin Carrying /\ x.lease = NoLease

\* It carries what it carried.
Carries(p, pr, x) ==
  /\ x \in ProcType /\ Shape(p, x)
  /\ x.job = pr.job /\ x.lease = pr.lease

\* It took d with a lease.
Took(p, x, d, lease) ==
  /\ x \in ProcType /\ Shape(p, x)
  /\ x.at = "starting" /\ x.job = d /\ x.lease = lease /\ x.cancelled = FALSE
  /\ Asks(x.waits, p, "status", d, lease, "preparing")

\* The local run begins.
Began(p, pr, x) ==
  /\ Carries(p, pr, x)
  /\ pr.at = "starting" /\ x.at = "executing" /\ x.cancelled = pr.cancelled
  /\ x.waits = NoRequest

\* The candidate is dealt with, and the end is reported.
HandedOn(p, pr, x) ==
  /\ Carries(p, pr, x)
  /\ pr.at = "delivering" /\ x.at = "finishing"
  /\ x.cancelled = pr.cancelled /\ x.final = pr.final
  /\ Asks(x.waits, p, "status", pr.job, pr.lease, pr.final)

\* A process of any shape that waits for nothing is free.
LEMMA IdleFree ==
  ASSUME NEW p \in Processes, NEW pr \in ProcType
  PROVE  /\ Free(p, Idle(pr)) /\ Idle(pr).waits = NoRequest
         /\ \A n \in Nat : LET x == [Idle(pr) EXCEPT !.failures = n] IN
              Free(p, x) /\ x.waits = NoRequest
  BY DEF Idle, Free, ProcType, Shape, Carrying, Waiting, Jobs, NoLease

LEMMA StoppedFree ==
  ASSUME NEW p \in Processes
  PROVE  /\ Free(p, Stopped) /\ Stopped.waits = NoRequest
         /\ Free(p, Fresh) /\ Fresh.waits = NoRequest
  BY DEF Stopped, Fresh, Free, ProcType, Shape, Carrying, Waiting, Jobs, NoLease

LEMMA Proceeds ==
  ASSUME TypeOK, NEW p \in Processes, Shape(p, procs[p]), procs[p].at \in Waiting,
         NEW answer,
         answer.kind = "claimed" =>
           /\ procs[p].at = "claiming"
           /\ answer.job \in Dispatches /\ answer.lease \in Nat \ {NoLease},
         answer.kind = "ok" => procs[p].at # "claiming"
  PROVE  LET pr == procs[p]
             x == Proceed(p, answer) IN
         \/ Free(p, x) /\ x.waits = NoRequest /\ pr.at # "delivering"
         \/ Began(p, pr, x) /\ answer.kind = "ok"
         \/ HandedOn(p, pr, x)
         \/ Took(p, x, answer.job, answer.lease) /\ answer.kind = "claimed"
<1> DEFINE pr == procs[p]
           x == Proceed(p, answer)
<1>1. /\ pr \in ProcType /\ pr.at \in Waiting /\ Shape(p, pr)
  BY TypePieces
<1>2. pr.failures \in Nat /\ 0 \in Nat /\ pr.failures + 1 \in Nat
  BY <1>1 DEF ProcType
<1>3. CASE pr.at = "claiming" /\ answer.kind = "claimed"
  <2> DEFINE r == Request("status", p, answer.job, answer.lease, "preparing")
  <2>1. answer.job \in Dispatches /\ answer.lease \in Nat /\ answer.lease # NoLease
    BY <1>3
  <2>2. Asks(r, p, "status", answer.job, answer.lease, "preparing")
    BY <2>1, RequestSays DEF Jobs, Status
  <2> HIDE DEF r
  <2>3. x = [pr EXCEPT !.at = "starting", !.job = answer.job, !.lease = answer.lease,
                       !.failures = 0, !.waits = r]
    BY <1>3 DEF Proceed, r
  <2>4. pr.cancelled = FALSE
    BY <1>1, <1>3 DEF Shape, Carrying
  <2> HIDE DEF x
  <2>5. /\ x \in ProcType /\ x.at = "starting" /\ x.job = answer.job
        /\ x.lease = answer.lease /\ x.cancelled = FALSE /\ x.waits = r
    BY <1>1, <2>1, <2>2, <2>3, <2>4 DEF ProcType, Waiting, Jobs, Asks
  <2>6. Shape(p, x)
    BY <2>1, <2>2, <2>5 DEF Shape, Carrying, Waiting, Asks
  <2>7. QED
    BY <1>3, <2>2, <2>5, <2>6 DEF Took, x
<1>4. CASE pr.at = "claiming" /\ answer.kind # "claimed"
  <2>1. \/ x = [Idle(pr) EXCEPT !.failures = 0]
        \/ x = Stopped
        \/ x = [Idle(pr) EXCEPT !.failures = @ + 1]
        \/ x = Idle(pr)
    BY <1>4 DEF Proceed
  <2>2. Idle(pr).failures = pr.failures
    BY <1>1 DEF Idle, ProcType
  <2>3. \/ x = [Idle(pr) EXCEPT !.failures = 0]
        \/ x = Stopped
        \/ x = [Idle(pr) EXCEPT !.failures = pr.failures + 1]
        \/ x = Idle(pr)
    BY <2>1, <2>2
  <2> HIDE DEF x
  <2>4. Free(p, x) /\ x.waits = NoRequest
    BY <1>1, <1>2, <2>3, IdleFree, StoppedFree
  <2>5. QED
    BY <1>4, <2>4 DEF x
<1>5. CASE pr.at = "starting" /\ answer.kind = "ok"
  <2>1. x = [pr EXCEPT !.at = "executing", !.waits = NoRequest]
    BY <1>5 DEF Proceed
  <2> HIDE DEF x
  <2>2. /\ x \in ProcType /\ x.at = "executing" /\ x.job = pr.job /\ x.lease = pr.lease
        /\ x.cancelled = pr.cancelled /\ x.waits = NoRequest
    BY <1>1, <2>1 DEF ProcType
  <2>3. Shape(p, x)
    BY <1>1, <1>5, <2>2 DEF Shape, Carrying, Waiting
  <2>4. QED
    BY <1>5, <2>2, <2>3 DEF Began, Carries, x
<1>6. CASE pr.at = "delivering"
  <2> DEFINE r == Request("status", p, pr.job, pr.lease, pr.final)
  <2>1. pr.job \in Dispatches /\ pr.lease \in Nat /\ pr.lease # NoLease
        /\ pr.final \in Releasing
    BY <1>1, <1>6 DEF Shape, Carrying, ProcType
  <2>2. Asks(r, p, "status", pr.job, pr.lease, pr.final)
    BY <2>1, RequestSays, NamesDiffer DEF Jobs
  <2> HIDE DEF r
  <2>3. x = [pr EXCEPT !.at = "finishing", !.waits = r]
    BY <1>6 DEF Proceed, r
  <2> HIDE DEF x
  <2>4. /\ x \in ProcType /\ x.at = "finishing" /\ x.job = pr.job /\ x.lease = pr.lease
        /\ x.cancelled = pr.cancelled /\ x.final = pr.final /\ x.waits = r
    BY <1>1, <2>2, <2>3 DEF ProcType, Waiting, Asks
  <2>5. Shape(p, x)
    BY <2>1, <2>2, <2>4 DEF Shape, Carrying, Waiting, Asks
  <2>6. QED
    BY <1>6, <2>2, <2>4, <2>5 DEF HandedOn, Carries, x
<1>7. CASE \/ pr.at = "starting" /\ answer.kind # "ok"
           \/ pr.at = "finishing"
  <2>1. x = Idle(pr)
    BY <1>7 DEF Proceed
  <2> HIDE DEF x
  <2>2. QED
    BY <1>1, <1>7, <2>1, IdleFree DEF x
<1>8. QED
  BY <1>1, <1>3, <1>4, <1>5, <1>6, <1>7 DEF Waiting

-----------------------------------------------------------------------------
(* What a step amounts to, for the rows, the processes and the reports. *)

\* No report is new but those of N.
Sends(N) == \A r \in Reports' : r \in Reports \/ r \in N

Turned(p, x) == p \in Processes /\ procs' = [procs EXCEPT ![p] = x]

SameRuns == executed' = executed /\ results' = results
SameRows == rows' = rows /\ minted' = minted /\ wanted' = wanted

\* Nothing happens, or a process drops what it carries.
Idles ==
  /\ SameRuns /\ SameRows /\ Sends({})
  /\ procs' = procs \/ \E p, x : Turned(p, x) /\ Free(p, x)

\* A process says that it is running.
Beats ==
  /\ SameRuns /\ SameRows /\ procs' = procs
  /\ \E p \in Processes : \E r :
       /\ procs[p].at = "executing" /\ Sends({r})
       /\ Asks(r, p, "status", procs[p].job, procs[p].lease, "running")

\* A local run ends, and what it says first depends on whether it has bytes.
Finishes ==
  /\ SameRows /\ executed' = executed
  /\ \E p, x :
       /\ Turned(p, x) /\ Carries(p, procs[p], x) /\ Sends({x.waits})
       /\ procs[p].at = "executing" /\ x.cancelled = procs[p].cancelled
       /\ \E outcome \in Outcomes, bytes \in BOOLEAN :
            /\ results' = [results EXCEPT ![procs[p].job] = [status |-> outcome,
                                                            bytes |-> bytes]]
            /\ x.final = Final(procs[p], outcome)
            /\ \/ /\ bytes = TRUE /\ x.at = "delivering"
                  /\ Asks(x.waits, p, "candidate", procs[p].job, procs[p].lease, None)
               \/ /\ bytes = FALSE /\ x.at = "finishing"
                  /\ Asks(x.waits, p, "status", procs[p].job, procs[p].lease, x.final)

\* The candidate is recorded, refused or given up, and the end is reported.
Hands ==
  /\ SameRuns /\ SameRows
  /\ \E p, x :
       /\ Turned(p, x) /\ HandedOn(p, procs[p], x) /\ Sends({x.waits})
       /\ faults' = 0 => \/ revoked = TRUE
                         \/ rows[x.job].lease \notin {NoLease, x.lease}
                         \/ x.job \in candidates'

\* A row is created, or its owner asks to stop it, or its lease runs out.
Queues ==
  /\ SameRuns /\ procs' = procs /\ minted' = minted /\ Sends({})
  /\ \E d \in Dispatches, y \in RowType :
       /\ rows' = [rows EXCEPT ![d] = y]
       /\ y.lease = rows[d].lease
       /\ y.status = rows[d].status \/ (Unclaimed(d) /\ y.status = "queued")
       /\ y.asked = rows[d].asked \/ d \in wanted'
  /\ wanted \subseteq wanted' /\ wanted' \subseteq Dispatches

\* A row is claimed, whether or not the process still listens.
Claims ==
  /\ SameRuns /\ wanted' = wanted /\ minted' = minted + 1
  /\ \E d \in Dispatches, y \in RowType :
       /\ Unclaimed(d) /\ rows[d].lease = NoLease
       /\ rows' = [rows EXCEPT ![d] = y]
       /\ y.status = "running" /\ y.lease = minted + 1 /\ y.asked = rows[d].asked
       /\ \/ /\ procs' = procs \/ \E p, x : Turned(p, x) /\ Free(p, x)
             /\ Sends({})
          \/ \E p, x : Turned(p, x) /\ Took(p, x, d, minted + 1) /\ Sends({x.waits})

\* A status is written, and its sender begins, learns of a cancellation, stops
\* or takes no notice.
Writes ==
  /\ minted' = minted /\ wanted' = wanted /\ results' = results /\ Sends({})
  /\ executed' = executed \cup
       {procs'[q].job : q \in {x \in Processes : procs'[x].at = "executing"}}
  /\ \E r \in Reports :
       /\ r.kind = "status"
       /\ rows' = [rows EXCEPT ![r.job] = Written(r)]
       /\ \/ procs' = procs
          \/ \E p, x : Turned(p, x) /\ (Free(p, x) \/ Began(p, procs[p], x))
          \/ \E p, x : /\ Turned(p, x) /\ x = [procs[p] EXCEPT !.cancelled = TRUE]
                       /\ procs[p].at = "executing" /\ procs[p].lease = r.lease
                       /\ rows[r.job].asked

\* The tables the invariant does not follow keep their types; a failure is never
\* undone, nor a candidate lost.
Framed ==
  /\ created' \in Seq(Dispatches) /\ candidates' \subseteq Dispatches
  /\ revoked' \in BOOLEAN /\ sent' \subseteq RequestType
  /\ admitted' \subseteq AdmittedType /\ cancels' \subseteq Dispatches
  /\ faults' \in 0..MaxFaults
  /\ candidates \subseteq candidates'
  /\ faults' = 0 => faults = 0 /\ revoked' = revoked

Amounts == \/ Idles \/ Beats \/ Finishes \/ Hands \/ Queues \/ Claims \/ Writes

\* Requests that are taken off, answered or admitted are no new reports.
LEMMA SendsWhat ==
  ASSUME NEW N,
         \A r \in sent' : r \in sent \/ r \in N \/ r.kind = "claim"
                          \/ \E h \in admitted : r = h.of,
         \A h \in admitted' : h \in admitted \/ h.of \in sent
  PROVE  Sends(N)
  BY DEF Sends, Reports

\* The answer to a request, heard or not.
Hears(r, answer) ==
  \/ procs' = procs /\ Issued(r, answer) = {}
  \/ \E x :
       /\ Turned(r.by, x) /\ procs[r.by].waits = r /\ procs[r.by].at \in Waiting
       /\ \/ Free(r.by, x) /\ Issued(r, answer) = {} /\ procs[r.by].at # "delivering"
          \/ /\ Began(r.by, procs[r.by], x) /\ answer.kind = "ok"
             /\ Issued(r, answer) = {}
          \/ HandedOn(r.by, procs[r.by], x) /\ Issued(r, answer) \subseteq {x.waits}
          \/ /\ Took(r.by, x, answer.job, answer.lease) /\ answer.kind = "claimed"
             /\ Issued(r, answer) \subseteq {x.waits}

LEMMA AnswerHeard ==
  ASSUME TypeOK, Shaped, NEW r \in RequestType, NEW answer,
         answer.kind = "claimed" =>
           r.kind = "claim" /\ answer.job \in Dispatches /\ answer.lease \in Nat \ {NoLease},
         answer.kind = "ok" => r.kind # "claim",
         procs' = Answered(r, answer)
  PROVE  Hears(r, answer)
<1> DEFINE p == r.by
           pr == procs[p]
           x == Proceed(p, answer)
<1>1. p \in Processes /\ r.kind \in {"claim", "status", "candidate"}
  BY DEF RequestType
<1>2. pr \in ProcType /\ Shape(p, pr)
  BY <1>1, TypePieces DEF Shaped
<1>3. CASE ~Heard(r)
  BY <1>3 DEF Hears, Answered, Issued
<1>4. CASE Heard(r)
  <2>1. pr.waits = r /\ procs' = [procs EXCEPT ![p] = x]
    BY <1>4 DEF Heard, Answered
  <2>2. pr.at \in Waiting
    <3>1. NoRequest.kind = None /\ None \notin {"claim", "status", "candidate"}
      BY DEF NoRequest, None
    <3>2. QED
      BY <1>1, <1>2, <2>1, <3>1 DEF Shape
  <2>3. (r.kind = "claim") <=> (pr.at = "claiming")
    BY <1>2, <2>1, <2>2 DEF Shape
  <2>4. Issued(r, answer) = {x.waits} \ {NoRequest}
    BY <1>4 DEF Issued
  <2>5. \/ Free(p, x) /\ x.waits = NoRequest /\ pr.at # "delivering"
        \/ Began(p, pr, x) /\ answer.kind = "ok"
        \/ HandedOn(p, pr, x)
        \/ Took(p, x, answer.job, answer.lease) /\ answer.kind = "claimed"
    <3>1. answer.kind = "claimed" =>
            /\ pr.at = "claiming"
            /\ answer.job \in Dispatches /\ answer.lease \in Nat \ {NoLease}
      BY <2>3
    <3>2. answer.kind = "ok" => pr.at # "claiming"
      BY <2>3
    <3>3. QED
      BY <1>1, <1>2, <2>2, <3>1, <3>2, Proceeds
  <2> HIDE DEF x
  <2>6. Turned(p, x)
    BY <1>1, <2>1 DEF Turned
  <2>7. Began(p, pr, x) => x.waits = NoRequest
    BY DEF Began
  <2>8. \/ Free(p, x) /\ Issued(r, answer) = {} /\ pr.at # "delivering"
        \/ Began(p, pr, x) /\ answer.kind = "ok" /\ Issued(r, answer) = {}
        \/ HandedOn(p, pr, x) /\ Issued(r, answer) \subseteq {x.waits}
        \/ /\ Took(p, x, answer.job, answer.lease) /\ answer.kind = "claimed"
           /\ Issued(r, answer) \subseteq {x.waits}
    BY <2>4, <2>5, <2>7
  <2>9. QED
    BY <2>1, <2>2, <2>6, <2>8 DEF Hears
<1>5. QED
  BY <1>3, <1>4

LEMMA IssuedTyped ==
  ASSUME NEW r \in RequestType, NEW answer, Hears(r, answer)
  PROVE  Issued(r, answer) \subseteq RequestType
  BY DEF Hears, HandedOn, Took, Asks

-----------------------------------------------------------------------------
(* The runner's steps. *)

LEMMA PollAmounts ==
  ASSUME TypeOK, Shaped, NEW p \in Processes, Poll(p)
  PROVE  Framed /\ Amounts
<1> DEFINE r == Request("claim", p, None, NoLease, None)
           a == [procs[p] EXCEPT !.at = "claiming"]
           x == [a EXCEPT !.waits = r]
           moved == [procs EXCEPT ![p] = a]
<1>1. procs[p] \in ProcType /\ Shape(p, procs[p]) /\ procs \in [Processes -> ProcType]
  BY TypePieces DEF Shaped
<1>2. Asks(r, p, "claim", None, NoLease, None)
  BY RequestSays DEF Jobs, NoLease
<1>3. procs[p].at = "idle" /\ procs' = [moved EXCEPT ![p] = [moved[p] EXCEPT !.waits = r]]
  BY DEF Poll
<1> HIDE DEF r
<1>4. /\ a \in ProcType /\ a.at = "claiming" /\ a.lease = procs[p].lease
      /\ a.job = procs[p].job /\ a.cancelled = procs[p].cancelled
  BY <1>1 DEF ProcType, Waiting
<1>5. /\ x \in ProcType /\ x.at = "claiming" /\ x.lease = procs[p].lease
      /\ x.job = procs[p].job /\ x.cancelled = procs[p].cancelled /\ x.waits = r
  BY <1>2, <1>4 DEF ProcType, Asks
<1>6. moved[p] = a
  BY <1>1
<1> HIDE DEF a
<1>7. procs' = [procs EXCEPT ![p] = x]
  BY <1>1, <1>3, <1>6
<1> HIDE DEF x
<1>8. Free(p, x)
  BY <1>1, <1>2, <1>3, <1>5 DEF Free, Shape, Carrying, Waiting, Asks
<1>9. Sends({})
  BY <1>2, SendsWhat DEF Poll, Asks, r
<1>10. Idles
  BY <1>7, <1>8, <1>9 DEF Idles, Turned, SameRuns, SameRows, Poll, hub, history
<1>11. Framed
  BY <1>2, TypePieces DEF Framed, Poll, hub, Asks, r
<1>12. QED
  BY <1>10, <1>11 DEF Amounts

LEMMA BeatAmounts ==
  ASSUME TypeOK, Shaped, NEW p \in Processes, Beat(p)
  PROVE  Framed /\ Amounts
<1> DEFINE r == Request("status", p, procs[p].job, procs[p].lease, "running")
<1>1. procs[p] \in ProcType /\ procs[p].at = "executing"
  BY TypePieces DEF Beat
<1>2. procs[p].job \in Jobs /\ procs[p].lease \in Nat /\ "running" \in Status \cup {None}
  BY <1>1 DEF ProcType, Status
<1>3. Asks(r, p, "status", procs[p].job, procs[p].lease, "running")
  BY <1>2, RequestSays
<1>4. sent' = sent \cup {r} /\ UNCHANGED <<hub, admitted, cancels, procs, history, faults>>
  BY DEF Beat
<1> HIDE DEF r
<1>5. Sends({r})
  BY <1>4, SendsWhat
<1>6. Beats
  BY <1>1, <1>3, <1>4, <1>5 DEF Beats, SameRuns, SameRows, hub, history
<1>7. Framed
  BY <1>3, <1>4, TypePieces DEF Framed, hub, Asks
<1>8. QED
  BY <1>6, <1>7 DEF Amounts

LEMMA FinishAmounts ==
  ASSUME TypeOK, Shaped, NEW p \in Processes, Finish(p)
  PROVE  Framed /\ Amounts
<1> DEFINE pr == procs[p]
<1>1. pr \in ProcType /\ Shape(p, pr) /\ procs \in [Processes -> ProcType]
  BY TypePieces DEF Shaped
<1>2. PICK outcome \in Outcomes, bytes \in BOOLEAN :
        LET final == Final(pr, outcome)
            report == FirstReport(p, final, bytes)
        IN  /\ pr.at = "executing"
            /\ results' = [results EXCEPT ![pr.job] = [status |-> outcome,
                                                      bytes |-> bytes]]
            /\ procs' = [procs EXCEPT
                           ![p].at = IF report.kind = "candidate" THEN "delivering"
                                     ELSE "finishing",
                           ![p].final = final, ![p].waits = report]
            /\ sent' = sent \cup {report}
            /\ UNCHANGED <<hub, admitted, cancels, executed, wanted, faults>>
  BY DEF Finish
<1> DEFINE final == Final(pr, outcome)
           report == FirstReport(p, final, bytes)
           at == IF report.kind = "candidate" THEN "delivering" ELSE "finishing"
           a == [pr EXCEPT !.at = at]
           b == [a EXCEPT !.final = final]
           x == [b EXCEPT !.waits = report]
           moved == [procs EXCEPT ![p] = a]
           ended == [moved EXCEPT ![p] = b]
<1>3. final \in Releasing
  BY DispatchAssumption DEF Final, Releasing
<1>4. pr.job \in Dispatches /\ pr.lease \in Nat /\ pr.lease # NoLease
  BY <1>1, <1>2 DEF Shape, Carrying, ProcType
<1>5. IF bytes THEN Asks(report, p, "candidate", pr.job, pr.lease, None)
      ELSE Asks(report, p, "status", pr.job, pr.lease, final)
  BY <1>3, <1>4, RequestSays, NamesDiffer DEF FirstReport, Jobs
<1> HIDE DEF report, final
<1>6. at = IF bytes THEN "delivering" ELSE "finishing"
  BY <1>5 DEF Asks
<1>7. report \in RequestType
  BY <1>5 DEF Asks
<1> HIDE DEF at
<1>8. /\ a \in ProcType /\ a.at = at /\ a.lease = pr.lease /\ a.job = pr.job
      /\ a.cancelled = pr.cancelled
  BY <1>1, <1>6 DEF ProcType, Waiting
<1>9. /\ b \in ProcType /\ b.at = at /\ b.lease = pr.lease /\ b.job = pr.job
      /\ b.cancelled = pr.cancelled /\ b.final = final
  BY <1>3, <1>8 DEF ProcType
<1>10. /\ x \in ProcType /\ x.at = at /\ x.lease = pr.lease /\ x.job = pr.job
       /\ x.cancelled = pr.cancelled /\ x.final = final /\ x.waits = report
  BY <1>7, <1>9 DEF ProcType
<1>11. procs' = [ended EXCEPT ![p] = [ended[p] EXCEPT !.waits = report]]
       /\ ended = [moved EXCEPT ![p] = [moved[p] EXCEPT !.final = final]]
  <2>1. moved[p] = a
    BY <1>1
  <2>2. ended[p] = b
    BY <1>1
  <2>3. QED
    BY <1>1, <1>2, <2>1, <2>2 DEF at, report, final

<1>12. moved[p] = a /\ ended[p] = b
  BY <1>1
<1> HIDE DEF a, b
<1>13. procs' = [procs EXCEPT ![p] = x]
  BY <1>1, <1>11, <1>12
<1> HIDE DEF x
<1>14. Shape(p, x)
  BY <1>3, <1>4, <1>5, <1>6, <1>7, <1>10 DEF Shape, Carrying, Waiting, Asks
<1>15. Sends({x.waits})
  BY <1>2, <1>10, SendsWhat DEF report, final
<1>16. Turned(p, x) /\ Carries(p, pr, x)
  BY <1>10, <1>13, <1>14 DEF Turned, Carries
<1>17. \/ /\ bytes = TRUE /\ x.at = "delivering"
          /\ Asks(x.waits, p, "candidate", pr.job, pr.lease, None)
       \/ /\ bytes = FALSE /\ x.at = "finishing"
          /\ Asks(x.waits, p, "status", pr.job, pr.lease, x.final)
  BY <1>5, <1>6, <1>10
<1>18. x.final = Final(pr, outcome)
  BY <1>10 DEF final
<1>19. SameRows /\ executed' = executed
  BY <1>2 DEF SameRows, hub
<1>20. Finishes
  BY <1>2, <1>10, <1>15, <1>16, <1>17, <1>18, <1>19 DEF Finishes
<1>21. Framed
  <2>1. sent' = sent \cup {report} /\ UNCHANGED <<hub, admitted, cancels, faults>>
    BY <1>2 DEF report, final
  <2>2. QED
    BY <1>7, <2>1, TypePieces DEF Framed, hub
<1>22. QED
  BY <1>20, <1>21 DEF Amounts

\* A request its sender stops waiting for.
LEMMA GiveUpAmounts ==
  ASSUME TypeOK, Shaped, NEW p \in Processes, GiveUp(p)
  PROVE  Framed /\ Amounts
<1> DEFINE r == procs[p].waits
           answer == Say("lost")
<1>1. procs[p] \in ProcType /\ Shape(p, procs[p]) /\ procs[p].at \in Waiting
  BY TypePieces DEF Shaped, GiveUp
<1>2. r \in RequestType /\ r.by = p
  BY <1>1 DEF Shape
<1>3. /\ faults' = faults + 1 /\ faults < MaxFaults
      /\ procs' = Answered(r, answer) /\ sent' = sent \cup Issued(r, answer)
      /\ UNCHANGED <<hub, admitted, cancels, history>>
  BY DEF GiveUp
<1>4. answer.kind = "lost"
  BY DEF Say
<1> HIDE DEF r, answer
<1>5. Hears(r, answer)
  BY <1>2, <1>3, <1>4, AnswerHeard
<1>6. Framed
  BY <1>2, <1>3, <1>5, IssuedTyped, TypePieces, DispatchAssumption DEF Framed, hub
<1>7. SameRuns /\ SameRows
  BY <1>3 DEF SameRuns, SameRows, hub, history
<1>8. CASE Issued(r, answer) = {}
  <2>1. Sends({})
    BY <1>3, <1>8, SendsWhat
  <2>2. CASE \E x : Turned(p, x) /\ HandedOn(p, procs[p], x)
    <3>1. PICK x : Turned(p, x) /\ HandedOn(p, procs[p], x)
      BY <2>2
    <3>2. Sends({x.waits})
      BY <2>1 DEF Sends
    <3>3. faults' # 0
      BY <1>3, TypePieces, DispatchAssumption
    <3>4. Hands
      BY <1>7, <3>1, <3>2, <3>3 DEF Hands
    <3>5. QED
      BY <1>6, <3>4 DEF Amounts
  <2>3. CASE ~\E x : Turned(p, x) /\ HandedOn(p, procs[p], x)
    <3>1. procs' = procs \/ \E x : Turned(p, x) /\ Free(p, x)
      BY <1>2, <1>4, <1>5, <2>3 DEF Hears
    <3>2. Idles
      BY <1>7, <2>1, <3>1 DEF Idles
    <3>3. QED
      BY <1>6, <3>2 DEF Amounts
  <2>4. QED
    BY <2>2, <2>3
<1>9. CASE Issued(r, answer) # {}
  <2>1. PICK x : /\ Turned(p, x) /\ HandedOn(p, procs[p], x)
                 /\ Issued(r, answer) \subseteq {x.waits}
    BY <1>2, <1>4, <1>5, <1>9 DEF Hears
  <2>2. Sends({x.waits})
    BY <1>3, <2>1, SendsWhat
  <2>3. faults' # 0
    BY <1>3, TypePieces, DispatchAssumption
  <2>4. Hands
    BY <1>7, <2>1, <2>2, <2>3 DEF Hands
  <2>5. QED
    BY <1>6, <2>4 DEF Amounts
<1>10. QED
  BY <1>8, <1>9

LEMMA StopAmounts ==
  ASSUME TypeOK, Shaped, NEW p \in Processes, Crash(p) \/ Restart(p)
  PROVE  Framed /\ Amounts
<1>1. \/ procs' = [procs EXCEPT ![p] = Stopped]
      \/ procs' = [procs EXCEPT ![p] = Fresh]
  BY DEF Crash, Restart
<1>2. \E x : Turned(p, x) /\ Free(p, x)
  BY <1>1, StoppedFree DEF Turned
<1>3. /\ UNCHANGED <<hub, net, history>>
      /\ faults' = faults \/ (faults < MaxFaults /\ faults' = faults + 1)
  BY DEF Crash, Restart
<1>4. Sends({})
  BY <1>3, SendsWhat DEF net
<1>5. Idles
  BY <1>2, <1>3, <1>4 DEF Idles, SameRuns, SameRows, hub, history
<1>6. Framed
  BY <1>3, TypePieces, DispatchAssumption DEF Framed, hub, net
<1>7. QED
  BY <1>5, <1>6 DEF Amounts

-----------------------------------------------------------------------------
(* The owner's steps and the hub's handlers. *)

LEMMA OwnerAmounts ==
  ASSUME TypeOK, Shaped, Owner \/ \E d \in Dispatches : Expire(d)
  PROVE  Framed /\ Amounts
<1>1. rows \in [Dispatches -> RowType] /\ created \in Seq(Dispatches)
  BY TypePieces
<1>2. ASSUME NEW d \in Dispatches, NEW y \in RowType,
             rows' = [rows EXCEPT ![d] = y],
             y.lease = rows[d].lease,
             y.status = rows[d].status \/ (Unclaimed(d) /\ y.status = "queued"),
             y.asked = rows[d].asked \/ d \in wanted',
             wanted' = wanted \/ wanted' = wanted \cup {d},
             UNCHANGED <<minted, sent, admitted, procs, executed, results>>
      PROVE  Queues
  <2>1. Sends({})
    BY <1>2, SendsWhat
  <2>2. wanted \subseteq wanted' /\ wanted' \subseteq Dispatches
    BY <1>2, TypePieces
  <2>3. QED
    BY <1>2, <2>1, <2>2 DEF Queues, SameRuns
<1>3. ASSUME NEW d \in Dispatches, Create(d)
      PROVE  Framed /\ Queues
  <2> DEFINE y == [rows[d] EXCEPT !.status = "queued"]
  <2>1. /\ y \in RowType /\ y.status = "queued" /\ y.lease = rows[d].lease
        /\ y.asked = rows[d].asked
    BY <1>1 DEF RowType, Status
  <2>2. rows' = [rows EXCEPT ![d] = y]
    BY <1>3 DEF Create
  <2> HIDE DEF y
  <2>3. Unclaimed(d)
    BY <1>3 DEF Create, Unclaimed
  <2>4. Queues
    BY <1>2, <1>3, <2>1, <2>2, <2>3 DEF Create, net, history
  <2>5. Framed
    BY <1>1, <1>3, TypePieces DEF Framed, Create, net
  <2>6. QED
    BY <2>4, <2>5
<1>4. ASSUME NEW d \in Dispatches, WriteCancel(d)
      PROVE  Framed /\ Queues
  <2> DEFINE y == [rows[d] EXCEPT !.asked = TRUE]
  <2>1. /\ y \in RowType /\ y.status = rows[d].status /\ y.lease = rows[d].lease
    BY <1>1 DEF RowType
  <2>2. rows' = [rows EXCEPT ![d] = y]
    BY <1>4 DEF WriteCancel
  <2> HIDE DEF y
  <2>3. d \in wanted'
    BY <1>4 DEF WriteCancel
  <2>4. Queues
    BY <1>2, <1>4, <2>1, <2>2, <2>3 DEF WriteCancel
  <2>5. Framed
    BY <1>4, TypePieces DEF Framed, WriteCancel
  <2>6. QED
    BY <2>4, <2>5
<1>5. ASSUME NEW d \in Dispatches, Expire(d)
      PROVE  Framed /\ Queues
  <2> DEFINE y == [rows[d] EXCEPT !.expired = TRUE]
  <2>1. /\ y \in RowType /\ y.status = rows[d].status /\ y.lease = rows[d].lease
        /\ y.asked = rows[d].asked
    BY <1>1 DEF RowType
  <2>2. rows' = [rows EXCEPT ![d] = y]
    BY <1>5 DEF Expire
  <2> HIDE DEF y
  <2>3. Queues
    BY <1>2, <1>5, <2>1, <2>2 DEF Expire, net, history
  <2>4. Framed
    BY <1>5, TypePieces, DispatchAssumption DEF Framed, Expire, net
  <2>5. QED
    BY <2>3, <2>4
<1>6. ASSUME Revoke \/ \E d \in Dispatches : ReadCancel(d)
      PROVE  Framed /\ Idles
  <2>1. UNCHANGED <<rows, created, candidates, minted, sent, admitted, procs, history>>
    BY <1>6 DEF Revoke, ReadCancel, hub, net
  <2>2. Idles
    BY <2>1, SendsWhat DEF Idles, SameRuns, SameRows, history
  <2>3. CASE Revoke
    <3>1. /\ revoked' = TRUE /\ faults < MaxFaults /\ faults' = faults + 1
          /\ UNCHANGED cancels
      BY <2>3 DEF Revoke, net
    <3>2. faults' \in 0..MaxFaults /\ faults' # 0
      BY <3>1, TypePieces, DispatchAssumption
    <3>3. Framed
      BY <2>1, <3>1, <3>2, TypePieces DEF Framed
    <3>4. QED
      BY <2>2, <3>3
  <2>4. CASE \E d \in Dispatches : ReadCancel(d)
    <3>1. PICK d \in Dispatches : /\ cancels' = cancels \cup {d}
                                  /\ UNCHANGED <<revoked, faults>>
      BY <2>4 DEF ReadCancel, hub
    <3>2. Framed
      BY <2>1, <3>1, TypePieces DEF Framed
    <3>3. QED
      BY <2>2, <3>2
  <2>5. QED
    BY <1>6, <2>3, <2>4
<1>7. QED
  BY <1>3, <1>4, <1>5, <1>6 DEF Owner, Amounts

\* An answer that grants nothing.
LEMMA ReplyAmounts ==
  ASSUME TypeOK, Shaped, NEW r \in sent, NEW kind \in {"empty", "refused", "revoked"},
         r.kind # "candidate", Reply(r, kind)
  PROVE  Framed /\ Amounts
<1> DEFINE answer == Say(kind)
<1>1. answer.kind = kind
  BY DEF Say
<1>2. /\ procs' = Answered(r, answer) /\ sent' = (sent \ {r}) \cup Issued(r, answer)
      /\ UNCHANGED <<hub, admitted, cancels, history, faults>>
      /\ r \in RequestType
  BY TypePieces DEF Reply
<1> HIDE DEF answer
<1>3. Hears(r, answer)
  BY <1>1, <1>2, AnswerHeard
<1>4. \A x : ~HandedOn(r.by, procs[r.by], x) \/ procs[r.by].waits # r
  <2>1. r.by \in Processes
    BY <1>2 DEF RequestType
  <2>2. Shape(r.by, procs[r.by])
    BY <2>1 DEF Shaped
  <2>3. procs[r.by].at = "delivering" => procs[r.by].waits.kind = "candidate"
    BY <2>2 DEF Shape, Waiting
  <2>4. QED
    BY <2>3 DEF HandedOn
<1>5. Issued(r, answer) = {} /\ (procs' = procs \/ \E p, x : Turned(p, x) /\ Free(p, x))
  BY <1>1, <1>3, <1>4 DEF Hears
<1>6. Sends({})
  BY <1>2, <1>5, SendsWhat
<1>7. Idles
  BY <1>2, <1>5, <1>6 DEF Idles, SameRuns, SameRows, hub, history
<1>8. Framed
  BY <1>2, <1>5, TypePieces DEF Framed, hub
<1>9. QED
  BY <1>7, <1>8 DEF Amounts

LEMMA AdmitAmounts ==
  ASSUME TypeOK, Shaped, NEW r \in sent, NEW d \in Dispatches, Admit(r, d)
  PROVE  Framed /\ Amounts
<1> DEFINE h == [of |-> r, job |-> d]
<1>1. h \in AdmittedType /\ h.of = r
  BY TypePieces DEF AdmittedType
<1>2. /\ sent' = sent \ {r} /\ admitted' = admitted \cup {h}
      /\ UNCHANGED <<hub, cancels, procs, history, faults>>
  BY DEF Admit
<1> HIDE DEF h
<1>3. Sends({})
  BY <1>1, <1>2, SendsWhat
<1>4. Idles
  BY <1>2, <1>3 DEF Idles, SameRuns, SameRows, hub, history
<1>5. Framed
  BY <1>1, <1>2, TypePieces DEF Framed, hub
<1>6. QED
  BY <1>4, <1>5 DEF Amounts

LEMMA ReadAmounts ==
  ASSUME TypeOK, Shaped, NEW p \in Processes, ReadClaim(p) \/ ReadStatus(p)
  PROVE  Framed /\ Amounts
<1>1. CASE ReadClaim(p)
  <2>1. PICK r \in sent :
          /\ r.kind = "claim"
          /\ \/ Reply(r, "revoked") \/ Reply(r, "empty")
             \/ \E d \in Dispatches : Admit(r, d)
    BY <1>1 DEF ReadClaim
  <2>2. QED
    BY <2>1, ReplyAmounts, AdmitAmounts
<1>2. CASE ReadStatus(p)
  <2>1. PICK r \in sent :
          /\ r.kind = "status"
          /\ Reply(r, "refused") \/ Admit(r, r.job)
    BY <1>2 DEF ReadStatus
  <2>2. r.job \in Dispatches
    BY <2>1 DEF Shaped, Reports, Proper
  <2>3. QED
    BY <2>1, <2>2, ReplyAmounts, AdmitAmounts
<1>3. QED
  BY <1>1, <1>2

LEMMA WriteClaimAmounts ==
  ASSUME TypeOK, Shaped, NEW p \in Processes, WriteClaim(p)
  PROVE  Framed /\ Amounts
<1>1. PICK h \in admitted :
        LET won == StillQueued(h.job)
            answer == IF won THEN [kind |-> "claimed", job |-> h.job,
                                   lease |-> minted + 1]
                      ELSE Say("empty")
        IN  /\ h.of.kind = "claim"
            /\ admitted' = admitted \ {h}
            /\ rows' = IF won THEN [rows EXCEPT ![h.job].status = "running",
                                                ![h.job].lease = minted + 1,
                                                ![h.job].expired = FALSE]
                       ELSE rows
            /\ minted' = IF won THEN minted + 1 ELSE minted
            /\ procs' = Answered(h.of, answer)
            /\ sent' = sent \cup Issued(h.of, answer)
            /\ UNCHANGED <<created, candidates, revoked, cancels, history, faults>>
  BY DEF WriteClaim
<1> DEFINE d == h.job
           r == h.of
           won == StillQueued(d)
           answer == IF won THEN [kind |-> "claimed", job |-> d, lease |-> minted + 1]
                     ELSE Say("empty")
<1>2. d \in Dispatches /\ r \in RequestType /\ r.kind = "claim" /\ h \in admitted
  BY <1>1, TypePieces DEF AdmittedType
<1>3. minted \in Nat /\ minted + 1 \in Nat \ {NoLease}
  BY TypePieces DEF NoLease
<1>4. /\ won => answer.kind = "claimed" /\ answer.job = d /\ answer.lease = minted + 1
      /\ ~won => answer.kind = "empty"
  BY DEF Say
<1>5. /\ procs' = Answered(r, answer) /\ sent' = sent \cup Issued(r, answer)
      /\ admitted' = admitted \ {h}
      /\ UNCHANGED <<created, candidates, revoked, cancels, history, faults>>
  BY <1>1
<1> HIDE DEF answer
<1>6. Hears(r, answer)
  BY <1>2, <1>3, <1>4, <1>5, AnswerHeard
<1>7. Framed
  BY <1>2, <1>5, <1>6, IssuedTyped, TypePieces DEF Framed
<1>8. \A x : HandedOn(r.by, procs[r.by], x) => procs[r.by].waits # r
  <2>1. r.by \in Processes
    BY <1>2 DEF RequestType
  <2>2. Shape(r.by, procs[r.by])
    BY <2>1 DEF Shaped
  <2>3. procs[r.by].at = "delivering" => procs[r.by].waits.kind = "candidate"
    BY <2>2 DEF Shape, Waiting
  <2>4. QED
    BY <1>2, <2>3 DEF HandedOn
<1>9. CASE ~won
  <2>1. Issued(r, answer) = {} /\ (procs' = procs \/ \E q, x : Turned(q, x) /\ Free(q, x))
    BY <1>4, <1>6, <1>8, <1>9 DEF Hears
  <2>2. Sends({})
    BY <1>5, <2>1, SendsWhat
  <2>3. rows' = rows /\ minted' = minted
    BY <1>1, <1>9
  <2>4. Idles
    BY <1>5, <2>1, <2>2, <2>3 DEF Idles, SameRuns, SameRows, history
  <2>5. QED
    BY <1>7, <2>4 DEF Amounts
<1>10. CASE won
  <2> DEFINE a == [rows[d] EXCEPT !.status = "running"]
             b == [a EXCEPT !.lease = minted + 1]
             y == [b EXCEPT !.expired = FALSE]
             moved == [rows EXCEPT ![d] = a]
             leased == [moved EXCEPT ![d] = b]
  <2>1. rows[d] \in RowType /\ rows \in [Dispatches -> RowType]
    BY <1>2, TypePieces
  <2>2. moved[d] = a /\ leased[d] = b
    BY <1>2, <2>1
  <2>3. rows' = [leased EXCEPT ![d] = [leased[d] EXCEPT !.expired = FALSE]]
        /\ leased = [moved EXCEPT ![d] = [moved[d] EXCEPT !.lease = minted + 1]]
    BY <1>1, <1>10, <2>2
  <2>4. a \in RowType /\ a.status = "running" /\ a.asked = rows[d].asked
    BY <2>1 DEF RowType, Status
  <2>5. /\ b \in RowType /\ b.status = "running" /\ b.asked = rows[d].asked
        /\ b.lease = minted + 1
    BY <1>3, <2>4 DEF RowType
  <2>6. /\ y \in RowType /\ y.status = "running" /\ y.asked = rows[d].asked
        /\ y.lease = minted + 1
    BY <2>5 DEF RowType
  <2> HIDE DEF a, b
  <2>7. rows' = [rows EXCEPT ![d] = y]
    BY <2>1, <2>2, <2>3
  <2> HIDE DEF y
  <2>8. Unclaimed(d) /\ rows[d].lease = NoLease
    BY <1>10 DEF StillQueued, Unclaimed
  <2>9. minted' = minted + 1
    BY <1>1, <1>10
  <2>10. \/ /\ procs' = procs \/ \E q, x : Turned(q, x) /\ Free(q, x)
            /\ Sends({})
         \/ \E q, x : Turned(q, x) /\ Took(q, x, d, minted + 1) /\ Sends({x.waits})
    <3>1. CASE Issued(r, answer) = {}
      <4>1. Sends({})
        BY <1>5, <3>1, SendsWhat
      <4>2. ASSUME NEW x, Sends({}) PROVE Sends({x.waits})
        BY <4>2 DEF Sends
      <4>3. \/ procs' = procs
            \/ \E x : /\ Turned(r.by, x)
                      /\ Free(r.by, x) \/ Took(r.by, x, d, minted + 1)
        BY <1>4, <1>6, <1>8, <1>10 DEF Hears
      <4>4. QED
        BY <4>1, <4>2, <4>3
    <3>2. CASE Issued(r, answer) # {}
      <4>1. PICK x : /\ Turned(r.by, x) /\ Took(r.by, x, d, minted + 1)
                     /\ Issued(r, answer) \subseteq {x.waits}
        BY <1>4, <1>6, <1>8, <1>10, <3>2 DEF Hears
      <4>2. Sends({x.waits})
        BY <1>5, <4>1, SendsWhat
      <4>3. QED
        BY <4>1, <4>2
    <3>3. QED
      BY <3>1, <3>2
  <2>11. Claims
    BY <1>2, <1>5, <2>6, <2>7, <2>8, <2>9, <2>10 DEF Claims, SameRuns, history
  <2>12. QED
    BY <1>7, <2>11 DEF Amounts
<1>11. QED
  BY <1>9, <1>10

LEMMA WriteStatusAmounts ==
  ASSUME TypeOK, Shaped, NEW p \in Processes, WriteStatus(p)
  PROVE  Framed /\ Amounts
<1>1. PICK h \in admitted :
        LET r == h.of IN
        /\ r.by = p /\ r.kind = "status"
        /\ admitted' = admitted \ {h}
        /\ rows' = [rows EXCEPT ![r.job] = Written(r)]
        /\ \/ procs' = Answered(r, Say("ok"))
           \/ Learnt(r) /\ procs' = [procs EXCEPT ![p].cancelled = TRUE]
        /\ sent' = sent \cup Issued(r, Say("ok"))
        /\ executed' = executed \cup
             {procs'[q].job : q \in {x \in Processes : procs'[x].at = "executing"}}
        /\ UNCHANGED <<created, candidates, revoked, minted, cancels, wanted,
                       results, faults>>
  BY DEF WriteStatus
<1> DEFINE r == h.of
           answer == Say("ok")
<1>2. r \in RequestType /\ r.kind = "status" /\ r.by = p /\ r \in Reports
  BY <1>1, TypePieces DEF AdmittedType, Reports
<1>3. answer.kind = "ok"
  BY DEF Say
<1>4. /\ admitted' = admitted \ {h} /\ sent' = sent \cup Issued(r, answer)
      /\ UNCHANGED <<created, candidates, revoked, minted, cancels, wanted,
                     results, faults>>
  BY <1>1
<1>5. procs[p] \in ProcType /\ Shape(p, procs[p])
  BY TypePieces DEF Shaped
<1>6. procs[p].waits = r => procs[p].at # "delivering"
  BY <1>2, <1>5 DEF Shape, Waiting
<1>7. CASE procs' = Answered(r, answer)
  <2> HIDE DEF answer
  <2>1. Hears(r, answer)
    BY <1>2, <1>3, <1>7, AnswerHeard
  <2>2. Issued(r, answer) = {}
    BY <1>2, <1>3, <1>6, <2>1 DEF Hears, HandedOn
  <2>3. \/ procs' = procs
        \/ \E q, x : Turned(q, x) /\ (Free(q, x) \/ Began(q, procs[q], x))
    BY <1>2, <1>3, <1>6, <2>1 DEF Hears, HandedOn
  <2>4. Sends({})
    BY <1>4, <2>2, SendsWhat
  <2>5. Framed
    BY <1>4, <2>2, TypePieces DEF Framed
  <2>6. Writes
    BY <1>1, <1>2, <2>3, <2>4 DEF Writes
  <2>7. QED
    BY <2>5, <2>6 DEF Amounts
<1>8. CASE Learnt(r) /\ procs' = [procs EXCEPT ![p].cancelled = TRUE]
  <2>1. /\ procs[p].at = "executing" /\ procs[p].lease = r.lease
        /\ rows[r.job].asked
    BY <1>2, <1>8 DEF Learnt
  <2>2. procs[p].waits # r
    <3>1. procs[p].waits = NoRequest
      BY <1>5, <2>1 DEF Shape, Waiting
    <3>2. NoRequest.kind = "none"
      BY DEF NoRequest, None
    <3>3. QED
      BY <1>2, <3>1, <3>2
  <2>3. Issued(r, answer) = {}
    BY <1>2, <2>2 DEF Issued, Heard
  <2> HIDE DEF answer
  <2>4. Sends({})
    BY <1>4, <2>3, SendsWhat
  <2>5. Framed
    BY <1>4, <2>3, TypePieces DEF Framed
  <2>6. \E q, x : /\ Turned(q, x) /\ x = [procs[q] EXCEPT !.cancelled = TRUE]
                  /\ procs[q].at = "executing" /\ procs[q].lease = r.lease
                  /\ rows[r.job].asked
    <3>1. Turned(p, [procs[p] EXCEPT !.cancelled = TRUE])
      BY <1>8 DEF Turned
    <3>2. QED
      BY <2>1, <3>1
  <2>7. Writes
    BY <1>1, <1>2, <2>4, <2>6 DEF Writes
  <2>8. QED
    BY <2>5, <2>7 DEF Amounts
<1>9. QED
  BY <1>1, <1>7, <1>8

LEMMA RecordCandidateAmounts ==
  ASSUME TypeOK, Shaped, NEW p \in Processes, RecordCandidate(p)
  PROVE  Framed /\ Amounts
<1>1. PICK r \in sent :
        LET accepted == ~revoked /\ rows[r.job].lease \in {NoLease, r.lease}
            answer == Say(IF accepted THEN "ok" ELSE "refused")
        IN  /\ r.by = p /\ r.kind = "candidate"
            /\ candidates' = IF accepted THEN candidates \cup {r.job}
                             ELSE candidates
            /\ procs' = Answered(r, answer)
            /\ sent' = (sent \ {r}) \cup Issued(r, answer)
            /\ UNCHANGED <<rows, created, revoked, minted, admitted, cancels,
                           history, faults>>
  BY DEF RecordCandidate
<1> DEFINE accepted == ~revoked /\ rows[r.job].lease \in {NoLease, r.lease}
           answer == Say(IF accepted THEN "ok" ELSE "refused")
<1>2. r \in RequestType /\ r.kind = "candidate" /\ r.by = p /\ r \in Reports
  BY <1>1, TypePieces DEF Reports
<1>3. r.job \in Dispatches
  BY <1>2 DEF Shaped, Proper
<1>4. answer.kind \in {"ok", "refused"}
  BY DEF Say
<1>5. /\ procs' = Answered(r, answer) /\ sent' = (sent \ {r}) \cup Issued(r, answer)
      /\ UNCHANGED <<rows, created, revoked, minted, admitted, cancels, history, faults>>
  BY <1>1
<1>6. /\ candidates \subseteq candidates' /\ candidates' \subseteq Dispatches
      /\ ~revoked /\ rows[r.job].lease \in {NoLease, r.lease} => r.job \in candidates'
  BY <1>1, <1>3, TypePieces
<1> HIDE DEF answer
<1>7. Hears(r, answer)
  BY <1>2, <1>4, <1>5, AnswerHeard
<1>8. Framed
  BY <1>2, <1>5, <1>6, <1>7, IssuedTyped, TypePieces DEF Framed
<1>9. procs[p] \in ProcType /\ Shape(p, procs[p])
  BY TypePieces DEF Shaped
<1>10. procs[p].waits = r /\ procs[p].at \in Waiting
         => /\ procs[p].at = "delivering"
            /\ procs[p].job = r.job /\ procs[p].lease = r.lease
  BY <1>2, <1>9 DEF Shape, Waiting
<1>11. SameRuns /\ SameRows
  BY <1>5 DEF SameRuns, SameRows, history
<1>12. CASE procs' = procs /\ Issued(r, answer) = {}
  <2>1. Sends({})
    BY <1>5, <1>12, SendsWhat
  <2>2. Idles
    BY <1>11, <1>12, <2>1 DEF Idles
  <2>3. QED
    BY <1>8, <2>2 DEF Amounts
<1>13. CASE ~(procs' = procs /\ Issued(r, answer) = {})
  <2>1. PICK x : /\ Turned(p, x) /\ procs[p].waits = r /\ procs[p].at \in Waiting
                 /\ HandedOn(p, procs[p], x) /\ Issued(r, answer) \subseteq {x.waits}
    BY <1>2, <1>4, <1>7, <1>10, <1>13 DEF Hears, Began
  <2>2. Sends({x.waits})
    BY <1>5, <2>1, SendsWhat
  <2>3. x.job = r.job /\ x.lease = r.lease
    BY <1>10, <2>1 DEF HandedOn, Carries
  <2>4. revoked \in BOOLEAN
    BY TypePieces
  <2>5. \/ revoked = TRUE
        \/ rows[x.job].lease \notin {NoLease, x.lease}
        \/ x.job \in candidates'
    BY <1>6, <2>3, <2>4
  <2>6. Hands
    BY <1>11, <2>1, <2>2, <2>5 DEF Hands
  <2>7. QED
    BY <1>8, <2>6 DEF Amounts
<1>14. QED
  BY <1>12, <1>13

\* Every step amounts to one of the seven.
LEMMA StepAmounts ==
  ASSUME TypeOK, Shaped, [Next]_vars
  PROVE  Framed /\ Amounts
<1>1. CASE UNCHANGED vars
  <2>1. Sends({})
    BY <1>1, SendsWhat DEF vars, net
  <2>2. Idles
    BY <1>1, <2>1 DEF Idles, SameRuns, SameRows, vars, hub, history
  <2>3. Framed
    BY <1>1, TypePieces DEF Framed, vars, hub, net
  <2>4. QED
    BY <2>2, <2>3 DEF Amounts
<1>2. CASE Owner \/ \E d \in Dispatches : Expire(d)
  BY <1>2, OwnerAmounts
<1>3. CASE \E p \in Processes : Runner(p) \/ Hub(p)
  BY <1>3, PollAmounts, BeatAmounts, FinishAmounts, GiveUpAmounts, StopAmounts,
     ReadAmounts, WriteClaimAmounts, WriteStatusAmounts, RecordCandidateAmounts
     DEF Runner, Hub
<1>4. QED
  BY <1>1, <1>2, <1>3 DEF Next

-----------------------------------------------------------------------------
(* Types and shapes are kept. *)

LEMMA TurnedGives ==
  ASSUME TypeOK, NEW p, NEW x, Turned(p, x)
  PROVE  /\ p \in Processes /\ procs'[p] = x
         /\ \A q \in Processes : q # p => procs'[q] = procs[q]
  BY TypePieces DEF Turned

LEMMA RowGives ==
  ASSUME TypeOK, NEW d \in Dispatches, NEW y, rows' = [rows EXCEPT ![d] = y]
  PROVE  /\ rows'[d] = y
         /\ \A e \in Dispatches : e # d => rows'[e] = rows[e]
  BY TypePieces

LEMMA WrittenSays ==
  ASSUME TypeOK, Shaped, NEW r \in Reports, r.kind = "status"
  PROVE  /\ r.job \in Dispatches /\ Written(r) \in RowType
         /\ Written(r).status = r.status
         /\ r.status \in {"running", "preparing"} \cup Releasing
         /\ Written(r).lease = IF r.status \in Releasing THEN NoLease
                               ELSE rows[r.job].lease
         /\ Written(r).asked <=> rows[r.job].asked \/ r.status = "cancelled"
<1> DEFINE a == [rows[r.job] EXCEPT !.status = r.status]
           b == [a EXCEPT !.lease = IF r.status \in Releasing THEN NoLease
                                    ELSE rows[r.job].lease]
           c == [b EXCEPT !.asked = rows[r.job].asked \/ r.status = "cancelled"]
<1>1. r.job \in Dispatches /\ r.status \in {"running", "preparing"} \cup Releasing
  BY DEF Shaped, Proper
<1>2. rows[r.job] \in RowType
  BY <1>1, TypePieces
<1>3. Written(r) = c
  BY <1>2 DEF Written, RowType
<1>4. a \in RowType /\ a.status = r.status
  BY <1>1, <1>2, NamesDiffer DEF RowType, Status
<1> HIDE DEF a
<1>5. /\ b \in RowType /\ b.status = r.status
      /\ b.lease = IF r.status \in Releasing THEN NoLease ELSE rows[r.job].lease
  BY <1>2, <1>4 DEF RowType, NoLease
<1> HIDE DEF b
<1>6. /\ c \in RowType /\ c.status = r.status /\ c.lease = b.lease
      /\ c.asked = (rows[r.job].asked \/ r.status = "cancelled")
  BY <1>5 DEF RowType
<1>7. QED
  BY <1>1, <1>3, <1>5, <1>6

\* At most one process moves, and into a shape.
LEMMA AmountsTurn ==
  ASSUME TypeOK, Shaped, Amounts
  PROVE  \/ procs' = procs
         \/ \E p, x : Turned(p, x) /\ x \in ProcType /\ Shape(p, x)
<1>1. CASE Idles
  BY <1>1 DEF Idles, Free
<1>2. CASE Beats
  BY <1>2 DEF Beats
<1>3. CASE Finishes
  BY <1>3 DEF Finishes, Carries
<1>4. CASE Hands
  BY <1>4 DEF Hands, HandedOn, Carries
<1>5. CASE Queues
  BY <1>5 DEF Queues
<1>6. CASE Claims
  BY <1>6 DEF Claims, Took, Free
<1>7. CASE Writes
  <2>1. \/ procs' = procs
        \/ \E p, x : Turned(p, x) /\ (Free(p, x) \/ Began(p, procs[p], x))
        \/ \E p, x : /\ Turned(p, x) /\ x = [procs[p] EXCEPT !.cancelled = TRUE]
                     /\ procs[p].at = "executing"
    BY <1>7 DEF Writes
  <2>2. ASSUME NEW p, NEW x, Turned(p, x), x = [procs[p] EXCEPT !.cancelled = TRUE],
               procs[p].at = "executing"
        PROVE  x \in ProcType /\ Shape(p, x)
    <3>1. p \in Processes /\ procs[p] \in ProcType /\ Shape(p, procs[p])
      BY <2>2, TypePieces DEF Turned, Shaped
    <3>2. /\ x \in ProcType /\ x.at = "executing" /\ x.job = procs[p].job
          /\ x.lease = procs[p].lease /\ x.waits = procs[p].waits
      BY <2>2, <3>1 DEF ProcType
    <3>3. QED
      BY <2>2, <3>1, <3>2 DEF Shape, Carrying, Waiting
  <2>3. QED
    BY <2>1, <2>2 DEF Began, Carries, Free
<1>8. QED
  BY <1>1, <1>2, <1>3, <1>4, <1>5, <1>6, <1>7 DEF Amounts

\* Rows, leases and results keep their types.
LEMMA AmountsTyped ==
  ASSUME TypeOK, Shaped, Amounts
  PROVE  /\ rows' \in [Dispatches -> RowType] /\ minted' \in Nat
         /\ executed' \subseteq Dispatches /\ wanted' \subseteq Dispatches
         /\ results' \in [Dispatches -> ResultType]
<1>1. /\ rows \in [Dispatches -> RowType] /\ minted \in Nat
      /\ executed \subseteq Dispatches /\ wanted \subseteq Dispatches
      /\ results \in [Dispatches -> ResultType]
  BY TypePieces
<1>2. CASE Idles \/ Beats \/ Hands
  BY <1>1, <1>2 DEF Idles, Beats, Hands, SameRuns, SameRows
<1>3. CASE Finishes
  <2>1. PICK p, x : \E outcome \in Outcomes, bytes \in BOOLEAN :
          results' = [results EXCEPT ![procs[p].job] = [status |-> outcome,
                                                        bytes |-> bytes]]
    BY <1>3 DEF Finishes
  <2>2. PICK outcome \in Outcomes, bytes \in BOOLEAN :
          results' = [results EXCEPT ![procs[p].job] = [status |-> outcome,
                                                        bytes |-> bytes]]
    BY <2>1
  <2> DEFINE y == [status |-> outcome, bytes |-> bytes]
             j == procs[p].job
  <2>3. y \in ResultType
    BY DEF ResultType
  <2> HIDE DEF y, j
  <2>4. results' = [results EXCEPT ![j] = y]
    BY <2>2 DEF y, j
  <2>5. results' \in [Dispatches -> ResultType]
    BY <1>1, <2>3, <2>4
  <2>6. QED
    BY <1>1, <1>3, <2>5 DEF Finishes, SameRows
<1>4. CASE Queues
  BY <1>1, <1>4 DEF Queues, SameRuns
<1>5. CASE Claims
  BY <1>1, <1>5 DEF Claims, SameRuns
<1>6. CASE Writes
  <2>1. PICK r \in Reports : r.kind = "status" /\ rows' = [rows EXCEPT ![r.job] = Written(r)]
    BY <1>6 DEF Writes
  <2>2. rows' \in [Dispatches -> RowType]
    BY <1>1, <2>1, WrittenSays
  <2>3. \A q \in Processes : procs'[q].at = "executing" => procs'[q].job \in Dispatches
    <3>1. \A q \in Processes : Shape(q, procs'[q])
      BY AmountsTurn, TurnedGives DEF Shaped
    <3>2. QED
      BY <3>1 DEF Shape, Carrying
  <2>4. executed' = executed \cup
          {procs'[q].job : q \in {x \in Processes : procs'[x].at = "executing"}}
    BY <1>6 DEF Writes
  <2>5. executed' \subseteq Dispatches
    BY <1>1, <2>3, <2>4
  <2>6. QED
    BY <1>1, <1>6, <2>2, <2>5 DEF Writes
<1>7. QED
  BY <1>2, <1>3, <1>4, <1>5, <1>6 DEF Amounts

LEMMA TypedStep ==
  ASSUME TypeOK, Shaped, Framed, Amounts
  PROVE  TypeOK'
<1>1. procs' \in [Processes -> ProcType]
  BY AmountsTurn, TypePieces DEF Turned
<1>2. QED
  BY <1>1, AmountsTyped DEF TypeOK, Framed, RowType, ProcType, ResultType, AdmittedType

\* Whatever a new report speaks of, a process carries it, or has just claimed it.
LEMMA NewReports ==
  ASSUME TypeOK, Shaped, Amounts, NEW r \in Reports', r \notin Reports
  PROVE  /\ Proper(r)
         /\ \/ \E p \in Processes :
                 /\ procs[p].at \in Carrying
                 /\ r.job = procs[p].job /\ r.lease = procs[p].lease
            \/ Claims
<1>1. ASSUME NEW p \in Processes, procs[p].at \in Carrying, NEW y,
             NEW kind, NEW status,
             Asks(y, p, kind, procs[p].job, procs[p].lease, status),
             \/ kind = "candidate" /\ status = None
             \/ kind = "status" /\ status \in {"running"} \cup Releasing,
             Sends({y})
      PROVE  /\ Proper(r)
             /\ \E q \in Processes :
                  /\ procs[q].at \in Carrying
                  /\ r.job = procs[q].job /\ r.lease = procs[q].lease
  <2>1. r = y
    BY <1>1 DEF Sends
  <2>2. procs[p].job \in Dispatches
    BY <1>1 DEF Shaped, Shape
  <2>3. QED
    BY <1>1, <2>1, <2>2 DEF Proper, Asks
<1>2. CASE Idles \/ Queues \/ Writes
  BY <1>2 DEF Idles, Queues, Writes, Sends
<1>3. CASE Beats
  BY <1>1, <1>3 DEF Beats, Carrying
<1>4. CASE Finishes
  <2>1. PICK p, x :
          /\ Turned(p, x) /\ Carries(p, procs[p], x) /\ Sends({x.waits})
          /\ procs[p].at = "executing"
          /\ \/ /\ x.at = "delivering"
                /\ Asks(x.waits, p, "candidate", procs[p].job, procs[p].lease, None)
             \/ /\ x.at = "finishing"
                /\ Asks(x.waits, p, "status", procs[p].job, procs[p].lease, x.final)
    BY <1>4 DEF Finishes
  <2>2. p \in Processes /\ Shape(p, x)
    BY <2>1 DEF Turned, Carries
  <2>3. x.at = "finishing" => x.final \in Releasing
    BY <2>2 DEF Shape
  <2>4. QED
    BY <1>1, <2>1, <2>2, <2>3 DEF Carrying
<1>5. CASE Hands
  <2>1. PICK p, x : Turned(p, x) /\ HandedOn(p, procs[p], x) /\ Sends({x.waits})
    BY <1>5 DEF Hands
  <2>2. /\ p \in Processes /\ procs[p].at = "delivering"
        /\ Asks(x.waits, p, "status", procs[p].job, procs[p].lease, procs[p].final)
    BY <2>1 DEF Turned, HandedOn
  <2>3. procs[p].final \in Releasing
    BY <2>2 DEF Shaped, Shape
  <2>4. QED
    BY <1>1, <2>1, <2>2, <2>3 DEF Carrying
<1>6. CASE Claims
  <2>1. PICK d, p, x : /\ d \in Dispatches /\ Took(p, x, d, minted + 1)
                       /\ Sends({x.waits})
    BY <1>6 DEF Claims, Sends
  <2>2. r = x.waits
    BY <2>1 DEF Sends
  <2>3. QED
    BY <1>6, <2>1, <2>2 DEF Took, Asks, Proper
<1>7. QED
  BY <1>2, <1>3, <1>4, <1>5, <1>6 DEF Amounts

LEMMA ShapedStep ==
  ASSUME TypeOK, Shaped, Amounts
  PROVE  Shaped'
<1>1. \A p \in Processes : Shape(p, procs'[p])
  BY AmountsTurn, TurnedGives DEF Shaped
<1>2. \A r \in Reports' : Proper(r)
  BY NewReports DEF Shaped
<1>3. QED
  BY <1>1, <1>2 DEF Shaped, Shape, Proper

-----------------------------------------------------------------------------
(* Leases stay where they are. *)

\* No lease is given: rows and processes keep theirs or drop them.
Keeps ==
  /\ minted' = minted
  /\ \A d \in Dispatches :
       /\ rows'[d].lease \in {rows[d].lease, NoLease}
       /\ rows'[d].status \in Releasing => rows'[d].lease = NoLease
       /\ rows'[d].status \in {"absent", "queued"} => Unclaimed(d)
  /\ \A p \in Processes :
       procs'[p].lease # NoLease =>
         procs'[p].lease = procs[p].lease /\ procs'[p].job = procs[p].job
  /\ \A r \in Reports' :
       \/ r \in Reports
       \/ \E p \in Processes : /\ procs[p].lease # NoLease
                               /\ r.job = procs[p].job /\ r.lease = procs[p].lease

LEMMA AmountsKeep ==
  ASSUME TypeOK, Shaped, Owned, Amounts, ~Claims
  PROVE  Keeps
<1>1. \A r \in Reports' :
        \/ r \in Reports
        \/ \E p \in Processes : /\ procs[p].lease # NoLease
                                /\ r.job = procs[p].job /\ r.lease = procs[p].lease
  BY NewReports DEF Shaped, Shape
<1>2. minted' = minted
  BY DEF Amounts, Idles, Beats, Finishes, Hands, Queues, Writes, SameRows
<1>3. ASSUME NEW p \in Processes, procs'[p].lease # NoLease
      PROVE  procs'[p].lease = procs[p].lease /\ procs'[p].job = procs[p].job
  <2>1. CASE procs' = procs
    BY <2>1
  <2>2. CASE \E q, x : Turned(q, x) /\ (Free(q, x) \/ Carries(q, procs[q], x))
    BY <1>3, <2>2, TurnedGives DEF Free, Carries
  <2>3. CASE \E q, x : Turned(q, x) /\ x = [procs[q] EXCEPT !.cancelled = TRUE]
    <3>1. PICK q, x : Turned(q, x) /\ x = [procs[q] EXCEPT !.cancelled = TRUE]
      BY <2>3
    <3>2. q \in Processes /\ procs[q] \in ProcType
      BY <3>1, TypePieces DEF Turned
    <3>3. x.lease = procs[q].lease /\ x.job = procs[q].job
      BY <3>1, <3>2 DEF ProcType
    <3>4. QED
      BY <3>1, <3>3, TurnedGives
  <2>4. CASE Idles \/ Beats \/ Finishes \/ Hands \/ Queues
    BY <2>1, <2>2, <2>4 DEF Idles, Beats, Finishes, Hands, HandedOn, Queues
  <2>5. CASE Writes
    BY <2>1, <2>2, <2>3, <2>5 DEF Writes, Began
  <2>6. QED
    BY <2>4, <2>5 DEF Amounts
<1>4. ASSUME NEW d \in Dispatches
      PROVE  /\ rows'[d].lease \in {rows[d].lease, NoLease}
             /\ rows'[d].status \in Releasing => rows'[d].lease = NoLease
             /\ rows'[d].status \in {"absent", "queued"} => Unclaimed(d)
  <2>1. CASE rows'[d] = rows[d]
    BY <2>1 DEF Owned, Unclaimed
  <2>2. CASE Queues /\ rows'[d] # rows[d]
    <3>1. PICK e \in Dispatches, y \in RowType :
            /\ rows' = [rows EXCEPT ![e] = y]
            /\ y.lease = rows[e].lease
            /\ y.status = rows[e].status \/ (Unclaimed(e) /\ y.status = "queued")
      BY <2>2 DEF Queues
    <3>2. e = d /\ rows'[d] = y
      BY <2>2, <3>1, RowGives
    <3>3. QED
      BY <3>1, <3>2, NamesDiffer DEF Owned, Unclaimed
  <2>3. CASE Writes /\ rows'[d] # rows[d]
    <3>1. PICK r \in Reports : /\ r.kind = "status"
                               /\ rows' = [rows EXCEPT ![r.job] = Written(r)]
      BY <2>3 DEF Writes
    <3>2. r.job = d /\ rows'[d] = Written(r)
      BY <2>3, <3>1, RowGives, WrittenSays
    <3>3. QED
      BY <3>1, <3>2, WrittenSays, NamesDiffer
  <2>4. QED
    BY <2>1, <2>2, <2>3 DEF Amounts, Idles, Beats, Finishes, Hands, SameRows
<1>5. QED
  BY <1>1, <1>2, <1>3, <1>4 DEF Keeps

LEMMA KeepsOwned ==
  ASSUME TypeOK, Shaped, Owned, Keeps
  PROVE  Owned'
<1>1. /\ \A d \in Dispatches : rows[d].lease \in Nat
      /\ \A p \in Processes : procs[p].lease \in Nat
      /\ minted \in Nat /\ NoLease \in Nat /\ NoLease <= minted
  BY TypePieces DEF RowType, ProcType, NoLease
<1>2. \A p \in Processes : procs[p].lease # NoLease => procs[p].job \in Dispatches
  BY DEF Shaped, Shape
<1>3. \A r \in Reports : r.job \in Dispatches
  BY DEF Shaped, Proper
<1>4. \A d \in Dispatches :
        /\ rows'[d].lease <= minted'
        /\ rows'[d].status \in Releasing => rows'[d].lease = NoLease
  BY <1>1 DEF Owned, Keeps
<1>5. \A d, e \in Dispatches :
        d # e /\ rows'[d].lease # NoLease => rows'[d].lease # rows'[e].lease
  BY DEF Owned, Keeps
<1>6. ASSUME NEW p \in Processes
      PROVE  /\ procs'[p].lease <= minted'
             /\ procs'[p].lease # NoLease =>
                  /\ rows'[procs'[p].job].lease \in {NoLease, procs'[p].lease}
                  /\ rows'[procs'[p].job].status \notin {"absent", "queued"}
  <2>1. CASE procs'[p].lease = NoLease
    BY <1>1, <2>1 DEF Keeps
  <2>2. CASE procs'[p].lease # NoLease
    BY <1>1, <1>2, <2>2 DEF Keeps, Owned
  <2>3. QED
    BY <2>1, <2>2
<1>7. \A p, q \in Processes :
        p # q /\ procs'[p].lease # NoLease =>
          /\ procs'[p].lease # procs'[q].lease
          /\ procs'[q].lease # NoLease => procs'[p].job # procs'[q].job
  BY DEF Owned, Keeps
<1>8. ASSUME NEW r \in Reports'
      PROVE  /\ r.lease # NoLease /\ r.lease <= minted'
             /\ rows'[r.job].lease \in {NoLease, r.lease}
             /\ rows'[r.job].status \notin {"absent", "queued"}
             /\ \A p \in Processes : procs'[p].lease = r.lease => procs'[p].job = r.job
  <2>1. CASE r \in Reports
    BY <1>3, <2>1 DEF Keeps, Owned
  <2>2. CASE r \notin Reports
    <3>1. PICK q \in Processes : /\ procs[q].lease # NoLease
                                 /\ r.job = procs[q].job /\ r.lease = procs[q].lease
      BY <2>2 DEF Keeps
    <3>2. /\ r.lease # NoLease /\ r.lease <= minted /\ r.job \in Dispatches
          /\ rows[r.job].lease \in {NoLease, r.lease} /\ ~Unclaimed(r.job)
      BY <1>2, <3>1 DEF Owned
    <3>3. \A p \in Processes : procs[p].lease = r.lease => procs[p].job = r.job
      BY <3>1 DEF Owned
    <3>4. QED
      BY <3>2, <3>3 DEF Keeps
  <2>3. QED
    BY <2>1, <2>2
<1>9. QED
  BY <1>4, <1>5, <1>6, <1>7, <1>8 DEF Owned, Unclaimed

\* The lease a claim gives is new, and its row was nobody's.
LEMMA ClaimsOwned ==
  ASSUME TypeOK, Shaped, Owned, Claims
  PROVE  Owned'
<1>1. /\ \A d \in Dispatches : rows[d].lease \in Nat
      /\ \A p \in Processes : procs[p].lease \in Nat
      /\ \A r \in Reports : r.lease \in Nat
      /\ minted \in Nat /\ NoLease \in Nat /\ NoLease <= minted
      /\ minted' = minted + 1 /\ minted + 1 # NoLease
  BY TypePieces DEF RowType, ProcType, NoLease, Reports, AdmittedType, RequestType, Claims
<1>2. \A p \in Processes : procs[p].lease # NoLease => procs[p].job \in Dispatches
  BY DEF Shaped, Shape
<1>3. \A r \in Reports : r.job \in Dispatches
  BY DEF Shaped, Proper
<1>4. PICK d \in Dispatches, y \in RowType :
        /\ Unclaimed(d) /\ rows[d].lease = NoLease
        /\ rows' = [rows EXCEPT ![d] = y]
        /\ y.status = "running" /\ y.lease = minted + 1
        /\ \/ /\ procs' = procs \/ \E p, x : Turned(p, x) /\ Free(p, x)
              /\ Sends({})
           \/ \E p, x : Turned(p, x) /\ Took(p, x, d, minted + 1) /\ Sends({x.waits})
  BY DEF Claims
<1>5. /\ rows'[d] = y /\ rows'[d].lease = minted + 1 /\ rows'[d].status = "running"
      /\ \A e \in Dispatches : e # d => rows'[e] = rows[e]
  BY <1>4, RowGives
<1>6. \A p \in Processes :
        \/ procs'[p].lease = NoLease
        \/ /\ procs'[p] = procs[p] /\ procs[p].lease <= minted
           /\ procs[p].job # d
        \/ procs'[p].lease = minted + 1 /\ procs'[p].job = d
  <2>1. \A p \in Processes :
          procs[p].lease = NoLease \/ (procs[p].lease <= minted /\ procs[p].job # d)
    BY <1>4 DEF Owned
  <2>2. CASE procs' = procs
    BY <2>1, <2>2
  <2>3. CASE \E q, x : Turned(q, x) /\ (Free(q, x) \/ Took(q, x, d, minted + 1))
    <3>1. PICK q, x : Turned(q, x) /\ (Free(q, x) \/ Took(q, x, d, minted + 1))
      BY <2>3
    <3>2. x.lease = NoLease \/ (x.lease = minted + 1 /\ x.job = d)
      BY <3>1 DEF Free, Took
    <3>3. /\ procs'[q] = x
          /\ \A p \in Processes : p # q => procs'[p] = procs[p]
      BY <3>1, TurnedGives
    <3>4. QED
      BY <2>1, <3>2, <3>3
  <2>4. QED
    BY <1>4, <2>2, <2>3
<1>7. \A p, q \in Processes :
        p # q /\ procs'[p].lease = minted + 1 => procs'[q].lease # minted + 1
  <2>1. \A p \in Processes : procs[p].lease # minted + 1
    BY <1>1 DEF Owned
  <2>2. QED
    BY <1>1, <1>4, <2>1, TurnedGives DEF Free
<1>8. \A r \in Reports' :
        r \in Reports \/ (r.lease = minted + 1 /\ r.job = d)
  BY <1>4 DEF Sends, Took, Asks
<1>9. \A e \in Dispatches :
        /\ rows'[e].lease <= minted'
        /\ rows'[e].status \in Releasing => rows'[e].lease = NoLease
  BY <1>1, <1>5, NamesDiffer DEF Owned
<1>10. \A e, f \in Dispatches :
         e # f /\ rows'[e].lease # NoLease => rows'[e].lease # rows'[f].lease
  BY <1>1, <1>5 DEF Owned
<1>11. ASSUME NEW p \in Processes
       PROVE  /\ procs'[p].lease <= minted'
              /\ procs'[p].lease # NoLease =>
                   /\ rows'[procs'[p].job].lease \in {NoLease, procs'[p].lease}
                   /\ rows'[procs'[p].job].status \notin {"absent", "queued"}
  <2>1. CASE procs'[p].lease = NoLease
    BY <1>1, <2>1
  <2>2. CASE /\ procs'[p].lease # NoLease
             /\ procs'[p] = procs[p] /\ procs[p].lease <= minted /\ procs[p].job # d
    BY <1>1, <1>2, <1>5, <2>2 DEF Owned, Unclaimed
  <2>3. CASE procs'[p].lease = minted + 1 /\ procs'[p].job = d
    BY <1>1, <1>5, <2>3
  <2>4. QED
    BY <1>6, <2>1, <2>2, <2>3
<1>12. ASSUME NEW p \in Processes, NEW q \in Processes, p # q, procs'[p].lease # NoLease
       PROVE  /\ procs'[p].lease # procs'[q].lease
              /\ procs'[q].lease # NoLease => procs'[p].job # procs'[q].job
  BY <1>1, <1>6, <1>7, <1>12 DEF Owned
<1>13. ASSUME NEW r \in Reports'
       PROVE  /\ r.lease # NoLease /\ r.lease <= minted'
              /\ rows'[r.job].lease \in {NoLease, r.lease}
              /\ rows'[r.job].status \notin {"absent", "queued"}
              /\ \A p \in Processes : procs'[p].lease = r.lease => procs'[p].job = r.job
  <2>1. CASE r \in Reports
    <3>1. /\ r.lease # NoLease /\ r.lease <= minted /\ r.job # d /\ r.job \in Dispatches
          /\ rows[r.job].lease \in {NoLease, r.lease} /\ ~Unclaimed(r.job)
          /\ \A p \in Processes : procs[p].lease = r.lease => procs[p].job = r.job
      BY <1>3, <1>4, <2>1 DEF Owned
    <3>2. r.lease <= minted' /\ r.lease # minted + 1
      BY <1>1, <2>1, <3>1
    <3>3. QED
      BY <1>5, <1>6, <3>1, <3>2 DEF Unclaimed
  <2>2. CASE r.lease = minted + 1 /\ r.job = d
    BY <1>1, <1>5, <1>6, <2>2
  <2>3. QED
    BY <1>8, <2>1, <2>2
<1>14. QED
  BY <1>9, <1>10, <1>11, <1>12, <1>13 DEF Owned, Unclaimed

-----------------------------------------------------------------------------
(* Nobody says what did not happen. *)

\* The candidate of the run p carries is dealt with.
Passed(p) ==
  faults' = 0 => \/ revoked = TRUE
                 \/ rows[procs[p].job].lease \notin {NoLease, procs[p].lease}
                 \/ procs[p].job \in candidates'

\* No local run begins or ends and the hub writes no status.
Quiet ==
  /\ SameRuns /\ wanted \subseteq wanted'
  /\ \A d \in Dispatches :
       /\ \/ rows'[d].status = rows[d].status
          \/ Unclaimed(d) /\ rows'[d].status \in {"queued", "running"}
       /\ rows'[d].asked => rows[d].asked \/ d \in wanted'
  /\ \A p \in Processes :
       \/ procs'[p] = procs[p]
       \/ Free(p, procs'[p])
       \/ HandedOn(p, procs[p], procs'[p]) /\ Passed(p)
       \/ \E d \in Dispatches :
            Unclaimed(d) /\ Took(p, procs'[p], d, minted + 1)
  /\ \A r \in Reports' :
       \/ r \in Reports
       \/ r.status \notin Releasing
       \/ \E p \in Processes :
            /\ procs[p].at = "delivering" /\ Passed(p)
            /\ r.job = procs[p].job /\ r.status = procs[p].final

LEMMA AmountsQuiet ==
  ASSUME TypeOK, Shaped, Amounts, ~Finishes, ~Writes
  PROVE  Quiet
<1>1. CASE Idles
  <2>1. \A p \in Processes : procs'[p] = procs[p] \/ Free(p, procs'[p])
    BY <1>1, TurnedGives DEF Idles
  <2>2. QED
    BY <1>1, <2>1 DEF Idles, Quiet, SameRows, Sends
<1>2. CASE Beats
  <2>1. PICK p \in Processes, r \in RequestType :
          Sends({r}) /\ r.status = "running"
    BY <1>2 DEF Beats, Asks
  <2>2. \A y \in Reports' : y \in Reports \/ y.status \notin Releasing
    BY <2>1, NamesDiffer DEF Sends
  <2>3. QED
    BY <1>2, <2>2 DEF Beats, Quiet, SameRows
<1>3. CASE Hands
  <2>1. PICK p, x :
          /\ Turned(p, x) /\ HandedOn(p, procs[p], x) /\ Sends({x.waits})
          /\ faults' = 0 => \/ revoked = TRUE
                            \/ rows[x.job].lease \notin {NoLease, x.lease}
                            \/ x.job \in candidates'
    BY <1>3 DEF Hands
  <2>2. Passed(p)
    BY <2>1 DEF Passed, HandedOn, Carries
  <2>3. /\ p \in Processes /\ procs[p].at = "delivering"
        /\ x.waits.job = procs[p].job /\ x.waits.status = procs[p].final
    BY <2>1 DEF Turned, HandedOn, Asks
  <2>4. \A q \in Processes :
          procs'[q] = procs[q] \/ (HandedOn(q, procs[q], procs'[q]) /\ Passed(q))
    BY <2>1, <2>2, TurnedGives
  <2>5. \A r \in Reports' :
          r \in Reports \/ (r.job = procs[p].job /\ r.status = procs[p].final)
    BY <2>1, <2>3 DEF Sends
  <2>6. QED
    BY <1>3, <2>2, <2>3, <2>4, <2>5 DEF Hands, Quiet, SameRows
<1>4. CASE Queues
  <2>1. PICK d \in Dispatches, y \in RowType :
          /\ rows' = [rows EXCEPT ![d] = y]
          /\ y.status = rows[d].status \/ (Unclaimed(d) /\ y.status = "queued")
          /\ y.asked = rows[d].asked \/ d \in wanted'
    BY <1>4 DEF Queues
  <2>2. QED
    BY <1>4, <2>1, RowGives DEF Queues, Quiet, Sends
<1>5. CASE Claims
  <2>1. PICK d \in Dispatches, y \in RowType :
          /\ Unclaimed(d)
          /\ rows' = [rows EXCEPT ![d] = y]
          /\ y.status = "running" /\ y.asked = rows[d].asked
          /\ \/ /\ procs' = procs \/ \E p, x : Turned(p, x) /\ Free(p, x)
                /\ Sends({})
             \/ \E p, x : Turned(p, x) /\ Took(p, x, d, minted + 1) /\ Sends({x.waits})
    BY <1>5 DEF Claims
  <2>2. \A e \in Dispatches :
          /\ \/ rows'[e].status = rows[e].status
             \/ Unclaimed(e) /\ rows'[e].status \in {"queued", "running"}
          /\ rows'[e].asked => rows[e].asked
    BY <2>1, RowGives
  <2>3. \A p \in Processes :
          procs'[p] = procs[p] \/ Free(p, procs'[p]) \/ Took(p, procs'[p], d, minted + 1)
    BY <2>1, TurnedGives
  <2>4. \A r \in Reports' : r \in Reports \/ r.status \notin Releasing
    BY <2>1, NamesDiffer DEF Sends, Took, Asks
  <2>5. QED
    BY <1>5, <2>1, <2>2, <2>3, <2>4 DEF Claims, Quiet
<1>6. QED
  BY <1>1, <1>2, <1>3, <1>4, <1>5 DEF Amounts

LEMMA QuietHonest ==
  ASSUME TypeOK, Shaped, Owned, Honest, Quiet
  PROVE  Honest'
<1>1. executed' = executed /\ results' = results /\ wanted \subseteq wanted'
  BY DEF Quiet, SameRuns
<1>2. ASSUME NEW d, NEW status, Told(d, status)
      PROVE  status = results'[d].status \/ (status = "cancelled" /\ d \in wanted')
  BY <1>1, <1>2 DEF Told
<1>3. ASSUME NEW d \in Dispatches
      PROVE  /\ rows'[d].status \in {"absent", "queued"} =>
                  d \notin executed' /\ results'[d].status = None
             /\ rows'[d].status \in Releasing =>
                  /\ results'[d].status # None
                  /\ \/ rows'[d].status = results'[d].status
                     \/ rows'[d].status = "cancelled" /\ d \in wanted'
             /\ rows'[d].asked => d \in wanted' \/ results'[d].status = "cancelled"
  <2>1. /\ \/ rows'[d].status = rows[d].status
           \/ Unclaimed(d) /\ rows'[d].status \in {"queued", "running"}
        /\ rows'[d].asked => rows[d].asked \/ d \in wanted'
    BY DEF Quiet
  <2>2. rows'[d].status \in {"absent", "queued"} => Unclaimed(d)
    BY <2>1 DEF Unclaimed
  <2>3. rows'[d].status \in Releasing => rows'[d].status = rows[d].status
    BY <2>1, NamesDiffer
  <2>4. QED
    BY <1>1, <1>2, <2>1, <2>2, <2>3 DEF Honest
<1>4. ASSUME NEW p \in Processes
      PROVE  LET pr == procs'[p] IN
             /\ pr.at = "starting" => pr.job \notin executed'
             /\ pr.at \in {"starting", "executing"} => results'[pr.job].status = None
             /\ pr.at \in {"delivering", "finishing"} =>
                  /\ results'[pr.job].status # None
                  /\ \/ pr.final = results'[pr.job].status
                     \/ pr.final = "cancelled" /\ pr.job \in wanted'
             /\ pr.cancelled /\ pr.lease # NoLease => pr.job \in wanted'
  <2>1. CASE procs'[p] = procs[p]
    BY <1>1, <1>2, <2>1 DEF Honest
  <2>2. CASE Free(p, procs'[p])
    BY <2>2 DEF Free, Carrying
  <2>3. CASE HandedOn(p, procs[p], procs'[p])
    <3>1. /\ results[procs[p].job].status # None /\ Told(procs[p].job, procs[p].final)
          /\ procs[p].cancelled /\ procs[p].lease # NoLease => procs[p].job \in wanted
      BY <2>3 DEF Honest, HandedOn
    <3>2. QED
      BY <1>1, <1>2, <2>3, <3>1 DEF HandedOn, Carries
  <2>4. CASE \E d \in Dispatches : Unclaimed(d) /\ Took(p, procs'[p], d, minted + 1)
    BY <1>1, <2>4 DEF Took, Honest
  <2>5. QED
    BY <2>1, <2>2, <2>3, <2>4 DEF Quiet
<1>5. ASSUME NEW r \in Reports', r.status \in Releasing
      PROVE  /\ results'[r.job].status # None
             /\ \/ r.status = results'[r.job].status
                \/ r.status = "cancelled" /\ r.job \in wanted'
  <2>1. results[r.job].status # None /\ Told(r.job, r.status)
    BY <1>5 DEF Quiet, Honest
  <2>2. QED
    BY <1>1, <1>2, <2>1
<1>6. QED
  BY <1>3, <1>4, <1>5 DEF Honest, Told, Unclaimed

\* A run ends once, and says how it ended unless its owner asked to stop it.
LEMMA FinishesHonest ==
  ASSUME TypeOK, Shaped, Owned, Honest, Finishes
  PROVE  Honest'
<1>1. PICK p, x :
        /\ Turned(p, x) /\ Carries(p, procs[p], x) /\ Sends({x.waits})
        /\ procs[p].at = "executing" /\ x.cancelled = procs[p].cancelled
        /\ \E outcome \in Outcomes, bytes \in BOOLEAN :
             /\ results' = [results EXCEPT ![procs[p].job] = [status |-> outcome,
                                                             bytes |-> bytes]]
             /\ x.final = Final(procs[p], outcome)
             /\ \/ /\ bytes = TRUE /\ x.at = "delivering"
                   /\ Asks(x.waits, p, "candidate", procs[p].job, procs[p].lease, None)
                \/ /\ bytes = FALSE /\ x.at = "finishing"
                   /\ Asks(x.waits, p, "status", procs[p].job, procs[p].lease, x.final)
  BY DEF Finishes
<1>2. PICK outcome \in Outcomes, bytes \in BOOLEAN :
        /\ results' = [results EXCEPT ![procs[p].job] = [status |-> outcome,
                                                        bytes |-> bytes]]
        /\ x.final = Final(procs[p], outcome)
        /\ x.at \in {"delivering", "finishing"}
        /\ x.waits.job = procs[p].job
        /\ x.waits.status = None \/ x.waits.status = x.final
  BY <1>1 DEF Asks
<1> DEFINE j == procs[p].job
<1>3. p \in Processes /\ j \in Dispatches /\ procs[p].lease # NoLease
  BY <1>1 DEF Turned, Shaped, Shape, Carrying
<1>4. /\ results'[j].status = outcome /\ outcome # None
      /\ \A d \in Dispatches : d # j => results'[d] = results[d]
  BY <1>2, <1>3, TypePieces, NamesDiffer
<1>5. results[j].status = None /\ ~Unclaimed(j)
  BY <1>1, <1>3 DEF Honest, Owned
<1>6. x.final = outcome \/ (x.final = "cancelled" /\ j \in wanted)
  <2>1. procs[p].cancelled = TRUE => j \in wanted
    BY <1>3 DEF Honest
  <2>2. procs[p] \in ProcType
    BY <1>3, TypePieces
  <2>3. QED
    BY <1>2, <2>1, <2>2 DEF Final, ProcType
<1>7. rows' = rows /\ wanted' = wanted /\ executed' = executed
  BY DEF Finishes, SameRows
<1>8. /\ procs'[p] = x
      /\ \A q \in Processes : q # p => procs'[q] = procs[q]
  BY <1>1, TurnedGives
<1>9. ASSUME NEW d \in Dispatches
      PROVE  /\ Unclaimed(d) => d \notin executed /\ results'[d].status = None
             /\ rows[d].status \in Releasing =>
                  /\ results'[d].status # None
                  /\ \/ rows[d].status = results'[d].status
                     \/ rows[d].status = "cancelled" /\ d \in wanted
             /\ rows[d].asked => d \in wanted \/ results'[d].status = "cancelled"
  <2>1. CASE d = j
    <3>1. rows[d].status \notin Releasing
      BY <1>5, <2>1 DEF Honest
    <3>2. rows[d].asked => d \in wanted
      BY <1>5, <2>1 DEF Honest, None
    <3>3. QED
      BY <1>5, <2>1, <3>1, <3>2
  <2>2. CASE d # j
    BY <1>4, <2>2 DEF Honest, Told
  <2>3. QED
    BY <2>1, <2>2
<1>10. ASSUME NEW q \in Processes
       PROVE  LET pr == procs'[q] IN
              /\ pr.at = "starting" => pr.job \notin executed
              /\ pr.at \in {"starting", "executing"} => results'[pr.job].status = None
              /\ pr.at \in {"delivering", "finishing"} =>
                   /\ results'[pr.job].status # None
                   /\ \/ pr.final = results'[pr.job].status
                      \/ pr.final = "cancelled" /\ pr.job \in wanted
              /\ pr.cancelled /\ pr.lease # NoLease => pr.job \in wanted
  <2>1. CASE q = p
    <3>1. x.job = j /\ x.lease = procs[p].lease
      BY <1>1 DEF Carries
    <3>2. procs[p].cancelled => j \in wanted
      BY <1>3 DEF Honest
    <3>3. x.cancelled => j \in wanted
      BY <1>1, <3>2
    <3>4. QED
      BY <1>2, <1>4, <1>6, <1>8, <2>1, <3>1, <3>3
  <2>2. CASE q # p
    <3>1. procs'[q] = procs[q]
      BY <1>8, <2>2
    <3>2. procs[q].at \in Carrying => procs[q].job \in Dispatches /\ procs[q].job # j
      BY <1>3, <2>2 DEF Owned, Shaped, Shape
    <3>3. procs[q].at \in Carrying => results'[procs[q].job] = results[procs[q].job]
      BY <1>4, <3>2
    <3>4. QED
      BY <3>1, <3>3 DEF Honest, Told, Carrying
  <2>3. QED
    BY <2>1, <2>2
<1>11. ASSUME NEW r \in Reports', r.status \in Releasing
       PROVE  /\ results'[r.job].status # None
              /\ \/ r.status = results'[r.job].status
                 \/ r.status = "cancelled" /\ r.job \in wanted
  <2>1. CASE r \in Reports
    <3>1. results[r.job].status # None /\ Told(r.job, r.status)
      BY <1>11, <2>1 DEF Honest
    <3>2. r.job \in Dispatches /\ r.job # j
      BY <1>5, <2>1, <3>1 DEF Shaped, Proper
    <3>3. QED
      BY <1>4, <3>1, <3>2 DEF Told
  <2>2. CASE r = x.waits
    BY <1>2, <1>4, <1>6, <1>11, <2>2, NamesDiffer
  <2>3. QED
    BY <1>1, <2>1, <2>2 DEF Sends
<1>12. QED
  BY <1>7, <1>9, <1>10, <1>11 DEF Honest, Told, Unclaimed

\* A local run begins at most once, and the hub writes what a report says.
LEMMA WritesHonest ==
  ASSUME TypeOK, Shaped, Owned, Honest, Writes
  PROVE  Honest'
<1>1. /\ wanted' = wanted /\ results' = results /\ Sends({})
      /\ executed' = executed \cup
           {procs'[q].job : q \in {x \in Processes : procs'[x].at = "executing"}}
  BY DEF Writes
<1>2. PICK r \in Reports :
        /\ r.kind = "status"
        /\ rows' = [rows EXCEPT ![r.job] = Written(r)]
        /\ \/ procs' = procs
           \/ \E p, x : Turned(p, x) /\ (Free(p, x) \/ Began(p, procs[p], x))
           \/ \E p, x : /\ Turned(p, x) /\ x = [procs[p] EXCEPT !.cancelled = TRUE]
                        /\ procs[p].at = "executing" /\ procs[p].lease = r.lease
                        /\ rows[r.job].asked
  BY DEF Writes
<1>3. /\ r.job \in Dispatches /\ rows'[r.job].status = r.status
      /\ r.status \in {"running", "preparing"} \cup Releasing
      /\ rows'[r.job].asked <=> rows[r.job].asked \/ r.status = "cancelled"
      /\ \A d \in Dispatches : d # r.job => rows'[d] = rows[d]
  <2> DEFINE y == Written(r)
  <2>1. /\ r.job \in Dispatches /\ y.status = r.status
        /\ r.status \in {"running", "preparing"} \cup Releasing
        /\ y.asked <=> rows[r.job].asked \/ r.status = "cancelled"
    BY <1>2, WrittenSays
  <2>2. rows' = [rows EXCEPT ![r.job] = y]
    BY <1>2
  <2> HIDE DEF y
  <2>3. /\ rows'[r.job] = y
        /\ \A d \in Dispatches : d # r.job => rows'[d] = rows[d]
    BY <2>1, <2>2, RowGives
  <2>4. QED
    BY <2>1, <2>3
<1>4. \A p \in Processes :
        \/ procs'[p] = procs[p]
        \/ Free(p, procs'[p])
        \/ Began(p, procs[p], procs'[p])
        \/ /\ procs'[p] = [procs[p] EXCEPT !.cancelled = TRUE]
           /\ procs[p].at = "executing" /\ procs[p].lease = r.lease
           /\ rows[r.job].asked
  <2>1. CASE procs' = procs
    BY <2>1
  <2>2. CASE \E p, x : Turned(p, x) /\ (Free(p, x) \/ Began(p, procs[p], x))
    BY <2>2, TurnedGives
  <2>3. CASE \E p, x : /\ Turned(p, x) /\ x = [procs[p] EXCEPT !.cancelled = TRUE]
                       /\ procs[p].at = "executing" /\ procs[p].lease = r.lease
                       /\ rows[r.job].asked
    <3>1. PICK p, x : /\ Turned(p, x) /\ x = [procs[p] EXCEPT !.cancelled = TRUE]
                      /\ procs[p].at = "executing" /\ procs[p].lease = r.lease
                      /\ rows[r.job].asked
      BY <2>3
    <3>2. /\ procs'[p] = x
          /\ \A q \in Processes : q # p => procs'[q] = procs[q]
      BY <3>1, TurnedGives
    <3>3. QED
      BY <3>1, <3>2
  <2>4. QED
    BY <1>2, <2>1, <2>2, <2>3
<1>5. ASSUME NEW p \in Processes
      PROVE  /\ procs'[p].at = "starting" => procs'[p] = procs[p]
             /\ procs'[p].at = "executing" =>
                  /\ procs[p].at \in {"starting", "executing"}
                  /\ procs'[p].job = procs[p].job /\ procs'[p].lease = procs[p].lease
                  /\ procs'[p].cancelled =>
                       procs[p].cancelled \/ (procs[p].lease = r.lease /\ rows[r.job].asked)
             /\ procs'[p].at \in {"delivering", "finishing"} => procs'[p] = procs[p]
             /\ procs'[p].at \notin Carrying => procs'[p].lease = NoLease \/ procs'[p] = procs[p]
  <2>1. procs[p] \in ProcType
    BY TypePieces
  <2>2. CASE procs'[p] = procs[p]
    BY <2>2
  <2>3. CASE Free(p, procs'[p])
    BY <2>3 DEF Free, Carrying
  <2>4. CASE Began(p, procs[p], procs'[p])
    BY <2>4 DEF Began, Carries, Carrying
  <2>5. CASE /\ procs'[p] = [procs[p] EXCEPT !.cancelled = TRUE]
             /\ procs[p].at = "executing" /\ procs[p].lease = r.lease
             /\ rows[r.job].asked
    <3>1. /\ procs'[p].at = "executing" /\ procs'[p].job = procs[p].job
          /\ procs'[p].lease = procs[p].lease
      BY <2>1, <2>5 DEF ProcType
    <3>2. QED
      BY <2>5, <3>1 DEF Carrying
  <2>6. QED
    BY <1>4, <2>2, <2>3, <2>4, <2>5
<1>6. \A p \in Processes :
        procs[p].at \in Carrying => procs[p].job \in Dispatches /\ procs[p].lease # NoLease
  BY DEF Shaped, Shape
<1>7. ASSUME NEW d \in Dispatches
      PROVE  /\ rows'[d].status \in {"absent", "queued"} =>
                  d \notin executed' /\ results[d].status = None
             /\ rows'[d].status \in Releasing =>
                  /\ results[d].status # None /\ Told(d, rows'[d].status)
             /\ rows'[d].asked => d \in wanted \/ results[d].status = "cancelled"
  <2>1. rows'[d].status \in {"absent", "queued"} => Unclaimed(d)
    BY <1>3, NamesDiffer DEF Unclaimed
  <2>2. Unclaimed(d) => d \notin executed'
    <3>1. \A q \in Processes : procs'[q].at = "executing" => ~Unclaimed(procs'[q].job)
      BY <1>5, <1>6 DEF Owned, Carrying
    <3>2. QED
      BY <1>1, <3>1 DEF Honest
  <2>3. CASE d = r.job
    <3>1. r.status \in Releasing => results[d].status # None /\ Told(d, r.status)
      BY <2>3 DEF Honest
    <3>2. r.status = "cancelled" => d \in wanted \/ results[d].status = "cancelled"
      BY <3>1 DEF Told, Releasing
    <3>3. QED
      BY <1>3, <2>1, <2>2, <2>3, <3>1, <3>2 DEF Honest
  <2>4. CASE d # r.job
    BY <1>3, <2>1, <2>2, <2>4 DEF Honest
  <2>5. QED
    BY <2>3, <2>4
<1>8. ASSUME NEW p \in Processes
      PROVE  LET pr == procs'[p] IN
             /\ pr.at = "starting" => pr.job \notin executed'
             /\ pr.at \in {"starting", "executing"} => results[pr.job].status = None
             /\ pr.at \in {"delivering", "finishing"} =>
                  results[pr.job].status # None /\ Told(pr.job, pr.final)
             /\ pr.cancelled /\ pr.lease # NoLease => pr.job \in wanted
  <2>1. procs'[p].at = "starting" => procs'[p].job \notin executed'
    <3>1. SUFFICES ASSUME procs'[p].at = "starting"
                   PROVE  procs'[p].job \notin executed'
      OBVIOUS
    <3>2. procs'[p] = procs[p] /\ procs[p].job \notin executed
      BY <1>5, <3>1 DEF Honest
    <3>3. \A q \in Processes : procs'[q].at = "executing" => procs'[q].job # procs[p].job
      <4>1. ASSUME NEW q \in Processes, procs'[q].at = "executing"
            PROVE  procs'[q].job # procs[p].job
        <5>1. q # p
          BY <3>1, <4>1
        <5>2. procs'[q].job = procs[q].job /\ procs[q].at \in Carrying
          BY <1>5, <4>1 DEF Carrying
        <5>3. procs[p].at \in Carrying
          BY <3>1, <3>2 DEF Carrying
        <5>4. QED
          BY <1>6, <5>1, <5>2, <5>3 DEF Owned
      <4>2. QED
        BY <4>1
    <3>4. QED
      BY <1>1, <3>2, <3>3
  <2>2. procs'[p].at \in {"starting", "executing"} => results[procs'[p].job].status = None
    BY <1>5 DEF Honest
  <2>3. procs'[p].at \in {"delivering", "finishing"} =>
          results[procs'[p].job].status # None /\ Told(procs'[p].job, procs'[p].final)
    BY <1>5 DEF Honest
  <2>4. ASSUME procs'[p].cancelled, procs'[p].lease # NoLease
        PROVE  procs'[p].job \in wanted
    <3>1. CASE procs'[p] = procs[p]
      BY <2>4, <3>1 DEF Honest
    <3>2. CASE procs'[p].at = "executing"
      <4>1. /\ procs'[p].job = procs[p].job /\ procs[p].at \in {"starting", "executing"}
            /\ procs[p].cancelled \/ (procs[p].lease = r.lease /\ rows[r.job].asked)
        BY <1>5, <2>4, <3>2
      <4>2. procs[p].lease # NoLease /\ results[procs[p].job].status = None
        BY <1>6, <4>1 DEF Honest, Carrying
      <4>3. CASE procs[p].cancelled
        BY <4>1, <4>2, <4>3 DEF Honest
      <4>4. CASE procs[p].lease = r.lease /\ rows[r.job].asked
        <5>1. r.job = procs[p].job
          BY <1>2, <4>4 DEF Owned
        <5>2. r.job \in wanted \/ results[r.job].status = "cancelled"
          BY <1>3, <4>4 DEF Honest
        <5>3. QED
          BY <4>1, <4>2, <5>1, <5>2 DEF None
      <4>5. QED
        BY <4>1, <4>3, <4>4
    <3>3. QED
      BY <1>5, <2>4, <3>1, <3>2 DEF Carrying
  <2>5. QED
    BY <2>1, <2>2, <2>3, <2>4
<1>9. ASSUME NEW y \in Reports', y.status \in Releasing
      PROVE  results[y.job].status # None /\ Told(y.job, y.status)
  BY <1>1, <1>9 DEF Honest, Sends
<1>10. QED
  BY <1>1, <1>7, <1>8, <1>9 DEF Honest, Told, Unclaimed

-----------------------------------------------------------------------------
(* The candidate comes first. *)

LEMMA RecordedStep ==
  ASSUME TypeOK, Shaped, Owned, Honest, Recorded, Framed, Amounts, faults' = 0
  PROVE  /\ revoked' = FALSE
         /\ \A d \in Dispatches :
              rows'[d].status \in Releasing /\ results'[d].bytes => d \in candidates'
         /\ \A p \in Processes :
              procs'[p].at = "finishing" /\ results'[procs'[p].job].bytes
                => procs'[p].job \in candidates'
         /\ \A r \in Reports' :
              r.status \in Releasing /\ results'[r.job].bytes => r.job \in candidates'
<1>1. /\ revoked = FALSE /\ revoked' = FALSE /\ candidates \subseteq candidates'
      /\ \A d \in Dispatches :
           rows[d].status \in Releasing /\ results[d].bytes => d \in candidates
      /\ \A p \in Processes :
           procs[p].at = "finishing" /\ results[procs[p].job].bytes
             => procs[p].job \in candidates
      /\ \A r \in Reports :
           r.status \in Releasing /\ results[r.job].bytes => r.job \in candidates
  BY DEF Framed, Recorded
<1>2. CASE ~Finishes /\ ~Writes
  <2>1. Quiet
    BY <1>2, AmountsQuiet
  <2>2. results' = results
    BY <2>1 DEF Quiet, SameRuns
  <2>3. ASSUME NEW p \in Processes, procs[p].at = "delivering", Passed(p)
        PROVE  procs[p].job \in candidates'
    <3>1. procs[p].lease # NoLease
      BY <2>3 DEF Shaped, Shape, Carrying
    <3>2. rows[procs[p].job].lease \in {NoLease, procs[p].lease}
      BY <3>1 DEF Owned
    <3>3. QED
      BY <1>1, <2>3, <3>2 DEF Passed
  <2>4. ASSUME NEW d \in Dispatches, rows'[d].status \in Releasing, results[d].bytes
        PROVE  d \in candidates'
    <3>1. rows'[d].status = rows[d].status
      BY <2>1, <2>4, NamesDiffer DEF Quiet
    <3>2. QED
      BY <1>1, <2>4, <3>1
  <2>5. ASSUME NEW p \in Processes, procs'[p].at = "finishing", results[procs'[p].job].bytes
        PROVE  procs'[p].job \in candidates'
    <3>1. \/ procs'[p] = procs[p]
          \/ HandedOn(p, procs[p], procs'[p]) /\ Passed(p)
      BY <2>1, <2>5 DEF Quiet, Free, Took, Carrying
    <3>2. QED
      BY <1>1, <2>3, <2>5, <3>1 DEF HandedOn, Carries
  <2>6. ASSUME NEW r \in Reports', r.status \in Releasing, results[r.job].bytes
        PROVE  r.job \in candidates'
    BY <1>1, <2>1, <2>3, <2>6 DEF Quiet
  <2>7. QED
    BY <1>1, <2>2, <2>4, <2>5, <2>6
<1>3. CASE Finishes
  <2>1. PICK p, x :
          /\ Turned(p, x) /\ Carries(p, procs[p], x) /\ Sends({x.waits})
          /\ procs[p].at = "executing"
          /\ \E outcome \in Outcomes, bytes \in BOOLEAN :
               /\ results' = [results EXCEPT ![procs[p].job] = [status |-> outcome,
                                                               bytes |-> bytes]]
               /\ \/ /\ bytes = TRUE /\ x.at = "delivering"
                     /\ Asks(x.waits, p, "candidate", procs[p].job, procs[p].lease, None)
                  \/ /\ bytes = FALSE /\ x.at = "finishing"
                     /\ Asks(x.waits, p, "status", procs[p].job, procs[p].lease, x.final)
    BY <1>3 DEF Finishes
  <2> DEFINE j == procs[p].job
  <2>2. p \in Processes /\ j \in Dispatches /\ procs[p].lease # NoLease
    BY <2>1 DEF Turned, Shaped, Shape, Carrying
  <2>3. /\ \A d \in Dispatches : d # j => results'[d] = results[d]
        /\ \/ /\ x.at = "delivering" /\ x.waits.status = None
           \/ results'[j].bytes = FALSE
    BY <2>1, <2>2, TypePieces DEF Asks
  <2>4. results[j].status = None /\ x.waits.job = j /\ x.job = j
    BY <2>1, <2>2 DEF Honest, Asks, Carries
  <2>5. rows' = rows
    BY <1>3 DEF Finishes, SameRows
  <2>6. ASSUME NEW d \in Dispatches, rows[d].status \in Releasing, results'[d].bytes
        PROVE  d \in candidates'
    <3>1. d # j
      BY <2>4, <2>6 DEF Honest
    <3>2. QED
      BY <1>1, <2>3, <2>6, <3>1
  <2>7. ASSUME NEW q \in Processes, procs'[q].at = "finishing", results'[procs'[q].job].bytes
        PROVE  procs'[q].job \in candidates'
    <3>1. CASE q = p
      <4>1. procs'[q] = x
        BY <2>1, <3>1, TurnedGives
      <4>2. QED
        BY <2>3, <2>4, <2>7, <4>1
    <3>2. CASE q # p
      <4>1. procs'[q] = procs[q]
        BY <2>1, <3>2, TurnedGives
      <4>2. procs[q].job \in Dispatches /\ procs[q].lease # NoLease
        BY <2>7, <4>1 DEF Shaped, Shape, Carrying
      <4>3. procs[q].job # j
        BY <2>2, <3>2, <4>2 DEF Owned
      <4>4. QED
        BY <1>1, <2>3, <2>7, <4>1, <4>2, <4>3
    <3>3. QED
      BY <3>1, <3>2
  <2>8. ASSUME NEW r \in Reports', r.status \in Releasing, results'[r.job].bytes
        PROVE  r.job \in candidates'
    <3>1. CASE r \in Reports
      <4>1. results[r.job].status # None /\ r.job \in Dispatches
        BY <2>8, <3>1 DEF Honest, Shaped, Proper
      <4>2. QED
        BY <1>1, <2>3, <2>4, <2>8, <3>1, <4>1
    <3>2. CASE r = x.waits
      BY <2>3, <2>4, <2>8, <3>2, NamesDiffer
    <3>3. QED
      BY <2>1, <3>1, <3>2 DEF Sends
  <2>9. QED
    BY <1>1, <2>5, <2>6, <2>7, <2>8
<1>4. CASE Writes
  <2>1. results' = results /\ Sends({})
    BY <1>4 DEF Writes
  <2>2. PICK r \in Reports :
          /\ r.kind = "status" /\ rows' = [rows EXCEPT ![r.job] = Written(r)]
    BY <1>4 DEF Writes
  <2>3. /\ r.job \in Dispatches /\ rows'[r.job].status = r.status
        /\ \A d \in Dispatches : d # r.job => rows'[d] = rows[d]
    <3> DEFINE y == Written(r)
    <3>1. r.job \in Dispatches /\ y.status = r.status
      BY <2>2, WrittenSays
    <3>2. rows' = [rows EXCEPT ![r.job] = y]
      BY <2>2
    <3> HIDE DEF y
    <3>3. /\ rows'[r.job] = y
          /\ \A d \in Dispatches : d # r.job => rows'[d] = rows[d]
      BY <3>1, <3>2, RowGives
    <3>4. QED
      BY <3>1, <3>3
  <2>4. \A d \in Dispatches :
          rows'[d].status \in Releasing /\ results[d].bytes => d \in candidates
    BY <1>1, <2>2, <2>3
  <2>5. ASSUME NEW p \in Processes, procs'[p].at = "finishing"
        PROVE  procs'[p] = procs[p]
    <3>1. CASE \E q, x : Turned(q, x) /\ (Free(q, x) \/ Began(q, procs[q], x))
      BY <2>5, <3>1, TurnedGives DEF Free, Began, Carrying
    <3>2. CASE \E q, x : /\ Turned(q, x) /\ x = [procs[q] EXCEPT !.cancelled = TRUE]
                         /\ procs[q].at = "executing"
      <4>1. PICK q, x : /\ Turned(q, x) /\ x = [procs[q] EXCEPT !.cancelled = TRUE]
                        /\ procs[q].at = "executing"
        BY <3>2
      <4>2. q \in Processes /\ procs[q] \in ProcType
        BY <4>1, TypePieces DEF Turned
      <4>3. x.at = "executing"
        BY <4>1, <4>2 DEF ProcType
      <4>4. QED
        BY <2>5, <4>1, <4>3, TurnedGives
    <3>3. QED
      BY <1>4, <3>1, <3>2 DEF Writes
  <2>6. QED
    BY <1>1, <2>1, <2>4, <2>5 DEF Sends
<1>5. QED
  BY <1>2, <1>3, <1>4

-----------------------------------------------------------------------------
(* The theorems. *)

LEMMA SoundStep ==
  ASSUME Sound, [Next]_vars
  PROVE  Sound'
<1>1. Framed /\ Amounts
  BY StepAmounts DEF Sound
<1>2. TypeOK' /\ Shaped'
  BY <1>1, TypedStep, ShapedStep DEF Sound
<1>3. Owned'
  <2>1. CASE Claims
    BY <2>1, ClaimsOwned DEF Sound
  <2>2. CASE ~Claims
    BY <1>1, <2>2, AmountsKeep, KeepsOwned DEF Sound
  <2>3. QED
    BY <2>1, <2>2
<1>4. Honest'
  <2>1. CASE Finishes
    BY <2>1, FinishesHonest DEF Sound
  <2>2. CASE Writes
    BY <2>2, WritesHonest DEF Sound
  <2>3. CASE ~Finishes /\ ~Writes
    BY <1>1, <2>3, AmountsQuiet, QuietHonest DEF Sound
  <2>4. QED
    BY <2>1, <2>2, <2>3
<1>5. Recorded'
  BY <1>1, RecordedStep DEF Sound, Recorded
<1>6. QED
  BY <1>2, <1>3, <1>4, <1>5 DEF Sound

LEMMA InitSound == Init => Sound
<1> SUFFICES ASSUME Init PROVE Sound
  OBVIOUS
<1>1. /\ \A d \in Dispatches : /\ rows[d].status = "absent" /\ rows[d].lease = NoLease
                               /\ rows[d].asked = FALSE /\ results[d].status = None
      /\ \A p \in Processes : procs[p] = Fresh
      /\ Reports = {} /\ minted = 0 /\ revoked = FALSE /\ executed = {}
  BY DEF Init, Reports
<1>2. \A p \in Processes : Fresh \in ProcType /\ Shape(p, Fresh)
  BY StoppedFree DEF Free
<1>3. Fresh.at = "idle" /\ Fresh.lease = NoLease
  BY DEF Fresh
<1>4. TypeOK
  <2>1. rows \in [Dispatches -> RowType]
    BY DEF Init, RowType, Status, NoLease
  <2>2. procs \in [Processes -> ProcType]
    BY <1>2 DEF Init
  <2>3. results \in [Dispatches -> ResultType]
    BY DEF Init, ResultType
  <2>4. created \in Seq(Dispatches) /\ minted \in Nat /\ faults \in 0..MaxFaults
    BY DispatchAssumption DEF Init
  <2>5. /\ candidates \subseteq Dispatches /\ revoked \in BOOLEAN
        /\ sent \subseteq RequestType /\ admitted \subseteq AdmittedType
        /\ cancels \subseteq Dispatches
        /\ executed \subseteq Dispatches /\ wanted \subseteq Dispatches
    BY DEF Init
  <2>6. QED
    BY <2>1, <2>2, <2>3, <2>4, <2>5, TypePieces
<1>5. Shaped
  BY <1>1, <1>2 DEF Shaped
<1>6. Owned
  BY <1>1, <1>3 DEF Owned, NoLease, Releasing
<1>7. Honest
  BY <1>1, <1>3, NamesDiffer DEF Honest, NoLease
<1>8. Recorded
  BY <1>1, <1>3, NamesDiffer DEF Recorded
<1>9. QED
  BY <1>4, <1>5, <1>6, <1>7, <1>8 DEF Sound

\* The hub and its runners keep the inductive invariant: leases and reports
\* stay with the run they are about (asset_generation_runner.ts and
\* hub_runner_loop.ts).
THEOREM DispatchesSound == Spec => []Sound
<1>1. Init => Sound
  BY InitSound
<1>2. Sound /\ [Next]_vars => Sound'
  BY SoundStep
<1>3. QED
  BY <1>1, <1>2, PTL DEF Spec

\* The tables, the requests and the processes always have their types.
THEOREM TypeCorrect == Spec => []TypeOK
<1>1. Sound => TypeOK
  BY DEF Sound
<1>2. QED
  BY <1>1, DispatchesSound, PTL

\* A lease is of one row and of one live process, and a dispatch that has
\* finished holds none: the claim mints its lease and the releasing status
\* drops it (asset_generation_runner.ts).
THEOREM LeasesAreSettled == Spec => []LeasesSettle
<1>1. Sound => LeasesSettle
  BY DEF Sound, Owned, LeasesSettle
<1>2. QED
  BY <1>1, DispatchesSound, PTL

\* The end the hub shows is how the local run ended or a cancellation its owner
\* asked for, whichever reports are late, repeated or of an expired lease.
THEOREM EndsAreTruthful == Spec => []ReportsTruthful
<1>1. Sound => ReportsTruthful
  BY DEF Sound, Honest, Told, ReportsTruthful
<1>2. QED
  BY <1>1, DispatchesSound, PTL

\* Until something fails no dispatch is shown as finished before its candidate
\* is recorded: the loop hands the bytes over first and says the end last.
THEOREM CandidatesComeFirst == Spec => []CandidateFirst
<1>1. Sound => CandidateFirst
  BY DEF Sound, Recorded, CandidateFirst
<1>2. QED
  BY <1>1, DispatchesSound, PTL

\* A process that begins a local run carries a dispatch that was never run.
LEMMA BeginsFresh ==
  ASSUME Sound, [Next]_vars, NEW p \in Processes,
         procs[p].at # "executing", procs'[p].at = "executing"
  PROVE  procs'[p].job \notin executed
<1>1. Amounts
  BY StepAmounts DEF Sound
<1>2. TypeOK /\ Shaped /\ Honest
  BY DEF Sound
<1>3. ASSUME NEW q, NEW x, Turned(q, x), x.at # "executing"
      PROVE  FALSE
  BY <1>2, <1>3, TurnedGives
<1>4. procs' # procs
  OBVIOUS
<1>5. ~Idles /\ ~Hands /\ ~Beats /\ ~Queues
  BY <1>3, <1>4 DEF Idles, Hands, HandedOn, Beats, Queues, Free, Carrying
<1>6. ~Finishes
  BY <1>3 DEF Finishes
<1>7. ~Claims
  BY <1>3, <1>4 DEF Claims, Took, Free, Carrying
<1>8. CASE Writes
  <2>1. ASSUME NEW q, NEW x, Turned(q, x), procs[q].at = "executing"
        PROVE  FALSE
    BY <1>2, <2>1, TurnedGives
  <2>2. PICK q, x : Turned(q, x) /\ (Free(q, x) \/ Began(q, procs[q], x))
    BY <1>4, <1>8, <2>1 DEF Writes
  <2>3. Began(q, procs[q], x)
    BY <1>3, <2>2 DEF Free, Carrying
  <2>4. q = p /\ procs'[p] = x
    BY <1>2, <2>2, TurnedGives
  <2>5. procs[p].at = "starting" /\ procs'[p].job = procs[p].job
    BY <2>3, <2>4 DEF Began, Carries
  <2>6. QED
    BY <1>2, <2>5 DEF Honest
<1>9. QED
  BY <1>1, <1>5, <1>6, <1>7, <1>8 DEF Amounts

\* However many processes poll, time out, crash and come back, a dispatch is
\* run at most once: the compare-and-set of the claim (asset_generation_runner.ts).
THEOREM RunsOnce == Spec => ExecutedOnce
<1>1. Sound /\ [Next]_vars =>
        [\A p \in Processes :
           procs[p].at # "executing" /\ procs'[p].at = "executing"
             => procs'[p].job \notin executed]_vars
  BY BeginsFresh
<1>2. QED
  BY <1>1, DispatchesSound, PTL DEF Spec, ExecutedOnce

================================================================================

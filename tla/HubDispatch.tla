----------------------------- MODULE HubDispatch -----------------------------
(***************************************************************************)
(* How the hub hands a generation job to a runner on the creator's machine *)
(* (apps/frontend/hub/src/lib/server/api/asset_generation_*.ts) and how    *)
(* the runner's loop carries it out (apps/backend/local-stack/stack/       *)
(* generation/hub_runner_loop.ts).                                         *)
(*                                                                         *)
(* The hub is stateless: a handler reads a row, checks it and writes in a  *)
(* second statement, and any number of handlers run at once.  The runner   *)
(* only hears answers to its own requests; it may give up waiting while    *)
(* the handler goes on, crash, or outlive its lease.                       *)
(***************************************************************************)
EXTENDS Naturals, Sequences, FiniteSets

CONSTANTS
  Dispatches,     \* rows of one device; a row has one attempt for ever
  Processes,      \* runner processes that hold the device's credential
  Capable,        \* dispatches whose modality the device advertises
  Window,         \* rows a claim looks at, oldest first (8)
  Outcomes,       \* statuses the local executor can end with
  Patience,       \* transport failures before the loop exits (5)
  MaxFaults       \* bound: lost answers, crashes, expiries, revocations

Releasing == {"succeeded", "failed", "cancelled", "interrupted",
              "awaiting_review", "reconciliation_required"}

ASSUME DispatchAssumption ==
  /\ Capable \subseteq Dispatches
  /\ Window \in Nat /\ Patience \in Nat /\ MaxFaults \in Nat
  /\ Outcomes \subseteq Releasing

VARIABLES
  rows,         \* generation_dispatches: status, lease, expired, asked
  created,      \* the rows in order of creation
  candidates,   \* dispatches with a row in generation_candidates
  revoked,      \* the device was revoked by its owner
  minted,       \* lease ids handed out so far
  sent,         \* requests on their way to the hub
  admitted,     \* handlers between their read and their write
  cancels,      \* cancel handlers between their read and their write
  procs,        \* the runner processes
  executed,     \* history: dispatches whose local run was ever started
  wanted,       \* history: dispatches the owner asked to cancel
  results,      \* history: how each local run ended
  faults        \* how many times something failed; also dates requests

hub == <<rows, created, candidates, revoked, minted>>
net == <<sent, admitted, cancels>>
history == <<executed, wanted, results>>
vars == <<hub, net, procs, history, faults>>

None == "none"
NoLease == 0

Status == {"absent", "queued", "running", "preparing"} \cup Releasing

Waiting == {"claiming", "starting", "delivering", "finishing"}

\* A request; the fault count dates it, so one sent after its sender gave up
\* on another is never taken for it.
Request(kind, p, d, lease, status) ==
  [kind |-> kind, by |-> p, job |-> d, lease |-> lease, status |-> status,
   date |-> faults]

NoRequest == [kind |-> None]

Fresh == [at |-> "idle", job |-> None, lease |-> NoLease, cancelled |-> FALSE,
          final |-> None, failures |-> 0, waits |-> NoRequest]

Init ==
  /\ rows = [d \in Dispatches |-> [status |-> "absent", lease |-> NoLease,
                                   expired |-> FALSE, asked |-> FALSE]]
  /\ created = <<>>
  /\ candidates = {}
  /\ revoked = FALSE
  /\ minted = 0
  /\ sent = {} /\ admitted = {} /\ cancels = {}
  /\ procs = [p \in Processes |-> Fresh]
  /\ executed = {} /\ wanted = {}
  /\ results = [d \in Dispatches |-> [status |-> None, bytes |-> FALSE]]
  /\ faults = 0

-----------------------------------------------------------------------------
(* The runner's loop. *)

Idle(pr) == [pr EXCEPT !.at = "idle", !.job = None, !.lease = NoLease,
                       !.cancelled = FALSE, !.final = None, !.waits = NoRequest]

Stopped == [Fresh EXCEPT !.at = "stopped"]

\* A process once the request it waits for is answered: "claimed" (with the
\* job and its lease), "empty", "ok", "refused", "revoked", or "lost" when it
\* stops waiting.  A claim is retried; everything else is reported only once.
Proceed(p, answer) ==
  LET pr == procs[p] IN
  CASE pr.at = "claiming" /\ answer.kind = "claimed" ->
         [pr EXCEPT !.at = "starting", !.job = answer.job,
                    !.lease = answer.lease, !.failures = 0,
                    !.waits = Request("status", p, answer.job, answer.lease,
                                      "preparing")]
    [] pr.at = "claiming" /\ answer.kind = "empty" ->
         [Idle(pr) EXCEPT !.failures = 0]
    [] pr.at = "claiming" /\ answer.kind = "lost" ->
         IF pr.failures + 1 >= Patience THEN Stopped
         ELSE [Idle(pr) EXCEPT !.failures = @ + 1]
    [] pr.at = "claiming" /\ answer.kind = "revoked" -> Stopped
    [] pr.at = "starting" /\ answer.kind = "ok" ->
         [pr EXCEPT !.at = "executing", !.waits = NoRequest]
    [] pr.at = "delivering" ->
         [pr EXCEPT !.at = "finishing",
                    !.waits = Request("status", p, pr.job, pr.lease, pr.final)]
    [] OTHER -> Idle(pr)

\* The answer to r reaches its sender, if that still waits for it.
Heard(r) == procs[r.by].waits = r
Answered(r, answer) ==
  IF Heard(r) THEN [procs EXCEPT ![r.by] = Proceed(r.by, answer)] ELSE procs
Issued(r, answer) ==
  IF Heard(r) THEN {Proceed(r.by, answer).waits} \ {NoRequest} ELSE {}

Say(kind) == [kind |-> kind]

Poll(p) ==
  LET r == Request("claim", p, None, NoLease, None) IN
  /\ procs[p].at = "idle"
  /\ procs' = [procs EXCEPT ![p].at = "claiming", ![p].waits = r]
  /\ sent' = sent \cup {r}
  /\ UNCHANGED <<hub, admitted, cancels, history, faults>>

\* While the local run goes on, heartbeats are sent and nobody waits for them.
Beat(p) ==
  /\ procs[p].at = "executing"
  /\ sent' = sent \cup {Request("status", p, procs[p].job, procs[p].lease,
                                "running")}
  /\ UNCHANGED <<hub, admitted, cancels, procs, history, faults>>

\* Mutant: only a cancellation gives the run a final status.
FinalUndecided(pr, outcome) ==
  IF pr.cancelled /\ outcome # "succeeded" THEN "cancelled" ELSE None

\* The status a finished run will be shown with.
Final(pr, outcome) ==
  IF pr.cancelled /\ outcome # "succeeded" THEN "cancelled" ELSE outcome

\* Mutant: a finished run reports its terminal status and no candidate.
FirstReportIsStatus(p, final, bytes) ==
  Request("status", p, procs[p].job, procs[p].lease, final)

\* A result with bytes is reported as a candidate first, the status, which
\* frees the lease, last.
FirstReport(p, final, bytes) ==
  IF bytes THEN Request("candidate", p, procs[p].job, procs[p].lease, None)
  ELSE Request("status", p, procs[p].job, procs[p].lease, final)

\* The local run ends, always with a status that releases the lease.
Finish(p) ==
  \E outcome \in Outcomes, bytes \in BOOLEAN :
    LET final == Final(procs[p], outcome)
        report == FirstReport(p, final, bytes)
    IN  /\ procs[p].at = "executing"
        /\ outcome = "awaiting_review" => bytes
        /\ results' = [results EXCEPT ![procs[p].job] = [status |-> outcome,
                                                         bytes |-> bytes]]
        /\ procs' = [procs EXCEPT
                       ![p].at = IF report.kind = "candidate" THEN "delivering"
                                 ELSE "finishing",
                       ![p].final = final, ![p].waits = report]
        /\ sent' = sent \cup {report}
        /\ UNCHANGED <<hub, admitted, cancels, executed, wanted, faults>>

\* The request or its answer is lost, or comes after the client's timeout; the
\* handler, if there is one, knows nothing of it.
GiveUp(p) ==
  /\ procs[p].at \in Waiting
  /\ faults < MaxFaults
  /\ faults' = faults + 1
  /\ LET r == procs[p].waits IN
     /\ procs' = Answered(r, Say("lost"))
     /\ sent' = sent \cup Issued(r, Say("lost"))
  /\ UNCHANGED <<hub, admitted, cancels, history>>

Crash(p) ==
  /\ procs[p].at # "stopped"
  /\ faults < MaxFaults
  /\ faults' = faults + 1
  /\ procs' = [procs EXCEPT ![p] = Stopped]
  /\ UNCHANGED <<hub, net, history>>

Restart(p) ==
  /\ procs[p].at = "stopped"
  /\ procs' = [procs EXCEPT ![p] = Fresh]
  /\ UNCHANGED <<hub, net, history, faults>>

-----------------------------------------------------------------------------
(* The hub's handlers. *)

\* The unique index on owner, job and attempt makes a repeated or concurrent
\* submission find the row it would create.
Create(d) ==
  /\ rows[d].status = "absent"
  /\ ~revoked
  /\ rows' = [rows EXCEPT ![d].status = "queued"]
  /\ created' = Append(created, d)
  /\ UNCHANGED <<candidates, revoked, minted, net, procs, history, faults>>

ReadCancel(d) ==
  /\ rows[d].status \notin {"absent"} \cup Releasing
  /\ cancels' = cancels \cup {d}
  /\ UNCHANGED <<hub, sent, admitted, procs, history, faults>>

WriteCancel(d) ==
  /\ d \in cancels
  /\ cancels' = cancels \ {d}
  /\ rows' = [rows EXCEPT ![d].asked = TRUE]
  /\ wanted' = wanted \cup {d}
  /\ UNCHANGED <<created, candidates, revoked, minted, sent, admitted, procs,
                 executed, results, faults>>

Revoke ==
  /\ ~revoked
  /\ faults < MaxFaults
  /\ faults' = faults + 1
  /\ revoked' = TRUE
  /\ UNCHANGED <<rows, created, candidates, minted, net, procs, history>>

Expire(d) ==
  /\ rows[d].lease # NoLease /\ ~rows[d].expired
  /\ faults < MaxFaults
  /\ faults' = faults + 1
  /\ rows' = [rows EXCEPT ![d].expired = TRUE]
  /\ UNCHANGED <<created, candidates, revoked, minted, net, procs, history>>

\* The handler refuses or has nothing to write: the answer goes out.
Reply(r, kind) ==
  /\ procs' = Answered(r, Say(kind))
  /\ sent' = (sent \ {r}) \cup Issued(r, Say(kind))
  /\ UNCHANGED <<hub, admitted, cancels, history, faults>>

Admit(r, d) ==
  /\ sent' = sent \ {r}
  /\ admitted' = admitted \cup {[of |-> r, job |-> d]}
  /\ UNCHANGED <<hub, cancels, procs, history, faults>>

Queued == {d \in Dispatches : rows[d].status = "queued" /\ rows[d].lease = NoLease}

\* d was created before e.
Older(d, e) ==
  \E i, j \in DOMAIN created : i < j /\ created[i] = d /\ created[j] = e

\* Mutant: one row less than the window holds.
ScannedShort ==
  {d \in Queued : Cardinality({e \in Queued : Older(e, d)}) + 1 < Window}

\* A claim looks at the oldest queued rows and takes the first of them that
\* the device can run.
Scanned == {d \in Queued : Cardinality({e \in Queued : Older(e, d)}) < Window}
Runnable == Scanned \cap Capable
Foremost(d) == d \in Runnable /\ \A e \in Runnable \ {d} : Older(d, e)

ReadClaim(p) ==
  \E r \in sent :
    /\ r.by = p /\ r.kind = "claim"
    /\ \/ revoked /\ Reply(r, "revoked")
       \/ ~revoked /\ Runnable = {} /\ Reply(r, "empty")
       \/ ~revoked /\ \E d \in Dispatches : Foremost(d) /\ Admit(r, d)

\* Mutant: the update names the row and nothing else.
StillQueuedUnchecked(d) == TRUE

\* UPDATE ... WHERE status = 'queued' AND lease_id IS NULL decides who wins.
StillQueued(d) == rows[d].status = "queued" /\ rows[d].lease = NoLease

WriteClaim(p) ==
  \E h \in admitted :
    LET d == h.job
        r == h.of
        won == StillQueued(d)
        answer == IF won THEN [kind |-> "claimed", job |-> d,
                               lease |-> minted + 1]
                  ELSE Say("empty")
    IN  /\ r.by = p /\ r.kind = "claim"
        /\ admitted' = admitted \ {h}
        /\ rows' = IF won THEN [rows EXCEPT ![d].status = "running",
                                            ![d].lease = minted + 1,
                                            ![d].expired = FALSE]
                   ELSE rows
        /\ minted' = IF won THEN minted + 1 ELSE minted
        /\ procs' = Answered(r, answer)
        /\ sent' = sent \cup Issued(r, answer)
        /\ UNCHANGED <<created, candidates, revoked, cancels, history, faults>>

\* The fence is checked on the row that was read.
Fenced(r) ==
  /\ rows[r.job].lease = r.lease
  /\ ~rows[r.job].expired

ReadStatus(p) ==
  \E r \in sent :
    /\ r.by = p /\ r.kind = "status"
    /\ \/ (revoked \/ ~Fenced(r)) /\ Reply(r, "refused")
       \/ ~revoked /\ Fenced(r) /\ Admit(r, r.job)

\* Mutant: a terminal status keeps the lease.
WrittenKeepingLease(r) ==
  [rows[r.job] EXCEPT !.status = r.status,
                      !.asked = @ \/ r.status = "cancelled"]

\* A status that releases the lease drops it; one of a cancelled run carries a
\* cancellation record of its own.
Written(r) ==
  [rows[r.job] EXCEPT !.status = r.status,
                      !.lease = IF r.status \in Releasing THEN NoLease ELSE @,
                      !.asked = @ \/ r.status = "cancelled"]

\* Mutant: any pending cancellation of the device stops the run.
LearntFromAny(r) ==
  /\ r.status = "running"
  /\ procs[r.by].at = "executing" /\ procs[r.by].lease = r.lease
  /\ \E d \in Dispatches : rows[d].asked /\ rows[d].status \notin Releasing

\* The answer to a heartbeat names the dispatches whose owner asked to stop
\* them; it means something only while the run it belongs to goes on.
Learnt(r) ==
  /\ r.status = "running"
  /\ procs[r.by].at = "executing" /\ procs[r.by].lease = r.lease
  /\ rows[r.job].asked

\* The write names the row and nothing else: whatever it has become since.
WriteStatus(p) ==
  \E h \in admitted :
    LET r == h.of IN
    /\ r.by = p /\ r.kind = "status"
    /\ admitted' = admitted \ {h}
    /\ rows' = [rows EXCEPT ![r.job] = Written(r)]
    /\ \/ procs' = Answered(r, Say("ok"))
       \/ Learnt(r) /\ procs' = [procs EXCEPT ![p].cancelled = TRUE]
    /\ sent' = sent \cup Issued(r, Say("ok"))
    /\ executed' = executed \cup
         {procs'[q].job : q \in {x \in Processes : procs'[x].at = "executing"}}
    /\ UNCHANGED <<created, candidates, revoked, minted, cancels, wanted,
                   results, faults>>

\* A candidate needs the lease only while somebody holds one.
RecordCandidate(p) ==
  \E r \in sent :
    LET accepted == ~revoked /\ rows[r.job].lease \in {NoLease, r.lease}
        answer == Say(IF accepted THEN "ok" ELSE "refused")
    IN  /\ r.by = p /\ r.kind = "candidate"
        /\ candidates' = IF accepted THEN candidates \cup {r.job}
                         ELSE candidates
        /\ procs' = Answered(r, answer)
        /\ sent' = (sent \ {r}) \cup Issued(r, answer)
        /\ UNCHANGED <<rows, created, revoked, minted, admitted, cancels,
                       history, faults>>

-----------------------------------------------------------------------------

Owner == Revoke \/ \E d \in Dispatches : Create(d) \/ ReadCancel(d) \/ WriteCancel(d)

Hub(p) == \/ ReadClaim(p) \/ WriteClaim(p)
          \/ ReadStatus(p) \/ WriteStatus(p)
          \/ RecordCandidate(p)

Runner(p) == Poll(p) \/ Beat(p) \/ Finish(p) \/ GiveUp(p) \/ Crash(p) \/ Restart(p)

Next == \/ Owner
        \/ \E d \in Dispatches : Expire(d)
        \/ \E p \in Processes : Runner(p) \/ Hub(p)

Spec == Init /\ [][Next]_vars

\* A request that was sent is worked off, a process that waits for nothing goes
\* on, a local run ends, and an operator starts a stopped runner again.
Fairness ==
  \A p \in Processes :
    /\ WF_vars(Hub(p))
    /\ WF_vars(Poll(p))
    /\ WF_vars(Finish(p))
    /\ WF_vars(Restart(p))

FairSpec == Spec /\ Fairness

-----------------------------------------------------------------------------
(* Properties *)

Jobs == Dispatches \cup {None}

RequestType ==
  [kind : {"claim", "status", "candidate"}, by : Processes, job : Jobs,
   lease : Nat, status : Status \cup {None}, date : 0..MaxFaults]

\* The type invariant of the hub's tables, the network and the processes.
TypeOK ==
  /\ rows \in [Dispatches -> [status : Status, lease : Nat,
                              expired : BOOLEAN, asked : BOOLEAN]]
  /\ created \in Seq(Dispatches)
  /\ candidates \subseteq Dispatches
  /\ revoked \in BOOLEAN
  /\ minted \in Nat
  /\ sent \subseteq RequestType
  /\ admitted \subseteq [of : RequestType, job : Dispatches]
  /\ cancels \subseteq Dispatches
  /\ procs \in [Processes ->
                 [at : Waiting \cup {"idle", "executing", "stopped"}, job : Jobs,
                  lease : Nat, cancelled : BOOLEAN,
                  final : Releasing \cup {None}, failures : Nat,
                  waits : RequestType \cup {NoRequest}]]
  /\ executed \subseteq Dispatches /\ wanted \subseteq Dispatches
  /\ results \in [Dispatches -> [status : Outcomes \cup {None}, bytes : BOOLEAN]]
  /\ faults \in 0..MaxFaults

\* A dispatch is run at most once, however many processes poll, time out,
\* crash and come back: the compare-and-set of the claim.
ExecutedOnce ==
  [][\A p \in Processes :
       procs[p].at # "executing" /\ procs'[p].at = "executing"
         => procs'[p].job \notin executed]_vars

\* A lease belongs to one row and to at most one live process, and a dispatch
\* that has finished holds none.
LeasesSettle ==
  /\ \A d \in Dispatches : rows[d].status \in Releasing => rows[d].lease = NoLease
  /\ \A d, e \in Dispatches :
       d # e /\ rows[d].lease # NoLease => rows[d].lease # rows[e].lease
  /\ \A p, q \in Processes :
       p # q /\ procs[p].lease # NoLease => procs[p].lease # procs[q].lease

\* What the hub shows as the end of a dispatch is how its local run ended, or a
\* cancellation that its owner asked for.
ReportsTruthful ==
  \A d \in Dispatches :
    rows[d].status \in Releasing =>
      \/ rows[d].status = results[d].status
      \/ rows[d].status = "cancelled" /\ d \in wanted

\* As long as nothing fails, a dispatch is not shown as finished before the
\* candidate its run produced is recorded.
CandidateFirst ==
  \A d \in Dispatches :
    faults = 0 /\ rows[d].status \in Releasing /\ results[d].bytes
      => d \in candidates

\* As long as no answer is lost, no process stops, no lease runs out and the
\* device is not revoked, every queued dispatch the device can run comes to an
\* end, if fewer rows than a claim looks at are beyond the device.
AnsweredWithoutFaults ==
  Cardinality(Dispatches \ Capable) < Window /\ [](faults = 0) =>
    \A d \in Capable :
      rows[d].status = "queued" ~> rows[d].status \in Releasing

\* A dispatch that has finished stays finished (asset_generation_dispatch.ts:249,
\* "A terminal dispatch is never silently reopened").
TerminalStays ==
  [][\A d \in Dispatches :
       rows[d].status \in Releasing => rows'[d].status \in Releasing]_vars

Abandoned(d) ==
  rows[d].lease # NoLease /\ \A p \in Processes : procs[p].lease # rows[d].lease

\* A leased dispatch no process carries any more is taken up again or settled
\* (hub_runner_loop.ts:8, "A lost response, a closed Hub tab or a restarted
\* process re-claims the *same* dispatch").
LostClaimsReturn == \A d \in Dispatches : Abandoned(d) ~> ~Abandoned(d)
=============================================================================

------------------------------ MODULE JobRunner ------------------------------
(***************************************************************************)
(* Batch runs of the local stack (apps/backend/local-stack/stack/          *)
(* generation/): processes that work through a plan of generation jobs     *)
(* (runner.ts) over one durable store of job records, resource leases and  *)
(* staged assets (job_store.ts, staging.ts), with the job protocol of      *)
(* packages/shared/local-ai/src/lib/generation_job_state.ts and the        *)
(* reservations that guard paid requests (hosted/).                        *)
(*                                                                         *)
(* A process may be killed between any two of its file operations.  A job  *)
(* record is read and replaced under its own lock and by a rename, so that *)
(* is one step; the lease of a resource is read and written without a      *)
(* lock, so these are two.  A run is named by its process id.              *)
(***************************************************************************)
EXTENDS Naturals, Sequences, FiniteSets

CONSTANTS
  Items,       \* the jobs of the plan
  Plan,        \* their order
  Group,       \* the resource each occupies
  Hosted,      \* those a paid provider runs
  Ceiling,     \* paid candidates the budget allows
  Cancellable, \* bound: those somebody may cancel
  MaxRuns,     \* bound: runs started, one after the other or side by side
  MaxKills     \* bound: runs killed

Runs == 1..MaxRuns
Free == 0
Groups == {Group[i] : i \in Items}

ASSUME JobAssumption ==
  /\ Plan \in Seq(Items) /\ \A i \in Items : \E n \in 1..Len(Plan) : Plan[n] = i
  /\ DOMAIN Group = Items /\ Hosted \subseteq Items /\ Cancellable \subseteq Items
  /\ Ceiling \in Nat /\ MaxRuns \in Nat \ {0} /\ MaxKills \in Nat

VARIABLES
  jobs,       \* the job records
  lease,      \* the lease record of each resource: the owner, or Free
  run,        \* each run: where it is, its place in the plan, what it knows
  ledger,     \* the reservation of each paid job
  computing,  \* <<run, item>> the providers are working on
  manifest,   \* items in the shared staging fragments
  merging,    \* the run that holds the staging lock
  candidates, \* items with a candidate record
  sent,       \* history: how often each paid job went to a provider, up to 2
  solo        \* history: no two runs were ever alive together

store == <<jobs, lease, ledger, manifest, merging, candidates>>
vars == <<store, run, computing, sent, solo>>

Claimed == {"running", "preparing"}
Statuses == Claimed \cup {"none", "queued", "awaiting_review", "failed",
                          "cancelled", "reconciliation_required"}

\* owner: the run whose lease the record names.  raw: its raw bytes are durable.
JobRecords == [status : Statuses, owner : Runs \cup {Free}, raw : BOOLEAN,
               counted : BOOLEAN]
NoJob == [status |-> "none", owner |-> Free, raw |-> FALSE, counted |-> FALSE]

\* Where a run is: an operation it does next, or how it ended.
Ends == {"none", "done", "aborted", "killed"}
Steps == {"decide", "read_lease", "write_lease", "claim", "reserve", "dispatch",
          "await", "prepare", "persist", "stage", "merge", "review", "append",
          "fail", "release"}

\* "unsettled" and "uncertain" both ask for reconciliation; after "uncertain"
\* the lease is left in place.
Errors == {"none", "failed", "unsettled", "uncertain"}

NoRun == [at |-> "none", next |-> 1, known |-> [i \in Items |-> NoJob],
          spent |-> 0, view |-> {}, error |-> "none"]

\* spent: candidates counted; one that is taken up again counts once more.
RunRecords == [at : Steps \cup Ends, next : 1..(Len(Plan) + 1),
               known : [Items -> JobRecords], spent : Nat,
               view : SUBSET Items, error : Errors]

TypeOK ==
  /\ jobs \in [Items -> JobRecords]
  /\ lease \in [Groups -> Runs \cup {Free}]
  /\ run \in [Runs -> RunRecords]
  /\ ledger \in [Items -> {"none", "reserved", "settled", "unsettled"}]
  /\ computing \subseteq Runs \X Items
  /\ manifest \subseteq Items /\ candidates \subseteq Items
  /\ merging \in Runs \cup {Free}
  /\ sent \in [Hosted -> 0..2] /\ solo \in BOOLEAN

Init ==
  /\ jobs = [i \in Items |-> NoJob]
  /\ lease = [g \in Groups |-> Free]
  /\ run = [p \in Runs |-> NoRun]
  /\ ledger = [i \in Items |-> "none"]
  /\ computing = {} /\ manifest = {} /\ candidates = {} /\ merging = Free
  /\ sent = [i \in Hosted |-> 0] /\ solo = TRUE

Alive(p) == p \in Runs /\ run[p].at \notin Ends

Item(p) == Plan[run[p].next]

\* GENERATION_JOB_TRANSITIONS, as far as the runner's jobs go; a job may always
\* re-enter its own status.
Legal(from, to) ==
  from = to \/ to \in CASE from \in {"none", "queued"} ->
                             {"running", "reconciliation_required", "failed", "cancelled"}
                        [] from = "running" ->
                             {"preparing", "reconciliation_required", "failed", "cancelled"}
                        [] from = "preparing" ->
                             {"awaiting_review", "reconciliation_required", "failed",
                              "cancelled"}
                        [] from = "awaiting_review" -> {"failed", "cancelled"}
                        [] from = "failed" -> {"queued", "cancelled"}
                        [] from = "reconciliation_required" ->
                             {"queued", "failed", "cancelled"}
                        [] from = "cancelled" -> {}

At(p, step) == [run EXCEPT ![p].at = step]
Raise(p, error) == [run EXCEPT ![p].at = "fail", ![p].error = error]
\* What was known of an item is of no use after it.
NextItem(p) == [run EXCEPT ![p].at = "decide", ![p].next = @ + 1,
                           ![p].known[Item(p)] = NoJob, ![p].error = "none"]

\* commitRunnerJob: the latest record becomes new, unless it was cancelled --
\* then the run lets go of the item -- or the protocol forbids the transition.
Commit(p, new, step) ==
  LET latest == jobs[Item(p)].status IN
  CASE latest = "cancelled" -> run' = At(p, "release") /\ UNCHANGED jobs
    [] latest # "cancelled" /\ ~Legal(latest, new.status) ->
         run' = Raise(p, "failed") /\ UNCHANGED jobs
    [] OTHER -> run' = At(p, step) /\ jobs' = [jobs EXCEPT ![Item(p)] = new]

-----------------------------------------------------------------------------
(* A run's way through its plan. *)

\* executeBatch begins: the job records are read once.
Begin(p) ==
  /\ run[p].at = "none" /\ \A q \in Runs : q < p => run[q].at # "none"
  /\ run' = [run EXCEPT ![p].at = "decide", ![p].known = jobs,
                        ![p].spent = Cardinality({i \in Hosted : jobs[i].counted})]
  /\ solo' = (solo /\ \A q \in Runs : ~Alive(q))
  /\ UNCHANGED <<store, computing, sent>>

\* Mutant: whatever is running or preparing counts as owned.
TakenByStatus(p, record) == record.status \in Claimed \cup {"reconciliation_required"}

\* decideSubmission's already_claimed, unless the claim is a dead process's.
Taken(p, record) ==
  \/ record.status = "reconciliation_required"
  \/ record.status \in Claimed /\ record.owner # p /\ Alive(record.owner)

\* What to do about the next item, from the records read at the beginning.
Decide(p) ==
  LET i == Item(p)
      record == run[p].known[i]
      skipped == \/ record.status \in {"awaiting_review", "cancelled"}
                 \/ Taken(p, record)
                 \/ i \in Hosted /\ run[p].spent + 1 > Ceiling IN
  /\ run[p].at = "decide" /\ run[p].next <= Len(Plan)
  /\ run' = IF skipped THEN NextItem(p) ELSE At(p, "read_lease")
  /\ UNCHANGED <<store, computing, sent, solo>>

\* All that is left of a run is what it spent.
Finished(p) == [NoRun EXCEPT !.at = "done", !.spent = run[p].spent]

EndRun(p) ==
  /\ run[p].at = "decide" /\ run[p].next > Len(Plan)
  /\ run' = [run EXCEPT ![p] = Finished(p)]
  /\ UNCHANGED <<store, computing, sent, solo>>

\* acquireLease: a live owner always wins...
ReadLease(p) ==
  LET owner == lease[Group[Item(p)]] IN
  /\ run[p].at = "read_lease"
  /\ run' = IF owner # p /\ Alive(owner) THEN NextItem(p) ELSE At(p, "write_lease")
  /\ UNCHANGED <<store, computing, sent, solo>>

\* ...and the lease is written over whatever is there by now.
WriteLease(p) ==
  /\ run[p].at = "write_lease"
  /\ lease' = [lease EXCEPT ![Group[Item(p)]] = p]
  /\ run' = At(p, "claim")
  /\ UNCHANGED <<jobs, ledger, manifest, merging, candidates, computing, sent, solo>>

\* Mutant: a resumed job is always generated again.
AfterClaimAnew(i) == IF i \in Hosted THEN "reserve" ELSE "dispatch"

\* Raw bytes that are durable already are not generated again.
AfterClaim(i) ==
  IF jobs[i].raw THEN "prepare" ELSE IF i \in Hosted THEN "reserve" ELSE "dispatch"

\* The claim: the record names the lease.
Claim(p) ==
  LET i == Item(p) IN
  /\ run[p].at = "claim"
  /\ Commit(p, [jobs[i] EXCEPT !.owner = p,
                               !.status = IF @ = "preparing" THEN @ ELSE "running"],
            AfterClaim(i))
  /\ UNCHANGED <<lease, ledger, manifest, merging, candidates, computing, sent, solo>>

\* Mutant: a reservation that is there already is taken for one's own.
ReserveAgain(p) ==
  /\ run[p].at = "reserve"
  /\ run' = At(p, "dispatch")
  /\ ledger' = [ledger EXCEPT ![Item(p)] = "reserved"]
  /\ UNCHANGED <<jobs, lease, manifest, merging, candidates, computing, sent, solo>>

\* reserveHostedDispatch, under the ledger's lock: what this run knows was spent
\* and what other reservations hold must leave room for one more.
Reserve(p) ==
  LET i == Item(p)
      held == {j \in Hosted : ledger[j] # "none" /\ ~jobs[j].counted} IN
  /\ run[p].at = "reserve"
  /\ CASE ledger[i] \in {"reserved", "unsettled"} ->
            run' = Raise(p, "unsettled") /\ UNCHANGED ledger
       [] \/ ledger[i] = "settled"
          \/ ledger[i] = "none" /\ run[p].spent + Cardinality(held) + 1 > Ceiling ->
            run' = Raise(p, "failed") /\ UNCHANGED ledger
       [] OTHER ->
            run' = At(p, "dispatch") /\ ledger' = [ledger EXCEPT ![i] = "reserved"]
  /\ UNCHANGED <<jobs, lease, manifest, merging, candidates, computing, sent, solo>>

\* The request leaves the process.
Dispatch(p) ==
  LET i == Item(p) IN
  /\ run[p].at = "dispatch"
  /\ run' = At(p, "await")
  /\ computing' = computing \cup {<<p, i>>}
  /\ sent' = [j \in Hosted |-> IF j = i /\ sent[j] < 2 THEN sent[j] + 1 ELSE sent[j]]
  /\ UNCHANGED <<store, solo>>

Settle(i, state) ==
  ledger' = IF i \in Hosted THEN [ledger EXCEPT ![i] = state] ELSE ledger

\* The provider answers, fails, or is no longer waited for.
Answer(p) ==
  LET i == Item(p) IN
  /\ run[p].at = "await"
  /\ \/ /\ run' = At(p, "prepare") /\ computing' = computing \ {<<p, i>>}
        /\ Settle(i, "settled")
     \/ /\ run' = Raise(p, "failed") /\ computing' = computing \ {<<p, i>>}
        /\ \E state \in {"settled", "unsettled"} : Settle(i, state)
     \/ /\ run' = Raise(p, "uncertain") /\ UNCHANGED computing
        /\ Settle(i, "unsettled")
  /\ UNCHANGED <<jobs, lease, manifest, merging, candidates, sent, solo>>

\* A provider ends work nobody waits for.
ProviderEnds(p, i) ==
  /\ <<p, i>> \in computing
  /\ run[p].at = "await" => Item(p) # i
  /\ computing' = computing \ {<<p, i>>}
  /\ UNCHANGED <<store, run, sent, solo>>

Prepare(p) ==
  /\ run[p].at = "prepare"
  /\ Commit(p, [jobs[Item(p)] EXCEPT !.status = "preparing", !.counted = TRUE], "persist")
  /\ UNCHANGED <<lease, ledger, manifest, merging, candidates, computing, sent, solo>>

\* Mutant: the run writes back the record it remembers.
PersistFromMemory(p) ==
  /\ run[p].at = "persist"
  /\ jobs' = [jobs EXCEPT ![Item(p)] = [@ EXCEPT !.status = "preparing", !.raw = TRUE]]
  /\ run' = At(p, "stage")
  /\ UNCHANGED <<lease, ledger, manifest, merging, candidates, computing, sent, solo>>

\* The raw blob, and then the record that names it.
Persist(p) ==
  /\ run[p].at = "persist"
  /\ Commit(p, [jobs[Item(p)] EXCEPT !.raw = TRUE], "stage")
  /\ UNCHANGED <<lease, ledger, manifest, merging, candidates, computing, sent, solo>>

\* Mutant: the staging fragments are read without their lock.
StageUnlocked(p) ==
  /\ run[p].at = "stage"
  /\ run' = [run EXCEPT ![p].at = "merge", ![p].view = manifest]
  /\ UNCHANGED <<store, computing, sent, solo>>

\* stagePreparedAsset, under the staging lock: read the fragments...
Stage(p) ==
  /\ run[p].at = "stage" /\ merging = Free
  /\ merging' = p
  /\ run' = [run EXCEPT ![p].at = "merge", ![p].view = manifest]
  /\ UNCHANGED <<jobs, lease, ledger, manifest, candidates, computing, sent, solo>>

\* ...and replace them by the merged ones.
Merge(p) ==
  /\ run[p].at = "merge"
  /\ manifest' = run[p].view \cup {Item(p)}
  /\ merging' = Free
  /\ run' = [run EXCEPT ![p].at = "review", ![p].view = {}]
  /\ UNCHANGED <<jobs, lease, ledger, candidates, computing, sent, solo>>

Review(p) ==
  /\ run[p].at = "review"
  /\ Commit(p, [jobs[Item(p)] EXCEPT !.status = "awaiting_review"], "append")
  /\ UNCHANGED <<lease, ledger, manifest, merging, candidates, computing, sent, solo>>

\* appendCandidateRecord, under the staging lock.
AppendCandidate(p) ==
  /\ run[p].at = "append" /\ merging = Free
  /\ candidates' = candidates \cup {Item(p)}
  /\ run' = [run EXCEPT ![p].at = "release",
                        ![p].spent = IF Item(p) \in Hosted THEN @ + 1 ELSE @]
  /\ UNCHANGED <<jobs, lease, ledger, manifest, merging, computing, sent, solo>>

Outcome(error) == IF error = "failed" THEN "failed" ELSE "reconciliation_required"

Freed(p) == [lease EXCEPT ![Group[Item(p)]] = IF @ = p THEN Free ELSE @]

\* Mutant: the error is stored for the status.
FailByName(p) ==
  LET i == Item(p) IN
  /\ run[p].at = "fail"
  /\ jobs' = [jobs EXCEPT ![i].status = run[p].error]
  /\ run' = NextItem(p)
  /\ lease' = IF run[p].error = "uncertain" THEN lease ELSE Freed(p)
  /\ UNCHANGED <<ledger, manifest, merging, candidates, computing, sent, solo>>

\* failItem and handleDispatchFailure: the error becomes the job's status.  Where
\* the protocol forbids that, a refusal becomes a plain failure, and a lost answer
\* ends the whole run.
Fail(p) ==
  LET i == Item(p)
      error == run[p].error
      latest == jobs[i].status
      legal == Legal(latest, Outcome(error)) IN
  /\ run[p].at = "fail"
  /\ \/ /\ latest = "cancelled" \/ legal
        /\ jobs' = IF latest = "cancelled" THEN jobs
                   ELSE [jobs EXCEPT ![i].status = Outcome(error)]
        /\ run' = NextItem(p)
        /\ lease' = IF error = "uncertain" THEN lease ELSE Freed(p)
     \/ /\ latest # "cancelled" /\ ~legal /\ error = "unsettled"
        /\ run' = Raise(p, "failed")
        /\ UNCHANGED <<jobs, lease>>
     \/ /\ latest # "cancelled" /\ ~legal /\ error = "uncertain"
        /\ run' = [run EXCEPT ![p] = [NoRun EXCEPT !.at = "aborted"]]
        /\ lease' = Freed(p)
        /\ UNCHANGED jobs
  /\ UNCHANGED <<ledger, manifest, merging, candidates, computing, sent, solo>>

\* releaseLease: only a lease that is one's own.
Release(p) ==
  /\ run[p].at = "release"
  /\ lease' = Freed(p)
  /\ run' = NextItem(p)
  /\ UNCHANGED <<jobs, ledger, manifest, merging, candidates, computing, sent, solo>>

MayDie(p) == Alive(p) /\ Cardinality({q \in Runs : run[q].at = "killed"}) < MaxKills

\* Mutant: the locks are files that outlive their process.
KillKeepingLock(p) ==
  /\ MayDie(p)
  /\ run' = [run EXCEPT ![p] = [NoRun EXCEPT !.at = "killed"]]
  /\ UNCHANGED <<store, computing, sent, solo>>

\* The process dies; the kernel drops the locks it held, nothing else.
Kill(p) ==
  /\ MayDie(p)
  /\ run' = [run EXCEPT ![p] = [NoRun EXCEPT !.at = "killed"]]
  /\ merging' = IF merging = p THEN Free ELSE merging
  /\ UNCHANGED <<jobs, lease, ledger, manifest, candidates, computing, sent, solo>>

-----------------------------------------------------------------------------
(* Other invocations: cancel and reconcile. *)

\* cancelBatch: the job's record is settled; its lease is left alone.
Cancel(i) ==
  /\ i \in Cancellable /\ jobs[i].status \notin {"none", "awaiting_review", "cancelled"}
  /\ jobs' = [jobs EXCEPT ![i].status = "cancelled"]
  /\ UNCHANGED <<lease, ledger, manifest, merging, candidates, run, computing,
                 sent, solo>>

\* reconcileJob: somebody looked at the provider and says what became of it.
Reconcile(i) ==
  /\ jobs[i].status = "reconciliation_required"
  /\ \A p \in Runs : <<p, i>> \notin computing
  /\ \E status \in {"queued", "cancelled"} : jobs' = [jobs EXCEPT ![i].status = status]
  /\ UNCHANGED <<lease, ledger, manifest, merging, candidates, run, computing,
                 sent, solo>>

Step(p) ==
  \/ Decide(p) \/ EndRun(p) \/ ReadLease(p) \/ WriteLease(p) \/ Claim(p) \/ Reserve(p)
  \/ Dispatch(p) \/ Answer(p) \/ Prepare(p) \/ Persist(p) \/ Stage(p) \/ Merge(p)
  \/ Review(p) \/ AppendCandidate(p) \/ Fail(p) \/ Release(p)

Next ==
  \/ \E p \in Runs : Begin(p) \/ Step(p) \/ Kill(p)
  \/ \E p \in Runs, i \in Items : ProviderEnds(p, i)
  \/ \E i \in Items : Cancel(i) \/ Reconcile(i)

Spec == Init /\ [][Next]_vars

\* A run's process goes on until it ends or is killed; a provider is waited for
\* only so long.
FairSpec == Spec /\ \A p \in Runs : WF_vars(Step(p))

-----------------------------------------------------------------------------
(* Properties. *)

\* A job waits for review, or has a candidate record, only when its asset is
\* staged, however the merges of several runs interleave and wherever a run was
\* killed (the read-modify-write of stagePreparedAsset).
ReviewStaged ==
  \A i \in Items :
    jobs[i].status = "awaiting_review" \/ i \in candidates => i \in manifest

\* A paid job goes to its provider once: not again after a crash, a timeout, a
\* reconciliation or a lost answer, and not from two runs (reserveHostedDispatch).
HostedBilledOnce == \A i \in Hosted : sent[i] <= 1

\* A cancellation wins: no run brings a cancelled job back, whatever it had read
\* before (commitRunnerJob).
CancelledStays ==
  [][\A i \in Items :
       jobs[i].status = "cancelled" => jobs'[i].status = "cancelled"]_vars

\* As long as runs do not overlap, a job whose raw bytes are durable is not
\* generated again, wherever earlier runs were killed (executeBatch's recovery).
RawReused ==
  [][solo => \A p \in Runs, i \in Items :
               <<p, i>> \in computing' \ computing => ~jobs[i].raw]_vars

\* As long as runs do not overlap, a run that ended leaves nothing half-way of
\* what killed runs left behind: every claim of a dead process was taken over.
\* The exception is a paid job of a run that had no budget left by its end:
\* it is skipped, whatever its own claim has cost already.
SoloSettles ==
  \A p \in Runs :
    /\ solo /\ run[p].at = "done"
    /\ \A q \in Runs : q > p => run[q].at = "none"
    => \A i \in Items :
         jobs[i].status \in Claimed => i \in Hosted /\ run[p].spent >= Ceiling

\* No run waits for ever on a lock, a lease or a provider, even when others are
\* killed while they hold them (acquireExclusiveLock's flock): only so many runs
\* begin, and at last none of them is alive.
RunsEnd == <>[](\A p \in Runs : ~Alive(p))

\* Claim of the contract: on one resource exactly one generation executes at a
\* time, and the lease is kept until the provider is known to have ended.
OneGeneration ==
  \A g \in Groups : Cardinality({job \in computing : Group[job[2]] = g}) <= 1

\* Claim of reserveHostedDispatch's comment: two processes cannot both pass the
\* same ceiling check and both dispatch.
CeilingKept == Cardinality({i \in Hosted : sent[i] > 0}) <= Ceiling
=============================================================================

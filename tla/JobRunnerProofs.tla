---------------------------- MODULE JobRunnerProofs ----------------------------
(***************************************************************************)
(* What the batch runs of the local stack keep for every plan, budget,     *)
(* number of runs and number of kills.                                     *)
(***************************************************************************)
EXTENDS JobRunner, FiniteSetTheorems, SequenceTheorems, TLAPS

-----------------------------------------------------------------------------
(* Types *)

\* Records of runs in which whoever works on an item has a place in the plan.
Placed(r) ==
  /\ r \in [Runs -> RunRecords]
  /\ \A p \in Runs : r[p].at \in Steps \ {"decide"} => r[p].next <= Len(Plan)

Typed == TypeOK /\ Placed(run)

\* The plan has finitely many jobs.
LEMMA ItemsFinite == IsFiniteSet(Items)
<1> DEFINE place == [n \in 1..Len(Plan) |-> Plan[n]]
<1>1. Len(Plan) \in Nat
  BY JobAssumption, LenProperties
<1>2. IsFiniteSet(1..Len(Plan))
  BY <1>1, FS_Interval
<1>3. place \in Surjection(1..Len(Plan), {Plan[n] : n \in 1..Len(Plan)})
  BY DEF Surjection
<1>4. IsFiniteSet({Plan[n] : n \in 1..Len(Plan)})
  BY <1>2, <1>3, FS_Surjection
<1>5. Items \subseteq {Plan[n] : n \in 1..Len(Plan)}
  BY JobAssumption
<1>6. QED
  BY <1>4, <1>5, FS_Subset

\* How many jobs are counted is a number.
LEMMA CountedNat ==
  ASSUME NEW S \in SUBSET Items
  PROVE  Cardinality(S) \in Nat
  BY ItemsFinite, FS_Subset, FS_CardinalityType

\* A run that works on an item works on one of the plan.
LEMMA ItemIn ==
  ASSUME Typed, NEW p \in Runs, run[p].at \in Steps \ {"decide"}
  PROVE  Item(p) \in Items /\ Group[Item(p)] \in Groups
<1>1. run[p].next \in 1..Len(Plan)
  BY JobAssumption DEF Typed, TypeOK, Placed, RunRecords
<1>2. Item(p) \in Items
  BY <1>1, JobAssumption, ElementOfSeq DEF Item
<1>3. QED
  BY <1>2 DEF Groups

\* So does leaving the item one decided on.
LEMMA NextPlaced ==
  ASSUME Typed, NEW p \in Runs, run[p].next <= Len(Plan)
  PROVE  Placed(NextItem(p))
<1> DEFINE known == [run[p].known EXCEPT ![Item(p)] = NoJob]
           ahead == [run[p] EXCEPT !.at = "decide", !.next = @ + 1,
                                   !.known = known, !.error = "none"]
<1>1. run \in [Runs -> RunRecords] /\ run[p] \in RunRecords
  BY DEF Typed, TypeOK
<1>2. Len(Plan) \in Nat
  BY JobAssumption, LenProperties
<1>3. run[p].next + 1 \in 1..(Len(Plan) + 1)
  <2>1. run[p].next \in 1..(Len(Plan) + 1)
    BY <1>1 DEF RunRecords
  <2>2. QED
    BY <1>2, <2>1
<1>4. NextItem(p) = [run EXCEPT ![p] = ahead]
  BY <1>1 DEF NextItem
<1>5. NoJob \in JobRecords
  BY DEF NoJob, JobRecords, Statuses, Claimed, Free
<1>6. known \in [Items -> JobRecords]
  BY <1>1, <1>5 DEF RunRecords
<1> HIDE DEF known
<1>7. ahead \in RunRecords /\ ahead.at = "decide"
  BY <1>1, <1>3, <1>6 DEF RunRecords, Steps, Errors
<1> HIDE DEF ahead
<1>8. QED
  BY <1>1, <1>4, <1>7 DEF Typed, Placed

\* Moving on within an item, raising an error, going on to the next item and
\* ending keep the runs well typed and in their places.
LEMMA RunSteps ==
  ASSUME Typed, NEW p \in Runs, run[p].at \in Steps \ {"decide"}
  PROVE  /\ \A step \in Steps : Placed(At(p, step))
         /\ \A error \in Errors : Placed(Raise(p, error))
         /\ Placed(NextItem(p))
<1>1. run \in [Runs -> RunRecords] /\ run[p] \in RunRecords /\ run[p].next <= Len(Plan)
  BY DEF Typed, Placed
<1>2. \A q \in Runs : run[q].at \in Steps \ {"decide"} => run[q].next <= Len(Plan)
  BY DEF Typed, Placed
<1>3. ASSUME NEW step \in Steps PROVE Placed(At(p, step))
  BY <1>1, <1>2 DEF At, RunRecords, Placed
<1>4. ASSUME NEW error \in Errors PROVE Placed(Raise(p, error))
  BY <1>1, <1>2 DEF Raise, RunRecords, Steps, Placed
<1>5. Placed(NextItem(p))
  BY <1>1, NextPlaced
<1>6. QED
  BY <1>3, <1>4, <1>5

\* So do the end and the death of a run.
LEMMA EndPlaced ==
  ASSUME Typed, NEW p \in Runs, NEW end \in Ends
  PROVE  Placed([run EXCEPT ![p] = [NoRun EXCEPT !.at = end]])
<1> DEFINE over == [NoRun EXCEPT !.at = end]
<1>1. 1 \in 1..(Len(Plan) + 1)
  BY JobAssumption, LenProperties
<1>2. NoJob \in JobRecords
  BY DEF NoJob, JobRecords, Statuses, Claimed, Free
<1>3. over \in RunRecords /\ over.at = end
  BY <1>1, <1>2 DEF NoRun, RunRecords, Errors
<1>4. end \notin Steps
  BY DEF Ends, Steps
<1> HIDE DEF over
<1>5. Placed([run EXCEPT ![p] = over])
  BY <1>3, <1>4 DEF Typed, Placed
<1>6. QED
  BY <1>5 DEF over

\* A finished run knows nothing.
LEMMA FinishedRun ==
  ASSUME Typed, NEW p \in Runs
  PROVE  Finished(p) \in RunRecords /\ Finished(p).at = "done"
<1>1. 1 \in 1..(Len(Plan) + 1) /\ run[p].spent \in Nat
  BY JobAssumption, LenProperties DEF Typed, TypeOK, RunRecords
<1>2. NoJob \in JobRecords
  BY DEF NoJob, JobRecords, Statuses, Claimed, Free
<1>3. QED
  BY <1>1, <1>2 DEF Finished, NoRun, RunRecords, Errors, Ends

\* So does committing a record to the store.
LEMMA CommitTyped ==
  ASSUME Typed, NEW p \in Runs, run[p].at \in Steps \ {"decide"},
         NEW new \in JobRecords, NEW step \in Steps, Commit(p, new, step)
  PROVE  jobs' \in [Items -> JobRecords] /\ Placed(run')
<1>1. jobs \in [Items -> JobRecords]
  BY DEF Typed, TypeOK
<1>2. {"release", "append"} \subseteq Steps /\ "failed" \in Errors
  BY DEF Steps, Errors
<1>3. QED
  BY <1>1, <1>2, RunSteps DEF Commit

\* Every step of a run, but for its life and death, is one of these.
LEMMA StepTyped ==
  ASSUME Typed, NEW p \in Runs, Step(p)
  PROVE  Typed'
<1> USE DEF Typed
<1>1. Len(Plan) \in Nat
  BY JobAssumption, LenProperties
<1>2. run[p] \in RunRecords /\ jobs \in [Items -> JobRecords]
  BY DEF TypeOK
<1>3. run[p].at = "decide" \/ (Item(p) \in Items /\ Group[Item(p)] \in Groups
                               /\ jobs[Item(p)] \in JobRecords) \/ run[p].at \in Ends
  BY <1>2, ItemIn DEF RunRecords
<1>4. run[p].at \in Steps \ {"decide"} =>
        /\ \A step \in Steps : Placed(At(p, step))
        /\ \A error \in Errors : Placed(Raise(p, error))
        /\ Placed(NextItem(p))
  BY RunSteps
<1>5. CASE Decide(p)
  <2>1. Placed(NextItem(p))
    BY <1>5, NextPlaced DEF Decide
  <2>2. Placed(At(p, "read_lease"))
    BY <1>2, <1>5 DEF Decide, At, Placed, RunRecords, Steps, TypeOK
  <2>3. Placed(run')
    BY <1>5, <2>1, <2>2 DEF Decide
  <2>4. QED
    BY <1>5, <2>3 DEF Decide, TypeOK, Placed, store
<1>6. CASE EndRun(p)
  <2>1. Placed(run')
    BY <1>6, FinishedRun DEF EndRun, Placed, Typed, Steps
  <2>2. QED
    BY <1>6, <2>1 DEF EndRun, TypeOK, Placed, store
<1>7. CASE ReadLease(p)
  <2>1. Placed(run')
    BY <1>4, <1>7 DEF ReadLease, Steps
  <2>2. QED
    BY <1>7, <2>1 DEF ReadLease, TypeOK, Placed, store
<1>8. CASE WriteLease(p)
  <2>1. Placed(run')
    BY <1>4, <1>8 DEF WriteLease, Steps
  <2>2. lease' \in [Groups -> Runs \cup {Free}]
    BY <1>3, <1>8 DEF WriteLease, TypeOK, Ends
  <2>3. QED
    BY <1>8, <2>1, <2>2 DEF WriteLease, TypeOK, Placed
<1>9. CASE Claim(p)
  <2>1. [jobs[Item(p)] EXCEPT !.owner = p,
                              !.status = IF @ = "preparing" THEN @ ELSE "running"]
          \in JobRecords
    BY <1>3, <1>9 DEF Claim, JobRecords, Ends, Statuses, Claimed
  <2>2. AfterClaim(Item(p)) \in Steps
    BY DEF AfterClaim, Steps
  <2>3. Placed(run') /\ jobs' \in [Items -> JobRecords]
    BY <1>9, <2>1, <2>2, CommitTyped DEF Claim, Steps
  <2>4. QED
    BY <1>9, <2>3 DEF Claim, TypeOK, Placed
<1>10. CASE Reserve(p)
  <2>1. Placed(run')
    BY <1>4, <1>10 DEF Reserve, Steps, Errors
  <2>2. ledger' \in [Items -> {"none", "reserved", "settled", "unsettled"}]
    BY <1>10 DEF Reserve, TypeOK
  <2>3. QED
    BY <1>10, <2>1, <2>2 DEF Reserve, TypeOK, Placed
<1>11. CASE Dispatch(p)
  <2>1. Placed(run')
    BY <1>4, <1>11 DEF Dispatch, Steps
  <2>2. computing' \subseteq Runs \X Items
    BY <1>3, <1>11 DEF Dispatch, TypeOK, Ends
  <2>3. sent' \in [Hosted -> 0..2]
    BY <1>11 DEF Dispatch, TypeOK
  <2>4. QED
    BY <1>11, <2>1, <2>2, <2>3 DEF Dispatch, TypeOK, Placed, store
<1>12. CASE Answer(p)
  <2>1. Placed(run')
    BY <1>4, <1>12 DEF Answer, Steps, Errors
  <2>2. ledger' \in [Items -> {"none", "reserved", "settled", "unsettled"}]
    BY <1>12 DEF Answer, Settle, TypeOK
  <2>3. computing' \subseteq computing
    BY <1>12 DEF Answer
  <2>4. QED
    BY <1>12, <2>1, <2>2, <2>3 DEF Answer, TypeOK, Placed
<1>13. CASE Prepare(p)
  <2>1. [jobs[Item(p)] EXCEPT !.status = "preparing", !.counted = TRUE] \in JobRecords
    BY <1>3, <1>13 DEF Prepare, JobRecords, Ends, Statuses, Claimed
  <2>2. Placed(run') /\ jobs' \in [Items -> JobRecords]
    BY <1>13, <2>1, CommitTyped DEF Prepare, Steps
  <2>3. QED
    BY <1>13, <2>2 DEF Prepare, TypeOK, Placed
<1>14. CASE Persist(p)
  <2>1. [jobs[Item(p)] EXCEPT !.raw = TRUE] \in JobRecords
    BY <1>3, <1>14 DEF Persist, JobRecords, Ends
  <2>2. Placed(run') /\ jobs' \in [Items -> JobRecords]
    BY <1>14, <2>1, CommitTyped DEF Persist, Steps
  <2>3. QED
    BY <1>14, <2>2 DEF Persist, TypeOK, Placed
<1>15. CASE Stage(p)
  <2>1. Placed(run')
    BY <1>2, <1>15 DEF Stage, Placed, RunRecords, Steps, TypeOK
  <2>2. QED
    BY <1>15, <2>1 DEF Stage, TypeOK, Placed
<1>16. CASE Merge(p)
  <2>1. Placed(run')
    BY <1>2, <1>16 DEF Merge, Placed, RunRecords, Steps, TypeOK
  <2>2. manifest' \subseteq Items
    BY <1>2, <1>3, <1>16 DEF Merge, RunRecords, Ends
  <2>3. QED
    BY <1>16, <2>1, <2>2 DEF Merge, TypeOK, Placed
<1>17. CASE Review(p)
  <2>1. [jobs[Item(p)] EXCEPT !.status = "awaiting_review"] \in JobRecords
    BY <1>3, <1>17 DEF Review, JobRecords, Ends, Statuses
  <2>2. Placed(run') /\ jobs' \in [Items -> JobRecords]
    BY <1>17, <2>1, CommitTyped DEF Review, Steps
  <2>3. QED
    BY <1>17, <2>2 DEF Review, TypeOK, Placed
<1>18. CASE AppendCandidate(p)
  <2> DEFINE spent == IF Item(p) \in Hosted THEN run[p].spent + 1 ELSE run[p].spent
             done == [run[p] EXCEPT !.at = "release", !.spent = spent]
  <2>4. run' = [run EXCEPT ![p] = done]
    BY <1>18 DEF AppendCandidate, TypeOK
  <2>5. spent \in Nat
    BY <1>2 DEF RunRecords
  <2> HIDE DEF spent
  <2>6. done \in RunRecords /\ done.next = run[p].next
    BY <1>2, <2>5 DEF RunRecords, Steps
  <2> HIDE DEF done
  <2>7. done.next <= Len(Plan)
    BY <1>18, <2>6 DEF AppendCandidate, Placed, Steps
  <2>1. Placed(run')
    BY <2>4, <2>6, <2>7 DEF Placed
  <2>2. candidates' \subseteq Items
    BY <1>3, <1>18 DEF AppendCandidate, TypeOK, Ends
  <2>3. QED
    BY <1>18, <2>1, <2>2 DEF AppendCandidate, TypeOK, Placed
<1>19. CASE Fail(p)
  <2>1. Placed([run EXCEPT ![p] = [NoRun EXCEPT !.at = "aborted"]])
    BY EndPlaced DEF Ends
  <2>2. Placed(run')
    BY <1>4, <1>19, <2>1 DEF Fail, Steps, Errors
  <2>3. Outcome(run[p].error) \in Statuses
    BY DEF Outcome, Statuses
  <2>4. jobs' \in [Items -> JobRecords]
    BY <1>2, <1>3, <1>19, <2>3 DEF Fail, JobRecords, Ends
  <2>5. lease' \in [Groups -> Runs \cup {Free}]
    BY <1>3, <1>19 DEF Fail, Freed, TypeOK, Ends
  <2>6. QED
    BY <1>19, <2>2, <2>4, <2>5 DEF Fail, TypeOK, Placed
<1>20. CASE Release(p)
  <2>1. Placed(run')
    BY <1>4, <1>20 DEF Release, Steps
  <2>2. lease' \in [Groups -> Runs \cup {Free}]
    BY <1>3, <1>20 DEF Release, Freed, TypeOK, Ends
  <2>3. QED
    BY <1>20, <2>1, <2>2 DEF Release, TypeOK, Placed
<1>21. QED
  BY <1>5, <1>6, <1>7, <1>8, <1>9, <1>10, <1>11, <1>12, <1>13, <1>14, <1>15, <1>16,
     <1>17, <1>18, <1>19, <1>20 DEF Step

\* A new run finds its place at the beginning of the plan.
LEMMA BeginTyped ==
  ASSUME Typed, NEW p \in Runs, Begin(p)
  PROVE  Typed'
<1> DEFINE spent == Cardinality({i \in Hosted : jobs[i].counted})
           fresh == [run[p] EXCEPT !.at = "decide", !.known = jobs, !.spent = spent]
<1>1. run' = [run EXCEPT ![p] = fresh]
  BY DEF Begin, Typed, TypeOK
<1>2. spent \in Nat
  <2>1. {i \in Hosted : jobs[i].counted} \in SUBSET Items
    BY JobAssumption
  <2>2. QED
    BY <2>1, CountedNat
<1> HIDE DEF spent
<1>3. fresh \in RunRecords /\ fresh.at = "decide"
  BY <1>2 DEF Typed, TypeOK, RunRecords, Steps
<1> HIDE DEF fresh
<1>4. Placed(run')
  BY <1>1, <1>3 DEF Typed, Placed
<1>5. QED
  BY <1>4 DEF Begin, Typed, TypeOK, Placed, store

\* Deaths, late providers, cancellations and reconciliations keep the types.
LEMMA OtherTyped ==
  ASSUME Typed,
         \/ \E p \in Runs : Kill(p)
         \/ \E p \in Runs, i \in Items : ProviderEnds(p, i)
         \/ \E i \in Items : Cancel(i) \/ Reconcile(i)
  PROVE  Typed'
<1>1. ASSUME NEW p \in Runs, Kill(p) PROVE Typed'
  <2>1. Placed(run')
    BY <1>1, EndPlaced DEF Kill, Ends
  <2>2. QED
    BY <1>1, <2>1 DEF Kill, Typed, TypeOK, Placed
<1>2. ASSUME NEW p \in Runs, NEW i \in Items, ProviderEnds(p, i) PROVE Typed'
  BY <1>2 DEF ProviderEnds, Typed, TypeOK, Placed, store
<1>3. ASSUME NEW i \in Items, Cancel(i) PROVE Typed'
  <2>1. jobs' \in [Items -> JobRecords]
    BY <1>3 DEF Cancel, Typed, TypeOK, JobRecords, Statuses
  <2>2. QED
    BY <1>3, <2>1 DEF Cancel, Typed, TypeOK, Placed
<1>4. ASSUME NEW i \in Items, Reconcile(i) PROVE Typed'
  <2>1. jobs' \in [Items -> JobRecords]
    BY <1>4 DEF Reconcile, Typed, TypeOK, JobRecords, Statuses
  <2>2. QED
    BY <1>4, <2>1 DEF Reconcile, Typed, TypeOK, Placed
<1>5. QED
  BY <1>1, <1>2, <1>3, <1>4

\* The store is empty and nobody runs.
LEMMA InitTyped == Init => Typed
<1> SUFFICES ASSUME Init PROVE Typed
  OBVIOUS
<1>1. 1 \in 1..(Len(Plan) + 1)
  BY JobAssumption, LenProperties
<1>2. NoJob \in JobRecords
  BY DEF NoJob, JobRecords, Statuses, Claimed, Free
<1>3. NoRun \in RunRecords /\ NoRun.at \notin Steps
  BY <1>1, <1>2 DEF NoRun, RunRecords, Errors, Ends, Steps
<1>4. Placed(run)
  BY <1>3 DEF Init, Placed
<1>5. QED
  BY <1>2, <1>4 DEF Init, Typed, TypeOK, Placed

\* The store, the leases, the ledger and the runs keep their types, and a run at
\* work keeps its place in the plan, whoever is killed.
THEOREM TypedInvariant == Spec => []Typed
<1>1. Typed /\ [Next]_vars => Typed'
  <2> SUFFICES ASSUME Typed, [Next]_vars PROVE Typed'
    OBVIOUS
  <2>1. CASE Next
    BY <2>1, BeginTyped, StepTyped, OtherTyped DEF Next
  <2>2. CASE UNCHANGED vars
    BY <2>2 DEF vars, store, Typed, TypeOK, Placed
  <2>3. QED
    BY <2>1, <2>2
<1>2. QED
  BY <1>1, InitTyped, PTL DEF Spec

\* The type invariant the runs check.
THEOREM TypeCorrect == Spec => []TypeOK
<1>1. Typed => TypeOK
  BY DEF Typed
<1>2. QED
  BY <1>1, TypedInvariant, PTL

-----------------------------------------------------------------------------
(* Staging *)

\* What a run does shows in its own record only.
LEMMA OwnRecord ==
  ASSUME Typed, NEW p \in Runs, Begin(p) \/ Step(p) \/ Kill(p),
         NEW q \in Runs, q # p
  PROVE  run'[q] = run[q]
  BY DEF Begin, Step, Kill, Decide, EndRun, ReadLease, WriteLease, Claim, Reserve,
         Dispatch, Answer, Prepare, Persist, Stage, Merge, Review, AppendCandidate,
         Fail, Release, Commit, At, Raise, NextItem, Typed, TypeOK, RunRecords

\* A commit replaces the record of the run's item, unless it was cancelled, and
\* the run stays at that item.
LEMMA CommitOutcome ==
  ASSUME Typed, NEW p \in Runs, NEW new, NEW step, Commit(p, new, step)
  PROVE  /\ run'[p].next = run[p].next
         /\ Item(p)' = Item(p)
         /\ \/ run'[p].at \in {"release", "fail"} /\ jobs' = jobs
            \/ /\ run'[p].at = step /\ jobs' = [jobs EXCEPT ![Item(p)] = new]
               /\ jobs[Item(p)].status # "cancelled"
<1>1. run \in [Runs -> RunRecords]
  BY DEF Typed, TypeOK
<1>2. \/ run' = At(p, "release") /\ jobs' = jobs
      \/ run' = Raise(p, "failed") /\ jobs' = jobs
      \/ /\ run' = At(p, step) /\ jobs' = [jobs EXCEPT ![Item(p)] = new]
         /\ jobs[Item(p)].status # "cancelled"
  BY DEF Commit
<1>3. ASSUME NEW at
      PROVE  At(p, at)[p].at = at /\ At(p, at)[p].next = run[p].next
  BY <1>1 DEF At, RunRecords
<1>4. /\ Raise(p, "failed")[p].at = "fail"
      /\ Raise(p, "failed")[p].next = run[p].next
  BY <1>1 DEF Raise, RunRecords
<1>5. QED
  BY <1>2, <1>3, <1>4 DEF Item

\* The steps of a run that have nothing to do with staging.
Unstaged(p) ==
  \/ Begin(p) \/ Decide(p) \/ EndRun(p) \/ ReadLease(p) \/ WriteLease(p) \/ Claim(p)
  \/ Reserve(p) \/ Dispatch(p) \/ Answer(p) \/ Prepare(p) \/ Persist(p) \/ Fail(p)
  \/ Release(p)

\* None of them lets a job wait for review, or is followed by a step that does.
LEMMA UnstagedSteps ==
  ASSUME Typed, NEW p \in Runs, Unstaged(p)
  PROVE  /\ UNCHANGED <<manifest, merging, candidates>>
         /\ run'[p].at \notin {"merge", "review", "append"}
         /\ \A i \in Items : jobs'[i].status = "awaiting_review" =>
                               jobs[i].status = "awaiting_review"
<1>1. run \in [Runs -> RunRecords] /\ jobs \in [Items -> JobRecords]
  BY DEF Typed, TypeOK
<1>2. ASSUME Begin(p) \/ Decide(p) \/ EndRun(p) \/ ReadLease(p) \/ WriteLease(p)
             \/ Reserve(p) \/ Dispatch(p) \/ Answer(p) \/ Release(p)
      PROVE  UNCHANGED <<jobs, manifest, merging, candidates>>
             /\ run'[p].at \notin {"merge", "review", "append"}
  BY <1>1, <1>2, FinishedRun DEF Begin, Decide, EndRun, ReadLease, WriteLease, Reserve,
     Dispatch, Answer, Release, At, Raise, NextItem, NoRun, RunRecords, store
<1>3. ASSUME NEW new,
             new.status = "awaiting_review" => jobs[Item(p)].status = "awaiting_review",
             NEW step, step \notin {"merge", "review", "append"}, Commit(p, new, step)
      PROVE  /\ run'[p].at \notin {"merge", "review", "append"}
             /\ \A i \in Items : jobs'[i].status = "awaiting_review" =>
                                   jobs[i].status = "awaiting_review"
  BY <1>1, <1>3, CommitOutcome
<1>4. CASE Claim(p)
  <2>1. [jobs[Item(p)] EXCEPT !.owner = p,
                              !.status = IF @ = "preparing" THEN @ ELSE "running"].status
          \in {"preparing", "running"}
    BY <1>1, <1>4, ItemIn DEF Claim, JobRecords, Steps
  <2>2. AfterClaim(Item(p)) \notin {"merge", "review", "append"}
    BY DEF AfterClaim
  <2>3. QED
    BY <1>3, <1>4, <2>1, <2>2 DEF Claim
<1>5. CASE Prepare(p)
  <2>1. [jobs[Item(p)] EXCEPT !.status = "preparing", !.counted = TRUE].status
          = "preparing"
    BY <1>1, <1>5, ItemIn DEF Prepare, JobRecords, Steps
  <2> DEFINE new == [jobs[Item(p)] EXCEPT !.status = "preparing", !.counted = TRUE]
  <2>2. Commit(p, new, "persist") /\ UNCHANGED <<manifest, merging, candidates>>
    BY <1>5 DEF Prepare
  <2>3. new.status # "awaiting_review"
    BY <2>1
  <2> HIDE DEF new
  <2>4. QED
    BY <1>3, <2>2, <2>3
<1>6. CASE Persist(p)
  <2>1. [jobs[Item(p)] EXCEPT !.raw = TRUE].status = jobs[Item(p)].status
    BY <1>1, <1>6, ItemIn DEF Persist, JobRecords, Steps
  <2> DEFINE new == [jobs[Item(p)] EXCEPT !.raw = TRUE]
  <2>2. Commit(p, new, "stage") /\ UNCHANGED <<manifest, merging, candidates>>
    BY <1>6 DEF Persist
  <2>3. new.status = jobs[Item(p)].status
    BY <2>1
  <2> HIDE DEF new
  <2>4. QED
    BY <1>3, <2>2, <2>3
<1>7. CASE Fail(p)
  <2>1. Outcome(run[p].error) # "awaiting_review"
    BY DEF Outcome
  <2>2. Item(p) \in Items
    BY <1>7, ItemIn DEF Fail, Steps
  <2>3. \A i \in Items : jobs'[i].status = "awaiting_review" =>
                           jobs[i].status = "awaiting_review"
    BY <1>1, <1>7, <2>1, <2>2 DEF Fail, JobRecords
  <2>4. run'[p].at \in {"decide", "fail", "aborted"}
    BY <1>1, <1>7 DEF Fail, Raise, NextItem, NoRun, RunRecords
  <2>5. QED
    BY <1>7, <2>3, <2>4 DEF Fail
<1>8. QED
  BY <1>2, <1>4, <1>5, <1>6, <1>7 DEF Unstaged

\* A run that merges holds the staging lock and has read the fragments there are;
\* one that has merged finds its item among them.
Staged ==
  /\ ReviewStaged
  /\ \A p \in Runs :
       /\ run[p].at = "merge" => merging = p /\ run[p].view = manifest
       /\ run[p].at \in {"review", "append"} => Item(p) \in manifest

\* A run's steps keep that.
LEMMA StepStaged ==
  ASSUME Typed, Staged, NEW p \in Runs, Begin(p) \/ Step(p) \/ Kill(p)
  PROVE  Staged'
<1>1. run \in [Runs -> RunRecords] /\ jobs \in [Items -> JobRecords]
  BY DEF Typed, TypeOK
<1>2. \A q \in Runs \ {p} : run'[q] = run[q]
  BY OwnRecord
<1>3. \A q \in Runs \ {p} : run'[q].at = run[q].at /\ run'[q].view = run[q].view
                            /\ Item(q)' = Item(q)
  BY <1>2 DEF Item
<1>4. CASE Unstaged(p)
  <2>1. /\ UNCHANGED <<manifest, merging, candidates>>
        /\ run'[p].at \notin {"merge", "review", "append"}
        /\ \A i \in Items : jobs'[i].status = "awaiting_review" =>
                              jobs[i].status = "awaiting_review"
    BY <1>4, UnstagedSteps
  <2>2. QED
    BY <1>3, <2>1 DEF Staged, ReviewStaged
<1>5. CASE Kill(p)
  <2>1. run'[p].at = "killed" /\ UNCHANGED <<jobs, manifest, candidates>>
    BY <1>1, <1>5 DEF Kill, NoRun
  <2>2. \A q \in Runs \ {p} : merging = q => merging' = q
    BY <1>5 DEF Kill
  <2>3. QED
    BY <1>3, <2>1, <2>2 DEF Staged, ReviewStaged
<1>6. CASE Stage(p)
  <2>1. /\ run'[p].at = "merge" /\ run'[p].view = manifest
        /\ merging = Free /\ merging' = p
        /\ UNCHANGED <<jobs, manifest, candidates>>
    BY <1>1, <1>6 DEF Stage, RunRecords
  <2>2. \A q \in Runs \ {p} : run[q].at # "merge"
    BY <2>1 DEF Staged, Runs, Free
  <2>3. QED
    BY <1>3, <2>1, <2>2 DEF Staged, ReviewStaged
<1>7. CASE Merge(p)
  <2>1. /\ run'[p].at = "review" /\ Item(p)' = Item(p)
        /\ run[p].at = "merge" /\ manifest' = run[p].view \cup {Item(p)}
        /\ UNCHANGED <<jobs, candidates>>
    BY <1>1, <1>7 DEF Merge, RunRecords, Item
  <2>2. merging = p /\ manifest' = manifest \cup {Item(p)}
    BY <2>1 DEF Staged
  <2>3. \A q \in Runs \ {p} : run[q].at # "merge"
    BY <2>2 DEF Staged
  <2>4. QED
    BY <1>3, <2>1, <2>2, <2>3 DEF Staged, ReviewStaged
<1>8. CASE Review(p)
  <2> DEFINE new == [jobs[Item(p)] EXCEPT !.status = "awaiting_review"]
  <2>1. /\ run[p].at = "review" /\ Commit(p, new, "append")
        /\ UNCHANGED <<manifest, merging, candidates>>
    BY <1>8 DEF Review
  <2> HIDE DEF new
  <2>2. run'[p].at \in {"release", "fail", "append"} /\ Item(p)' = Item(p)
    BY <2>1, CommitOutcome
  <2>3. \A i \in Items : jobs'[i] = jobs[i] \/ i = Item(p)
    BY <1>1, <2>1, CommitOutcome
  <2>4. Item(p) \in manifest
    BY <2>1 DEF Staged
  <2>5. QED
    BY <1>3, <2>1, <2>2, <2>3, <2>4 DEF Staged, ReviewStaged
<1>9. CASE AppendCandidate(p)
  <2>1. /\ run[p].at = "append" /\ run'[p].at = "release"
        /\ candidates' = candidates \cup {Item(p)}
        /\ UNCHANGED <<jobs, manifest, merging>>
    BY <1>1, <1>9 DEF AppendCandidate, RunRecords
  <2>2. Item(p) \in manifest
    BY <2>1 DEF Staged
  <2>3. QED
    BY <1>3, <2>1, <2>2 DEF Staged, ReviewStaged
<1>10. QED
  BY <1>4, <1>5, <1>6, <1>7, <1>8, <1>9 DEF Step, Unstaged

\* So do the others' steps: none of them lets a job wait for review.
LEMMA OtherStaged ==
  ASSUME Typed, Staged,
         \/ \E p \in Runs, i \in Items : ProviderEnds(p, i)
         \/ \E i \in Items : Cancel(i) \/ Reconcile(i)
         \/ UNCHANGED vars
  PROVE  Staged'
<1>1. UNCHANGED <<run, manifest, merging, candidates>>
  BY DEF ProviderEnds, Cancel, Reconcile, vars, store
<1>2. \A i \in Items : jobs'[i].status = "awaiting_review" =>
                         jobs[i].status = "awaiting_review"
  <2>1. jobs \in [Items -> JobRecords]
    BY DEF Typed, TypeOK
  <2>2. ASSUME NEW i \in Items, Cancel(i) \/ Reconcile(i)
        PROVE  /\ \A j \in Items \ {i} : jobs'[j] = jobs[j]
               /\ jobs'[i].status \in {"cancelled", "queued"}
    BY <2>1, <2>2 DEF Cancel, Reconcile, JobRecords
  <2>3. (\E p \in Runs, i \in Items : ProviderEnds(p, i)) \/ UNCHANGED vars => jobs' = jobs
    BY DEF ProviderEnds, vars, store
  <2>4. QED
    BY <2>2, <2>3
<1>3. QED
  BY <1>1, <1>2 DEF Staged, ReviewStaged, Item

\* However the merges of several runs interleave and wherever a run is killed, a
\* job waits for review, or has a candidate record, only when its asset is staged:
\* the lock makes the read-modify-write of the shared fragments one step.
THEOREM ReviewedAreStaged == Spec => []ReviewStaged
<1>1. Init => Staged
  BY DEF Init, Staged, ReviewStaged, NoJob, NoRun
<1>2. Typed /\ Staged /\ [Next]_vars => Staged'
  BY StepStaged, OtherStaged DEF Next
<1>3. Staged => ReviewStaged
  BY DEF Staged
<1>4. QED
  BY <1>1, <1>2, <1>3, TypedInvariant, PTL DEF Spec

-----------------------------------------------------------------------------
(* Paid requests *)

\* The run p has reserved the paid job i and not yet sent its request.
Holds(p, i) == run[p].at = "dispatch" /\ Item(p) = i

\* A paid job nobody reserved was never sent; one that is reserved and not sent
\* yet is held by one run.
Billed ==
  \A i \in Hosted :
    /\ sent[i] <= 1
    /\ ledger[i] = "none" => sent[i] = 0
    /\ \A p \in Runs : Holds(p, i) => ledger[i] # "none" /\ sent[i] = 0
    /\ \A p, q \in Runs : Holds(p, i) /\ Holds(q, i) => p = q

\* But for Reserve and Dispatch, no step sends a request, frees a reservation or
\* lets a run hold one.
LEMMA OtherBilled ==
  ASSUME Typed, NEW p \in Runs, Begin(p) \/ Step(p) \/ Kill(p),
         ~Reserve(p), ~Dispatch(p)
  PROVE  /\ sent' = sent
         /\ \A i \in Hosted : ledger'[i] = "none" => ledger[i] = "none"
         /\ \A i \in Hosted : ~(Holds(p, i)')
<1>1. run \in [Runs -> RunRecords] /\ ledger \in [Items -> {"none", "reserved",
                                                            "settled", "unsettled"}]
  BY DEF Typed, TypeOK
<1>2. Hosted \subseteq Items
  BY JobAssumption
<1>3. CASE Begin(p) \/ Decide(p) \/ EndRun(p) \/ ReadLease(p) \/ WriteLease(p) \/ Kill(p)
           \/ Release(p) \/ Stage(p) \/ Merge(p) \/ AppendCandidate(p)
  <2>1. UNCHANGED <<sent, ledger>>
    BY <1>3 DEF Begin, Decide, EndRun, ReadLease, WriteLease, Kill, Release, Stage,
       Merge, AppendCandidate, store
  <2>2. run'[p].at # "dispatch"
    BY <1>1, <1>3, FinishedRun DEF Begin, Decide, EndRun, ReadLease, WriteLease, Kill, Release,
       Stage, Merge, AppendCandidate, At, NextItem, NoRun, RunRecords
  <2>3. QED
    BY <2>1, <2>2 DEF Holds
<1>4. CASE Claim(p)
  <2> DEFINE new == [jobs[Item(p)] EXCEPT !.owner = p,
                       !.status = IF @ = "preparing" THEN @ ELSE "running"]
  <2>1. Commit(p, new, AfterClaim(Item(p))) /\ UNCHANGED <<sent, ledger>>
    BY <1>4 DEF Claim
  <2> HIDE DEF new
  <2>2. run'[p].at \in {"release", "fail", AfterClaim(Item(p))} /\ Item(p)' = Item(p)
    BY <2>1, CommitOutcome
  <2>3. \A i \in Hosted : AfterClaim(i) # "dispatch"
    BY DEF AfterClaim
  <2>4. QED
    BY <2>1, <2>2, <2>3 DEF Holds
<1>5. CASE Prepare(p) \/ Persist(p) \/ Review(p)
  <2>1. UNCHANGED <<sent, ledger>>
    BY <1>5 DEF Prepare, Persist, Review
  <2>2. \E new, step : step \in {"persist", "stage", "append"} /\ Commit(p, new, step)
    BY <1>5 DEF Prepare, Persist, Review
  <2>3. run'[p].at \in {"release", "fail", "persist", "stage", "append"}
    BY <2>2, CommitOutcome
  <2>4. QED
    BY <2>1, <2>3 DEF Holds
<1>6. CASE Answer(p)
  <2>1. run'[p].at \in {"prepare", "fail"}
    BY <1>1, <1>6 DEF Answer, At, Raise, RunRecords
  <2>2. QED
    BY <1>1, <1>2, <1>6, <2>1 DEF Answer, Settle, Holds
<1>7. CASE Fail(p)
  <2>1. run'[p].at \in {"decide", "fail", "aborted"}
    BY <1>1, <1>7 DEF Fail, Raise, NextItem, NoRun, RunRecords
  <2>2. QED
    BY <1>7, <2>1 DEF Fail, Holds
<1>8. QED
  BY <1>3, <1>4, <1>5, <1>6, <1>7 DEF Step

\* A run's steps keep the books.
LEMMA StepBilled ==
  ASSUME Typed, Billed, NEW p \in Runs, Begin(p) \/ Step(p) \/ Kill(p)
  PROVE  Billed'
<1>1. /\ run \in [Runs -> RunRecords] /\ sent \in [Hosted -> 0..2]
      /\ ledger \in [Items -> {"none", "reserved", "settled", "unsettled"}]
  BY DEF Typed, TypeOK
<1>2. \A q \in Runs \ {p}, i \in Hosted : Holds(q, i)' <=> Holds(q, i)
  BY OwnRecord DEF Holds, Item
<1>3. CASE Reserve(p)
  <2>1. sent' = sent
    BY <1>3 DEF Reserve
  <2>2. CASE run' = At(p, "dispatch") /\ ledger[Item(p)] = "none"
             /\ ledger' = [ledger EXCEPT ![Item(p)] = "reserved"]
    <3>1. run'[p].at = "dispatch" /\ Item(p)' = Item(p)
      BY <1>1, <2>2 DEF At, RunRecords, Item
    <3>2. Item(p) \in Items
      BY <1>3, ItemIn DEF Reserve, Steps
    <3>3. \A i \in Hosted : Holds(p, i)' <=> i = Item(p)
      BY <3>1 DEF Holds
    <3>4. QED
      BY <1>1, <1>2, <2>1, <2>2, <3>2, <3>3, JobAssumption DEF Billed
  <2>3. CASE ledger' = ledger /\ run' \in {Raise(p, "unsettled"), Raise(p, "failed")}
    <3>1. run'[p].at = "fail"
      BY <1>1, <2>3 DEF Raise, RunRecords
    <3>2. \A i \in Hosted : ~(Holds(p, i)')
      BY <3>1 DEF Holds
    <3>3. QED
      BY <1>2, <2>1, <2>3, <3>2 DEF Billed
  <2>4. Item(p) \in Items
    BY <1>3, ItemIn DEF Reserve, Steps
  <2>5. QED
    BY <1>1, <1>3, <2>2, <2>3, <2>4 DEF Reserve
<1>4. CASE Dispatch(p)
  <2>1. run[p].at = "dispatch" /\ run'[p].at = "await" /\ ledger' = ledger
    BY <1>1, <1>4 DEF Dispatch, At, RunRecords, store
  <2>2. \A i \in Hosted : ~(Holds(p, i)') /\ (i = Item(p) => Holds(p, i))
    BY <2>1 DEF Holds
  <2>3. sent' = [j \in Hosted |-> IF j = Item(p) /\ sent[j] < 2 THEN sent[j] + 1
                                  ELSE sent[j]]
    BY <1>4 DEF Dispatch
  <2>4. QED
    BY <1>1, <1>2, <2>1, <2>2, <2>3 DEF Billed
<1>5. CASE ~Reserve(p) /\ ~Dispatch(p)
  BY <1>2, <1>5, OtherBilled DEF Billed
<1>6. QED
  BY <1>3, <1>4, <1>5

\* A paid job goes to its provider at most once: neither a crash, a timeout, a
\* lost answer or a reconciliation nor a second run reserves it again.
THEOREM BilledOnce == Spec => []HostedBilledOnce
<1>1. Init => Billed
  BY JobAssumption DEF Init, Billed, Holds, NoRun
<1>2. Typed /\ Billed /\ [Next]_vars => Billed'
  <2> SUFFICES ASSUME Typed, Billed, [Next]_vars PROVE Billed'
    OBVIOUS
  <2>1. ASSUME UNCHANGED <<run, ledger, sent>> PROVE Billed'
    BY <2>1 DEF Billed, Holds, Item
  <2>2. ASSUME \/ \E p \in Runs, i \in Items : ProviderEnds(p, i)
               \/ \E i \in Items : Cancel(i) \/ Reconcile(i)
               \/ UNCHANGED vars
        PROVE  Billed'
    BY <2>1, <2>2 DEF ProviderEnds, Cancel, Reconcile, vars, store
  <2>3. QED
    BY <2>2, StepBilled DEF Next
<1>3. Billed => HostedBilledOnce
  BY DEF Billed, HostedBilledOnce
<1>4. QED
  BY <1>1, <1>2, <1>3, TypedInvariant, PTL DEF Spec

-----------------------------------------------------------------------------
(* Cancellation and recovery *)

\* But for Fail, a step of a run leaves the job records alone or commits one.
LEMMA StepCommits ==
  ASSUME NEW p \in Runs, Begin(p) \/ Step(p) \/ Kill(p), ~Fail(p)
  PROVE  jobs' = jobs \/ \E new, step : Commit(p, new, step)
  BY DEF Begin, Step, Kill, Decide, EndRun, ReadLease, WriteLease, Claim, Reserve,
         Dispatch, Answer, Prepare, Persist, Stage, Merge, Review, AppendCandidate,
         Release, store

\* A cancellation wins: whatever a run had read before, it brings no cancelled job
\* back, for it commits to the record there is now.
THEOREM CancellationsHold == Spec => CancelledStays
<1> DEFINE Stays == \A i \in Items :
                      jobs[i].status = "cancelled" => jobs'[i].status = "cancelled"
<1>1. Typed /\ [Next]_vars => [Stays]_vars
  <2> SUFFICES ASSUME Typed, Next PROVE Stays
    OBVIOUS
  <2>1. jobs \in [Items -> JobRecords]
    BY DEF Typed, TypeOK
  <2>2. ASSUME NEW p \in Runs, NEW new, NEW step, Commit(p, new, step) PROVE Stays
    BY <2>1, <2>2, CommitOutcome
  <2>3. ASSUME NEW p \in Runs, Fail(p) PROVE Stays
    <3>1. Item(p) \in Items
      BY <2>3, ItemIn DEF Fail, Steps
    <3>2. QED
      BY <2>1, <2>3, <3>1 DEF Fail
  <2>4. ASSUME NEW i \in Items, Cancel(i) PROVE Stays
    BY <2>1, <2>4 DEF Cancel, JobRecords
  <2>5. ASSUME NEW i \in Items, Reconcile(i) PROVE Stays
    BY <2>1, <2>5 DEF Reconcile
  <2>6. ASSUME NEW p \in Runs, NEW i \in Items, ProviderEnds(p, i) PROVE Stays
    BY <2>6 DEF ProviderEnds, store
  <2>7. ASSUME NEW p \in Runs, Begin(p) \/ Step(p) \/ Kill(p) PROVE Stays
    BY <2>2, <2>3, <2>7, StepCommits
  <2>8. QED
    BY <2>4, <2>5, <2>6, <2>7 DEF Next
<1>2. QED
  BY <1>1, TypedInvariant, PTL DEF Spec, CancelledStays

\* As long as runs have not overlapped, at most one is alive, and it is not about
\* to generate what is durable already.
Alone ==
  solo =>
    /\ \A p, q \in Runs : Alive(p) /\ Alive(q) => p = q
    /\ \A p \in Runs : run[p].at \in {"reserve", "dispatch"} => ~jobs[Item(p)].raw

\* Only the claim and the reservation lead a run there, and only with a job that
\* is not durable.
LEMMA StepAlone ==
  ASSUME Typed, Alone, NEW p \in Runs, Step(p), solo
  PROVE  run'[p].at \in {"reserve", "dispatch"} => ~(jobs[Item(p)].raw)'
<1>1. run \in [Runs -> RunRecords] /\ jobs \in [Items -> JobRecords]
  BY DEF Typed, TypeOK
<1>2. CASE Claim(p)
  <2> DEFINE new == [jobs[Item(p)] EXCEPT !.owner = p,
                       !.status = IF @ = "preparing" THEN @ ELSE "running"]
  <2>1. Commit(p, new, AfterClaim(Item(p)))
    BY <1>2 DEF Claim
  <2>2. Item(p) \in Items
    BY <1>2, ItemIn DEF Claim, Steps
  <2>3. new.raw = jobs[Item(p)].raw
    BY <1>1, <2>2 DEF JobRecords
  <2> HIDE DEF new
  <2>4. /\ Item(p)' = Item(p)
        /\ \/ run'[p].at \in {"release", "fail"}
           \/ run'[p].at = AfterClaim(Item(p)) /\ jobs' = [jobs EXCEPT ![Item(p)] = new]
    BY <2>1, CommitOutcome
  <2>5. jobs[Item(p)].raw => AfterClaim(Item(p)) = "prepare"
    BY DEF AfterClaim
  <2>6. CASE run'[p].at = AfterClaim(Item(p)) /\ jobs' = [jobs EXCEPT ![Item(p)] = new]
    <3>1. jobs'[Item(p)] = new
      BY <1>1, <2>2, <2>6
    <3>2. QED
      BY <2>3, <2>4, <2>5, <2>6, <3>1
  <2>7. QED
    BY <2>4, <2>6
<1>3. CASE Reserve(p)
  <2>1. run' \in {At(p, "dispatch"), Raise(p, "unsettled"), Raise(p, "failed")}
        /\ jobs' = jobs /\ run[p].at = "reserve"
    BY <1>3 DEF Reserve
  <2>2. Item(p)' = Item(p)
    BY <1>1, <2>1 DEF At, Raise, RunRecords, Item
  <2>3. QED
    BY <2>1, <2>2 DEF Alone
<1>4. CASE Prepare(p) \/ Persist(p) \/ Review(p)
  <2>1. \E new, step : step \in {"persist", "stage", "append"} /\ Commit(p, new, step)
    BY <1>4 DEF Prepare, Persist, Review
  <2>2. QED
    BY <2>1, CommitOutcome
<1>5. CASE Decide(p) \/ EndRun(p) \/ ReadLease(p) \/ WriteLease(p) \/ Dispatch(p)
           \/ Answer(p) \/ Stage(p) \/ Merge(p) \/ AppendCandidate(p) \/ Fail(p)
           \/ Release(p)
  <2>1. /\ NextItem(p)[p].at = "decide" /\ At(p, "read_lease")[p].at = "read_lease"
        /\ At(p, "write_lease")[p].at = "write_lease" /\ At(p, "claim")[p].at = "claim"
    BY <1>1 DEF NextItem, At, RunRecords
  <2>6. ASSUME Decide(p) \/ ReadLease(p) \/ WriteLease(p) \/ Release(p)
        PROVE  run'[p].at # "reserve" /\ run'[p].at # "dispatch"
    BY <2>1, <2>6 DEF Decide, ReadLease, WriteLease, Release
  <2>7. ASSUME EndRun(p) PROVE run'[p].at # "reserve" /\ run'[p].at # "dispatch"
    BY <1>1, <2>7, FinishedRun DEF EndRun
  <2>2. ASSUME Stage(p) \/ Merge(p) \/ AppendCandidate(p)
        PROVE  run'[p].at # "reserve" /\ run'[p].at # "dispatch"
    BY <1>1, <2>2 DEF Stage, Merge, AppendCandidate, RunRecords
  <2>3. ASSUME Dispatch(p) \/ Answer(p)
        PROVE  run'[p].at \in {"await", "prepare", "fail"}
    BY <1>1, <2>3 DEF Dispatch, Answer, At, Raise, RunRecords
  <2>4. ASSUME Fail(p) PROVE run'[p].at \in {"decide", "fail", "aborted"}
    BY <1>1, <2>4 DEF Fail, Raise, NextItem, NoRun, RunRecords
  <2>5. QED
    BY <1>5, <2>2, <2>3, <2>4, <2>6, <2>7
<1>6. QED
  BY <1>2, <1>3, <1>4, <1>5 DEF Step

\* Every step keeps Alone.
LEMMA NextAlone ==
  ASSUME Typed, Alone, [Next]_vars
  PROVE  Alone'
<1>1. run \in [Runs -> RunRecords] /\ jobs \in [Items -> JobRecords]
  BY DEF Typed, TypeOK
<1>2. ASSUME NEW p \in Runs, Step(p) PROVE Alone'
  <2> SUFFICES ASSUME solo' PROVE Alone'
    BY DEF Alone
  <2>1. solo /\ Alive(p)
    BY <1>2 DEF Step, Decide, EndRun, ReadLease, WriteLease, Claim, Reserve, Dispatch,
       Answer, Prepare, Persist, Stage, Merge, Review, AppendCandidate, Fail, Release,
       Alive, Ends
  <2>2. \A q \in Runs \ {p} : ~Alive(q)
    BY <2>1 DEF Alone
  <2>3. \A q \in Runs \ {p} : ~(Alive(q)') /\ run'[q].at \notin {"reserve", "dispatch"}
    BY <1>2, <2>2, OwnRecord DEF Alive, Ends
  <2>4. run'[p].at \in {"reserve", "dispatch"} => ~(jobs[Item(p)].raw)'
    BY <1>2, <2>1, StepAlone
  <2>5. QED
    BY <2>3, <2>4 DEF Alone
<1>3. ASSUME NEW p \in Runs, Begin(p) PROVE Alone'
  <2> SUFFICES ASSUME solo' PROVE Alone'
    BY DEF Alone
  <2>1. \A q \in Runs : ~Alive(q)
    BY <1>3 DEF Begin
  <2>2. \A q \in Runs \ {p} : ~(Alive(q)') /\ run'[q].at \notin {"reserve", "dispatch"}
    BY <1>3, <2>1, OwnRecord DEF Alive, Ends
  <2>3. run'[p].at = "decide"
    BY <1>1, <1>3 DEF Begin, RunRecords
  <2>4. QED
    BY <2>2, <2>3 DEF Alone
<1>4. ASSUME NEW p \in Runs, Kill(p) PROVE Alone'
  <2>1. run'[p].at = "killed" /\ UNCHANGED <<jobs, solo>>
    BY <1>1, <1>4 DEF Kill, NoRun
  <2>2. \A q \in Runs \ {p} : run'[q] = run[q] /\ Item(q)' = Item(q)
    BY <1>4, OwnRecord DEF Item
  <2>3. QED
    BY <2>1, <2>2 DEF Alone, Alive, Ends
<1>5. ASSUME NEW i \in Items, Cancel(i) \/ Reconcile(i) PROVE Alone'
  <2>1. UNCHANGED <<run, solo>>
    BY <1>5 DEF Cancel, Reconcile
  <2>2. \A j \in Items : jobs'[j].raw = jobs[j].raw
    BY <1>1, <1>5 DEF Cancel, Reconcile, JobRecords
  <2>3. \A p \in Runs : run[p].at \in {"reserve", "dispatch"} => Item(p) \in Items
    BY ItemIn DEF Steps
  <2>4. QED
    BY <2>1, <2>2, <2>3 DEF Alone, Alive, Item
<1>6. ASSUME UNCHANGED <<run, jobs, solo>> PROVE Alone'
  BY <1>6 DEF Alone, Alive, Item
<1>7. QED
  BY <1>2, <1>3, <1>4, <1>5, <1>6 DEF Next, ProviderEnds, vars, store

\* As long as runs have not overlapped, no request goes out for a job whose raw
\* bytes are durable, wherever earlier runs were killed.
THEOREM RawBytesReused == Spec => RawReused
<1> DEFINE Reused == solo => \A p \in Runs, i \in Items :
                               <<p, i>> \in computing' \ computing => ~jobs[i].raw
<1>1. Init => Alone
  BY DEF Init, Alone, Alive, NoRun, Ends
<1>2. Typed /\ Alone /\ [Next]_vars => [Reused]_vars
  <2> SUFFICES ASSUME Typed, Alone, Next PROVE Reused
    OBVIOUS
  <2>1. ASSUME NEW q \in Runs, Dispatch(q) PROVE Reused
    BY <2>1 DEF Dispatch, Alone
  <2>2. ASSUME \A q \in Runs : ~Dispatch(q) PROVE computing' \subseteq computing
    BY <2>2 DEF Next, Begin, Step, Kill, Decide, EndRun, ReadLease, WriteLease, Claim,
       Reserve, Answer, Prepare, Persist, Stage, Merge, Review, AppendCandidate, Fail,
       Release, ProviderEnds, Cancel, Reconcile
  <2>3. QED
    BY <2>1, <2>2
<1>3. QED
  BY <1>1, <1>2, NextAlone, TypedInvariant, PTL DEF Spec, RawReused

-----------------------------------------------------------------------------
(* What a run leaves behind *)

\* The run p will still come to every job that is claimed, or has no budget left
\* for it; it knows the claims it has not touched as they are; and it lets go of
\* none it holds.
Onward(p) ==
  \A i \in Items : jobs[i].status \in Claimed =>
    /\ \/ i \in Hosted /\ run[p].spent >= Ceiling
       \/ \E n \in run[p].next..Len(Plan) : Plan[n] = i
    /\ \/ run[p].known[i] \in {jobs[i], NoJob}
       \/ run[p].at # "decide" /\ Item(p) = i
    /\ run[p].at \in {"append", "release"} => Item(p) # i

\* Runs begin in order and at the beginning of the plan; as long as they have not
\* overlapped, those before the last one are over and the one that is alive goes on
\* as it should.
Settling ==
  /\ \A p \in Runs : run[p].at = "none" => run[p].next = 1
  /\ \A p, q \in Runs : q < p /\ run[p].at # "none" => run[q].at # "none"
  /\ solo => /\ \A p, q \in Runs : q < p /\ run[p].at # "none" => ~Alive(q)
             /\ \A p \in Runs : Alive(p) => Onward(p)
  /\ SoloSettles

\* A run that stays at its item is on its way if it does not leave it claimed.
LEMMA OnwardHere ==
  ASSUME Typed, NEW p \in Runs, Onward(p), run[p].next <= Len(Plan),
         run'[p].next = run[p].next, run'[p].known = run[p].known,
         run[p].spent <= run'[p].spent, run'[p].spent \in Nat,
         run'[p].at # "decide",
         \A i \in Items : i # Item(p) => jobs'[i] = jobs[i],
         run'[p].at \in {"append", "release"} => jobs'[Item(p)].status \notin Claimed
  PROVE  Onward(p)'
<1>1. Item(p)' = Item(p)
  BY DEF Item
<1>2. run[p].next \in 1..Len(Plan) /\ run[p].spent \in Nat /\ Ceiling \in Nat
  BY JobAssumption DEF Typed, TypeOK, RunRecords
<1> SUFFICES ASSUME NEW i \in Items, jobs'[i].status \in Claimed
             PROVE  /\ \/ i \in Hosted /\ run'[p].spent >= Ceiling
                       \/ \E n \in run'[p].next..Len(Plan) : Plan[n] = i
                    /\ \/ run'[p].known[i] \in {jobs'[i], NoJob}
                       \/ run'[p].at # "decide" /\ Item(p)' = i
                    /\ run'[p].at \in {"append", "release"} => Item(p)' # i
  BY DEF Onward, Claimed
<1>3. CASE i = Item(p)
  <2>1. run[p].next \in run'[p].next..Len(Plan) /\ Plan[run[p].next] = i
    BY <1>2, <1>3 DEF Item
  <2>2. QED
    BY <1>1, <1>3, <2>1
<1>4. CASE i # Item(p)
  <2>1. /\ \/ i \in Hosted /\ run[p].spent >= Ceiling
           \/ \E n \in run[p].next..Len(Plan) : Plan[n] = i
        /\ run[p].known[i] \in {jobs[i], NoJob}
    BY <1>4 DEF Onward
  <2>2. i \in Hosted /\ run[p].spent >= Ceiling => run'[p].spent >= Ceiling
    BY <1>2
  <2>3. QED
    BY <1>1, <1>4, <2>1, <2>2
<1>5. QED
  BY <1>3, <1>4

\* So is one that goes on to the next.
LEMMA OnwardNext ==
  ASSUME Typed, NEW p \in Runs, Onward(p), run[p].next <= Len(Plan),
         run' = NextItem(p),
         \A i \in Items : i # Item(p) => jobs'[i] = jobs[i],
         jobs'[Item(p)].status \in Claimed =>
           Item(p) \in Hosted /\ run[p].spent >= Ceiling
  PROVE  Onward(p)'
<1>1. run[p].next \in 1..Len(Plan) /\ run \in [Runs -> RunRecords]
      /\ run[p] \in RunRecords
  BY JobAssumption DEF Typed, TypeOK, RunRecords
<1>2. Item(p) \in Items
  BY <1>1, JobAssumption, ElementOfSeq DEF Item
<1>3. /\ run'[p].next = run[p].next + 1 /\ run'[p].at = "decide"
      /\ run'[p].spent = run[p].spent
      /\ run'[p].known = [run[p].known EXCEPT ![Item(p)] = NoJob]
  BY <1>1 DEF NextItem, RunRecords
<1>4. run'[p].known[Item(p)] = NoJob
      /\ \A i \in Items : i # Item(p) => run'[p].known[i] = run[p].known[i]
  BY <1>1, <1>2, <1>3 DEF RunRecords
<1> SUFFICES ASSUME NEW i \in Items, jobs'[i].status \in Claimed
             PROVE  /\ \/ i \in Hosted /\ run'[p].spent >= Ceiling
                       \/ \E n \in run'[p].next..Len(Plan) : Plan[n] = i
                    /\ run'[p].known[i] \in {jobs'[i], NoJob}
  BY <1>3 DEF Onward, Claimed
<1>5. CASE i = Item(p)
  BY <1>3, <1>4, <1>5
<1>6. CASE i # Item(p)
  <2>1. /\ \/ i \in Hosted /\ run[p].spent >= Ceiling
           \/ \E n \in run[p].next..Len(Plan) : Plan[n] = i
        /\ run[p].known[i] \in {jobs[i], NoJob}
    BY <1>6 DEF Onward
  <2>2. ASSUME NEW n \in run[p].next..Len(Plan), Plan[n] = i
        PROVE  n \in run'[p].next..Len(Plan)
    <3>1. n # run[p].next
      BY <1>6, <2>2 DEF Item
    <3>2. QED
      BY <1>1, <1>3, <2>2, <3>1, JobAssumption, LenProperties
  <2>3. QED
    BY <1>3, <1>4, <1>6, <2>1, <2>2
<1>7. QED
  BY <1>5, <1>6

\* A commit lets go of the item only when it is not claimed any more.
LEMMA CommitOnward ==
  ASSUME Typed, NEW p \in Runs, Onward(p), run[p].at \in Steps \ {"decide"},
         NEW new, NEW step, Commit(p, new, step), step # "decide",
         step \in {"append", "release"} => new.status \notin Claimed
  PROVE  Onward(p)'
<1>1. run \in [Runs -> RunRecords] /\ run[p] \in RunRecords
      /\ jobs \in [Items -> JobRecords] /\ run[p].next <= Len(Plan)
  BY DEF Typed, TypeOK, Placed
<1>2. Item(p) \in Items
  BY ItemIn
<1>3. ASSUME NEW at
      PROVE  /\ At(p, at)[p].at = at /\ At(p, at)[p].next = run[p].next
             /\ At(p, at)[p].known = run[p].known /\ At(p, at)[p].spent = run[p].spent
  BY <1>1 DEF At, RunRecords
<1>4. /\ Raise(p, "failed")[p].at = "fail" /\ Raise(p, "failed")[p].next = run[p].next
      /\ Raise(p, "failed")[p].known = run[p].known
      /\ Raise(p, "failed")[p].spent = run[p].spent
  BY <1>1 DEF Raise, RunRecords
<1>5. run[p].spent <= run[p].spent /\ run[p].spent \in Nat
  BY <1>1 DEF RunRecords
<1>6. CASE run' = At(p, "release") /\ jobs' = jobs /\ jobs[Item(p)].status = "cancelled"
  BY <1>1, <1>3, <1>5, <1>6, OnwardHere DEF Claimed
<1>7. CASE run' = Raise(p, "failed") /\ jobs' = jobs
  BY <1>1, <1>4, <1>5, <1>7, OnwardHere
<1>8. CASE run' = At(p, step) /\ jobs' = [jobs EXCEPT ![Item(p)] = new]
  <2>1. jobs'[Item(p)] = new /\ \A i \in Items : i # Item(p) => jobs'[i] = jobs[i]
    BY <1>1, <1>2, <1>8
  <2>2. QED
    BY <1>1, <1>3, <1>5, <1>8, <2>1, OnwardHere
<1>9. QED
  BY <1>6, <1>7, <1>8 DEF Commit

\* The run that is alive alone stays on its way.
LEMMA StepOnward ==
  ASSUME Typed, NEW p \in Runs, Onward(p), \A q \in Runs : Alive(q) => q = p,
         Step(p), run'[p].at \notin Ends
  PROVE  Onward(p)'
<1>1. run \in [Runs -> RunRecords] /\ run[p] \in RunRecords
      /\ jobs \in [Items -> JobRecords]
  BY DEF Typed, TypeOK
<1>2. run[p].at \in Steps \ {"decide"} => run[p].next <= Len(Plan) /\ Item(p) \in Items
  BY ItemIn DEF Typed, Placed
<1>3. run[p].spent <= run[p].spent /\ run[p].spent \in Nat
  BY <1>1 DEF RunRecords
<1>4. ASSUME NEW at
      PROVE  /\ At(p, at)[p].at = at /\ At(p, at)[p].next = run[p].next
             /\ At(p, at)[p].known = run[p].known /\ At(p, at)[p].spent = run[p].spent
  BY <1>1 DEF At, RunRecords
<1>5. ASSUME NEW error
      PROVE  /\ Raise(p, error)[p].at = "fail" /\ Raise(p, error)[p].next = run[p].next
             /\ Raise(p, error)[p].known = run[p].known
             /\ Raise(p, error)[p].spent = run[p].spent
  BY <1>1 DEF Raise, RunRecords
<1>6. CASE Decide(p)
  <2>1. run[p].at = "decide" /\ run[p].next <= Len(Plan) /\ jobs' = jobs
    BY <1>6 DEF Decide, store
  <2>2. CASE run' = At(p, "read_lease")
    BY <1>3, <1>4, <2>1, <2>2, OnwardHere
  <2>3. CASE run' = NextItem(p) /\ run' # At(p, "read_lease")
    <3>1. ASSUME jobs[Item(p)].status \in Claimed
          PROVE  Item(p) \in Hosted /\ run[p].spent >= Ceiling
      <4> DEFINE record == run[p].known[Item(p)]
      <4>1. Item(p) \in Items
        BY <1>1, <2>1, JobAssumption, ElementOfSeq DEF Item, RunRecords
      <4>2. record \in {jobs[Item(p)], NoJob}
        BY <2>1, <3>1, <4>1 DEF Onward
      <4>3. record.status \in Claimed \/ record.status = "none"
        BY <3>1, <4>2 DEF NoJob
      <4>4. record.owner \in Runs \cup {Free}
        BY <1>1, <4>1, <4>2 DEF JobRecords, NoJob, Free
      <4>5. ~Taken(p, record) /\ record.status \notin {"awaiting_review", "cancelled"}
        BY <4>3, <4>4 DEF Taken, Claimed, Alive
      <4>6. Item(p) \in Hosted /\ run[p].spent + 1 > Ceiling
        BY <1>6, <2>3, <4>5 DEF Decide
      <4>7. QED
        BY <1>3, <4>6, JobAssumption
    <3>2. QED
      BY <2>1, <2>3, <3>1, OnwardNext
  <2>4. QED
    BY <1>6, <2>2, <2>3 DEF Decide
<1>7. CASE EndRun(p)
  BY <1>1, <1>7, FinishedRun DEF EndRun, Ends
<1>8. CASE ReadLease(p)
  <2>1. ~(lease[Group[Item(p)]] # p /\ Alive(lease[Group[Item(p)]]))
    BY DEF Alive
  <2>2. run[p].at = "read_lease" /\ run' = At(p, "write_lease") /\ jobs' = jobs
    BY <1>8, <2>1 DEF ReadLease, store
  <2>3. run[p].at \in Steps \ {"decide"}
    BY <2>2 DEF Steps
  <2>4. QED
    BY <1>2, <1>3, <1>4, <2>2, <2>3, OnwardHere
<1>9. CASE WriteLease(p) \/ Dispatch(p)
  <2>1. \E at \in {"claim", "await"} : run' = At(p, at) /\ jobs' = jobs
    BY <1>9 DEF WriteLease, Dispatch, store
  <2>2. run[p].at \in Steps \ {"decide"}
    BY <1>9 DEF WriteLease, Dispatch, Steps
  <2>3. QED
    BY <1>2, <1>3, <1>4, <2>1, <2>2, OnwardHere
<1>10. CASE Reserve(p) \/ Answer(p)
  <2>1. /\ jobs' = jobs
        /\ \/ \E at \in {"dispatch", "prepare"} : run' = At(p, at)
           \/ \E error \in Errors : run' = Raise(p, error)
    BY <1>10 DEF Reserve, Answer, Errors
  <2>2. run[p].at \in Steps \ {"decide"}
    BY <1>10 DEF Reserve, Answer, Steps
  <2>3. CASE \E at \in {"dispatch", "prepare"} : run' = At(p, at)
    BY <1>2, <1>3, <1>4, <2>1, <2>2, <2>3, OnwardHere
  <2>4. CASE \E error \in Errors : run' = Raise(p, error)
    BY <1>2, <1>3, <1>5, <2>1, <2>2, <2>4, OnwardHere
  <2>5. QED
    BY <2>1, <2>3, <2>4
<1>11. CASE Claim(p)
  <2>1. AfterClaim(Item(p)) \in {"prepare", "reserve", "dispatch"}
    BY DEF AfterClaim
  <2>2. run[p].at \in Steps \ {"decide"}
    BY <1>11 DEF Claim, Steps
  <2>3. \E new : Commit(p, new, AfterClaim(Item(p)))
    BY <1>11 DEF Claim
  <2>4. QED
    BY <2>1, <2>2, <2>3, CommitOnward
<1>12. CASE Prepare(p) \/ Persist(p)
  <2>1. run[p].at \in Steps \ {"decide"}
    BY <1>12 DEF Prepare, Persist, Steps
  <2>2. \E new, step : step \in {"persist", "stage"} /\ Commit(p, new, step)
    BY <1>12 DEF Prepare, Persist
  <2>3. QED
    BY <2>1, <2>2, CommitOnward
<1>13. CASE Review(p)
  <2> DEFINE new == [jobs[Item(p)] EXCEPT !.status = "awaiting_review"]
  <2>1. run[p].at \in Steps \ {"decide"}
    BY <1>13 DEF Review, Steps
  <2>2. new.status = "awaiting_review"
    BY <1>1, <1>2, <2>1 DEF JobRecords
  <2>3. Commit(p, new, "append")
    BY <1>13 DEF Review
  <2> HIDE DEF new
  <2>4. QED
    BY <2>1, <2>2, <2>3, CommitOnward DEF Claimed
<1>14. CASE Stage(p) \/ Merge(p)
  <2>1. run[p].at \in Steps \ {"decide"} /\ jobs' = jobs
    BY <1>14 DEF Stage, Merge, Steps
  <2>2. /\ run'[p].at \in {"merge", "review"} /\ run'[p].next = run[p].next
        /\ run'[p].known = run[p].known /\ run'[p].spent = run[p].spent
    BY <1>1, <1>14 DEF Stage, Merge, RunRecords
  <2>3. QED
    BY <1>2, <1>3, <2>1, <2>2, OnwardHere
<1>15. CASE AppendCandidate(p)
  <2>1. run[p].at = "append" /\ run[p].at \in Steps \ {"decide"} /\ jobs' = jobs
    BY <1>15 DEF AppendCandidate, Steps
  <2>2. /\ run'[p].at = "release" /\ run'[p].next = run[p].next
        /\ run'[p].known = run[p].known
        /\ run'[p].spent \in {run[p].spent, run[p].spent + 1}
    BY <1>1, <1>15 DEF AppendCandidate, RunRecords
  <2>3. run[p].spent <= run'[p].spent /\ run'[p].spent \in Nat
    BY <1>3, <2>2
  <2>4. jobs'[Item(p)].status \notin Claimed
    BY <1>2, <2>1 DEF Onward
  <2>5. QED
    BY <1>2, <2>1, <2>2, <2>3, <2>4, OnwardHere
<1>16. CASE Fail(p)
  <2>1. run[p].at \in Steps \ {"decide"}
    BY <1>16 DEF Fail, Steps
  <2>2. CASE run' = NextItem(p)
             /\ jobs' = IF jobs[Item(p)].status = "cancelled" THEN jobs
                        ELSE [jobs EXCEPT ![Item(p)].status = Outcome(run[p].error)]
    <3>1. jobs'[Item(p)].status \in {"cancelled", "failed", "reconciliation_required"}
          /\ \A i \in Items : i # Item(p) => jobs'[i] = jobs[i]
      BY <1>1, <1>2, <2>1, <2>2 DEF Outcome, JobRecords
    <3>2. QED
      BY <1>2, <2>1, <2>2, <3>1, OnwardNext DEF Claimed
  <2>3. CASE run' = Raise(p, "failed") /\ jobs' = jobs
    BY <1>2, <1>3, <1>5, <2>1, <2>3, OnwardHere
  <2>4. CASE run' = [run EXCEPT ![p] = [NoRun EXCEPT !.at = "aborted"]]
    BY <1>1, <2>4 DEF NoRun, Ends
  <2>5. QED
    BY <1>16, <2>2, <2>3, <2>4 DEF Fail
<1>17. CASE Release(p)
  <2>1. run[p].at = "release" /\ run[p].at \in Steps \ {"decide"} /\ jobs' = jobs
        /\ run' = NextItem(p)
    BY <1>17 DEF Release, Steps
  <2>2. jobs'[Item(p)].status \notin Claimed
    BY <1>2, <2>1 DEF Onward
  <2>3. QED
    BY <1>2, <2>1, <2>2, OnwardNext
<1>18. QED
  BY <1>6, <1>7, <1>8, <1>9, <1>10, <1>11, <1>12, <1>13, <1>14, <1>15, <1>16, <1>17
     DEF Step

\* A step of a run is one of a run alive, which it ends only at the end of its plan.
LEMMA StepAlive ==
  ASSUME Typed, NEW p \in Runs, Step(p)
  PROVE  /\ Alive(p) /\ solo' = solo /\ run'[p].at # "none"
         /\ run'[p].at = "done" => EndRun(p)
<1>1. run \in [Runs -> RunRecords]
  BY DEF Typed, TypeOK
<1>2. Alive(p) /\ solo' = solo
  BY DEF Step, Decide, EndRun, ReadLease, WriteLease, Claim, Reserve, Dispatch, Answer,
     Prepare, Persist, Stage, Merge, Review, AppendCandidate, Fail, Release, Alive, Ends
<1>3. ASSUME EndRun(p) PROVE run'[p].at # "none"
  BY <1>1, <1>3, FinishedRun DEF EndRun
<1>4. ASSUME Claim(p) \/ Prepare(p) \/ Persist(p) \/ Review(p)
      PROVE  run'[p].at # "none" /\ run'[p].at # "done"
  <2>1. \E new, step : /\ step \in {"prepare", "reserve", "dispatch", "persist", "stage",
                                    "append"}
                       /\ Commit(p, new, step)
    BY <1>4 DEF Claim, Prepare, Persist, Review, AfterClaim
  <2>2. QED
    BY <2>1, CommitOutcome
<1>5. ASSUME Decide(p) \/ ReadLease(p) \/ WriteLease(p) \/ Reserve(p) \/ Dispatch(p)
             \/ Answer(p) \/ Release(p)
      PROVE  run'[p].at # "none" /\ run'[p].at # "done"
  BY <1>1, <1>5 DEF Decide, ReadLease, WriteLease, Reserve, Dispatch, Answer, Release,
     At, Raise, NextItem, RunRecords
<1>6. ASSUME Stage(p) \/ Merge(p) \/ AppendCandidate(p)
      PROVE  run'[p].at # "none" /\ run'[p].at # "done"
  BY <1>1, <1>6 DEF Stage, Merge, AppendCandidate, RunRecords
<1>7. ASSUME Fail(p)
      PROVE  run'[p].at # "none" /\ run'[p].at # "done"
  BY <1>1, <1>7 DEF Fail, Raise, NextItem, NoRun, RunRecords
<1>8. QED
  BY <1>2, <1>3, <1>4, <1>5, <1>6, <1>7 DEF Step

\* Every step keeps Settling: a step of the run alive,
LEMMA StepSettling ==
  ASSUME Typed, Alone, Settling, Typed', NEW r \in Runs, Step(r)
  PROVE  Settling'
<1>1. /\ Alive(r) /\ solo' = solo /\ run'[r].at # "none"
      /\ run'[r].at = "done" => EndRun(r)
  BY StepAlive
<1>2. \A q \in Runs \ {r} : run'[q] = run[q]
  BY OwnRecord
<1>3. \A q \in Runs : q # r => (Alive(q)' <=> Alive(q))
  BY <1>2 DEF Alive, Ends
<1>4. run[r].at # "none"
  BY <1>1 DEF Alive, Ends
<1>5. \A p \in Runs : run'[p].at = "none" => run'[p].next = 1
  BY <1>1, <1>2 DEF Settling
<1>6. \A p, q \in Runs : q < p /\ run'[p].at # "none" => run'[q].at # "none"
  BY <1>1, <1>2, <1>4 DEF Settling
<1>7. ASSUME solo
      PROVE  \A p, q \in Runs : q < p /\ run'[p].at # "none" => ~Alive(q)'
  <2> SUFFICES ASSUME NEW p \in Runs, NEW q \in Runs, q < p, run'[p].at # "none"
               PROVE  ~Alive(q)'
    OBVIOUS
  <2>1. run[p].at # "none" /\ ~Alive(q)
    BY <1>2, <1>4, <1>7 DEF Settling
  <2>2. QED
    BY <1>1, <1>3, <2>1
<1>8. ASSUME solo, NEW p \in Runs, Alive(p)' PROVE Onward(p)'
  <2>1. p = r /\ \A q \in Runs : Alive(q) => q = r
    BY <1>1, <1>3, <1>8 DEF Alone
  <2>2. Onward(r) /\ run'[r].at \notin Ends
    BY <1>1, <1>8, <2>1 DEF Settling, Alive, Ends
  <2>3. QED
    BY <2>1, <2>2, StepOnward
<1>9. SoloSettles'
  <2> SUFFICES ASSUME NEW p \in Runs, solo, run'[p].at = "done",
                      \A q \in Runs : q > p => run'[q].at = "none",
                      NEW i \in Items, jobs'[i].status \in Claimed
               PROVE  i \in Hosted /\ run'[p].spent >= Ceiling
    BY <1>1 DEF SoloSettles, Claimed
  <2>1. CASE p = r
    <3>1. EndRun(r)
      BY <1>1, <2>1
    <3>2. jobs' = jobs /\ run'[r] = Finished(r) /\ run[r].next > Len(Plan)
      BY <3>1 DEF EndRun, store, Typed, TypeOK
    <3>3. run'[r].spent = run[r].spent
      BY <3>2 DEF Finished, NoRun
    <3>4. Onward(r)
      BY <1>1 DEF Settling
    <3>5. run[r].next \in Nat /\ Len(Plan) \in Nat
      BY JobAssumption, LenProperties DEF Typed, TypeOK, RunRecords
    <3>6. ~(\E n \in run[r].next..Len(Plan) : Plan[n] = i)
      BY <3>2, <3>5
    <3>7. QED
      BY <2>1, <3>2, <3>3, <3>4, <3>6 DEF Onward
  <2>2. CASE p # r
    <3>1. run[p].at = "done" /\ ~(r > p)
      BY <1>1, <1>2, <2>2
    <3>2. r < p
      BY <2>2, <3>1 DEF Runs
    <3>3. QED
      BY <1>1, <3>1, <3>2 DEF Settling
  <2>3. QED
    BY <2>1, <2>2
<1>10. QED
  BY <1>1, <1>5, <1>6, <1>7, <1>8, <1>9 DEF Settling

\* the beginning or the death of a run,
LEMMA LifeSettling ==
  ASSUME Typed, Alone, Settling, NEW r \in Runs, Begin(r) \/ Kill(r)
  PROVE  Settling'
<1>1. run \in [Runs -> RunRecords] /\ jobs \in [Items -> JobRecords]
  BY DEF Typed, TypeOK
<1>2. \A q \in Runs \ {r} : run'[q] = run[q]
  BY OwnRecord
<1>3. jobs' = jobs
  BY DEF Begin, Kill, store
<1>4. \A q \in Runs : q # r => (Alive(q)' <=> Alive(q))
  BY <1>2 DEF Alive, Ends
<1>5. run'[r].at \in {"decide", "killed"}
  BY <1>1 DEF Begin, Kill, NoRun, RunRecords
<1>6. CASE Begin(r)
  <2>1. /\ run[r].at = "none" /\ \A q \in Runs : q < r => run[q].at # "none"
        /\ run'[r].at = "decide" /\ run'[r].next = run[r].next /\ run'[r].known = jobs
    BY <1>1, <1>6 DEF Begin, RunRecords
  <2>2. solo' => solo /\ \A q \in Runs : ~Alive(q)
    BY <1>6 DEF Begin
  <2>3. \A p, q \in Runs : q < p /\ run'[p].at # "none" => run'[q].at # "none"
    BY <1>2, <2>1 DEF Settling
  <2>4. ASSUME solo', NEW p \in Runs, NEW q \in Runs, q < p, run'[p].at # "none"
        PROVE  ~Alive(q)'
    <3>1. CASE q = r
      BY <1>2, <2>1, <2>4, <3>1 DEF Settling, Runs
    <3>2. CASE q # r
      BY <1>4, <2>2, <2>4, <3>2
    <3>3. QED
      BY <3>1, <3>2
  <2>5. ASSUME solo', NEW p \in Runs, Alive(p)' PROVE Onward(p)'
    <3>1. p = r
      BY <1>4, <2>2, <2>5
    <3>2. run'[r].next = 1
      BY <2>1 DEF Settling
    <3>3. QED
      BY <1>3, <2>1, <3>1, <3>2, JobAssumption DEF Onward
  <2>6. SoloSettles'
    <3> SUFFICES ASSUME NEW p \in Runs, run'[p].at = "done",
                        \A q \in Runs : q > p => run'[q].at = "none"
                 PROVE  FALSE
      BY DEF SoloSettles
    <3>1. run[p].at = "done" /\ p # r /\ ~(r > p)
      BY <1>2, <2>1
    <3>2. r < p
      BY <3>1 DEF Runs
    <3>3. QED
      BY <2>1, <3>1, <3>2 DEF Settling
  <2>7. QED
    BY <1>2, <2>1, <2>3, <2>4, <2>5, <2>6 DEF Settling
<1>7. CASE Kill(r)
  <2>1. Alive(r) /\ solo' = solo /\ run'[r].at = "killed"
    BY <1>1, <1>7 DEF Kill, MayDie, NoRun
  <2>2. run[r].at # "none" /\ ~Alive(r)'
    BY <2>1 DEF Alive, Ends
  <2>3. SoloSettles'
    <3> SUFFICES ASSUME NEW p \in Runs, solo, run'[p].at = "done",
                        \A q \in Runs : q > p => run'[q].at = "none"
                 PROVE  FALSE
      BY <2>1 DEF SoloSettles
    <3>1. run[p].at = "done" /\ p # r /\ ~(r > p)
      BY <1>2, <2>1
    <3>2. r < p
      BY <3>1 DEF Runs
    <3>3. QED
      BY <2>1, <3>1, <3>2 DEF Settling
  <2>4. ASSUME solo PROVE \A p \in Runs : ~Alive(p)'
    BY <1>4, <2>1, <2>2, <2>4 DEF Alone
  <2>5. QED
    BY <1>2, <2>1, <2>2, <2>3, <2>4 DEF Settling
<1>8. QED
  BY <1>6, <1>7

\* and what others do to the records.
LEMMA OtherSettling ==
  ASSUME Typed, Settling, NEW i \in Items, Cancel(i) \/ Reconcile(i)
  PROVE  Settling'
<1>1. jobs \in [Items -> JobRecords]
  BY DEF Typed, TypeOK
<1>2. UNCHANGED <<run, solo>>
  BY DEF Cancel, Reconcile
<1>3. \A j \in Items : jobs'[j].status \in Claimed => jobs'[j] = jobs[j]
  BY <1>1 DEF Cancel, Reconcile, JobRecords, Claimed
<1>4. \A p \in Runs : Onward(p) => Onward(p)'
  BY <1>2, <1>3 DEF Onward, Item, Claimed
<1>5. SoloSettles'
  BY <1>2, <1>3 DEF Settling, SoloSettles, Claimed
<1>6. QED
  BY <1>2, <1>4, <1>5 DEF Settling, Alive, Ends

\* As long as runs have not overlapped, a run that has ended leaves no claim of a
\* killed run behind, unless it had no budget left for it, wherever the killed runs
\* were killed.
THEOREM RunsSettle == Spec => []SoloSettles
<1>1. Init => Alone /\ Settling
  BY DEF Init, Alone, Settling, SoloSettles, Alive, NoRun, Ends
<1>2. Typed /\ Typed' /\ Alone /\ Settling /\ [Next]_vars => Settling'
  <2> SUFFICES ASSUME Typed, Typed', Alone, Settling, [Next]_vars PROVE Settling'
    OBVIOUS
  <2>1. CASE UNCHANGED <<run, jobs, solo>>
    BY <2>1 DEF Settling, Onward, SoloSettles, Alive, Item
  <2>2. QED
    BY <2>1, StepSettling, LifeSettling, OtherSettling DEF Next, ProviderEnds, vars, store
<1>3. Settling => SoloSettles
  BY DEF Settling
<1>4. QED
  BY <1>1, <1>2, <1>3, NextAlone, TypedInvariant, PTL DEF Spec

================================================================================

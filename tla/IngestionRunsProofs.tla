------------------------ MODULE IngestionRunsProofs ------------------------
(***************************************************************************)
(* Theorems about IngestionRuns, for any sets of runs, hashes and jobs and *)
(* any timeouts.                                                           *)
(***************************************************************************)
EXTENDS IngestionRuns, TLAPS

-----------------------------------------------------------------------------
(* Type correctness needs neither assumption on the timing. *)

LEMMA InitType == Init => TypeOK
  BY IdentityAssumption, TimingAssumption
  DEF Init, TypeOK, Statuses, RestartableStatuses, Labels

\* The parts of TypeOK a job's own step disturbs.
LEMMA JobStepType ==
  ASSUME TypeOK, NEW j \in Jobs, Invoke(j) \/ JobStep(j) \/ Kill(j)
  PROVE  TypeOK'
<1> USE IdentityAssumption, TimingAssumption
    DEF TypeOK, Statuses, RestartableStatuses, Labels, GoTo, Return, ledger
<1> DEFINE r == req[j].run
<1>0. r \in RunIds /\ req[j].hash \in Hashes
  BY req[j] \in Requests
<1>1. CASE Invoke(j)
  BY <1>1 DEF Invoke
<1>2. CASE Kill(j)
  BY <1>2 DEF Kill
<1>3. ASSUME ResolveExisting(j), UNCHANGED <<archive, producer, picked>>
      PROVE  TypeOK'
  <2>1. CASE BecomeStarted(j) /\ GoTo(j, "check")
    BY <1>0, <1>3, <2>1 DEF BecomeStarted
  <2>2. CASE UNCHANGED ledger /\ Return(j, "replayed")
    BY <1>3, <2>2
  <2>3. CASE UNCHANGED ledger /\ Return(j, "failed")
    BY <1>3, <2>3
  <2>4. QED
    BY <1>3, <2>1, <2>2, <2>3 DEF ResolveExisting
<1>4. ASSUME ResolveOwner(j), UNCHANGED <<ledger, archive, producer, picked>>
      PROVE  TypeOK'
  <2>1. \E result \in {"replayed", "failed"} : Return(j, result)
    BY <1>4 DEF ResolveOwner
  <2>2. QED
    BY <1>4, <2>1
<1>5. CASE Lookup(j)
  BY <1>3, <1>5 DEF Lookup
<1>6. CASE FindDuplicate(j)
  BY <1>4, <1>6 DEF FindDuplicate
<1>7. CASE Insert(j)
  <2>1. CASE BecomeStarted(j) /\ GoTo(j, "check")
    BY <1>0, <1>7, <2>1 DEF Insert, BecomeStarted
  <2>2. CASE UNCHANGED ledger /\ GoTo(j, "recover")
    BY <1>7, <2>2 DEF Insert
  <2>3. QED
    BY <1>7, <2>1, <2>2 DEF Insert
<1>8. CASE RecoverByRunId(j)
  BY <1>3, <1>8 DEF RecoverByRunId
<1>9. CASE RecoverByHash(j)
  BY <1>4, <1>9 DEF RecoverByHash
<1>10. CASE CheckReplay(j)
  BY <1>10 DEF CheckReplay
<1>11. CASE Fetch(j)
  BY <1>11 DEF Fetch
<1>12. CASE Archive(j)
  BY <1>0, <1>12 DEF Archive
<1>13. CASE MarkSucceeded(j)
  BY <1>0, <1>13 DEF MarkSucceeded, SetStatus
<1>14. CASE MarkPartialFailed(j)
  BY <1>0, <1>14 DEF MarkPartialFailed, SetStatus
<1>15. CASE Raise(j)
  BY <1>15 DEF Raise
<1>16. CASE MarkFailed(j)
  BY <1>0, <1>16 DEF MarkFailed, SetStatus
<1>17. CASE Report(j)
  BY <1>0, <1>17 DEF Report
<1>18. QED
  BY <1>1, <1>2, <1>5, <1>6, <1>7, <1>8, <1>9, <1>10, <1>11, <1>12, <1>13,
     <1>14, <1>15, <1>16, <1>17 DEF JobStep

LEMMA TickType ==
  ASSUME TypeOK, Tick
  PROVE  TypeOK'
<1> USE TimingAssumption DEF TypeOK, Tick
<1>1. elapsed' \in [Jobs -> 0..LambdaTimeout]
  BY DEF Deadline
<1>2. age' \in [RunIds -> 0..MaxAge]
  OBVIOUS
<1>3. QED
  BY <1>1, <1>2

LEMMA ReconcileType ==
  ASSUME TypeOK, NEW c \in Reconcilers,
         ReconcileSelect(c) \/ ReconcileWrite(c) \/ ReconcileDiscard(c)
  PROVE  TypeOK'
<1> USE DEF TypeOK, ledger, jobVars
<1>1. CASE ReconcileSelect(c)
  <2>1. PICK S \in SUBSET RunIds : picked' = [picked EXCEPT ![c] = S]
    BY <1>1 DEF ReconcileSelect
  <2>2. QED
    BY <1>1, <2>1 DEF ReconcileSelect
<1>2. CASE ReconcileWrite(c)
  <2>1. status' \in [RunIds -> Statuses]
    BY <1>2 DEF ReconcileWrite, Statuses, RestartableStatuses
  <2>2. QED
    BY <1>2, <2>1 DEF ReconcileWrite
<1>3. CASE ReconcileDiscard(c)
  BY <1>3 DEF ReconcileDiscard
<1>4. QED
  BY <1>1, <1>2, <1>3

\* Every variable keeps its type: ages and elapsed times stay within their
\* bounds, and no status outside the code's five ever appears.
THEOREM TypeCorrect == Spec => []TypeOK
<1>1. TypeOK /\ [Next]_vars => TypeOK'
  <2> SUFFICES ASSUME TypeOK, [Next]_vars PROVE TypeOK'
    OBVIOUS
  <2>1. CASE UNCHANGED vars
    BY <2>1 DEF TypeOK, vars
  <2>2. CASE Next
    BY <2>2, JobStepType, TickType, ReconcileType DEF Next
  <2>3. QED
    BY <2>1, <2>2
<1>2. QED
  BY InitType, <1>1, PTL DEF Spec

-----------------------------------------------------------------------------
(* The four kinds of step a job takes, by what they do to the ledger. *)

\* The job moves on, or returns a result; a replay names a succeeded owner.
Moves(j) ==
  /\ UNCHANGED <<status, hash, age, archive, producer, req, elapsed, picked>>
  /\ pc' = [pc EXCEPT ![j] = pc'[j]]
  /\ Executing(j)' => Executing(j)
  /\ pc'[j] # "persist"
  /\ \A k \in Jobs : outcome'[k] = "replayed" =>
       \/ outcome[k] = "replayed"
       \/ \E s \in RunIds : status[s] = "succeeded" /\ hash[s] = req[k].hash

\* The job takes its row over.
Starts(j) ==
  /\ ~Executing(j)
  /\ status[req[j].run] \notin {"started", "succeeded"}
  /\ HashFree(req[j].run, req[j].hash)
  /\ BecomeStarted(j)
  /\ pc' = [pc EXCEPT ![j] = "check"]
  /\ UNCHANGED <<archive, producer, req, elapsed, outcome, picked>>

\* The job finishes its row with status s.
Ends(j, s) ==
  /\ Executing(j)
  /\ SetStatus(j, s)
  /\ s \in {"succeeded", "partial_failed", "failed"}
  /\ pc' = [pc EXCEPT ![j] = "report"]
  /\ IF s = "succeeded"
       THEN pc[j] = "persist" /\ producer' = [producer EXCEPT ![req[j].run] = j]
       ELSE UNCHANGED producer
  /\ UNCHANGED <<archive, req, elapsed, outcome, picked>>

\* The statements of a job that only move it.
LEMMA MoveForms ==
  ASSUME TypeOK, NEW j \in Jobs,
         \/ Invoke(j) \/ Kill(j) \/ FindDuplicate(j) \/ RecoverByHash(j)
         \/ CheckReplay(j) \/ Fetch(j) \/ Raise(j) \/ Report(j),
         ExecutorOwnsRow
  PROVE  Moves(j)
<1> USE DEF TypeOK, Moves, Executing, GoTo, Return, ledger
<1>1. CASE Invoke(j)
  BY <1>1 DEF Invoke
<1>2. CASE Kill(j)
  BY <1>2 DEF Kill
<1>3. ASSUME ResolveOwner(j), UNCHANGED <<ledger, archive, producer, picked>>
      PROVE  Moves(j)
  <2>1. PICK s \in OwnersOf(req[j].hash) :
          Return(j, IF status[s] = "succeeded" THEN "replayed" ELSE "failed")
    BY <1>3 DEF ResolveOwner
  <2>2. s \in RunIds /\ hash[s] = req[j].hash
    BY DEF OwnersOf, ActiveStatuses
  <2>3. QED
    BY <1>3, <2>1, <2>2
<1>4. CASE FindDuplicate(j)
  BY <1>3, <1>4 DEF FindDuplicate
<1>5. CASE RecoverByHash(j)
  BY <1>3, <1>5 DEF RecoverByHash
<1>6. CASE CheckReplay(j)
  BY <1>6 DEF CheckReplay, ExecutorOwnsRow
<1>7. CASE Fetch(j)
  BY <1>7 DEF Fetch
<1>8. CASE Raise(j)
  BY <1>8 DEF Raise
<1>9. CASE Report(j)
  <2>1. status[req[j].run] # "replayed"
    BY req[j] \in Requests, IdentityAssumption DEF Statuses, RestartableStatuses
  <2>2. QED
    BY <1>9, <2>1 DEF Report
<1>10. QED
  BY <1>1, <1>2, <1>4, <1>5, <1>6, <1>7, <1>8, <1>9

\* What is done with a row found by its run_id.
LEMMA ResolveForms ==
  ASSUME TypeOK, NEW j \in Jobs, pc[j] \in {"lookup", "recover"},
         ResolveExisting(j), UNCHANGED <<archive, producer, picked>>
  PROVE  Moves(j) \/ Starts(j)
<1> USE DEF TypeOK, Executing, GoTo, Return, ledger
<1>0. req[j].run \in RunIds
  BY req[j] \in Requests, IdentityAssumption
<1>1. CASE AlreadyDone(j) /\ Return(j, "replayed") /\ UNCHANGED ledger
  <2>1. status[req[j].run] = "succeeded" /\ hash[req[j].run] = req[j].hash
    BY <1>1 DEF AlreadyDone
  <2>2. QED
    BY <1>0, <1>1, <2>1 DEF Moves
<1>2. CASE Return(j, "failed") /\ UNCHANGED ledger
  BY <1>2 DEF Moves
<1>3. CASE /\ status[req[j].run] \in Restartable
           /\ HashFree(req[j].run, req[j].hash)
           /\ BecomeStarted(j) /\ GoTo(j, "check")
  BY <1>3 DEF Starts, Restartable, RestartableStatuses
<1>4. QED
  <2>1. CASE AlreadyDone(j)
    BY <1>1, <2>1 DEF ResolveExisting
  <2>2. CASE ~AlreadyDone(j)
    BY <1>2, <1>3, <2>2 DEF ResolveExisting
  <2>3. QED
    BY <2>1, <2>2

\* Every step of a job is of one of the four kinds.
LEMMA JobForms ==
  ASSUME TypeOK, ExecutorOwnsRow, HashOwnedOnce,
         NEW j \in Jobs, Invoke(j) \/ JobStep(j) \/ Kill(j)
  PROVE  \/ Moves(j)
         \/ Starts(j)
         \/ Archive(j)
         \/ \E s \in Statuses : Ends(j, s)
<1> USE DEF TypeOK, Executing, GoTo, Return, ledger
<1>0. req[j].run \in RunIds
  BY req[j] \in Requests, IdentityAssumption
<1>1. CASE Lookup(j)
  BY <1>1, ResolveForms DEF Lookup, Moves
<1>2. CASE RecoverByRunId(j)
  BY <1>2, ResolveForms DEF RecoverByRunId, Moves
<1>3. CASE Insert(j)
  <2>1. CASE status[req[j].run] = "absent" /\ HashFree(req[j].run, req[j].hash)
    BY <1>3, <2>1 DEF Insert, Starts
  <2>2. CASE ~(status[req[j].run] = "absent" /\ HashFree(req[j].run, req[j].hash))
    BY <1>3, <2>2 DEF Insert, Moves
  <2>3. QED
    BY <2>1, <2>2
<1>4. CASE MarkSucceeded(j)
  <2>1. HashFree(req[j].run, hash[req[j].run])
    BY <1>0, <1>4 DEF MarkSucceeded, HashFree, ExecutorOwnsRow, HashOwnedOnce,
       GuardedStatuses
  <2>2. Ends(j, "succeeded")
    BY <1>4, <2>1 DEF MarkSucceeded, Ends
  <2>3. QED
    BY <2>2 DEF Statuses
<1>5. CASE MarkPartialFailed(j)
  <2>1. Ends(j, "partial_failed")
    BY <1>5 DEF MarkPartialFailed, Ends
  <2>2. QED
    BY <2>1 DEF Statuses, RestartableStatuses
<1>6. CASE MarkFailed(j)
  <2>1. Ends(j, "failed")
    BY <1>6 DEF MarkFailed, Ends
  <2>2. QED
    BY <2>1 DEF Statuses, RestartableStatuses
<1>7. QED
  BY <1>1, <1>2, <1>3, <1>4, <1>5, <1>6, MoveForms DEF JobStep

-----------------------------------------------------------------------------
(* The inductive invariant.  It needs the deadline of an invocation to be   *)
(* shorter than the age at which its row counts as stale, and at most one   *)
(* reconciliation at a time: two that overlap may both read a stale row,    *)
(* and the second would fail the row again after a job has restarted it.    *)

SafeTiming == LambdaTimeout < MaxAge
OneReconciler == \A c, d \in Reconcilers : c = d

LEMMA InitInv == Init => IInv
<1> SUFFICES ASSUME Init PROVE IInv
  OBVIOUS
<1>1. TypeOK
  BY InitType
<1>2. HashOwnedOnce /\ SucceededIsBacked
  BY DEF Init, HashOwnedOnce, SucceededIsBacked
<1>3. ExecutorOwnsRow /\ RowsNotShared /\ ReplayIsBacked
  BY DEF Init, ExecutorOwnsRow, RowsNotShared, ReplayIsBacked, Executing
<1>4. PickedIsStale
  BY DEF Init, PickedIsStale
<1>5. QED
  BY <1>1, <1>2, <1>3, <1>4 DEF IInv

LEMMA MovesInv ==
  ASSUME IInv, TypeOK', NEW j \in Jobs, Moves(j)
  PROVE  IInv'
<1> USE DEF IInv, TypeOK, Moves
<1>1. \A k \in Jobs : Executing(k)' => Executing(k)
  BY DEF Executing
<1>2. \A k \in Jobs : pc'[k] = "persist" => pc[k] = "persist"
  OBVIOUS
<1>3. HashOwnedOnce' /\ SucceededIsBacked'
  BY DEF HashOwnedOnce, SucceededIsBacked
<1>4. ExecutorOwnsRow'
  BY <1>1, <1>2 DEF ExecutorOwnsRow
<1>5. RowsNotShared'
  BY <1>1 DEF RowsNotShared
<1>6. PickedIsStale'
  BY DEF PickedIsStale, Stale
<1>7. ReplayIsBacked'
  BY DEF ReplayIsBacked
<1>8. QED
  BY <1>3, <1>4, <1>5, <1>6, <1>7

LEMMA StartsInv ==
  ASSUME IInv, TypeOK', NEW j \in Jobs, Starts(j)
  PROVE  IInv'
<1> DEFINE r == req[j].run
<1> USE DEF TypeOK, Starts, BecomeStarted
<1>0. r \in RunIds /\ TypeOK
  BY req[j] \in Requests, IdentityAssumption DEF IInv
<1>1. \A k \in Jobs \ {j} :
        (Executing(k)' <=> Executing(k)) /\ pc'[k] = pc[k] /\ elapsed'[k] = elapsed[k]
  BY <1>0 DEF Executing
<1>2. \A k \in Jobs \ {j} : Executing(k) => req[k].run # r
  BY DEF IInv, ExecutorOwnsRow
<1>3. \A s \in RunIds \ {r} :
        status'[s] = status[s] /\ hash'[s] = hash[s] /\ age'[s] = age[s]
  BY <1>0
<1>4. status'[r] = "started" /\ hash'[r] = req[j].hash /\ age'[r] = 0
  BY <1>0
<1>5. HashOwnedOnce'
  BY <1>0, <1>3, <1>4 DEF IInv, HashOwnedOnce, HashFree, GuardedStatuses
<1>6. ExecutorOwnsRow'
  <2>1. ASSUME NEW k \in Jobs, k # j, Executing(k)'
        PROVE  /\ status'[req[k].run] = "started"
               /\ hash'[req[k].run] = req[k].hash
               /\ age'[req[k].run] <= elapsed'[k]
               /\ pc'[k] = "persist" => archive[req[k].run] = k
    BY <1>0, <1>1, <1>2, <1>3, <2>1, req[k] \in Requests, IdentityAssumption
    DEF IInv, ExecutorOwnsRow
  <2>2. age'[r] <= elapsed'[j] /\ pc'[j] = "check"
    BY <1>0, <1>4, TimingAssumption
  <2>3. QED
    BY <1>0, <1>4, <2>1, <2>2 DEF ExecutorOwnsRow
<1>7. RowsNotShared'
  BY <1>0, <1>1, <1>2 DEF IInv, RowsNotShared
<1>8. PickedIsStale'
  BY <1>0, <1>3 DEF IInv, PickedIsStale, Stale
<1>9. SucceededIsBacked'
  BY <1>0, <1>3, <1>4 DEF IInv, SucceededIsBacked
<1>10. ReplayIsBacked'
  BY <1>0, <1>3 DEF IInv, ReplayIsBacked
<1>11. QED
  BY <1>5, <1>6, <1>7, <1>8, <1>9, <1>10 DEF IInv

LEMMA ArchiveInv ==
  ASSUME IInv, TypeOK', NEW j \in Jobs, Archive(j)
  PROVE  IInv'
<1> DEFINE r == req[j].run
<1> USE DEF TypeOK, Archive, GoTo, ledger
<1>0. r \in RunIds /\ TypeOK
  BY req[j] \in Requests, IdentityAssumption DEF IInv
<1>1. \A k \in Jobs : Executing(k)' <=> Executing(k)
  BY <1>0 DEF Executing
<1>2. Executing(j) /\ status[r] = "started"
  BY <1>0 DEF IInv, ExecutorOwnsRow, Executing
<1>3. ExecutorOwnsRow'
  BY <1>0, <1>1, <1>2 DEF IInv, ExecutorOwnsRow, RowsNotShared
<1>4. SucceededIsBacked'
  BY <1>0, <1>2 DEF IInv, SucceededIsBacked
<1>5. RowsNotShared'
  BY <1>0, <1>1 DEF IInv, RowsNotShared
<1>6. HashOwnedOnce' /\ ReplayIsBacked'
  BY <1>0 DEF IInv, HashOwnedOnce, ReplayIsBacked
<1>7. PickedIsStale'
  BY <1>0 DEF IInv, PickedIsStale, Stale
<1>8. QED
  BY <1>3, <1>4, <1>5, <1>6, <1>7 DEF IInv

LEMMA EndsInv ==
  ASSUME SafeTiming, IInv, TypeOK', NEW j \in Jobs, NEW s \in Statuses, Ends(j, s)
  PROVE  IInv'
<1> DEFINE r == req[j].run
<1> USE DEF TypeOK, Ends, SetStatus
<1>0. r \in RunIds /\ TypeOK
  BY req[j] \in Requests, IdentityAssumption DEF IInv
<1>1. ~Executing(j)' /\ \A k \in Jobs \ {j} :
        (Executing(k)' <=> Executing(k)) /\ pc'[k] = pc[k]
  BY <1>0 DEF Executing
<1>2. \A k \in Jobs \ {j} : Executing(k) => req[k].run # r
  BY <1>0 DEF IInv, RowsNotShared
<1>3. status[r] = "started" /\ hash[r] = req[j].hash /\ age[r] <= elapsed[j]
  BY DEF IInv, ExecutorOwnsRow
<1>4. \A q \in RunIds \ {r} : status'[q] = status[q]
  BY <1>0
<1>5. status'[r] = s
  BY <1>0
<1>6. HashOwnedOnce'
  BY <1>0, <1>3, <1>4 DEF IInv, HashOwnedOnce
<1>7. ExecutorOwnsRow'
  BY <1>0, <1>1, <1>2, <1>4, IdentityAssumption DEF IInv, ExecutorOwnsRow
<1>8. RowsNotShared'
  BY <1>0, <1>1 DEF IInv, RowsNotShared
<1>9. PickedIsStale'
  <2>1. age[r] # MaxAge
    BY <1>0, <1>3, TimingAssumption DEF SafeTiming
  <2>2. QED
    BY <1>0, <1>4, <2>1 DEF IInv, PickedIsStale, Stale
<1>10. SucceededIsBacked'
  <2>1. ASSUME NEW q \in RunIds, status'[q] = "succeeded", q # r
        PROVE  \E k \in Jobs : /\ producer'[q] = k /\ archive'[q] = k
                              /\ req'[k] = [run |-> q, hash |-> hash'[q]]
    BY <1>0, <1>4, <2>1 DEF IInv, SucceededIsBacked
  <2>2. ASSUME s = "succeeded"
        PROVE  /\ producer'[r] = j /\ archive'[r] = j
               /\ req'[j] = [run |-> r, hash |-> hash'[r]]
    BY <1>0, <1>3, <2>2, req[j] \in Requests, IdentityAssumption
    DEF IInv, ExecutorOwnsRow
  <2>3. QED
    BY <1>5, <2>1, <2>2 DEF SucceededIsBacked
<1>11. ReplayIsBacked'
  BY <1>0, <1>3, <1>4 DEF IInv, ReplayIsBacked
<1>12. QED
  BY <1>6, <1>7, <1>8, <1>9, <1>10, <1>11 DEF IInv

LEMMA TickInv ==
  ASSUME IInv, TypeOK', Tick
  PROVE  IInv'
<1> USE DEF IInv, TypeOK, Tick
<1>1. \A k \in Jobs : Executing(k)' <=> Executing(k)
  BY DEF Executing
<1>2. ExecutorOwnsRow'
  <2> SUFFICES ASSUME NEW k \in Jobs, Executing(k)
               PROVE  age'[req[k].run] <= elapsed'[k]
    BY <1>1 DEF ExecutorOwnsRow
  <2>1. Live(k)
    BY DEF Executing, Live
  <2>2. elapsed'[k] = elapsed[k] + 1
    BY <2>1
  <2>3. req[k].run \in RunIds
    BY req[k] \in Requests, IdentityAssumption
  <2>4. age'[req[k].run] <= age[req[k].run] + 1
    BY <2>3
  <2>5. age[req[k].run] <= elapsed[k]
    BY DEF ExecutorOwnsRow
  <2>6. age[req[k].run] \in Int /\ elapsed[k] \in Int /\ age'[req[k].run] \in Int
    BY <2>3
  <2>7. QED
    BY <2>2, <2>4, <2>5, <2>6
<1>3. RowsNotShared'
  BY <1>1 DEF RowsNotShared
<1>4. PickedIsStale'
  BY DEF PickedIsStale, Stale
<1>5. HashOwnedOnce' /\ SucceededIsBacked' /\ ReplayIsBacked'
  BY DEF HashOwnedOnce, SucceededIsBacked, ReplayIsBacked
<1>6. QED
  BY <1>2, <1>3, <1>4, <1>5

\* A reconciler that writes finds its rows stale, hence no job executing them.
LEMMA PickedNotExecuting ==
  ASSUME SafeTiming, IInv, NEW c \in Reconcilers, NEW k \in Jobs, Executing(k)
  PROVE  req[k].run \notin picked[c]
<1>1. age[req[k].run] \in 0..MaxAge /\ elapsed[k] \in 0..LambdaTimeout
  BY req[k] \in Requests, IdentityAssumption DEF IInv, TypeOK
<1>2. age[req[k].run] # MaxAge
  BY <1>1, TimingAssumption DEF IInv, ExecutorOwnsRow, SafeTiming
<1>3. QED
  BY <1>2 DEF IInv, PickedIsStale, Stale

LEMMA ReconcileInv ==
  ASSUME SafeTiming, OneReconciler, IInv, TypeOK', NEW c \in Reconcilers,
         ReconcileSelect(c) \/ ReconcileWrite(c) \/ ReconcileDiscard(c)
  PROVE  IInv'
<1> USE DEF ledger, jobVars
<1>0. TypeOK
  BY DEF IInv
<1>1. ASSUME ReconcileSelect(c) \/ ReconcileDiscard(c)
      PROVE  IInv'
  <2>1. UNCHANGED <<ledger, archive, producer, jobVars>>
    BY <1>1 DEF ReconcileSelect, ReconcileDiscard
  <2>2. \A d \in Reconcilers : \A r \in picked'[d] : Stale(r)
    BY <1>0, <1>1 DEF IInv, TypeOK, PickedIsStale, ReconcileSelect, ReconcileDiscard
  <2>3. PickedIsStale'
    BY <2>1, <2>2 DEF PickedIsStale, Stale
  <2>4. HashOwnedOnce' /\ SucceededIsBacked' /\ ReplayIsBacked'
    BY <2>1 DEF IInv, HashOwnedOnce, SucceededIsBacked, ReplayIsBacked
  <2>5. ExecutorOwnsRow' /\ RowsNotShared'
    BY <2>1 DEF IInv, ExecutorOwnsRow, RowsNotShared, Executing
  <2>6. QED
    BY <2>3, <2>4, <2>5 DEF IInv
<1>2. CASE ReconcileWrite(c)
  <2> USE <1>0, <1>2 DEF ReconcileWrite, TypeOK
  <2>1. \A k \in Jobs : Executing(k) => req[k].run \notin picked[c]
    BY PickedNotExecuting
  <2>2. \A r \in RunIds : r \in picked[c] => status[r] = "started"
    BY DEF IInv, PickedIsStale, Stale
  <2>3. \A r \in RunIds :
          status'[r] = IF r \in picked[c] THEN "failed" ELSE status[r]
    OBVIOUS
  <2>4. PickedIsStale'
    BY DEF PickedIsStale, OneReconciler
  <2>5. HashOwnedOnce'
    BY <2>3 DEF IInv, HashOwnedOnce
  <2>6. ExecutorOwnsRow'
    <3> SUFFICES ASSUME NEW k \in Jobs, Executing(k)
                 PROVE  status'[req[k].run] = "started"
      BY DEF IInv, ExecutorOwnsRow, Executing
    <3>1. req[k].run \in RunIds
      BY req[k] \in Requests, IdentityAssumption
    <3>2. QED
      BY <2>1, <2>3, <3>1 DEF IInv, ExecutorOwnsRow
  <2>7. RowsNotShared'
    BY DEF IInv, RowsNotShared, Executing
  <2>8. SucceededIsBacked' /\ ReplayIsBacked'
    BY <2>2, <2>3 DEF IInv, SucceededIsBacked, ReplayIsBacked
  <2>9. QED
    BY <2>4, <2>5, <2>6, <2>7, <2>8 DEF IInv
<1>3. QED
  BY <1>1, <1>2

\* Every step keeps the invariant.
LEMMA NextInv ==
  ASSUME SafeTiming, OneReconciler, IInv, [Next]_vars
  PROVE  IInv'
<1>0. TypeOK /\ ExecutorOwnsRow /\ HashOwnedOnce
  BY DEF IInv
<1>1. CASE UNCHANGED vars
  <2> USE <1>1 DEF vars
  <2>1. TypeOK' /\ HashOwnedOnce' /\ SucceededIsBacked' /\ ReplayIsBacked'
    BY DEF IInv, TypeOK, HashOwnedOnce, SucceededIsBacked, ReplayIsBacked
  <2>2. ExecutorOwnsRow' /\ RowsNotShared' /\ PickedIsStale'
    BY DEF IInv, ExecutorOwnsRow, RowsNotShared, PickedIsStale, Stale, Executing
  <2>3. QED
    BY <2>1, <2>2 DEF IInv
<1>2. ASSUME NEW j \in Jobs, Invoke(j) \/ JobStep(j) \/ Kill(j)
      PROVE  IInv'
  <2>1. TypeOK'
    BY <1>0, <1>2, JobStepType
  <2>2. \/ Moves(j) \/ Starts(j) \/ Archive(j) \/ \E s \in Statuses : Ends(j, s)
    BY <1>0, <1>2, JobForms
  <2>3. QED
    BY <2>1, <2>2, MovesInv, StartsInv, ArchiveInv, EndsInv
<1>3. CASE Tick
  BY <1>0, <1>3, TickType, TickInv
<1>4. ASSUME NEW c \in Reconcilers,
             ReconcileSelect(c) \/ ReconcileWrite(c) \/ ReconcileDiscard(c)
      PROVE  IInv'
  BY <1>0, <1>4, ReconcileType, ReconcileInv
<1>5. QED
  BY <1>1, <1>2, <1>3, <1>4 DEF Next

THEOREM Invariance ==
  ASSUME SafeTiming, OneReconciler
  PROVE  Spec => []IInv
<1>1. IInv /\ [Next]_vars => IInv'
  BY NextInv
<1>2. QED
  BY InitInv, <1>1, PTL DEF Spec

-----------------------------------------------------------------------------
(* The properties. *)

\* No two jobs ever execute the same run or the same input at once: what the
\* ledger's start protocol is for.
THEOREM OneExecutorAlways ==
  ASSUME SafeTiming, OneReconciler
  PROVE  Spec => []OneExecutor
<1>1. IInv => OneExecutor
  <2> SUFFICES ASSUME IInv, NEW j \in Jobs, NEW k \in Jobs,
                      j # k, Executing(j), Executing(k)
               PROVE  req[j].run # req[k].run /\ req[j].hash # req[k].hash
    BY DEF OneExecutor
  <2>1. req[j].run # req[k].run
    BY DEF IInv, RowsNotShared
  <2>2. req[j].run \in RunIds /\ req[k].run \in RunIds
    BY req[j] \in Requests, req[k] \in Requests, IdentityAssumption DEF IInv, TypeOK
  <2>3. QED
    BY <2>1, <2>2 DEF IInv, ExecutorOwnsRow, HashOwnedOnce
<1>2. QED
  BY <1>1, Invariance, PTL

\* A row that reads "succeeded" was earned: its input's data was committed and
\* its payload archived by one and the same job.
THEOREM SucceededIsBackedAlways ==
  ASSUME SafeTiming, OneReconciler
  PROVE  Spec => []SucceededIsBacked
<1>1. IInv => SucceededIsBacked
  BY DEF IInv
<1>2. QED
  BY <1>1, Invariance, PTL

\* A replayed result always points at an input recorded as succeeded.
THEOREM ReplayIsBackedAlways ==
  ASSUME SafeTiming, OneReconciler
  PROVE  Spec => []ReplayIsBacked
<1>1. IInv => ReplayIsBacked
  BY DEF IInv
<1>2. QED
  BY <1>1, Invariance, PTL

\* What one step does to the rows, read off the kinds of step.
LEMMA SucceededRowKept ==
  ASSUME IInv, Next, NEW r \in RunIds, status[r] = "succeeded"
  PROVE  UNCHANGED <<status[r], hash[r], archive[r], producer[r]>>
<1> USE DEF TypeOK, ledger, jobVars
<1>0. TypeOK /\ ExecutorOwnsRow /\ HashOwnedOnce
  BY DEF IInv
<1>1. ASSUME NEW j \in Jobs, Invoke(j) \/ JobStep(j) \/ Kill(j)
      PROVE  UNCHANGED <<status[r], hash[r], archive[r], producer[r]>>
  <2>0. req[j].run \in RunIds
    BY <1>0, req[j] \in Requests, IdentityAssumption
  <2>1. CASE Moves(j)
    BY <2>1 DEF Moves
  <2>2. CASE Starts(j)
    BY <1>0, <2>0, <2>2 DEF Starts, BecomeStarted
  <2>3. CASE Archive(j)
    BY <1>0, <2>0, <2>3 DEF Archive, ExecutorOwnsRow, Executing
  <2>4. ASSUME NEW s \in Statuses, Ends(j, s)
        PROVE  UNCHANGED <<status[r], hash[r], archive[r], producer[r]>>
    BY <1>0, <2>0, <2>4 DEF Ends, SetStatus, ExecutorOwnsRow
  <2>5. QED
    BY <1>0, <1>1, <2>1, <2>2, <2>3, <2>4, JobForms
<1>2. CASE Tick
  BY <1>2 DEF Tick
<1>3. ASSUME NEW c \in Reconcilers,
             ReconcileSelect(c) \/ ReconcileWrite(c) \/ ReconcileDiscard(c)
      PROVE  UNCHANGED <<status[r], hash[r], archive[r], producer[r]>>
  <2>1. r \notin picked[c]
    BY DEF IInv, PickedIsStale, Stale
  <2>2. QED
    BY <1>0, <1>3, <2>1 DEF ReconcileSelect, ReconcileWrite, ReconcileDiscard
<1>4. QED
  BY <1>1, <1>2, <1>3 DEF Next

\* A succeeded row, its archive and the data behind it are never touched again.
THEOREM SuccessIsFinalAlways ==
  ASSUME SafeTiming, OneReconciler
  PROVE  Spec => SuccessIsFinal
<1>1. IInv /\ [Next]_vars =>
        [\A r \in RunIds : status[r] = "succeeded" =>
           UNCHANGED <<status[r], hash[r], archive[r], producer[r]>>]_vars
  BY SucceededRowKept
<1>2. QED
  BY <1>1, Invariance, PTL DEF Spec, SuccessIsFinal

\* A job's started row can be changed by nobody else's step.
LEMMA ExecutorSpared ==
  ASSUME SafeTiming, IInv, Next, NEW k \in Jobs, Executing(k),
         status'[req[k].run] # "started"
  PROVE  pc'[k] # pc[k]
<1> USE DEF TypeOK, ledger, jobVars
<1>0. TypeOK /\ ExecutorOwnsRow /\ HashOwnedOnce /\ RowsNotShared
  BY DEF IInv
<1>1. req[k].run \in RunIds /\ status[req[k].run] = "started"
  BY <1>0, req[k] \in Requests, IdentityAssumption DEF ExecutorOwnsRow
<1>2. ASSUME NEW j \in Jobs, Invoke(j) \/ JobStep(j) \/ Kill(j)
      PROVE  pc'[k] # pc[k]
  <2>1. PICK s \in Statuses : Ends(j, s)
    <3>1. CASE Moves(j)
      BY <1>1, <3>1 DEF Moves
    <3>2. CASE Starts(j)
      BY <1>0, <1>1, <3>2 DEF Starts, BecomeStarted
    <3>3. CASE Archive(j)
      BY <1>1, <3>3 DEF Archive
    <3>4. QED
      BY <1>0, <1>2, <3>1, <3>2, <3>3, JobForms
  <2>2. j = k
    BY <1>0, <1>1, <2>1 DEF Ends, SetStatus, RowsNotShared
  <2>3. QED
    BY <1>0, <2>1, <2>2 DEF Ends, Executing
<1>3. CASE Tick
  BY <1>1, <1>3 DEF Tick
<1>4. ASSUME NEW c \in Reconcilers,
             ReconcileSelect(c) \/ ReconcileWrite(c) \/ ReconcileDiscard(c)
      PROVE  pc'[k] # pc[k]
  BY <1>0, <1>1, <1>4, PickedNotExecuting
  DEF ReconcileSelect, ReconcileWrite, ReconcileDiscard
<1>5. QED
  BY <1>2, <1>3, <1>4 DEF Next

\* Neither another job nor the reconciliation ends a run while its job lives.
THEOREM LiveRunsAreSparedAlways ==
  ASSUME SafeTiming, OneReconciler
  PROVE  Spec => LiveRunsAreSpared
<1>1. IInv /\ [Next]_vars =>
        [\A j \in Jobs : Executing(j) /\ status'[req[j].run] # "started" =>
           pc'[j] # pc[j]]_vars
  BY ExecutorSpared
<1>2. QED
  BY <1>1, Invariance, PTL DEF Spec, LiveRunsAreSpared

-----------------------------------------------------------------------------
(* Refinement: the detailed ledger implements RunLedger. *)

\* A step of the jobs, the clock or the reconciler is a step of the abstract
\* ledger or leaves its two variables alone.
LEMMA StepRefines ==
  ASSUME SafeTiming, IInv, [Next]_vars
  PROVE  [Abstract!Next]_<<status, hash>>
<1> USE DEF TypeOK, ledger, jobVars
<1>0. TypeOK /\ ExecutorOwnsRow /\ HashOwnedOnce
  BY DEF IInv
<1>1. ASSUME NEW j \in Jobs, Invoke(j) \/ JobStep(j) \/ Kill(j)
      PROVE  [Abstract!Next]_<<status, hash>>
  <2>0. req[j].run \in RunIds /\ req[j].hash \in Hashes
    BY <1>0, req[j] \in Requests, IdentityAssumption
  <2>1. CASE Moves(j) \/ Archive(j)
    BY <2>1 DEF Moves, Archive
  <2>2. CASE Starts(j)
    <3>1. status[req[j].run] \in {"absent", "failed", "partial_failed"}
      BY <1>0, <2>0, <2>2 DEF Starts, Statuses, RestartableStatuses
    <3>2. Abstract!Available(req[j].run, req[j].hash)
      BY <2>2 DEF Starts, HashFree, GuardedStatuses, Abstract!Available
    <3>3. Abstract!Begin(req[j].run, req[j].hash)
      BY <2>2, <3>1, <3>2 DEF Starts, BecomeStarted, Abstract!Begin
    <3>4. QED
      BY <2>0, <3>3 DEF Abstract!Next
  <2>3. ASSUME NEW s \in Statuses, Ends(j, s)
        PROVE  Abstract!Next
    <3>1. Abstract!Finish(req[j].run, s)
      BY <1>0, <2>3 DEF Ends, SetStatus, ExecutorOwnsRow, Abstract!Finish
    <3>2. s \in {"succeeded", "partial_failed", "failed"}
      BY <2>3 DEF Ends
    <3>3. QED
      BY <2>0, <3>1, <3>2 DEF Abstract!Next
  <2>4. QED
    BY <1>0, <1>1, <2>1, <2>2, <2>3, JobForms
<1>2. CASE Tick
  BY <1>2 DEF Tick
<1>3. ASSUME NEW c \in Reconcilers,
             ReconcileSelect(c) \/ ReconcileWrite(c) \/ ReconcileDiscard(c)
      PROVE  [Abstract!Next]_<<status, hash>>
  <2>1. CASE ReconcileSelect(c) \/ ReconcileDiscard(c)
    BY <2>1 DEF ReconcileSelect, ReconcileDiscard
  <2>2. CASE ReconcileWrite(c)
    <3>1. \A r \in picked[c] : status[r] = "started"
      BY DEF IInv, PickedIsStale, Stale
    <3>2. Abstract!Abandon(picked[c])
      BY <2>2, <3>1 DEF ReconcileWrite, Abstract!Abandon
    <3>3. picked[c] \in SUBSET RunIds
      BY <1>0
    <3>4. QED
      BY <3>2, <3>3 DEF Abstract!Next
  <2>3. QED
    BY <1>3, <2>1, <2>2
<1>4. CASE UNCHANGED vars
  BY <1>4 DEF vars
<1>5. QED
  BY <1>1, <1>2, <1>3, <1>4 DEF Next

\* Jobs, crashes, retries, timeouts and reconciliation together never show the
\* ledger's readers anything but the abstract lifecycle of a run.
THEOREM RefinesRunLedger ==
  ASSUME SafeTiming, OneReconciler
  PROVE  Spec => ImplementsRunLedger
<1>1. Init => Abstract!Init
  BY DEF Init, Abstract!Init
<1>2. IInv /\ [Next]_vars => [Abstract!Next]_<<status, hash>>
  BY StepRefines
<1>3. QED
  BY <1>1, <1>2, Invariance, PTL DEF Spec, ImplementsRunLedger, Abstract!Spec

-----------------------------------------------------------------------------
(* What holds whatever the timing, however many reconciliations run. *)

\* The three things a job's step may do to the ledger, without the invariant.
LEMMA LedgerForms ==
  ASSUME NEW j \in Jobs, Invoke(j) \/ JobStep(j) \/ Kill(j)
  PROVE  \/ UNCHANGED <<status, hash>>
         \/ /\ status[req[j].run] \in {"absent", "failed", "partial_failed"}
            /\ HashFree(req[j].run, req[j].hash)
            /\ BecomeStarted(j)
         \/ /\ \/ SetStatus(j, "partial_failed")
               \/ SetStatus(j, "failed")
               \/ SetStatus(j, "succeeded") /\ HashFree(req[j].run, hash[req[j].run])
<1> USE DEF ledger
<1>1. CASE Lookup(j) \/ RecoverByRunId(j)
  BY <1>1 DEF Lookup, RecoverByRunId, ResolveExisting, Restartable, RestartableStatuses
<1>2. CASE Insert(j)
  BY <1>2 DEF Insert
<1>3. CASE MarkSucceeded(j)
  BY <1>3 DEF MarkSucceeded
<1>4. CASE MarkPartialFailed(j) \/ MarkFailed(j)
  BY <1>4 DEF MarkPartialFailed, MarkFailed
<1>5. CASE Invoke(j) \/ Kill(j)
  BY <1>5 DEF Invoke, Kill
<1>6. CASE \/ FindDuplicate(j) \/ RecoverByHash(j) \/ CheckReplay(j) \/ Fetch(j)
           \/ Archive(j) \/ Raise(j) \/ Report(j)
  BY <1>6 DEF FindDuplicate, RecoverByHash, CheckReplay, Fetch, Archive, Raise, Report
<1>7. QED
  BY <1>1, <1>2, <1>3, <1>4, <1>5, <1>6 DEF JobStep

\* The database guard alone keeps an input from being owned by two rows, even
\* when jobs outlive the reconciliation threshold.
THEOREM HashOwnedOnceAlways == Spec => []HashOwnedOnce
<1>1. Init => HashOwnedOnce
  BY DEF Init, HashOwnedOnce
<1>2. TypeOK /\ HashOwnedOnce /\ [Next]_vars => HashOwnedOnce'
  <2> SUFFICES ASSUME TypeOK, HashOwnedOnce, [Next]_vars
               PROVE  HashOwnedOnce'
    OBVIOUS
  <2> USE DEF TypeOK, HashOwnedOnce
  <2>1. ASSUME NEW j \in Jobs, Invoke(j) \/ JobStep(j) \/ Kill(j)
        PROVE  HashOwnedOnce'
    <3>0. req[j].run \in RunIds
      BY req[j] \in Requests, IdentityAssumption
    <3>1. CASE UNCHANGED <<status, hash>>
      BY <3>1
    <3>2. CASE HashFree(req[j].run, req[j].hash) /\ BecomeStarted(j)
      BY <3>0, <3>2 DEF HashFree, GuardedStatuses, BecomeStarted
    <3>3. CASE SetStatus(j, "partial_failed") \/ SetStatus(j, "failed")
      BY <3>0, <3>3 DEF SetStatus
    <3>4. CASE SetStatus(j, "succeeded") /\ HashFree(req[j].run, hash[req[j].run])
      BY <3>0, <3>4 DEF SetStatus, HashFree, GuardedStatuses
    <3>5. QED
      BY <2>1, <3>1, <3>2, <3>3, <3>4, LedgerForms
  <2>2. CASE Tick
    BY <2>2 DEF Tick
  <2>3. ASSUME NEW c \in Reconcilers,
               ReconcileSelect(c) \/ ReconcileWrite(c) \/ ReconcileDiscard(c)
        PROVE  HashOwnedOnce'
    BY <2>3 DEF ReconcileSelect, ReconcileWrite, ReconcileDiscard, ledger
  <2>4. CASE UNCHANGED vars
    BY <2>4 DEF vars
  <2>5. QED
    BY <2>1, <2>2, <2>3, <2>4 DEF Next
<1>3. QED
  BY <1>1, <1>2, TypeCorrect, PTL DEF Spec

\* No timing lets a succeeded row be started again.
THEOREM SucceededIsNotRestartedAlways == Spec => SucceededIsNotRestarted
<1>1. TypeOK /\ [Next]_vars =>
        [\A r \in RunIds : status[r] = "succeeded" => status'[r] # "started"]_vars
  <2> SUFFICES ASSUME TypeOK, Next, NEW r \in RunIds, status[r] = "succeeded"
               PROVE  status'[r] # "started"
    OBVIOUS
  <2> USE DEF TypeOK
  <2>1. ASSUME NEW j \in Jobs, Invoke(j) \/ JobStep(j) \/ Kill(j)
        PROVE  status'[r] # "started"
    BY <2>1, LedgerForms DEF BecomeStarted, SetStatus
  <2>2. CASE Tick
    BY <2>2 DEF Tick
  <2>3. ASSUME NEW c \in Reconcilers,
               ReconcileSelect(c) \/ ReconcileWrite(c) \/ ReconcileDiscard(c)
        PROVE  status'[r] # "started"
    BY <2>3 DEF ReconcileSelect, ReconcileWrite, ReconcileDiscard, ledger
  <2>4. QED
    BY <2>1, <2>2, <2>3 DEF Next
<1>2. QED
  BY <1>1, TypeCorrect, PTL DEF Spec, SucceededIsNotRestarted
=============================================================================

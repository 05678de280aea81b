--------------------------- MODULE IngestionRuns ---------------------------
(***************************************************************************)
(* The ingestion ledger: the rows of ingestion_runs, the jobs that start,  *)
(* execute and finish them, the Lambda runtime that kills a job at its     *)
(* deadline, and the maintenance operation that reclaims rows left         *)
(* "started" by a dead job.                                                *)
(*                                                                         *)
(* A job is one call of ProviderIngestionService._run_ticker inside one    *)
(* Lambda invocation; a retry by the scheduler is another job that carries *)
(* the same request.  Every action is one database statement or one        *)
(* transaction of the code: what separates two actions of a job is a point *)
(* where other jobs may run.  A SELECT ... FOR UPDATE and the UPDATE that  *)
(* commits with it hold the row's lock in between, so they are one action. *)
(* started_at is kept as the row's age, elapsed is the time since a job's  *)
(* invocation began; both count ticks.                                     *)
(***************************************************************************)
EXTENDS Integers

CONSTANTS
  RunIds,         \* the run_id values requests may carry
  Hashes,         \* the input_hash values requests may carry
  NoHash,         \* input_hash of a row that does not exist
  Jobs,           \* executions of _run_ticker
  NoJob,          \* no job
  Reconcilers,    \* invocations of reconcile_stale_ingestion_runs
  Requests,       \* the (run_id, input_hash) pairs a job may be asked for
  LambdaTimeout,  \* ticks after which the runtime kills an invocation
  MaxAge          \* ticks after which a started row counts as stale

ASSUME IdentityAssumption ==
  /\ NoHash \notin Hashes
  /\ NoJob \notin Jobs
  /\ Requests \subseteq [run : RunIds, hash : Hashes]

ASSUME TimingAssumption ==
  /\ LambdaTimeout \in Nat \ {0}
  /\ MaxAge \in Nat \ {0}

VARIABLES
  status,    \* status[r]: the row's status, "absent" before it is inserted
  hash,      \* hash[r]: the row's input_hash
  age,       \* age[r]: ticks since started_at, counted up to MaxAge
  archive,   \* archive[r]: the job whose payload the raw archive object holds
  producer,  \* producer[r]: the job whose data was committed with "succeeded"
  req,       \* req[j]: the request of a job
  pc,        \* pc[j]: the statement a job executes next
  elapsed,   \* elapsed[j]: ticks since the job's invocation began
  outcome,   \* outcome[j]: the status in the job's TickerIngestionResult
  picked     \* picked[c]: the stale rows a reconciler has read, not yet written

ledger == <<status, hash, age>>
jobVars == <<req, pc, elapsed, outcome>>
vars == <<status, hash, age, archive, producer, req, pc, elapsed, outcome, picked>>

-----------------------------------------------------------------------------
(* The statuses of a row and what the service makes of them. *)

RestartableStatuses == {"failed", "partial_failed"}
ActiveStatuses == {"started"}

\* Mutation: the partial index covers the active rows only.
MutGuardedActiveOnly == {"started"}

\* The statuses under which a row owns its input_hash.
GuardedStatuses == {"started", "succeeded"}

\* Mutation: a row in "started" may be taken over by another job.
MutRestartableActive == {"failed", "partial_failed", "started"}

\* Mutation: a succeeded row may be started again under another hash.
MutRestartableSucceeded == {"failed", "partial_failed", "succeeded"}

\* The statuses from which a row is started again.
Restartable == RestartableStatuses

Statuses == {"absent", "started", "succeeded"} \cup RestartableStatuses

\* Mutation: without the partial unique index.
MutHashFree(r, h) == TRUE

\* The partial unique index on input_hash admits row r with hash h.
HashFree(r, h) ==
  \A s \in RunIds \ {r} : ~(status[s] \in GuardedStatuses /\ hash[s] = h)

\* The rows a lookup by input_hash returns.
OwnersOf(h) ==
  {r \in RunIds : status[r] \in {"succeeded"} \cup ActiveStatuses /\ hash[r] = h}

Live(j) == pc[j] \notin {"idle", "done", "dead"}

\* The job has started its row and has not finished it.
Executing(j) == pc[j] \in {"check", "fetch", "archive", "persist", "failing"}

\* Mutation: the cutoff on started_at is dropped.
MutStaleAnyAge(r) == status[r] = "started"

\* Mutation: the cutoff comparison can never hold.
MutStaleNever(r) == status[r] = "started" /\ age[r] > MaxAge

\* status = "started" and started_at <= now - max_age.
Stale(r) == status[r] = "started" /\ age[r] = MaxAge

-----------------------------------------------------------------------------

Init ==
  /\ status = [r \in RunIds |-> "absent"]
  /\ hash = [r \in RunIds |-> NoHash]
  /\ age = [r \in RunIds |-> 0]
  /\ archive = [r \in RunIds |-> NoJob]
  /\ producer = [r \in RunIds |-> NoJob]
  /\ req \in [Jobs -> Requests]
  /\ pc = [j \in Jobs |-> "idle"]
  /\ elapsed = [j \in Jobs |-> 0]
  /\ outcome = [j \in Jobs |-> "none"]
  /\ picked = [c \in Reconcilers |-> {}]

GoTo(j, label) ==
  /\ pc' = [pc EXCEPT ![j] = label]
  /\ UNCHANGED <<req, elapsed, outcome>>

\* The job returns a TickerIngestionResult with this status.
Return(j, result) ==
  /\ pc' = [pc EXCEPT ![j] = "done"]
  /\ outcome' = [outcome EXCEPT ![j] = result]
  /\ UNCHANGED <<req, elapsed>>

\* The row of job j's request becomes "started" under the job's hash.
BecomeStarted(j) ==
  /\ status' = [status EXCEPT ![req[j].run] = "started"]
  /\ hash' = [hash EXCEPT ![req[j].run] = req[j].hash]
  /\ age' = [age EXCEPT ![req[j].run] = 0]

\* An UPDATE of the status column of the job's row, and its commit.
SetStatus(j, s) ==
  /\ status' = [status EXCEPT ![req[j].run] = s]
  /\ UNCHANGED <<hash, age>>

-----------------------------------------------------------------------------
(* start_or_restart_run. *)

Invoke(j) ==
  /\ pc[j] = "idle"
  /\ GoTo(j, "lookup")
  /\ UNCHANGED <<ledger, archive, producer, picked>>

\* The row of the job's run_id succeeded with the job's input.
AlreadyDone(j) ==
  status[req[j].run] = "succeeded" /\ hash[req[j].run] = req[j].hash

\* What happens once the row of the run_id is read, and locked: a succeeded
\* row of the same hash is replayed, a row that is neither that nor restartable
\* is refused with ValueError, and the others are restarted.  The restart's
\* commit fails with IntegrityError when another row owns the hash; nothing in
\* the method catches that one and _run_ticker reports a failed result.
ResolveExisting(j) ==
  LET r == req[j].run
  IN  \/ AlreadyDone(j) /\ Return(j, "replayed") /\ UNCHANGED ledger
      \/ /\ ~AlreadyDone(j)
         /\ status[r] \notin Restartable
         /\ Return(j, "failed")
         /\ UNCHANGED ledger
      \/ /\ ~AlreadyDone(j)
         /\ status[r] \in Restartable
         /\ HashFree(r, req[j].hash)
         /\ BecomeStarted(j)
         /\ GoTo(j, "check")
      \/ /\ ~AlreadyDone(j)
         /\ status[r] \in Restartable
         /\ ~HashFree(r, req[j].hash)
         /\ Return(j, "failed")
         /\ UNCHANGED ledger

\* Mutation: an active owner of the hash counts as a replay, too.
MutResolveOwner(j) ==
  OwnersOf(req[j].hash) # {} /\ Return(j, "replayed")

\* What happens once the rows that own the hash are read: an owner that
\* succeeded is replayed, an active one refuses the job.
ResolveOwner(j) ==
  \E r \in OwnersOf(req[j].hash) :
    Return(j, IF status[r] = "succeeded" THEN "replayed" ELSE "failed")

\* SELECT ... WHERE run_id = ... FOR UPDATE
Lookup(j) ==
  /\ pc[j] = "lookup"
  /\ \/ /\ status[req[j].run] = "absent"
        /\ GoTo(j, "duplicate")
        /\ UNCHANGED ledger
     \/ /\ status[req[j].run] # "absent"
        /\ ResolveExisting(j)
  /\ UNCHANGED <<archive, producer, picked>>

\* _find_duplicate_by_input_hash
FindDuplicate(j) ==
  /\ pc[j] = "duplicate"
  /\ \/ ResolveOwner(j)
     \/ OwnersOf(req[j].hash) = {} /\ GoTo(j, "insert")
  /\ UNCHANGED <<ledger, archive, producer, picked>>

\* start_run: the INSERT violates a unique index when a concurrent job has
\* inserted the run_id, or taken the hash, since the two lookups.
Insert(j) ==
  LET r == req[j].run
  IN  /\ pc[j] = "insert"
      /\ IF status[r] = "absent" /\ HashFree(r, req[j].hash)
           THEN BecomeStarted(j) /\ GoTo(j, "check")
           ELSE GoTo(j, "recover") /\ UNCHANGED ledger
      /\ UNCHANGED <<archive, producer, picked>>

\* The except branch of the INSERT.  When neither lookup finds a row any more
\* the IntegrityError is raised again and the result is a failed one.
RecoverByRunId(j) ==
  /\ pc[j] = "recover"
  /\ \/ status[req[j].run] # "absent" /\ ResolveExisting(j)
     \/ /\ status[req[j].run] = "absent"
        /\ GoTo(j, "recoverByHash")
        /\ UNCHANGED ledger
  /\ UNCHANGED <<archive, producer, picked>>

RecoverByHash(j) ==
  /\ pc[j] = "recoverByHash"
  /\ \/ ResolveOwner(j)
     \/ OwnersOf(req[j].hash) = {} /\ Return(j, "failed")
  /\ UNCHANGED <<ledger, archive, producer, picked>>

-----------------------------------------------------------------------------
(* _run_ticker once the row is started. *)

\* The refreshed row is replayed when it already reads "succeeded".
CheckReplay(j) ==
  /\ pc[j] = "check"
  /\ IF status[req[j].run] = "succeeded"
       THEN Return(j, "replayed")
       ELSE GoTo(j, "fetch")
  /\ UNCHANGED <<ledger, archive, producer, picked>>

\* The provider call: an answer or a fallback, either goes on.
Fetch(j) ==
  /\ pc[j] = "fetch"
  /\ GoTo(j, "archive")
  /\ UNCHANGED <<ledger, archive, producer, picked>>

\* The payload is put under a key made of the run_id, over an earlier one.
Archive(j) ==
  /\ pc[j] = "archive"
  /\ archive' = [archive EXCEPT ![req[j].run] = j]
  /\ GoTo(j, "persist")
  /\ UNCHANGED <<ledger, producer, picked>>

\* _persist_result and mark_succeeded: the data and the status commit
\* together.  The mark is an UPDATE by primary key with no condition on the
\* status; it fails when another row has come to own the row's hash.
MarkSucceeded(j) ==
  LET r == req[j].run
  IN  /\ pc[j] = "persist"
      /\ IF HashFree(r, hash[r])
           THEN /\ SetStatus(j, "succeeded")
                /\ producer' = [producer EXCEPT ![r] = j]
                /\ GoTo(j, "report")
           ELSE /\ GoTo(j, "failing")
                /\ UNCHANGED <<ledger, producer>>
      /\ UNCHANGED <<archive, picked>>

\* A fallback answer, missing OpenDART data or no KRX row written.
MarkPartialFailed(j) ==
  /\ pc[j] = "persist"
  /\ SetStatus(j, "partial_failed")
  /\ GoTo(j, "report")
  /\ UNCHANGED <<archive, producer, picked>>

\* An exception in the fetch, the archive or the persist step: rollback.
Raise(j) ==
  /\ pc[j] \in {"fetch", "archive", "persist"}
  /\ GoTo(j, "failing")
  /\ UNCHANGED <<ledger, archive, producer, picked>>

\* Mutation: the failure is reported and the row left as it is.
MutMarkFailedSkipped(j) ==
  /\ pc[j] = "failing"
  /\ GoTo(j, "report")
  /\ UNCHANGED <<ledger, archive, producer, picked>>

\* mark_failed_by_run_id: again no condition on the status.
MarkFailed(j) ==
  /\ pc[j] = "failing"
  /\ SetStatus(j, "failed")
  /\ GoTo(j, "report")
  /\ UNCHANGED <<archive, producer, picked>>

\* The refresh after the mark's commit reads the row again, and the result
\* carries the status it finds.
Report(j) ==
  /\ pc[j] = "report"
  /\ Return(j, status[req[j].run])
  /\ UNCHANGED <<ledger, archive, producer, picked>>

-----------------------------------------------------------------------------
(* The environment: crashes, timeouts and the clock. *)

\* The invocation dies, by a crash or because it reached its deadline.
Kill(j) ==
  /\ Live(j)
  /\ GoTo(j, "dead")
  /\ UNCHANGED <<ledger, archive, producer, picked>>

\* Mutation: nothing kills an invocation that runs too long.
MutDeadline == TRUE

\* No live invocation is older than the deadline of the function.
Deadline == \A j \in Jobs : Live(j) => elapsed[j] < LambdaTimeout

Tick ==
  /\ Deadline
  /\ elapsed' = [j \in Jobs |-> IF Live(j) THEN elapsed[j] + 1 ELSE elapsed[j]]
  /\ age' = [r \in RunIds |->
       IF status[r] = "started" /\ age[r] < MaxAge THEN age[r] + 1 ELSE age[r]]
  /\ UNCHANGED <<status, hash, archive, producer, req, pc, outcome, picked>>

-----------------------------------------------------------------------------
(* reconcile_stale_started_runs. *)

\* The SELECT.  The scope filters and the limit decide which stale rows it
\* returns; it takes no lock.
ReconcileSelect(c) ==
  /\ picked[c] = {}
  /\ \E S \in (SUBSET {r \in RunIds : Stale(r)}) \ {{}} :
       picked' = [picked EXCEPT ![c] = S]
  /\ UNCHANGED <<ledger, archive, producer, jobVars>>

\* The commit: every selected row becomes "failed", whatever it is by then.
ReconcileWrite(c) ==
  /\ picked[c] # {}
  /\ status' = [r \in RunIds |-> IF r \in picked[c] THEN "failed" ELSE status[r]]
  /\ picked' = [picked EXCEPT ![c] = {}]
  /\ UNCHANGED <<hash, age, archive, producer, jobVars>>

\* A dry run, or an invocation that dies before its commit.
ReconcileDiscard(c) ==
  /\ picked[c] # {}
  /\ picked' = [picked EXCEPT ![c] = {}]
  /\ UNCHANGED <<ledger, archive, producer, jobVars>>

-----------------------------------------------------------------------------

\* The statements job j executes itself.
JobStep(j) ==
  \/ Lookup(j)
  \/ FindDuplicate(j)
  \/ Insert(j)
  \/ RecoverByRunId(j)
  \/ RecoverByHash(j)
  \/ CheckReplay(j)
  \/ Fetch(j)
  \/ Archive(j)
  \/ MarkSucceeded(j)
  \/ MarkPartialFailed(j)
  \/ Raise(j)
  \/ MarkFailed(j)
  \/ Report(j)

Next ==
  \/ \E j \in Jobs : Invoke(j) \/ JobStep(j) \/ Kill(j)
  \/ Tick
  \/ \E c \in Reconcilers :
       ReconcileSelect(c) \/ ReconcileWrite(c) \/ ReconcileDiscard(c)

Spec == Init /\ [][Next]_vars

\* The runtime runs every invocation until it returns or is killed.
JobFairness == \A j \in Jobs : WF_vars(JobStep(j))

\* What the runbook asks of the operators: while there are stale rows the
\* reconciliation is invoked, and not only as a dry run.
ReconcileFairness ==
  /\ WF_vars(Tick)
  /\ \A c \in Reconcilers :
       WF_vars(ReconcileSelect(c)) /\ SF_vars(ReconcileWrite(c))

FairSpec == Spec /\ JobFairness

-----------------------------------------------------------------------------
(* Properties. *)

Labels ==
  {"idle", "lookup", "duplicate", "insert", "recover", "recoverByHash", "check",
   "fetch", "archive", "persist", "failing", "report", "done", "dead"}

\* Every variable of the ledger, the jobs and the reconcilers has its type.
TypeOK ==
  /\ status \in [RunIds -> Statuses]
  /\ hash \in [RunIds -> Hashes \cup {NoHash}]
  /\ age \in [RunIds -> 0..MaxAge]
  /\ archive \in [RunIds -> Jobs \cup {NoJob}]
  /\ producer \in [RunIds -> Jobs \cup {NoJob}]
  /\ req \in [Jobs -> Requests]
  /\ pc \in [Jobs -> Labels]
  /\ elapsed \in [Jobs -> 0..LambdaTimeout]
  /\ outcome \in [Jobs -> Statuses \cup {"none", "replayed"}]
  /\ picked \in [Reconcilers -> SUBSET RunIds]

\* DB_SCHEMA.md: no two rows that are active or succeeded share an input_hash,
\* whichever of the three writes (insert, restart, mark) came last.
HashOwnedOnce ==
  \A r, s \in RunIds :
    r # s /\ status[r] \in {"started", "succeeded"}
          /\ status[s] \in {"started", "succeeded"} => hash[r] # hash[s]

\* Two jobs never execute the same run, or the same input under two runs, at
\* the same time: the start protocol, the deadline and the reconciler's age
\* threshold together keep a second job out while the first may still write.
OneExecutor ==
  \A j, k \in Jobs :
    j # k /\ Executing(j) /\ Executing(k) =>
      req[j].run # req[k].run /\ req[j].hash # req[k].hash

\* A succeeded row tells the truth: a job that was asked for exactly the row's
\* input committed its data, and the archived payload is that job's.
SucceededIsBacked ==
  \A r \in RunIds : status[r] = "succeeded" =>
    \E j \in Jobs :
      producer[r] = j /\ archive[r] = j /\ req[j] = [run |-> r, hash |-> hash[r]]

\* A job that skipped its work as a replay did so for an input that is, and
\* stays, recorded as succeeded.
ReplayIsBacked ==
  \A j \in Jobs : outcome[j] = "replayed" =>
    \E r \in RunIds : status[r] = "succeeded" /\ hash[r] = req[j].hash

\* No late mark, failure or reconciliation ever changes a succeeded row.
SuccessIsFinal ==
  [][\A r \in RunIds : status[r] = "succeeded" =>
       UNCHANGED <<status[r], hash[r], archive[r], producer[r]>>]_vars

\* A started row whose job is alive leaves "started" only by that job's step.
LiveRunsAreSpared ==
  [][\A j \in Jobs : Executing(j) /\ status'[req[j].run] # "started" =>
       pc'[j] # pc[j]]_vars

\* Whatever the timing, a succeeded row is never started again.
SucceededIsNotRestarted ==
  [][\A r \in RunIds : status[r] = "succeeded" => status'[r] # "started"]_vars

\* A row that was started and never finishes belongs to an invocation that
\* died: no error path of a job that survives leaves the row "started".
StuckOnlyAfterDeath ==
  \A r \in RunIds :
    status[r] = "started" ~>
      (status[r] # "started" \/ \E j \in Jobs : pc[j] = "dead" /\ req[j].run = r)

\* When the operators keep reconciling, every started row eventually reaches
\* another status, whatever died while it was started.
StartedRunEnds ==
  ReconcileFairness =>
    \A r \in RunIds : status[r] = "started" ~> status[r] # "started"

\* DB_SCHEMA.md: a request whose input_hash has already succeeded is replayed
\* even when it names another run_id.  Here the run_id it names is of a failed
\* row, which nothing but the restart's commit keeps from being started again.
SucceededHashIsReplayed ==
  [][\A j \in Jobs, r \in RunIds :
       /\ status[r] = "succeeded" /\ hash[r] = req[j].hash
       /\ status[req[j].run] = "failed"
       /\ pc[j] = "lookup" /\ pc'[j] = "done"
       => outcome'[j] = "replayed"]_vars

-----------------------------------------------------------------------------
(* The strengthening that makes the safety properties inductive. *)

\* An executing job's row is started, carries the job's hash and is no older
\* than the invocation; from "persist" on the archived payload is the job's.
ExecutorOwnsRow ==
  \A j \in Jobs : Executing(j) =>
    /\ status[req[j].run] = "started"
    /\ hash[req[j].run] = req[j].hash
    /\ age[req[j].run] <= elapsed[j]
    /\ pc[j] = "persist" => archive[req[j].run] = j

\* Two executing jobs have two rows.
RowsNotShared ==
  \A j, k \in Jobs : j # k /\ Executing(j) /\ Executing(k) => req[j].run # req[k].run

\* What a reconciler has read is still stale when it writes.
PickedIsStale == \A c \in Reconcilers : \A r \in picked[c] : Stale(r)

IInv ==
  /\ TypeOK
  /\ HashOwnedOnce
  /\ ExecutorOwnsRow
  /\ RowsNotShared
  /\ PickedIsStale
  /\ SucceededIsBacked
  /\ ReplayIsBacked

-----------------------------------------------------------------------------
(* The jobs, the clock and the reconciler implement the abstract ledger: it *)
(* reads the same rows, and every other variable is hidden.                 *)

Abstract == INSTANCE RunLedger
  WITH RunIds <- RunIds, Hashes <- Hashes, NoHash <- NoHash, status <- status, hash <- hash

\* Every behaviour of the ledger's rows is one RunLedger allows.
ImplementsRunLedger == Abstract!Spec
=============================================================================

---------------------------- MODULE BatchLocks ----------------------------
(***************************************************************************)
(* Provider batches over a list of tickers, and the row locks on the       *)
(* ingestion ledger they collect on the way.  IngestionRuns has one job    *)
(* per ticker and treats a SELECT ... FOR UPDATE as granted; here the lock *)
(* outlives the ticker: a replay and a refusal return without commit or    *)
(* rollback, and the batch goes on to its next ticker in the same          *)
(* transaction.  PostgreSQL aborts one transaction of a circle of waiting. *)
(*                                                                         *)
(* The batches are retries or overlaps of one scheduled request, so the    *)
(* run of a ticker is named by the ticker, and its input_hash with it.     *)
(***************************************************************************)
EXTENDS Integers, Sequences

CONSTANTS
  Batches,  \* invocations of run_provider_batch
  N,        \* number of tickers; 1..N stands for them in their order
  Orders,   \* the ticker lists a request may carry, without repetitions
  Earlier   \* the statuses earlier batches have left

Tickers == 1..N

ASSUME BatchesAssumption == N \in Nat

ASSUME OrdersAssumption ==
  \A o \in Orders :
    /\ o \in Seq(Tickers) /\ o # <<>>
    /\ \A i, k \in 1..Len(o) : i # k => o[i] # o[k]

ASSUME EarlierAssumption == Earlier \subseteq {"absent", "started", "succeeded", "failed"}

VARIABLES
  status,  \* status[t]: the committed status of the run of ticker t
  order,   \* order[b]: the tickers of batch b
  pos,     \* pos[b]: the position the batch has reached
  pc,      \* pc[b]: the statement it executes next
  held,    \* held[b]: the rows its open transaction has locked
  result   \* result[b]: the result of the ticker the batch dealt with last

vars == <<status, order, pos, pc, held, result>>

-----------------------------------------------------------------------------

Restartable == {"failed"}

Ticker(b) == order[b][pos[b]]

Locked(b, t) == \E c \in Batches \ {b} : t \in held[c]

\* A row the lookup by input_hash returns.
OwnsHash(t) == status[t] \in {"started", "succeeded"}

\* The statements of batch b that take, or need, the lock of its ticker's row.
Wants(b) ==
  \/ pc[b] = "lookup" /\ status[Ticker(b)] # "absent"
  \/ pc[b] = "duplicate" /\ OwnsHash(Ticker(b))
  \/ pc[b] = "recover"
  \/ pc[b] = "mark"

Waits(b, c) == Wants(b) /\ b # c /\ Ticker(b) \in held[c]

\* Batch b is in a circle of waiting: a row has one holder, so in a set where
\* every batch waits for one and is waited for by one, every batch is.
Deadlocked(b) ==
  \E S \in SUBSET Batches :
    /\ b \in S
    /\ \A x \in S : (\E y \in S : Waits(x, y)) /\ (\E y \in S : Waits(y, x))

-----------------------------------------------------------------------------

Init ==
  /\ status \in [Tickers -> Earlier]
  /\ order \in [Batches -> Orders]
  /\ pos = [b \in Batches |-> 1]
  /\ pc = [b \in Batches |-> "lookup"]
  /\ held = [b \in Batches |-> {}]
  /\ result = [b \in Batches |-> "none"]

GoTo(b, label) == pc' = [pc EXCEPT ![b] = label] /\ UNCHANGED <<order, pos, result>>

Lock(b, t) == held' = [held EXCEPT ![b] = @ \cup {t}]

\* Commit, rollback, or the end of the connection.
Release(b) == held' = [held EXCEPT ![b] = {}]

\* The ticker has its result, and the loop goes on to the next one.
Finish(b, r) ==
  /\ result' = [result EXCEPT ![b] = r]
  /\ pos' = [pos EXCEPT ![b] = @ + 1]
  /\ pc' = [pc EXCEPT ![b] = IF pos[b] < Len(order[b]) THEN "lookup" ELSE "close"]
  /\ UNCHANGED order

\* The row is there and locked: replay it, refuse it or restart it.
Resolve(b) ==
  LET t == Ticker(b)
  IN  \/ status[t] = "succeeded" /\ Finish(b, "replayed")
      \/ status[t] = "started" /\ Finish(b, "refused")
      \/ status[t] \in Restartable /\ GoTo(b, "restart")

\* SELECT ... WHERE run_id = ... FOR UPDATE
Lookup(b) ==
  LET t == Ticker(b)
  IN  /\ pc[b] = "lookup"
      /\ \/ status[t] = "absent" /\ GoTo(b, "duplicate") /\ UNCHANGED held
         \/ /\ status[t] # "absent"
            /\ ~Locked(b, t)
            /\ Lock(b, t)
            /\ Resolve(b)
      /\ UNCHANGED status

\* Mutation: the lookup does not filter by input_hash.
MutFindDuplicate(b) ==
  /\ pc[b] = "duplicate"
  /\ \/ \E t \in Tickers : OwnsHash(t) /\ ~Locked(b, t) /\ Lock(b, t) /\ Finish(b, "replayed")
     \/ GoTo(b, "insert") /\ UNCHANGED held
  /\ UNCHANGED status

\* SELECT ... WHERE input_hash = ... FOR UPDATE: finds the row only when it has
\* been inserted since the lookup by run_id.
FindDuplicate(b) ==
  LET t == Ticker(b)
  IN  /\ pc[b] = "duplicate"
      /\ \/ ~OwnsHash(t) /\ GoTo(b, "insert") /\ UNCHANGED held
         \/ OwnsHash(t) /\ ~Locked(b, t) /\ Lock(b, t) /\ Resolve(b)
      /\ UNCHANGED status

\* Mutation: the start is flushed and not committed.
MutCommitStart(b) == UNCHANGED held

\* The commit of start_run, and of a restart.
CommitStart(b) == Release(b)

\* start_run, or the rollback of its IntegrityError.
Insert(b) ==
  LET t == Ticker(b)
  IN  /\ pc[b] = "insert"
      /\ \/ /\ status[t] = "absent"
            /\ status' = [status EXCEPT ![t] = "started"]
            /\ CommitStart(b)
            /\ GoTo(b, "work")
         \/ /\ status[t] # "absent"
            /\ Release(b)
            /\ GoTo(b, "recover")
            /\ UNCHANGED status

\* _find_existing_after_integrity_error: the row exists now.
Recover(b) ==
  LET t == Ticker(b)
  IN  /\ pc[b] = "recover"
      /\ ~Locked(b, t)
      /\ Lock(b, t)
      /\ Resolve(b)
      /\ UNCHANGED status

Restart(b) ==
  /\ pc[b] = "restart"
  /\ status' = [status EXCEPT ![Ticker(b)] = "started"]
  /\ CommitStart(b)
  /\ GoTo(b, "work")

\* Fetch, archive and persist; none of them touches the ledger.
Work(b) ==
  /\ pc[b] = "work"
  /\ GoTo(b, "mark")
  /\ UNCHANGED <<status, held>>

\* The commit of mark_succeeded, mark_partial_failed or mark_failed: the UPDATE
\* waits for whoever holds the row.
Mark(b) ==
  LET t == Ticker(b)
  IN  /\ pc[b] = "mark"
      /\ ~Locked(b, t)
      /\ \E s \in {"succeeded", "failed"} :
           status' = [status EXCEPT ![t] = s] /\ Finish(b, s)
      /\ Release(b)

\* The database aborts a transaction of the circle: _run_ticker rolls back and
\* reports the ticker as failed.
Victim(b) ==
  /\ pc[b] \in {"lookup", "duplicate", "recover"}
  /\ Deadlocked(b)
  /\ Release(b)
  /\ Finish(b, "deadlock")
  /\ UNCHANGED status

\* Mutation: the session is not closed, and its connection leaks.
MutClose(b) ==
  /\ pc[b] = "close"
  /\ GoTo(b, "done")
  /\ UNCHANGED <<status, held>>

\* The end of the with block of the session.
Close(b) ==
  /\ pc[b] = "close"
  /\ Release(b)
  /\ GoTo(b, "done")
  /\ UNCHANGED status

\* The invocation dies; its connection is closed.
Kill(b) ==
  /\ pc[b] \notin {"done", "dead"}
  /\ Release(b)
  /\ GoTo(b, "dead")
  /\ UNCHANGED status

Step(b) ==
  \/ Lookup(b)
  \/ FindDuplicate(b)
  \/ Insert(b)
  \/ Recover(b)
  \/ Restart(b)
  \/ Work(b)
  \/ Mark(b)
  \/ Victim(b)
  \/ Close(b)

Next == \E b \in Batches : Step(b) \/ Kill(b)

Spec == Init /\ [][Next]_vars

\* The runtime runs an invocation as long as its statement can be executed,
\* and the database resolves every deadlock.
FairSpec == Spec /\ \A b \in Batches : WF_vars(Step(b))

-----------------------------------------------------------------------------
(* Properties. *)

Labels ==
  {"lookup", "duplicate", "insert", "recover", "restart", "work", "mark", "close",
   "done", "dead"}

\* Every variable has its type.
TypeOK ==
  /\ status \in [Tickers -> {"absent", "started", "succeeded", "failed"}]
  /\ order \in [Batches -> Orders]
  /\ pos \in [Batches -> Nat \ {0}]
  /\ pc \in [Batches -> Labels]
  /\ held \in [Batches -> SUBSET Tickers]
  /\ result \in [Batches -> {"none", "replayed", "refused", "succeeded", "failed",
                             "deadlock"}]

\* The batch has a ticker to work on.
Busy(b) == pc[b] \notin {"close", "done", "dead"}

\* No ledger row stays locked while a batch waits for a provider, and a mark is
\* therefore never part of a deadlock: locks kept after a replay or a refusal
\* are gone once the batch starts a run.
NoLockWhileWorking ==
  \A b \in Batches : pc[b] \in {"work", "mark"} => held[b] = {}

Ascending(o) == \A i, k \in 1..Len(o) : i < k => o[i] < o[k]

\* When every request lists its tickers in one common order no batch is ever a
\* deadlock victim, whatever mixture of replays, refusals and starts it meets.
InOrderNoDeadlock ==
  (\A b \in Batches : Ascending(order[b])) =>
    \A b \in Batches : result[b] # "deadlock"

\* Every batch gets through its list, or dies: no lock is waited for forever.
EveryBatchEnds == \A b \in Batches : <>(pc[b] \in {"done", "dead"})

-----------------------------------------------------------------------------
(* The strengthening that makes the safety properties inductive. *)

\* A batch that has a ticker left is within its list.
WithinList == \A b \in Batches : Busy(b) => pos[b] \in 1..Len(order[b])

\* The rows a batch holds are those of tickers it has dealt with; the one it is
\* at only between the lookup and the restart.
HoldsOnlyPassed ==
  \A b \in Batches : \A t \in held[b] :
    \/ \E i \in 1..Len(order[b]) : i < pos[b] /\ order[b][i] = t
    \/ pc[b] = "restart" /\ t = Ticker(b)

IInv ==
  /\ TypeOK
  /\ WithinList
  /\ HoldsOnlyPassed
  /\ NoLockWhileWorking
  /\ InOrderNoDeadlock
=============================================================================

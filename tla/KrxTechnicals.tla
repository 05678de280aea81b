--------------------------- MODULE KrxTechnicals ---------------------------
(***************************************************************************)
(* The price rows of one ticker and the technical metrics (momentum_20d,   *)
(* volatility_20d) of the latest of them.  Two paths write both: the daily *)
(* KRX ingestion of the ticker and the market-wide bootstrap.  Each works  *)
(* in a database transaction at READ COMMITTED: a SELECT sees what was     *)
(* committed before it and the job's own writes, a write waits for the row *)
(* lock of a transaction that is still open.  The sessions of the program  *)
(* are made with autoflush=False, so a SELECT does not see a row that was  *)
(* added to the session and not flushed.                                   *)
(*                                                                         *)
(* A job is one such transaction: a ticker of an ingestion batch, or one   *)
(* source date of a bootstrap (the provider call for the next date commits *)
(* the session).  Metrics are kept as the sample of closes they are        *)
(* computed from.                                                          *)
(***************************************************************************)
EXTENDS Integers, FiniteSets

CONSTANTS
  Dates,   \* trading days
  Closes,  \* close prices a payload may carry; 0 stands for none or not positive
  NoRow,   \* the close of a date without a row
  Window,  \* rows the metrics are computed from (21 in the code)
  Tables,  \* tables the jobs may find: up to Window rows, without metrics yet
  Jobs     \* transactions

ASSUME DatesAssumption == Dates \subseteq Nat /\ IsFiniteSet(Dates)

ASSUME ClosesAssumption == Closes \subseteq Nat /\ NoRow \notin Closes

ASSUME WindowAssumption == Window \in Nat \ {0}

ASSUME TablesAssumption ==
  \A t \in Tables :
    /\ t \in [Dates -> Closes \cup {NoRow}]
    /\ Cardinality({d \in Dates : t[d] # NoRow}) <= Window

VARIABLES
  close,  \* close[d]: the committed close of date d, or NoRow
  tech,   \* tech[d]: the committed metrics of row d, NoTech when NULL
  pc,     \* pc[j]: what job j does next
  item,   \* item[j]: the path, date and close of the job's payload
  seen,   \* seen[j]: the row the job's SELECT by date found, or NoRow
  plan,   \* plan[j]: the metrics the job has assigned, and to which row
  todo,   \* todo[j]: the rows the job's current flush has yet to write
  held,   \* held[j]: the rows the job has written and therefore locks
  alone   \* alone[j]: no other transaction was open while job j's was

vars == <<close, tech, pc, item, seen, plan, todo, held, alone>>

-----------------------------------------------------------------------------

NoTech == [d \in {} |-> 0]

NoPlan == [date |-> 0, sample |-> NoTech]

Items == [path : {"ingest", "bootstrap"}, date : Dates, close : Closes]

Open(j) == pc[j] \notin {"idle", "done"}

\* The row the job's payload item belongs to is written by an INSERT.
Inserts(j) == seen[j] = NoRow

\* An UPDATE is issued only when a column changes.
WritesRow(j) == seen[j] # item[j].close

\* Mutation: the ingestion refreshes before it flushes, like the bootstrap.
MutSeesOwnRow(j) == ~Inserts(j)

\* Whether the refresh's SELECT returns the job's own row with its new close:
\* an ingestion has flushed it, a bootstrap has only added it to the session.
\* A row that existed is in the session's identity map either way.
SeesOwnRow(j) == item[j].path = "ingest" \/ ~Inserts(j)

\* The closes a SELECT of job j reads.
View(j) ==
  [d \in Dates |-> IF d = item[j].date /\ SeesOwnRow(j) THEN item[j].close ELSE close[d]]

Rows(v) == {d \in Dates : v[d] # NoRow}

\* Mutation: the rows are taken in ascending order, unreversed.
MutIsLatest(d, v) == d \in Rows(v) /\ \A e \in Rows(v) : e >= d

IsLatest(d, v) == d \in Rows(v) /\ \A e \in Rows(v) : e <= d

\* ORDER BY trade_date DESC LIMIT Window
LatestRows(v) == {d \in Rows(v) : Cardinality({e \in Rows(v) : e >= d}) <= Window}

Sample(v) == [d \in LatestRows(v) |-> v[d]]

\* Mutation: a shorter sample is accepted.
MutAnySize(v) == Rows(v) # {} /\ \A d \in LatestRows(v) : v[d] > 0

\* Neither insufficient_samples nor non_positive_close.
Computable(v) ==
  Cardinality(LatestRows(v)) = Window /\ \A d \in LatestRows(v) : v[d] > 0

\* The latest row, when there are enough rows, carries the metrics of v.
Fresh(v, t) == Computable(v) => \A d \in Dates : IsLatest(d, v) => t[d] = Sample(v)

-----------------------------------------------------------------------------

Init ==
  /\ close \in Tables
  /\ tech = [d \in Dates |-> NoTech]
  /\ pc = [j \in Jobs |-> "idle"]
  /\ item \in [Jobs -> Items]
  /\ seen = [j \in Jobs |-> NoRow]
  /\ plan = [j \in Jobs |-> NoPlan]
  /\ todo = [j \in Jobs |-> {}]
  /\ held = [j \in Jobs |-> {}]
  /\ alone = [j \in Jobs |-> FALSE]

GoTo(j, label) == pc' = [pc EXCEPT ![j] = label]

\* The SELECT by ticker and trade date, the first statement on the price rows;
\* then the changed row waits for the flush.  The bootstrap refreshes first.
Start(j) ==
  LET d == item[j].date
      found == close[d]
  IN  /\ pc[j] = "idle"
      /\ seen' = [seen EXCEPT ![j] = found]
      /\ todo' = [todo EXCEPT ![j] = IF found # item[j].close THEN {d} ELSE {}]
      /\ GoTo(j, IF item[j].path = "ingest" THEN "flush" ELSE "refresh")
      /\ alone' = [k \in Jobs |-> IF k = j THEN \A i \in Jobs : ~Open(i)
                                  ELSE alone[k] /\ ~Open(k)]
      /\ UNCHANGED <<close, tech, item, plan, held>>

\* The rollback of a failed, killed or deadlocked transaction.
Abort(j) ==
  /\ Open(j)
  /\ GoTo(j, "done")
  /\ plan' = [plan EXCEPT ![j] = NoPlan]
  /\ todo' = [todo EXCEPT ![j] = {}]
  /\ held' = [held EXCEPT ![j] = {}]
  /\ UNCHANGED <<close, tech, item, seen, alone>>

Locked(j, d) == \E k \in Jobs \ {j} : d \in held[k]

\* One INSERT or UPDATE of a flush, in an order that is SQLAlchemy's affair.
\* The insert of a date that has got a row since the SELECT violates the unique
\* constraint, and the transaction is rolled back by Abort.
Write(j, d) ==
  /\ pc[j] \in {"flush", "store"}
  /\ d \in todo[j]
  /\ ~Locked(j, d)
  /\ Inserts(j) /\ d = item[j].date => close[d] = NoRow
  /\ todo' = [todo EXCEPT ![j] = @ \ {d}]
  /\ held' = [held EXCEPT ![j] = @ \cup {d}]
  /\ UNCHANGED <<close, tech, pc, item, seen, plan, alone>>

\* The end of a flush: the ingestion refreshes after its first one.
Flushed(j) ==
  /\ pc[j] \in {"flush", "store"}
  /\ todo[j] = {}
  /\ GoTo(j, IF item[j].path = "ingest" /\ pc[j] = "flush" THEN "refresh" ELSE "commit")
  /\ UNCHANGED <<close, tech, item, seen, plan, todo, held, alone>>

\* _refresh_krx_technical_metrics: the sample of the rows the SELECT returns is
\* assigned to the latest of them, or the refresh is skipped.
Refresh(j) ==
  LET v == View(j)
      changed == {d \in Dates : IsLatest(d, v) /\ Computable(v) /\ tech[d] # Sample(v)}
  IN  /\ pc[j] = "refresh"
      /\ plan' = [plan EXCEPT ![j] =
           IF changed = {} THEN NoPlan
           ELSE [date |-> CHOOSE d \in changed : TRUE, sample |-> Sample(v)]]
      /\ todo' = [todo EXCEPT ![j] = @ \cup changed]
      /\ GoTo(j, IF item[j].path = "ingest" THEN "store" ELSE "flush")
      /\ UNCHANGED <<close, tech, item, seen, held, alone>>

\* The commit of the run's mark, of the next provider call or of the bootstrap.
Commit(j) ==
  /\ pc[j] = "commit"
  /\ close' = [close EXCEPT ![item[j].date] = IF WritesRow(j) THEN item[j].close ELSE @]
  /\ tech' = [d \in Dates |->
       IF plan[j] # NoPlan /\ d = plan[j].date THEN plan[j].sample ELSE tech[d]]
  /\ GoTo(j, "done")
  /\ plan' = [plan EXCEPT ![j] = NoPlan]
  /\ held' = [held EXCEPT ![j] = {}]
  /\ UNCHANGED <<item, seen, todo, alone>>

Next ==
  \E j \in Jobs :
    \/ Start(j)
    \/ \E d \in Dates : Write(j, d)
    \/ Flushed(j)
    \/ Refresh(j)
    \/ Commit(j)
    \/ Abort(j)

Spec == Init /\ [][Next]_vars

-----------------------------------------------------------------------------
(* Properties. *)

\* The metrics a row may carry: none, or those of a set of positive closes.
Samples == UNION {[D -> Closes \ {0}] : D \in SUBSET Dates}

\* Every variable has its type.
TypeOK ==
  /\ close \in [Dates -> Closes \cup {NoRow}]
  /\ tech \in [Dates -> Samples]
  /\ pc \in [Jobs -> {"idle", "flush", "refresh", "store", "commit", "done"}]
  /\ item \in [Jobs -> Items]
  /\ seen \in [Jobs -> Closes \cup {NoRow}]
  /\ plan \in [Jobs -> [date : Dates \cup {0}, sample : Samples]]
  /\ todo \in [Jobs -> SUBSET Dates]
  /\ held \in [Jobs -> SUBSET Dates]
  /\ alone \in [Jobs -> BOOLEAN]

\* SCORE_ENGINE.md: metrics exist only once there are Window closes, and belong
\* to the last of the days they are computed from.
MetricsNeedFullWindow ==
  \A d \in Dates : tech[d] # NoTech =>
    /\ close[d] # NoRow
    /\ Cardinality(DOMAIN tech[d]) = Window
    /\ d \in DOMAIN tech[d]
    /\ \A e \in DOMAIN tech[d] : e <= d

\* A transaction that overlapped no other leaves the latest row with the
\* metrics of the committed closes, whatever state earlier overlaps left it in.
\* The exception is a bootstrap that inserts its row (see BootstrapRefreshes).
QuietRunRefreshes ==
  [][\A j \in Jobs :
       Commit(j) /\ alone[j] /\ (item[j].path = "ingest" \/ ~Inserts(j))
       => Fresh(close', tech')]_vars

\* INGESTION_OPERATIONS_RUNBOOK.md: once a ticker has Window rows the bootstrap
\* gives the latest row its metrics.
BootstrapRefreshes ==
  [][\A j \in Jobs :
       Commit(j) /\ alone[j] /\ item[j].path = "bootstrap" => Fresh(close', tech')]_vars

\* Job j waits for row d, which job k has locked.
Waits(j, k, d) ==
  pc[j] \in {"flush", "store"} /\ d \in todo[j] /\ d \in held[k] /\ j # k

\* Ingestions never deadlock over a ticker's rows: whoever is waited for waits,
\* if at all, for a later date, so no circle of waiting can close.
IngestionsWaitInDateOrder ==
  \A i, j, k \in Jobs, d, e \in Dates :
    item[j].path = "ingest" /\ Waits(i, j, d) /\ Waits(j, k, e) => d < e

-----------------------------------------------------------------------------
(* The strengthening that makes the safety properties inductive. *)

\* No two open transactions have written the same row.
RowsLockedOnce == \A j, k \in Jobs : j # k => held[j] \cap held[k] = {}

\* What an ingestion has yet to write lies at or after what it has written, and
\* nothing is written twice.
IngestionWritesUpwards ==
  \A j \in Jobs : item[j].path = "ingest" =>
    /\ ~Open(j) => held[j] = {}
    /\ pc[j] \in {"flush", "refresh"} => todo[j] \cup held[j] \subseteq {item[j].date}
    /\ pc[j] = "flush" => todo[j] \cap held[j] = {}
    /\ pc[j] = "refresh" => todo[j] = {}
    /\ pc[j] = "store" /\ todo[j] # {} => held[j] \subseteq {item[j].date}
    /\ pc[j] = "store" => \A d, e \in todo[j] : d = e /\ item[j].date <= d

\* While a transaction is alone nothing else moves: the row is as its SELECT
\* found it, and what it has planned is the metrics of what it sees.
QuietViewHolds ==
  \A j \in Jobs : Open(j) /\ alone[j] =>
    /\ \A k \in Jobs \ {j} : ~Open(k)
    /\ seen[j] = close[item[j].date]
    /\ pc[j] \in {"store", "commit"} \/ (pc[j] = "flush" /\ item[j].path = "bootstrap") =>
         /\ plan[j] = NoPlan => Fresh(View(j), tech)
         /\ plan[j] # NoPlan =>
              IsLatest(plan[j].date, View(j)) /\ plan[j].sample = Sample(View(j))

\* A row a transaction has found stays, and the metrics it plans are of a full window
\* that ends with a row that is there or that it writes itself.
PlansNeedFullWindow ==
  \A j \in Jobs :
    /\ seen[j] # NoRow => close[item[j].date] # NoRow
    /\ plan[j] # NoPlan =>
         LET d == plan[j].date sample == plan[j].sample
         IN  /\ d \in Dates /\ (d = item[j].date \/ close[d] # NoRow)
             /\ Cardinality(DOMAIN sample) = Window
             /\ d \in DOMAIN sample
             /\ \A e \in DOMAIN sample : e <= d

IInv ==
  /\ TypeOK
  /\ RowsLockedOnce
  /\ IngestionWritesUpwards
  /\ QuietViewHolds
  /\ PlansNeedFullWindow
=============================================================================

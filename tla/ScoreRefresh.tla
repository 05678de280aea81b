---------------------------- MODULE ScoreRefresh ----------------------------
(***************************************************************************)
(* Overlapping score refreshes of one day: the score row of each ticker,   *)
(* the three reasons that explain it, the risk signals of the day, and the *)
(* provider freshness noted on the row.                                    *)
(*                                                                         *)
(* A job is the transaction in which refresh_score_snapshots materializes  *)
(* its tickers, in ascending order, and annotates their rows; the provider *)
(* batch before it has committed what it ingested.  Transactions run at    *)
(* READ COMMITTED: each SELECT sees what is committed when it runs, or the *)
(* transaction's own rows; a DELETE removes the rows its snapshot holds,   *)
(* waits for a transaction that is deleting them, and leaves alone what    *)
(* that one has put in their place.                                        *)
(***************************************************************************)
EXTENDS Integers, FiniteSetsExt

CONSTANTS
  Tickers,    \* the tickers, numbered in their order
  Providers,  \* keys of data_freshness.providers
  Jobs,       \* refresh transactions
  Seed,       \* whatever wrote the rows the jobs find
  NoRow,      \* no row
  Inputs,     \* versions of a ticker's financials, prices or evidence
  Ingestions, \* tickers, with the parts of their inputs that an ingestion commits together
  Requests    \* what the jobs may be asked for

Modes == {"refresh", "bare", "annotate"}

\* What a score is computed from: one version of each part.
Parts == {"financials", "price", "evidence"}
Reading == [Parts -> Inputs]
First == [p \in Parts |-> 1]

ASSUME TickersAssumption == Tickers \subseteq Nat

ASSUME InputsAssumption == Inputs \subseteq Nat /\ 1 \in Inputs

ASSUME IngestionsAssumption == Ingestions \subseteq [ticker : Tickers, parts : SUBSET Parts]

ASSUME OwnersAssumption == Seed \notin Jobs

\* The freshness and the rows of the database.
Fresh == [base : Reading, prov : SUBSET Providers]
Score == [val : Reading, fresh : Fresh]
Reasons == [by : Jobs \cup {Seed}, from : Reading]

ASSUME NoRowAssumption == NoRow \notin Score \cup Fresh \cup Reasons

ASSUME RequestsAssumption ==
  Requests \subseteq [mode : Modes, tickers : SUBSET Tickers, provider : Providers]

VARIABLES
  data,        \* data[t]: the committed version of each part of ticker t's inputs
  score,       \* score[t]: the committed score row of the day
  reasons,     \* reasons[t]: the committed reasons of that row, and their refresh
  risks,       \* risks[t]: who wrote the committed risk rows of the day
  req,         \* req[j]: what the job refreshes, and the provider it notes
  pc,          \* pc[j]: the statement it executes next
  left,        \* left[j]: the tickers the current loop has yet to deal with
  input,       \* input[j][t]: what the job has read of them for ticker t
  copied,      \* copied[j][t]: the risk rows the job has read, to write them anew
  found,       \* found[j][t]: the score row its SELECT has returned
  fresh,       \* fresh[j][t]: data_freshness as the annotation's SELECT has returned it
  draft,       \* draft[j][t]: the row as the job has written and locked it
  snap,        \* snap[j]: the rows a waiting DELETE is after
  cutReasons,  \* cutReasons[j]: the tickers whose committed reasons it deleted
  cutRisks,    \* cutRisks[j][t]: the committed risk rows it deleted
  touched      \* history: touched[j]: tickers another transaction has committed since
               \* job j selected their score row

tables == <<score, reasons, risks>>
session == <<input, copied, found, fresh, draft, snap, cutReasons, cutRisks>>
vars == <<data, tables, req, pc, left, session, touched>>

-----------------------------------------------------------------------------

Open(j) == pc[j] \notin {"idle", "done"}

\* The ticker at hand: stocks are materialized in the order of their tickers.
At(j) == Min(left[j])

\* Another transaction has inserted or updated the score row of t.
RowLocked(j, t) == \E k \in Jobs \ {j} : draft[k][t] # NoRow

ReasonsLocked(j, t) == \E k \in Jobs \ {j} : t \in cutReasons[k]

\* Another transaction is deleting one of the risk rows R of t.
RisksLocked(j, t, R) == \E k \in Jobs \ {j} : R \cap cutRisks[k][t] # {}

InLoop == {"financials", "price", "evidence", "signals", "select", "upsert", "reasons",
           "awaitReasons", "risks", "awaitRisks", "insert"}

Labels == InLoop \cup {"idle", "load", "annotate", "commit", "done"}

\* The tickers whose reasons and risks the job replaces.
Replaced(j) == IF req[j].mode = "annotate" THEN {} ELSE req[j].tickers

\* The job's pass over ticker t is over, with its rows replaced in the session.
Passed(j, t) ==
  /\ t \in Replaced(j)
  /\ \/ pc[j] \in InLoop /\ t \notin left[j]
     \/ pc[j] \in {"load", "annotate", "commit"}

\* The job is past the upsert of ticker t, and still deals with it.
Upserted(j, t) ==
  /\ pc[j] \in {"reasons", "awaitReasons", "risks", "awaitRisks", "insert"}
  /\ t = At(j)

\* The job has selected the score row of ticker t.
Selected(j, t) == Passed(j, t) \/ Upserted(j, t) \/ (pc[j] = "upsert" /\ t = At(j))

\* What the job has read for the ticker at hand.
Now(j) == input[j][At(j)]

\* The row at hand as the job's SELECT has returned it.
Before(j) == found[j][At(j)]

\* Mutation: the providers noted before are kept, so that a refresh which changes
\* nothing issues no UPDATE and takes no lock.
MutMaterialized(j) ==
  [base |-> Now(j), prov |-> IF Before(j) = NoRow THEN {} ELSE Before(j).fresh.prov]

\* The freshness the materializer writes: without the providers noted before.
Materialized(j) == [base |-> Now(j), prov |-> {}]

\* An UPDATE is issued, with the columns that differ from those read.
ValChanged(j) == Now(j) # Before(j).val

\* Mutation: the dictionary is changed in place, which the session does not see.
MutFreshChanged(j) == FALSE

FreshChanged(j) == Materialized(j) # Before(j).fresh
WritesScore(j) == Before(j) = NoRow \/ ValChanged(j) \/ FreshChanged(j)

\* The row after the job's INSERT, or its UPDATE of the committed row.
Written(j) ==
  IF Before(j) = NoRow THEN [val |-> Now(j), fresh |-> Materialized(j)]
  ELSE [val |-> IF ValChanged(j) THEN Now(j) ELSE score[At(j)].val,
        fresh |-> IF FreshChanged(j) THEN Materialized(j) ELSE score[At(j)].fresh]

-----------------------------------------------------------------------------

\* The tables as earlier refreshes and imports have left them.
Init ==
  /\ data = [t \in Tickers |-> First]
  /\ \E E \in SUBSET Tickers, P \in SUBSET Providers :
       /\ score = [t \in Tickers |->
            IF t \in E THEN [val |-> First, fresh |-> [base |-> First, prov |-> P]] ELSE NoRow]
       /\ reasons = [t \in Tickers |->
            IF t \in E THEN [by |-> Seed, from |-> First] ELSE NoRow]
  /\ risks \in [Tickers -> {{}, {Seed}}]
  /\ req \in [Jobs -> Requests]
  /\ pc = [j \in Jobs |-> "idle"]
  /\ left = [j \in Jobs |-> {}]
  /\ input = [j \in Jobs |-> [t \in Tickers |-> First]]
  /\ copied = [j \in Jobs |-> [t \in Tickers |-> {}]]
  /\ found = [j \in Jobs |-> [t \in Tickers |-> NoRow]]
  /\ fresh = [j \in Jobs |-> [t \in Tickers |-> NoRow]]
  /\ draft = [j \in Jobs |-> [t \in Tickers |-> NoRow]]
  /\ snap = [j \in Jobs |-> {}]
  /\ cutReasons = [j \in Jobs |-> {}]
  /\ cutRisks = [j \in Jobs |-> [t \in Tickers |-> {}]]
  /\ touched = [j \in Jobs |-> {}]

GoTo(j, label) == pc' = [pc EXCEPT ![j] = label]

\* An ingestion of another invocation commits new inputs of a ticker: financials and
\* disclosures come together, prices and news each by themselves.
Ingest(t, P) ==
  /\ \A p \in P : data[t][p] + 1 \in Inputs
  /\ data' = [data EXCEPT ![t] =
       [p \in Parts |-> IF p \in P THEN data[t][p] + 1 ELSE data[t][p]]]
  /\ UNCHANGED <<tables, req, pc, left, session, touched>>

\* When the ingestion failed for every ticker, their rows are only annotated.
Start(j) ==
  /\ pc[j] = "idle"
  /\ req[j].tickers # {}
  /\ left' = [left EXCEPT ![j] = req[j].tickers]
  /\ GoTo(j, IF req[j].mode = "annotate" THEN "load" ELSE "financials")
  /\ UNCHANGED <<data, tables, req, session, touched>>

\* _score_input has a SELECT for each part, and commits of others come between them.
AfterPart(p) ==
  CASE p = "financials" -> "price" [] p = "price" -> "evidence" [] OTHER -> "signals"

\* _financials, _price_metrics and _evidence
ReadPart(j, p) ==
  /\ pc[j] = p
  /\ input' = [input EXCEPT ![j][At(j)][p] = data[At(j)][p]]
  /\ GoTo(j, AfterPart(p))
  /\ UNCHANGED <<data, tables, req, left, copied, found, fresh, draft, snap, cutReasons,
                 cutRisks, touched>>

\* _risks
ReadRisks(j) ==
  /\ pc[j] = "signals"
  /\ copied' = [copied EXCEPT ![j][At(j)] = risks[At(j)]]
  /\ GoTo(j, "select")
  /\ UNCHANGED <<data, tables, req, left, input, found, fresh, draft, snap, cutReasons,
                 cutRisks, touched>>

\* Mutation: the SELECT asks for another version than the row's.
MutScoreRow(t) == NoRow

\* The row of the ticker, day and version.
ScoreRow(t) == score[t]

\* The SELECT of _upsert_score.
Select(j) ==
  /\ pc[j] = "select"
  /\ found' = [found EXCEPT ![j][At(j)] = ScoreRow(At(j))]
  /\ GoTo(j, "upsert")
  /\ UNCHANGED <<data, tables, req, left, input, copied, fresh, draft, snap,
                 cutReasons, cutRisks, touched>>

\* The flush of _upsert_score.  An INSERT that meets a committed row violates
\* the unique constraint, and the transaction is rolled back by Abort.
Upsert(j) ==
  LET t == At(j)
  IN  /\ pc[j] = "upsert"
      /\ WritesScore(j) => ~RowLocked(j, t)
      /\ Before(j) = NoRow => score[t] = NoRow
      /\ draft' = [draft EXCEPT ![j][t] = IF WritesScore(j) THEN Written(j) ELSE NoRow]
      /\ GoTo(j, "reasons")
      /\ UNCHANGED <<data, tables, req, left, input, copied, found, fresh, snap,
                     cutReasons, cutRisks, touched>>

\* DELETE FROM recommendation_reasons of the score row.
DeleteReasons(j) ==
  LET t == At(j)
  IN  /\ pc[j] = "reasons"
      /\ \/ /\ reasons[t] # NoRow
            /\ ReasonsLocked(j, t)
            /\ snap' = [snap EXCEPT ![j] = {reasons[t].by}]
            /\ GoTo(j, "awaitReasons")
            /\ UNCHANGED cutReasons
         \/ /\ reasons[t] = NoRow \/ ~ReasonsLocked(j, t)
            /\ cutReasons' = [cutReasons EXCEPT ![j] =
                                IF reasons[t] = NoRow THEN @ ELSE @ \cup {t}]
            /\ GoTo(j, "risks")
            /\ UNCHANGED snap
      /\ UNCHANGED <<data, tables, req, left, input, copied, found, fresh, draft,
                     cutRisks, touched>>

\* The DELETE has its lock, or its row was replaced while it waited.
AwaitReasons(j) ==
  LET t == At(j)
      there == reasons[t].by \in snap[j]
  IN  /\ pc[j] = "awaitReasons"
      /\ there => ~ReasonsLocked(j, t)
      /\ cutReasons' = [cutReasons EXCEPT ![j] = IF there THEN @ \cup {t} ELSE @]
      /\ snap' = [snap EXCEPT ![j] = {}]
      /\ GoTo(j, "risks")
      /\ UNCHANGED <<data, tables, req, left, input, copied, found, fresh, draft,
                     cutRisks, touched>>

\* Mutation: the DELETE names the rows read for the score.
MutRiskRows(j) == copied[j][At(j)]

\* The rows the DELETE of the risk signals finds.
RiskRows(j) == risks[At(j)]

\* The start of the DELETE FROM risk_signals of the ticker and day.
DeleteRisks(j) ==
  /\ pc[j] = "risks"
  /\ snap' = [snap EXCEPT ![j] = RiskRows(j)]
  /\ GoTo(j, "awaitRisks")
  /\ UNCHANGED <<data, tables, req, left, input, copied, found, fresh, draft,
                 cutReasons, cutRisks, touched>>

\* Its end: it has deleted those rows of its snapshot that are still there.
AwaitRisks(j) ==
  LET t == At(j)
      there == snap[j] \cap risks[t]
  IN  /\ pc[j] = "awaitRisks"
      /\ ~RisksLocked(j, t, there)
      /\ cutRisks' = [cutRisks EXCEPT ![j][t] = there]
      /\ snap' = [snap EXCEPT ![j] = {}]
      /\ GoTo(j, "insert")
      /\ UNCHANGED <<data, tables, req, left, input, copied, found, fresh, draft,
                     cutReasons, touched>>

\* The unique constraint on reason_id admits the job's reasons of t.
ReasonsFree(j, t) == reasons[t] = NoRow \/ t \in cutReasons[j]

\* The flush that inserts the reasons, with the copies of the risk rows read.
\* A violated constraint is rolled back by Abort.
Insert(j) ==
  LET t == At(j)
      rest == left[j] \ {t}
  IN  /\ pc[j] = "insert"
      /\ ReasonsFree(j, t)
      /\ \/ rest # {} /\ left' = [left EXCEPT ![j] = rest] /\ GoTo(j, "financials")
         \/ /\ rest = {}
            /\ left' = [left EXCEPT ![j] = req[j].tickers]
            /\ GoTo(j, IF req[j].mode = "bare" THEN "commit" ELSE "load")
      /\ UNCHANGED <<data, tables, req, session, touched>>

\* The row of t as a SELECT of the job returns it: its own, or the committed one.
Seen(j, t) == IF draft[j][t] # NoRow THEN draft[j][t] ELSE score[t]

\* The SELECT of the annotation. The materializer has let go of its rows, so that the
\* session has none of them left, and reads them anew.
Load(j) ==
  /\ pc[j] = "load"
  /\ fresh' = [fresh EXCEPT ![j] = [t \in Tickers |->
       IF t \in req[j].tickers /\ Seen(j, t) # NoRow THEN Seen(j, t).fresh ELSE NoRow]]
  /\ GoTo(j, "annotate")
  /\ UNCHANGED <<data, tables, req, left, input, copied, found, draft, snap,
                 cutReasons, cutRisks, touched>>

\* Mutation: the provider is noted in the row as it was loaded, and not assigned.
MutNoted(j, t) == fresh[j][t]

\* The freshness of t with the job's provider noted.
Noted(j, t) == [fresh[j][t] EXCEPT !.prov = @ \cup {req[j].provider}]

\* One UPDATE of the flush of _annotate_score_provider_freshness: it writes the
\* whole column.  None is issued when the same status was noted before.
Annotate(j, t) ==
  /\ pc[j] = "annotate"
  /\ t \in left[j]
  /\ \/ fresh[j][t] = NoRow /\ UNCHANGED draft
     \/ fresh[j][t] # NoRow /\ Noted(j, t) = fresh[j][t] /\ UNCHANGED draft
     \/ /\ fresh[j][t] # NoRow
        /\ ~RowLocked(j, t)
        /\ draft' = [draft EXCEPT ![j][t] = [Seen(j, t) EXCEPT !.fresh = Noted(j, t)]]
  /\ left' = [left EXCEPT ![j] = @ \ {t}]
  /\ UNCHANGED <<data, tables, req, pc, input, copied, found, fresh, snap, cutReasons,
                 cutRisks, touched>>

Annotated(j) ==
  /\ pc[j] = "annotate"
  /\ left[j] = {}
  /\ GoTo(j, "commit")
  /\ UNCHANGED <<data, tables, req, left, session, touched>>

\* The transaction is over, and its session and locks are gone.
Close(j) ==
  /\ GoTo(j, "done")
  /\ input' = [input EXCEPT ![j] = [t \in Tickers |-> First]]
  /\ fresh' = [fresh EXCEPT ![j] = [t \in Tickers |-> NoRow]]
  /\ draft' = [draft EXCEPT ![j] = [t \in Tickers |-> NoRow]]
  /\ found' = [found EXCEPT ![j] = [t \in Tickers |-> NoRow]]
  /\ copied' = [copied EXCEPT ![j] = [t \in Tickers |-> {}]]
  /\ snap' = [snap EXCEPT ![j] = {}]
  /\ cutReasons' = [cutReasons EXCEPT ![j] = {}]
  /\ cutRisks' = [cutRisks EXCEPT ![j] = [t \in Tickers |-> {}]]
  /\ left' = [left EXCEPT ![j] = {}]
  /\ UNCHANGED <<data, req>>

\* The tickers of which the job commits a row.
Changes(j) == {t \in Tickers : t \in Replaced(j) \/ draft[j][t] # NoRow}

\* session.commit() of handle_refresh_score_snapshots_event.
Commit(j) ==
  /\ pc[j] = "commit"
  /\ score' = [t \in Tickers |-> IF draft[j][t] # NoRow THEN draft[j][t] ELSE score[t]]
  /\ reasons' = [t \in Tickers |->
       IF t \in Replaced(j) THEN [by |-> j, from |-> input[j][t]] ELSE reasons[t]]
  /\ risks' = [t \in Tickers |->
       (risks[t] \ cutRisks[j][t]) \cup (IF copied[j][t] # {} THEN {j} ELSE {})]
  /\ touched' = [k \in Jobs |->
       IF k = j THEN {} ELSE touched[k] \cup {t \in Changes(j) : Selected(k, t)}]
  /\ Close(j)

\* The rollback of a failed, killed or deadlocked transaction.
Abort(j) ==
  /\ Open(j)
  /\ Close(j)
  /\ touched' = [touched EXCEPT ![j] = {}]
  /\ UNCHANGED tables

Next ==
  \/ \E i \in Ingestions : Ingest(i.ticker, i.parts)
  \/ \E j \in Jobs :
       \/ Start(j)
       \/ \E p \in Parts : ReadPart(j, p)
       \/ ReadRisks(j)
       \/ Select(j)
       \/ Upsert(j)
       \/ DeleteReasons(j)
       \/ AwaitReasons(j)
       \/ DeleteRisks(j)
       \/ AwaitRisks(j)
       \/ Insert(j)
       \/ Load(j)
       \/ \E t \in Tickers : Annotate(j, t)
       \/ Annotated(j)
       \/ Commit(j)
       \/ Abort(j)

Spec == Init /\ [][Next]_vars

-----------------------------------------------------------------------------

\* The job alone may replace what hangs on the score row of t: it has deleted the
\* committed reasons, or the row is its own.
Owns(j, t) ==
  \/ t \in cutReasons[j]
  \/ score[t] = NoRow /\ draft[j][t] # NoRow

TypeOK ==
  /\ data \in [Tickers -> Reading]
  /\ score \in [Tickers -> Score \cup {NoRow}]
  /\ reasons \in [Tickers -> Reasons \cup {NoRow}]
  /\ risks \in [Tickers -> SUBSET (Jobs \cup {Seed})]
  /\ req \in [Jobs -> Requests]
  /\ pc \in [Jobs -> Labels]
  /\ left \in [Jobs -> SUBSET Tickers]
  /\ input \in [Jobs -> [Tickers -> Reading]]
  /\ copied \in [Jobs -> [Tickers -> SUBSET (Jobs \cup {Seed})]]
  /\ found \in [Jobs -> [Tickers -> Score \cup {NoRow}]]
  /\ fresh \in [Jobs -> [Tickers -> Fresh \cup {NoRow}]]
  /\ draft \in [Jobs -> [Tickers -> Score \cup {NoRow}]]
  /\ snap \in [Jobs -> SUBSET (Jobs \cup {Seed})]
  /\ cutReasons \in [Jobs -> SUBSET Tickers]
  /\ cutRisks \in [Jobs -> [Tickers -> SUBSET (Jobs \cup {Seed})]]
  /\ touched \in [Jobs -> SUBSET Tickers]

\* A score row has its reasons, and there are no reasons without it.
ScoreHasReasons == \A t \in Tickers : score[t] = NoRow <=> reasons[t] = NoRow

\* Who last replaced the rows of ticker t.
Owner(t) == IF reasons[t] = NoRow THEN Seed ELSE reasons[t].by

\* The committed risk rows of a ticker are those of the refresh that wrote its
\* reasons: overlapping refreshes, which all read the risk rows and write them
\* anew, never double them, although no unique constraint concerns them.
RisksFollowReasons == \A t \in Tickers : risks[t] \subseteq {Owner(t)}

\* Two transactions have not written the same score row, nor deleted the same
\* reasons.
RowsLockedOnce ==
  \A j, k \in Jobs : \A t \in Tickers : j # k =>
    /\ draft[j][t] = NoRow \/ draft[k][t] = NoRow
    /\ ~(t \in cutReasons[j] /\ t \in cutReasons[k])

\* The loop's position: it has tickers of the request left, and is past the rest.
LoopInRequest ==
  \A j \in Jobs :
    /\ left[j] \subseteq req[j].tickers
    /\ pc[j] \in InLoop => left[j] # {} /\ req[j].mode # "annotate"
    /\ pc[j] \in {"load", "annotate"} => req[j].mode # "bare"

\* What the session knows of a row is of a row that is there, or its own.
SessionRowsExist ==
  \A j \in Jobs :
    \A t \in Tickers :
         /\ found[j][t] # NoRow => score[t] # NoRow
         /\ t \in cutReasons[j] => reasons[t] # NoRow
         /\ fresh[j][t] # NoRow => score[t] # NoRow \/ draft[j][t] # NoRow
         /\ draft[j][t] # NoRow /\ score[t] = NoRow => t \in Replaced(j)
         /\ Upserted(j, t) \/ Passed(j, t) => score[t] # NoRow \/ draft[j][t] # NoRow
         /\ Upserted(j, t) /\ pc[j] = "awaitReasons" => reasons[t] # NoRow

\* A passed ticker is owned, and its risk rows are those the job has deleted.
PassedIsOwned ==
  \A j \in Jobs : \A t \in Tickers :
    /\ Passed(j, t) => Owns(j, t) /\ cutRisks[j][t] = risks[t]
    /\ Upserted(j, t) /\ pc[j] = "awaitRisks" /\ Owns(j, t) => snap[j] = risks[t]
    /\ Upserted(j, t) /\ pc[j] = "insert" /\ Owns(j, t) => cutRisks[j][t] = risks[t]
    /\ cutRisks[j][t] # {} => Passed(j, t) \/ (Upserted(j, t) /\ pc[j] = "insert")
    /\ copied[j][t] # {} => t \in Replaced(j)

\* The job has found no row of t, or one with a provider, which it drops: either way
\* its upsert writes the row.
Renewed(j, t) == found[j][t] # NoRow => found[j][t].fresh.prov # {}

\* A refresh that notes a provider, on rows that had one noted.
Renews(j) == req[j].mode = "refresh" /\ \A t \in Tickers : Renewed(j, t)

\* The tickers a job has passed come before those it has left.  What it has locked
\* is of tickers it has come to; a refresh that renews has locked the score rows of
\* all of them.
LocksFollowLoop ==
  \A j \in Jobs :
    /\ pc[j] \in InLoop => \A t \in req[j].tickers \ left[j], u \in left[j] : t < u
    /\ \A t \in Tickers :
         /\ found[j][t] # NoRow =>
              Selected(j, t)
         /\ req[j].mode = "refresh" /\ draft[j][t] # NoRow => Passed(j, t) \/ Upserted(j, t)
         /\ t \in cutReasons[j] => Passed(j, t) \/ Upserted(j, t)
         /\ Renewed(j, t) /\ (Passed(j, t) \/ Upserted(j, t)) => draft[j][t] # NoRow

\* A score row the job has selected is as it was found, and the reasons its DELETE is
\* to remove are there or removed, unless another transaction has committed the ticker.
SightIsCurrent ==
  \A j \in Jobs : \A t \in Tickers \ touched[j] :
    /\ Selected(j, t) => score[t] = found[j][t]
    /\ Upserted(j, t) /\ pc[j] = "awaitReasons" => reasons[t].by \in snap[j]
    /\ Upserted(j, t) /\ pc[j] \in {"risks", "awaitRisks", "insert"} => Owns(j, t)

\* The inductive invariant.
IInv ==
  /\ TypeOK
  /\ ScoreHasReasons
  /\ RisksFollowReasons
  /\ RowsLockedOnce
  /\ LoopInRequest
  /\ SessionRowsExist
  /\ PassedIsOwned
  /\ LocksFollowLoop
  /\ SightIsCurrent

-----------------------------------------------------------------------------

\* The job's next statement waits for job k.  An INSERT that meets rows another
\* transaction is deleting waits for the end of that one, to fail or to go on.
Waits(j, k) ==
  LET t == At(j)
  IN  /\ j # k
      /\ \/ pc[j] = "upsert" /\ WritesScore(j) /\ draft[k][t] # NoRow
         \/ pc[j] = "reasons" /\ reasons[t] # NoRow /\ t \in cutReasons[k]
         \/ pc[j] = "awaitReasons" /\ reasons[t].by \in snap[j] /\ t \in cutReasons[k]
         \/ pc[j] = "awaitRisks" /\ snap[j] \cap risks[t] \cap cutRisks[k][t] # {}
         \/ pc[j] = "insert" /\ t \notin cutReasons[j] /\ t \in cutReasons[k]
         \/ /\ pc[j] = "annotate"
            /\ \E u \in left[j] :
                 /\ fresh[j][u] # NoRow
                 /\ Noted(j, u) # fresh[j][u]
                 /\ draft[k][u] # NoRow

\* A circle of waiting.
Deadlocked(K) ==
  /\ K # {}
  /\ \A j \in K : (\E k \in K : Waits(j, k)) /\ (\E k \in K : Waits(k, j))

\* Overlapping refreshes of rows that carry a provider do not wait in a circle,
\* whatever their tickers: each drops the provider first, which locks the score row,
\* and comes to the tickers in one order.  (A refresh that finds a row without
\* providers and nothing else to change locks it only when it annotates.)
RefreshesDoNotDeadlock ==
  \A K \in SUBSET {j \in Jobs : Renews(j)} : ~Deadlocked(K)

\* A unique constraint refuses the job's next statement: the score row is another's
\* since the SELECT found none, or the reasons are.
Refused(j) ==
  \/ pc[j] = "upsert" /\ Before(j) = NoRow /\ score[At(j)] # NoRow
  \/ pc[j] = "insert" /\ ~ReasonsFree(j, At(j))

\* A refresh is refused, and all its tickers rolled back, only for a ticker that another
\* transaction has committed since the refresh selected its score row: by itself it
\* never fails, whatever rows it finds, and neither does one that comes to every ticker
\* after the others (materializer.py:192-230, 233-260).
RefusalsNeedARival == \A j \in Jobs : Refused(j) => At(j) \in touched[j]

\* What a refresh leaves of a ticker when it commits, although each statement sees what
\* is committed by then and an UPDATE writes only the columns that differ from those
\* selected: score, freshness and reasons are of the one reading the refresh has made,
\* and its provider is noted, unless another transaction has committed the ticker in
\* between.  Even then, when the upsert has dropped providers or inserted the row, the
\* freshness is of the reading the reasons are of, and the provider is noted; only the
\* score columns may then be a rival's.
RefreshIsWhole ==
  [][\A j \in Jobs : Commit(j) =>
       \A t \in Replaced(j) :
         LET undisturbed == t \notin touched[j]
         IN  /\ undisturbed => score'[t].val = reasons'[t].from
             /\ undisturbed \/ Renewed(j, t) =>
                  /\ score'[t].fresh.base = reasons'[t].from
                  /\ req[j].mode = "refresh" => req[j].provider \in score'[t].fresh.prov]_vars

\* The providers noted before a refresh are still on its rows after it, when nothing
\* else has committed them.  The runbook says it of a run of one refresh per provider:
\* "Refreshed recommendation rows include data_freshness.providers.<provider>".
ProvidersAccumulate ==
  [][\A j \in Jobs : Commit(j) /\ touched[j] = {} /\ req[j].mode = "refresh" =>
       \A t \in req[j].tickers :
         score[t] # NoRow => score[t].fresh.prov \subseteq score'[t].fresh.prov]_vars
=============================================================================

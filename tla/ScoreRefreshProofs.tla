------------------------ MODULE ScoreRefreshProofs ------------------------
(***************************************************************************)
(* Proofs about ScoreRefresh, for any number of overlapping refreshes and  *)
(* tickers: risk rows are not doubled, refreshes do not deadlock, only a   *)
(* rival's commit makes one fail, and one that commits leaves rows of one  *)
(* piece but for what a rival has committed in between.                    *)
(***************************************************************************)
EXTENDS ScoreRefresh, WellFoundedInduction, TLAPS

-----------------------------------------------------------------------------
(* The ticker at hand. *)

LessThan == {p \in Nat \X Nat : p[1] < p[2]}

LEMMA LessThanWellFounded == IsWellFoundedOn(LessThan, Nat)
<1>1. LessThan = OpToRel(<, Nat)
  BY Zenon DEF LessThan, OpToRel
<1> QED
  BY <1>1, NatLessThanWellFounded, Zenon

\* A set of numbers that is not empty has a least element, and Min is it.
LEMMA MinIsLeast ==
  ASSUME NEW T, T \subseteq Nat, T # {}
  PROVE  Min(T) \in T /\ \A y \in T : Min(T) <= y
<1>1. PICK x \in T : \A y \in T : ~(<<y, x>> \in LessThan)
  BY LessThanWellFounded, WFMin
<1>2. \A y \in T : x \in Nat /\ y \in Nat /\ ~(y < x)
  BY <1>1 DEF LessThan
<1>3. \A y \in T : x <= y
  BY <1>2
<1> QED
  BY <1>3, Zenon DEF Min

LEMMA AtIsLeft ==
  ASSUME TypeOK, NEW j \in Jobs, left[j] # {}
  PROVE  At(j) \in left[j] /\ At(j) \in Tickers
<1>1. left[j] \subseteq Tickers /\ left[j] \subseteq Nat
  BY TickersAssumption DEF TypeOK
<1> QED
  BY <1>1, MinIsLeast DEF At

-----------------------------------------------------------------------------
(* What one job's session has to satisfy, and steps of one job. *)

JobInv(j) ==
  /\ left[j] \subseteq req[j].tickers
  /\ pc[j] \in InLoop => left[j] # {} /\ req[j].mode # "annotate"
  /\ pc[j] \in {"load", "annotate"} => req[j].mode # "bare"
  /\ \A t \in Tickers :
       /\ found[j][t] # NoRow => score[t] # NoRow
       /\ t \in cutReasons[j] => reasons[t] # NoRow
       /\ fresh[j][t] # NoRow => score[t] # NoRow \/ draft[j][t] # NoRow
       /\ draft[j][t] # NoRow /\ score[t] = NoRow => t \in Replaced(j)
       /\ Upserted(j, t) \/ Passed(j, t) => score[t] # NoRow \/ draft[j][t] # NoRow
       /\ Upserted(j, t) /\ pc[j] = "awaitReasons" => reasons[t] # NoRow
       /\ Passed(j, t) => Owns(j, t) /\ cutRisks[j][t] = risks[t]
       /\ Upserted(j, t) /\ pc[j] = "awaitRisks" /\ Owns(j, t) => snap[j] = risks[t]
       /\ Upserted(j, t) /\ pc[j] = "insert" /\ Owns(j, t) => cutRisks[j][t] = risks[t]
       /\ cutRisks[j][t] # {} => Passed(j, t) \/ (Upserted(j, t) /\ pc[j] = "insert")
       /\ copied[j][t] # {} => t \in Replaced(j)

LEMMA JobInvHolds ==
  ASSUME LoopInRequest, SessionRowsExist, PassedIsOwned, NEW j \in Jobs
  PROVE  JobInv(j)
BY Zenon DEF LoopInRequest, SessionRowsExist, PassedIsOwned, JobInv

JobOrder(j) ==
  /\ pc[j] \in InLoop => \A t \in req[j].tickers \ left[j], u \in left[j] : t < u
  /\ \A t \in Tickers :
       /\ found[j][t] # NoRow => Selected(j, t)
       /\ req[j].mode = "refresh" /\ draft[j][t] # NoRow => Passed(j, t) \/ Upserted(j, t)
       /\ t \in cutReasons[j] => Passed(j, t) \/ Upserted(j, t)
       /\ Renewed(j, t) /\ (Passed(j, t) \/ Upserted(j, t)) => draft[j][t] # NoRow

LEMMA JobOrderHolds ==
  ASSUME LocksFollowLoop, NEW j \in Jobs
  PROVE  JobOrder(j)
BY Zenon DEF LocksFollowLoop, JobOrder

JobSight(j) ==
  \A t \in Tickers \ touched[j] :
    /\ Selected(j, t) => score[t] = found[j][t]
    /\ Upserted(j, t) /\ pc[j] = "awaitReasons" => reasons[t].by \in snap[j]
    /\ Upserted(j, t) /\ pc[j] \in {"risks", "awaitRisks", "insert"} => Owns(j, t)

LEMMA JobSightHolds ==
  ASSUME SightIsCurrent, NEW j \in Jobs
  PROVE  JobSight(j)
BY Zenon DEF SightIsCurrent, JobSight

\* The state of job k is as it was.
Rests(k) ==
  /\ req'[k] = req[k] /\ pc'[k] = pc[k] /\ left'[k] = left[k]
  /\ input'[k] = input[k] /\ copied'[k] = copied[k] /\ found'[k] = found[k]
  /\ fresh'[k] = fresh[k] /\ draft'[k] = draft[k] /\ snap'[k] = snap[k]
  /\ cutReasons'[k] = cutReasons[k] /\ cutRisks'[k] = cutRisks[k]

LEMMA RestsKeeps ==
  ASSUME NEW k \in Jobs, Rests(k), UNCHANGED tables, JobInv(k)
  PROVE  JobInv(k)'
BY DEF Rests, tables, JobInv, Passed, Upserted, Owns, Replaced, At

LEMMA RestsKeepsOrder ==
  ASSUME NEW k \in Jobs, Rests(k), JobOrder(k)
  PROVE  JobOrder(k)'
BY DEF Rests, JobOrder, Selected, Passed, Upserted, Replaced, Renewed, At

LEMMA RestsKeepsSight ==
  ASSUME NEW k \in Jobs, Rests(k), UNCHANGED tables, touched'[k] = touched[k], JobSight(k)
  PROVE  JobSight(k)'
BY DEF Rests, tables, JobSight, Selected, Passed, Upserted, Owns, Replaced, At

\* The statements that follow the upsert of a ticker lock only its reasons.
LEMMA StayKeepsOrder ==
  ASSUME NEW j \in Jobs, JobOrder(j),
         pc[j] \in {"reasons", "awaitReasons", "risks", "awaitRisks", "insert"},
         pc'[j] \in {"reasons", "awaitReasons", "risks", "awaitRisks", "insert"},
         req' = req, left' = left, found' = found, draft' = draft,
         cutReasons'[j] \subseteq cutReasons[j] \cup {At(j)}
  PROVE  JobOrder(j)'
BY DEF JobOrder, InLoop, Selected, Passed, Upserted, Replaced, Renewed, At

LEMMA CutsKeepSight ==
  ASSUME NEW j \in Jobs, JobSight(j), UNCHANGED tables, touched' = touched,
         pc[j] \in {"risks", "awaitRisks"}, pc'[j] \in {"awaitRisks", "insert"},
         req' = req, left' = left, found' = found, draft' = draft, cutReasons' = cutReasons
  PROVE  JobSight(j)'
<1>1. \A t \in Tickers : Selected(j, t)' => Selected(j, t)
  BY DEF Selected, Passed, Upserted, Replaced, InLoop, At
<1>2. \A t \in Tickers : Upserted(j, t)' => Upserted(j, t) /\ pc[j] \in {"risks", "awaitRisks"}
  BY DEF Upserted, At
<1>3. \A t \in Tickers : Owns(j, t) => Owns(j, t)'
  BY DEF Owns, tables
<1> QED
  BY <1>1, <1>2, <1>3 DEF JobSight, tables

\* A step of job j that commits nothing keeps the invariant when it keeps that of
\* j's session and takes only locks that are free.
LEMMA StepKeeps ==
  ASSUME IInv, TypeOK', NEW j \in Jobs, UNCHANGED tables, touched' = touched,
         \A k \in Jobs \ {j} : Rests(k),
         JobInv(j)', JobOrder(j)', JobSight(j)',
         \A t \in Tickers : draft'[j][t] # NoRow => draft[j][t] # NoRow \/ ~RowLocked(j, t),
         \A t \in Tickers : t \in cutReasons'[j] => t \in cutReasons[j] \/ ~ReasonsLocked(j, t)
  PROVE  IInv'
<1>1. \A k \in Jobs : JobInv(k)
  BY JobInvHolds DEF IInv
<1>2. \A k \in Jobs : JobInv(k)'
  BY <1>1, RestsKeeps
<1>3. (LoopInRequest /\ SessionRowsExist /\ PassedIsOwned)'
  BY <1>2, Zenon DEF LoopInRequest, SessionRowsExist, PassedIsOwned, JobInv
<1>4. RowsLockedOnce'
  BY DEF IInv, RowsLockedOnce, Rests, RowLocked, ReasonsLocked
<1>5. ScoreHasReasons' /\ RisksFollowReasons'
  BY DEF IInv, ScoreHasReasons, RisksFollowReasons, Owner, tables
<1>6. LocksFollowLoop'
  <2>1. \A k \in Jobs : JobOrder(k)
    BY JobOrderHolds DEF IInv
  <2>2. \A k \in Jobs : JobOrder(k)'
    BY <2>1, RestsKeepsOrder
  <2> QED
    BY <2>2, Zenon DEF LocksFollowLoop, JobOrder
<1>7. SightIsCurrent'
  <2>1. \A k \in Jobs : JobSight(k)
    BY JobSightHolds DEF IInv
  <2>2. \A k \in Jobs : JobSight(k)'
    BY <2>1, RestsKeepsSight
  <2> QED
    BY <2>2, Zenon DEF SightIsCurrent, JobSight
<1> QED
  BY <1>3, <1>4, <1>5, <1>6, <1>7 DEF IInv

-----------------------------------------------------------------------------
(* Types. *)

LEMMA SetUpdate ==
  ASSUME NEW S, NEW f \in [Jobs -> SUBSET S], NEW j \in Jobs, NEW X \in SUBSET S
  PROVE  [f EXCEPT ![j] = X] \in [Jobs -> SUBSET S]
OBVIOUS

LEMMA CellUpdate ==
  ASSUME NEW S, NEW f \in [Jobs -> [Tickers -> S]], NEW j \in Jobs, NEW t \in Tickers,
         NEW x \in S
  PROVE  [f EXCEPT ![j][t] = x] \in [Jobs -> [Tickers -> S]]
OBVIOUS

LEMMA RequestType ==
  ASSUME TypeOK, NEW j \in Jobs
  PROVE  req[j] \in [mode : Modes, tickers : SUBSET Tickers, provider : Providers]
BY RequestsAssumption DEF TypeOK

LEMMA FirstType == First \in Reading
BY InputsAssumption DEF First, Reading

LEMMA MaterializedType ==
  ASSUME TypeOK, NEW j \in Jobs, left[j] # {}
  PROVE  Now(j) \in Reading /\ Materialized(j) \in Fresh /\ Materialized(j) # NoRow
<1>1. Now(j) \in Reading
  BY AtIsLeft DEF TypeOK, Now
<1>2. Materialized(j) \in Fresh
  BY <1>1 DEF Materialized, Fresh
<1> QED
  BY <1>1, <1>2, NoRowAssumption

\* What the job writes is a score row.
LEMMA WrittenType ==
  ASSUME TypeOK, NEW j \in Jobs, left[j] # {},
         Before(j) # NoRow => score[At(j)] # NoRow
  PROVE  Written(j) \in Score /\ Written(j) # NoRow
<1>1. At(j) \in Tickers
  BY AtIsLeft
<1>2. Before(j) # NoRow => score[At(j)] \in Score
  BY <1>1 DEF TypeOK
<1>3. Written(j) \in Score
  BY <1>2, MaterializedType DEF Written, Score
<1> QED
  BY <1>3, NoRowAssumption

LEMMA NotedType ==
  ASSUME TypeOK, NEW j \in Jobs, NEW t \in Tickers, fresh[j][t] # NoRow
  PROVE  Noted(j, t) \in Fresh
<1>1. fresh[j][t] \in Fresh /\ req[j].provider \in Providers
  BY RequestType DEF TypeOK
<1> QED
  BY <1>1 DEF Noted, Fresh

LEMMA SeenType ==
  ASSUME TypeOK, NEW j \in Jobs, NEW t \in Tickers
  PROVE  /\ Seen(j, t) \in Score \cup {NoRow}
         /\ Seen(j, t) # NoRow <=> draft[j][t] # NoRow \/ score[t] # NoRow
         /\ Seen(j, t) # NoRow => Seen(j, t).fresh \in Fresh
<1>1. Seen(j, t) \in Score \cup {NoRow}
  BY DEF TypeOK, Seen
<1> QED
  BY <1>1 DEF Seen, Score

-----------------------------------------------------------------------------
(* The steps. *)

LEMMA IngestKeeps == ASSUME IInv, NEW i \in Ingestions, Ingest(i.ticker, i.parts) PROVE IInv'
<1> DEFINE t == i.ticker
           P == i.parts
           new == [p \in Parts |-> IF p \in P THEN data[t][p] + 1 ELSE data[t][p]]
<1>1. TypeOK'
  <2>1. t \in Tickers /\ P \subseteq Parts
    BY IngestionsAssumption
  <2>2. data \in [Tickers -> Reading]
    BY DEF IInv, TypeOK
  <2>3. new \in Reading
    BY <2>1, <2>2 DEF Ingest, Reading
  <2>4. data' = [data EXCEPT ![t] = new]
    BY DEF Ingest
  <2> HIDE DEF new
  <2>5. data' \in [Tickers -> Reading]
    BY <2>1, <2>2, <2>3, <2>4
  <2> QED
    BY <2>5 DEF IInv, TypeOK, Ingest, tables, session
<1>2. \A k \in Jobs : Rests(k)
  BY DEF Ingest, Rests, session
<1>3. \A k \in Jobs : JobInv(k) /\ JobOrder(k) /\ JobSight(k)
  BY JobInvHolds, JobOrderHolds, JobSightHolds DEF IInv
<1>4. UNCHANGED tables /\ touched' = touched
  BY DEF Ingest
<1>5. \A k \in Jobs : JobInv(k)' /\ JobOrder(k)' /\ JobSight(k)'
  BY <1>2, <1>3, <1>4, RestsKeeps, RestsKeepsOrder, RestsKeepsSight
<1>6. (LoopInRequest /\ SessionRowsExist /\ PassedIsOwned)'
  BY <1>5, Zenon DEF LoopInRequest, SessionRowsExist, PassedIsOwned, JobInv
<1>7. LocksFollowLoop' /\ SightIsCurrent'
  BY <1>5, Zenon DEF LocksFollowLoop, JobOrder, SightIsCurrent, JobSight
<1> QED
  BY <1>1, <1>4, <1>6, <1>7
     DEF IInv, ScoreHasReasons, RisksFollowReasons, RowsLockedOnce, Owner, Ingest,
         tables, session

LEMMA StartKeeps == ASSUME IInv, NEW j \in Jobs, Start(j) PROVE IInv'
<1>1. TypeOK'
  BY RequestType DEF IInv, TypeOK, Start, GoTo, Labels, InLoop, Open, tables, session
<1>2. UNCHANGED tables /\ touched' = touched /\ \A k \in Jobs \ {j} : Rests(k)
  BY DEF Start, Rests, GoTo, session, tables, IInv, TypeOK
<1>3. JobInv(j)
  BY JobInvHolds DEF IInv
<1>4. /\ pc[j] = "idle"
      /\ left'[j] = req[j].tickers /\ req[j].tickers # {}
      /\ pc'[j] = IF req[j].mode = "annotate" THEN "load" ELSE "financials"
      /\ UNCHANGED <<tables, req, session>>
  BY DEF Start, GoTo, IInv, TypeOK
<1>5. JobInv(j)'
  BY <1>3, <1>4 DEF JobInv, InLoop, Passed, Upserted, Owns, Replaced, tables, session
<1>6. JobOrder(j)'
  <2>1. JobOrder(j)
    BY JobOrderHolds DEF IInv
  <2> QED
    BY <2>1, <1>4 DEF JobOrder, InLoop, Selected, Passed, Upserted, Replaced, Renewed, At, session
<1>7. JobSight(j)'
  BY <1>4 DEF JobSight, InLoop, Selected, Passed, Upserted, Replaced
<1> QED
  BY <1>1, <1>2, <1>4, <1>5, <1>6, <1>7, StepKeeps DEF session

LEMMA ReadPartKeeps == ASSUME IInv, NEW j \in Jobs, NEW p \in Parts, ReadPart(j, p) PROVE IInv'
<1>1. JobInv(j)
  BY JobInvHolds DEF IInv
<1>2. /\ pc[j] \in {"financials", "price", "evidence"}
      /\ pc'[j] \in {"price", "evidence", "signals"}
      /\ pc' \in [Jobs -> Labels]
      /\ UNCHANGED <<data, tables, req, left, copied, found, fresh, draft, snap, cutReasons,
                     cutRisks, touched>>
  BY DEF ReadPart, AfterPart, GoTo, IInv, TypeOK, Parts, Labels, InLoop
<1>3. left[j] # {} /\ At(j) \in left[j] /\ At(j) \in Tickers
  BY <1>1, <1>2, AtIsLeft DEF JobInv, InLoop, IInv
<1>4. TypeOK'
  <2> DEFINE new == [input[j][At(j)] EXCEPT ![p] = data[At(j)][p]]
  <2>1. input \in [Jobs -> [Tickers -> Reading]] /\ data \in [Tickers -> Reading]
    BY DEF IInv, TypeOK
  <2>2. new \in Reading
    BY <1>3, <2>1 DEF Reading
  <2>3. input' = [input EXCEPT ![j][At(j)] = new]
    BY DEF ReadPart
  <2> HIDE DEF new
  <2>4. input' \in [Jobs -> [Tickers -> Reading]]
    BY <1>3, <2>1, <2>2, <2>3, CellUpdate
  <2> QED
    BY <1>2, <2>4 DEF IInv, TypeOK, tables
<1>5. \A k \in Jobs \ {j} : Rests(k)
  BY <1>2 DEF ReadPart, Rests, GoTo, IInv, TypeOK
<1>6. JobInv(j)'
  BY <1>1, <1>2 DEF JobInv, InLoop, Passed, Upserted, Owns, Replaced, tables
<1>7. JobOrder(j)'
  <2>1. JobOrder(j)
    BY JobOrderHolds DEF IInv
  <2> QED
    BY <2>1, <1>2 DEF JobOrder, InLoop, Selected, Passed, Upserted, Replaced, Renewed, At
<1>8. JobSight(j)'
  <2>1. JobSight(j)
    BY JobSightHolds DEF IInv
  <2> QED
    BY <2>1, <1>2 DEF JobSight, InLoop, Selected, Passed, Upserted, Replaced, tables
<1> QED
  BY <1>2, <1>4, <1>5, <1>6, <1>7, <1>8, StepKeeps

LEMMA ReadRisksKeeps == ASSUME IInv, NEW j \in Jobs, ReadRisks(j) PROVE IInv'
<1>1. JobInv(j)
  BY JobInvHolds DEF IInv
<1>2. left[j] # {} /\ At(j) \in left[j] /\ At(j) \in Tickers
  BY <1>1, AtIsLeft DEF JobInv, InLoop, ReadRisks, IInv
<1>3. TypeOK'
  BY <1>2 DEF IInv, TypeOK, ReadRisks, GoTo, Labels, InLoop, tables, session
<1>4. UNCHANGED tables /\ touched' = touched /\ \A k \in Jobs \ {j} : Rests(k)
  BY DEF ReadRisks, Rests, GoTo, tables, IInv, TypeOK
<1>5. /\ pc[j] = "signals" /\ pc'[j] = "select"
      /\ \A t \in Tickers : copied'[j][t] = copied[j][t] \/ t = At(j)
      /\ UNCHANGED <<tables, req, left, found, fresh, draft, snap, cutReasons, cutRisks>>
  BY <1>2 DEF ReadRisks, GoTo, IInv, TypeOK
<1>6. At(j) \in Replaced(j)
  BY <1>1, <1>2, <1>5 DEF JobInv, InLoop, Replaced
<1>7. JobInv(j)'
  BY <1>1, <1>5, <1>6 DEF JobInv, InLoop, Passed, Upserted, Owns, Replaced, tables
<1>8. JobOrder(j)'
  <2>1. JobOrder(j)
    BY JobOrderHolds DEF IInv
  <2> QED
    BY <2>1, <1>5 DEF JobOrder, InLoop, Selected, Passed, Upserted, Replaced, Renewed, At
<1>9. JobSight(j)'
  <2>1. JobSight(j)
    BY JobSightHolds DEF IInv
  <2> QED
    BY <2>1, <1>4, <1>5 DEF JobSight, InLoop, Selected, Passed, Upserted, Replaced, tables
<1> QED
  BY <1>3, <1>4, <1>5, <1>7, <1>8, <1>9, StepKeeps

LEMMA SelectKeeps == ASSUME IInv, NEW j \in Jobs, Select(j) PROVE IInv'
<1>1. JobInv(j)
  BY JobInvHolds DEF IInv
<1>2. left[j] # {} /\ At(j) \in left[j] /\ At(j) \in Tickers
  BY <1>1, AtIsLeft DEF JobInv, InLoop, Select, IInv
<1>3. TypeOK'
  BY <1>2 DEF IInv, TypeOK, Select, ScoreRow, GoTo, Labels, InLoop, tables, session
<1>4. UNCHANGED tables /\ touched' = touched /\ \A k \in Jobs \ {j} : Rests(k)
  BY DEF Select, Rests, GoTo, tables, IInv, TypeOK
<1>5. /\ pc[j] = "select" /\ pc'[j] = "upsert"
      /\ \A t \in Tickers : found'[j][t] = found[j][t] \/ found'[j][t] = score[t]
      /\ UNCHANGED <<tables, req, left, copied, fresh, draft, snap, cutReasons, cutRisks>>
  BY <1>2 DEF Select, ScoreRow, GoTo, IInv, TypeOK
<1>6. JobInv(j)'
  BY <1>1, <1>5 DEF JobInv, InLoop, Passed, Upserted, Owns, Replaced, tables
<1>7. JobOrder(j)'
  <2>1. JobOrder(j)
    BY JobOrderHolds DEF IInv
  <2>2. \A t \in Tickers : t # At(j) => found'[j][t] = found[j][t]
    BY <1>2 DEF Select, IInv, TypeOK
  <2> QED
    BY <1>2, <1>5, <2>1, <2>2
       DEF JobOrder, InLoop, Selected, Passed, Upserted, Replaced, Renewed, At
<1>8. JobSight(j)'
  <2>1. JobSight(j)
    BY JobSightHolds DEF IInv
  <2>2. /\ found'[j][At(j)] = score[At(j)]
        /\ \A t \in Tickers : t # At(j) => found'[j][t] = found[j][t]
    BY <1>2 DEF Select, ScoreRow, IInv, TypeOK
  <2> QED
    BY <1>4, <1>5, <2>1, <2>2
       DEF JobSight, InLoop, Selected, Passed, Upserted, Replaced, At, tables
<1> QED
  BY <1>3, <1>4, <1>5, <1>6, <1>7, <1>8, StepKeeps

LEMMA UpsertKeeps == ASSUME IInv, NEW j \in Jobs, Upsert(j) PROVE IInv'
<1> DEFINE a == At(j)
<1>1. JobInv(j)
  BY JobInvHolds DEF IInv
<1>2. left[j] # {} /\ a \in left[j] /\ a \in Tickers
  BY <1>1, AtIsLeft DEF JobInv, InLoop, Upsert, IInv
<1>3. Before(j) # NoRow => score[a] # NoRow
  BY <1>1, <1>2 DEF JobInv, Before
<1>4. /\ Materialized(j) \in Fresh /\ Materialized(j) # NoRow
      /\ Written(j) \in Score /\ Written(j) # NoRow
  BY <1>2, <1>3, MaterializedType, WrittenType DEF IInv
<1>5. /\ pc[j] = "upsert" /\ pc'[j] = "reasons"
      /\ WritesScore(j) => ~RowLocked(j, a)
      /\ Before(j) = NoRow => score[a] = NoRow
      /\ draft' = [draft EXCEPT ![j][a] = IF WritesScore(j) THEN Written(j) ELSE NoRow]
      /\ pc' = [pc EXCEPT ![j] = "reasons"]
      /\ UNCHANGED <<data, tables, req, left, input, copied, found, fresh, snap, cutReasons,
                     cutRisks, touched>>
  BY DEF Upsert, GoTo, IInv, TypeOK
<1>6. TypeOK'
  BY <1>2, <1>4, <1>5 DEF IInv, TypeOK, Labels, InLoop, tables
<1>7. UNCHANGED tables /\ \A k \in Jobs \ {j} : Rests(k)
  BY <1>5 DEF Rests, IInv, TypeOK
<1>8. /\ \A t \in Tickers \ {a} : draft'[j][t] = draft[j][t]
      /\ draft'[j][a] # NoRow => ~RowLocked(j, a)
      /\ score[a] = NoRow => draft'[j][a] # NoRow
  <2>1. score[a] = NoRow => WritesScore(j)
    BY <1>3 DEF WritesScore
  <2> QED
    BY <1>2, <1>4, <1>5, <2>1 DEF IInv, TypeOK
<1>9. a \in Replaced(j)
  BY <1>1, <1>2, <1>5 DEF JobInv, InLoop, Replaced
<1>10. JobInv(j)'
  BY <1>1, <1>2, <1>5, <1>8, <1>9
     DEF JobInv, InLoop, Passed, Upserted, Owns, Replaced, tables, At
<1>11. JobOrder(j)'
  <2>1. JobOrder(j)
    BY JobOrderHolds DEF IInv
  <2>2. Renewed(j, a) => draft'[j][a] # NoRow
    <3>1. Renewed(j, a) /\ Before(j) # NoRow => Before(j).fresh.prov # {}
      BY DEF Renewed, Before
    <3>2. Materialized(j).prov = {}
      BY DEF Materialized
    <3>3. Renewed(j, a) => WritesScore(j)
      BY <3>1, <3>2 DEF WritesScore, FreshChanged
    <3> QED
      BY <1>2, <1>4, <1>5, <3>3 DEF IInv, TypeOK
  <2> QED
    BY <1>2, <1>5, <1>8, <2>1, <2>2
       DEF JobOrder, InLoop, Selected, Passed, Upserted, Replaced, Renewed, At
<1>12. JobSight(j)'
  <2>1. JobSight(j)
    BY JobSightHolds DEF IInv
  <2>2. \A t \in Tickers : Selected(j, t)' => Selected(j, t)
    BY <1>5 DEF Selected, Passed, Upserted, Replaced, InLoop, At
  <2> QED
    BY <1>5, <2>1, <2>2 DEF JobSight, tables
<1> QED
  BY <1>5, <1>6, <1>7, <1>8, <1>10, <1>11, <1>12, StepKeeps

LEMMA DeleteReasonsKeeps == ASSUME IInv, NEW j \in Jobs, DeleteReasons(j) PROVE IInv'
<1> DEFINE a == At(j)
<1>1. JobInv(j)
  BY JobInvHolds DEF IInv
<1>2. left[j] # {} /\ a \in left[j] /\ a \in Tickers
  BY <1>1, AtIsLeft DEF JobInv, InLoop, DeleteReasons, IInv
<1>3. /\ pc[j] = "reasons" /\ pc'[j] \in {"awaitReasons", "risks"}
      /\ cutReasons'[j] \subseteq cutReasons[j] \cup {a}
      /\ cutReasons[j] \subseteq cutReasons'[j]
      /\ a \in cutReasons'[j] =>
           a \in cutReasons[j] \/ (reasons[a] # NoRow /\ ~ReasonsLocked(j, a))
      /\ pc'[j] = "awaitReasons" => reasons[a] # NoRow
      /\ UNCHANGED <<tables, req, left, copied, found, fresh, draft, cutRisks>>
  BY <1>2 DEF DeleteReasons, GoTo, IInv, TypeOK
<1>4. TypeOK'
  <2>1. reasons[a] # NoRow => reasons[a].by \in Jobs \cup {Seed}
    BY <1>2 DEF IInv, TypeOK, Reasons
  <2>2. snap' \in [Jobs -> SUBSET (Jobs \cup {Seed})]
    <3>1. \/ snap' = snap
          \/ reasons[a] # NoRow /\ snap' = [snap EXCEPT ![j] = {reasons[a].by}]
      BY DEF DeleteReasons
    <3>2. snap \in [Jobs -> SUBSET (Jobs \cup {Seed})]
      BY DEF IInv, TypeOK
    <3>3. CASE snap' = snap
      BY <3>2, <3>3
    <3>4. CASE reasons[a] # NoRow /\ snap' = [snap EXCEPT ![j] = {reasons[a].by}]
      <4>1. {reasons[a].by} \in SUBSET (Jobs \cup {Seed})
        BY <2>1, <3>4
      <4> QED
        BY <3>2, <3>4, <4>1, SetUpdate
    <3> QED
      BY <3>1, <3>3, <3>4
  <2>3. cutReasons' \in [Jobs -> SUBSET Tickers]
    <3>1. \/ cutReasons' = cutReasons
          \/ cutReasons' = [cutReasons EXCEPT ![j] = cutReasons[j] \cup {a}]
      BY DEF DeleteReasons, IInv, TypeOK
    <3>2. cutReasons \in [Jobs -> SUBSET Tickers] /\ cutReasons[j] \cup {a} \in SUBSET Tickers
      BY <1>2 DEF IInv, TypeOK
    <3> QED
      BY <3>1, <3>2, SetUpdate
  <2>4. pc' \in [Jobs -> Labels]
    BY DEF IInv, TypeOK, DeleteReasons, GoTo, Labels, InLoop
  <2> QED
    BY <2>2, <2>3, <2>4 DEF IInv, TypeOK, DeleteReasons, tables
<1>5. UNCHANGED tables /\ touched' = touched /\ \A k \in Jobs \ {j} : Rests(k)
  BY DEF DeleteReasons, Rests, GoTo, tables, IInv, TypeOK
<1>6. JobInv(j)'
  BY <1>1, <1>3 DEF JobInv, InLoop, Passed, Upserted, Owns, Replaced, tables, At
<1>7. JobOrder(j)'
  <2>1. JobOrder(j)
    BY JobOrderHolds DEF IInv
  <2> QED
    BY <2>1, <1>3, StayKeepsOrder
<1>8. JobSight(j)'
  <2>1. JobSight(j) /\ (reasons[a] = NoRow => score[a] = NoRow)
    BY <1>2, JobSightHolds DEF IInv, ScoreHasReasons
  <2>2. Upserted(j, a)
    BY <1>2, <1>3 DEF Upserted
  <2>3. /\ pc'[j] = "awaitReasons" => snap'[j] = {reasons[a].by}
        /\ pc'[j] = "risks" => reasons[a] = NoRow \/ a \in cutReasons'[j]
    BY <1>2 DEF DeleteReasons, GoTo, IInv, TypeOK
  <2>4. \A t \in Tickers : t = a /\ pc'[j] = "risks" => Owns(j, t)'
    <3>1. score[a] # NoRow \/ draft[j][a] # NoRow
      BY <1>1, <1>2, <2>2 DEF JobInv
    <3>2. score' = score /\ draft' = draft
      BY <1>3 DEF tables
    <3> QED
      BY <2>1, <2>3, <3>1, <3>2 DEF Owns
  <2>5. \A t \in Tickers : (Selected(j, t)' => Selected(j, t)) /\ (Upserted(j, t)' => t = a)
    BY <1>3 DEF Selected, Passed, Upserted, Replaced, InLoop, At
  <2>6. score' = score /\ reasons' = reasons /\ found' = found /\ touched' = touched
    BY <1>3, <1>5 DEF tables
  <2>7. \A t \in Tickers \ touched[j] : Selected(j, t) => score[t] = found[j][t]
    BY <2>1 DEF JobSight
  <2>8. \A t \in Tickers : Upserted(j, t)' /\ pc'[j] = "awaitReasons" => reasons'[t].by \in snap'[j]
    BY <2>3, <2>5, <2>6
  <2>9. \A t \in Tickers :
          Upserted(j, t)' /\ pc'[j] \in {"risks", "awaitRisks", "insert"} => Owns(j, t)'
    BY <1>3, <2>4, <2>5
  <2> QED
    BY <2>5, <2>6, <2>7, <2>8, <2>9, Zenon DEF JobSight
<1> QED
  BY <1>2, <1>3, <1>4, <1>5, <1>6, <1>7, <1>8, StepKeeps

LEMMA AwaitReasonsKeeps == ASSUME IInv, NEW j \in Jobs, AwaitReasons(j) PROVE IInv'
<1> DEFINE a == At(j)
<1>1. JobInv(j)
  BY JobInvHolds DEF IInv
<1>2. left[j] # {} /\ a \in left[j] /\ a \in Tickers
  BY <1>1, AtIsLeft DEF JobInv, InLoop, AwaitReasons, IInv
<1>3. /\ pc[j] = "awaitReasons" /\ pc'[j] = "risks"
      /\ cutReasons'[j] \subseteq cutReasons[j] \cup {a}
      /\ cutReasons[j] \subseteq cutReasons'[j]
      /\ a \in cutReasons'[j] =>
           a \in cutReasons[j] \/ (reasons[a].by \in snap[j] /\ ~ReasonsLocked(j, a))
      /\ UNCHANGED <<tables, req, left, copied, found, fresh, draft, cutRisks>>
  BY <1>2 DEF AwaitReasons, GoTo, IInv, TypeOK
<1>4. TypeOK'
  BY <1>2 DEF IInv, TypeOK, AwaitReasons, GoTo, Labels, InLoop, tables
<1>5. UNCHANGED tables /\ touched' = touched /\ \A k \in Jobs \ {j} : Rests(k)
  BY DEF AwaitReasons, Rests, GoTo, tables, IInv, TypeOK
<1>6. JobInv(j)'
  BY <1>1, <1>3 DEF JobInv, InLoop, Passed, Upserted, Owns, Replaced, tables, At
<1>7. JobOrder(j)'
  <2>1. JobOrder(j)
    BY JobOrderHolds DEF IInv
  <2> QED
    BY <2>1, <1>3, StayKeepsOrder
<1>8. JobSight(j)'
  <2>1. JobSight(j)
    BY JobSightHolds DEF IInv
  <2>2. Upserted(j, a) /\ (reasons[a].by \in snap[j] => a \in cutReasons'[j])
    BY <1>2, <1>3 DEF Upserted, AwaitReasons, IInv, TypeOK
  <2>3. \A t \in Tickers : (Selected(j, t)' => Selected(j, t)) /\ (Upserted(j, t)' => t = a)
    BY <1>3 DEF Selected, Passed, Upserted, Replaced, InLoop, At
  <2> QED
    BY <1>2, <1>3, <1>5, <2>1, <2>2, <2>3 DEF JobSight, Owns, tables
<1> QED
  BY <1>2, <1>3, <1>4, <1>5, <1>6, <1>7, <1>8, StepKeeps

LEMMA DeleteRisksKeeps == ASSUME IInv, NEW j \in Jobs, DeleteRisks(j) PROVE IInv'
<1> DEFINE a == At(j)
<1>1. JobInv(j)
  BY JobInvHolds DEF IInv
<1>2. left[j] # {} /\ a \in left[j] /\ a \in Tickers
  BY <1>1, AtIsLeft DEF JobInv, InLoop, DeleteRisks, IInv
<1>3. /\ pc[j] = "risks" /\ pc'[j] = "awaitRisks"
      /\ snap'[j] = risks[a]
      /\ UNCHANGED <<tables, req, left, copied, found, fresh, draft, cutReasons, cutRisks>>
  BY DEF DeleteRisks, RiskRows, GoTo, IInv, TypeOK
<1>4. TypeOK'
  BY <1>2 DEF IInv, TypeOK, DeleteRisks, RiskRows, GoTo, Labels, InLoop, tables
<1>5. UNCHANGED tables /\ touched' = touched /\ \A k \in Jobs \ {j} : Rests(k)
  BY DEF DeleteRisks, Rests, GoTo, tables, IInv, TypeOK
<1>6. JobInv(j)'
  BY <1>1, <1>3 DEF JobInv, InLoop, Passed, Upserted, Owns, Replaced, tables, At
<1>7. JobOrder(j)'
  <2>1. JobOrder(j)
    BY JobOrderHolds DEF IInv
  <2> QED
    BY <2>1, <1>3, StayKeepsOrder
<1>8. JobSight(j)'
  <2>1. JobSight(j)
    BY JobSightHolds DEF IInv
  <2> QED
    BY <2>1, <1>3, <1>5, CutsKeepSight
<1> QED
  BY <1>3, <1>4, <1>5, <1>6, <1>7, <1>8, StepKeeps

LEMMA AwaitRisksKeeps == ASSUME IInv, NEW j \in Jobs, AwaitRisks(j) PROVE IInv'
<1> DEFINE a == At(j)
<1>1. JobInv(j)
  BY JobInvHolds DEF IInv
<1>2. left[j] # {} /\ a \in left[j] /\ a \in Tickers
  BY <1>1, AtIsLeft DEF JobInv, InLoop, AwaitRisks, IInv
<1>3. /\ pc[j] = "awaitRisks" /\ pc'[j] = "insert"
      /\ cutRisks'[j][a] = snap[j] \cap risks[a]
      /\ \A t \in Tickers \ {a} : cutRisks'[j][t] = cutRisks[j][t]
      /\ UNCHANGED <<tables, req, left, copied, found, fresh, draft, cutReasons>>
  BY <1>2 DEF AwaitRisks, GoTo, IInv, TypeOK
<1>4. TypeOK'
  BY <1>2 DEF IInv, TypeOK, AwaitRisks, GoTo, Labels, InLoop, tables
<1>5. UNCHANGED tables /\ touched' = touched /\ \A k \in Jobs \ {j} : Rests(k)
  BY DEF AwaitRisks, Rests, GoTo, tables, IInv, TypeOK
<1>6. JobInv(j)'
  <2>1. Owns(j, a) => cutRisks'[j][a] = risks[a]
    <3>1. Upserted(j, a)
      BY <1>2, <1>3 DEF Upserted
    <3> QED
      BY <1>1, <1>2, <1>3, <3>1 DEF JobInv
  <2>2. \A t \in Tickers :
          /\ Passed(j, t)' <=> Passed(j, t)
          /\ Upserted(j, t)' <=> t = a
          /\ Upserted(j, t) <=> t = a
          /\ Owns(j, t)' <=> Owns(j, t)
          /\ t \in Replaced(j)' <=> t \in Replaced(j)
    BY <1>3 DEF Passed, Upserted, InLoop, At, Replaced, Owns, tables
  <2>3. ~Passed(j, a)
    BY <1>2, <1>3 DEF Passed, InLoop
  <2> QED
    BY <1>1, <1>2, <1>3, <2>1, <2>2, <2>3 DEF JobInv, InLoop, tables
<1>7. JobOrder(j)'
  <2>1. JobOrder(j)
    BY JobOrderHolds DEF IInv
  <2> QED
    BY <2>1, <1>3, StayKeepsOrder
<1>8. JobSight(j)'
  <2>1. JobSight(j)
    BY JobSightHolds DEF IInv
  <2> QED
    BY <2>1, <1>3, <1>5, CutsKeepSight
<1> QED
  BY <1>3, <1>4, <1>5, <1>6, <1>7, <1>8, StepKeeps

\* The unique constraint on reason_id admits only a job that owns the ticker.
LEMMA InsertKeeps == ASSUME IInv, NEW j \in Jobs, Insert(j) PROVE IInv'
<1> DEFINE a == At(j)
           rest == left[j] \ {a}
<1>1. JobInv(j)
  BY JobInvHolds DEF IInv
<1>2. left[j] # {} /\ a \in left[j] /\ a \in Tickers
  BY <1>1, AtIsLeft DEF JobInv, InLoop, Insert, IInv
<1>3. /\ pc[j] = "insert" /\ ReasonsFree(j, a)
      /\ \/ rest # {} /\ left'[j] = rest /\ pc'[j] = "financials"
         \/ /\ rest = {} /\ left'[j] = req[j].tickers /\ pc'[j] \in {"commit", "load"}
            /\ pc'[j] = "load" => req[j].mode # "bare"
      /\ UNCHANGED <<tables, req, session>>
  BY DEF Insert, GoTo, IInv, TypeOK
<1>4. Owns(j, a)
  <2>1. reasons[a] = NoRow => score[a] = NoRow
    BY <1>2 DEF IInv, ScoreHasReasons
  <2> QED
    BY <1>1, <1>2, <1>3, <2>1 DEF Owns, ReasonsFree, JobInv, Upserted
<1>5. (score[a] # NoRow \/ draft[j][a] # NoRow) /\ cutRisks[j][a] = risks[a]
  BY <1>1, <1>2, <1>3, <1>4 DEF JobInv, Upserted
<1>6. TypeOK'
  <2>1. req[j].tickers \subseteq Tickers
    BY RequestType DEF IInv
  <2>2. left' \in [Jobs -> SUBSET Tickers] /\ pc' \in [Jobs -> Labels]
    <3>1. \/ left' = [left EXCEPT ![j] = rest]
          \/ left' = [left EXCEPT ![j] = req[j].tickers]
      BY DEF Insert
    <3>2. left \in [Jobs -> SUBSET Tickers] /\ rest \in SUBSET Tickers
      BY DEF IInv, TypeOK
    <3>3. left' \in [Jobs -> SUBSET Tickers]
      BY <2>1, <3>1, <3>2, SetUpdate
    <3>4. pc' \in [Jobs -> Labels]
      BY DEF IInv, TypeOK, Insert, GoTo, Labels, InLoop
    <3> QED
      BY <3>3, <3>4
  <2> QED
    BY <2>2 DEF IInv, TypeOK, Insert, tables, session
<1>7. UNCHANGED tables /\ touched' = touched /\ \A k \in Jobs \ {j} : Rests(k)
  BY DEF Insert, Rests, GoTo, tables, session, IInv, TypeOK
<1>8. JobInv(j)'
  <2>1. CASE rest # {} /\ left'[j] = rest /\ pc'[j] = "financials"
    BY <1>1, <1>2, <1>3, <1>4, <1>5, <2>1
       DEF JobInv, InLoop, Passed, Upserted, Owns, Replaced, tables, session
  <2>2. CASE rest = {} /\ left'[j] = req[j].tickers /\ pc'[j] \in {"commit", "load"}
    BY <1>1, <1>2, <1>3, <1>4, <1>5, <2>2
       DEF JobInv, InLoop, Passed, Upserted, Owns, Replaced, tables, session
  <2> QED
    BY <1>3, <2>1, <2>2
<1>9. JobOrder(j)' /\ JobSight(j)'
  <2>1. JobOrder(j) /\ JobSight(j)
    BY JobOrderHolds, JobSightHolds DEF IInv
  <2>2. left[j] \subseteq Nat /\ req[j].tickers \subseteq Tickers
    BY RequestType, TickersAssumption DEF IInv, TypeOK
  <2>3. \A u \in rest : a < u
    BY <1>2, <2>2, MinIsLeast DEF At
  <2>4. \A t \in Tickers : Upserted(j, t) => t = a
    BY DEF Upserted
  <2>5. a \in Replaced(j)
    BY <1>1, <1>2, <1>3 DEF JobInv, InLoop, Replaced
  <2>6. \A t \in Tickers : ~Upserted(j, t)' /\ (Renewed(j, t)' <=> Renewed(j, t))
    BY <1>3 DEF Upserted, Renewed, session
  <2>7. \A t \in Tickers : Passed(j, t)' <=> Passed(j, t) \/ Upserted(j, t)
    <3>1. \A t \in Tickers : Passed(j, t) <=> t \in Replaced(j) /\ t \notin left[j]
      BY <1>3 DEF Passed, InLoop
    <3>2. \A t \in Tickers : Upserted(j, t) <=> t = a
      BY <1>3 DEF Upserted
    <3> QED
      BY <1>2, <1>3, <2>5, <3>1, <3>2 DEF Passed, InLoop, Replaced
  <2>8. pc'[j] \in InLoop => \A t \in req[j].tickers \ left'[j], u \in left'[j] : t < u
    BY <1>2, <1>3, <2>1, <2>3 DEF JobOrder, InLoop
  <2>9. \A t \in Tickers : Selected(j, t)' <=> Passed(j, t) \/ Upserted(j, t)
    BY <1>3, <2>6, <2>7 DEF Selected
  <2>10. \A t \in Tickers : Selected(j, t) <=> Passed(j, t) \/ Upserted(j, t)
    BY <1>3 DEF Selected
  <2>11. JobOrder(j)'
    BY <1>3, <2>1, <2>6, <2>7, <2>8, <2>9, <2>10 DEF JobOrder, session
  <2>12. JobSight(j)'
    BY <1>3, <1>7, <2>1, <2>6, <2>9, <2>10 DEF JobSight, session, tables
  <2> QED
    BY <2>11, <2>12
<1> QED
  BY <1>3, <1>6, <1>7, <1>8, <1>9, StepKeeps DEF session

LEMMA LoadKeeps == ASSUME IInv, NEW j \in Jobs, Load(j) PROVE IInv'
<1>1. JobInv(j)
  BY JobInvHolds DEF IInv
<1>3. TypeOK'
  <2>1. fresh' \in [Jobs -> [Tickers -> Fresh \cup {NoRow}]]
    BY SeenType DEF IInv, TypeOK, Load
  <2> QED
    BY <2>1 DEF IInv, TypeOK, Load, GoTo, Labels, InLoop, tables
<1>4. UNCHANGED tables /\ touched' = touched /\ \A k \in Jobs \ {j} : Rests(k)
  BY DEF Load, Rests, GoTo, tables, IInv, TypeOK
<1>5. /\ pc[j] = "load" /\ pc'[j] = "annotate"
      /\ \A t \in Tickers : fresh'[j][t] # NoRow => score[t] # NoRow \/ draft[j][t] # NoRow
      /\ UNCHANGED <<tables, req, left, copied, found, draft, snap, cutReasons, cutRisks>>
  BY DEF Load, Seen, GoTo, IInv, TypeOK
<1>6. JobInv(j)'
  BY <1>1, <1>5 DEF JobInv, InLoop, Passed, Upserted, Owns, Replaced, tables
<1>7. JobOrder(j)'
  <2>1. JobOrder(j)
    BY JobOrderHolds DEF IInv
  <2> QED
    BY <2>1, <1>1, <1>5 DEF JobInv, JobOrder, InLoop, Selected, Passed, Upserted, Replaced, Renewed
<1>8. JobSight(j)'
  <2>1. JobSight(j)
    BY JobSightHolds DEF IInv
  <2>2. \A t \in Tickers : (Selected(j, t)' => Selected(j, t)) /\ ~Upserted(j, t)'
    BY <1>5 DEF Selected, Passed, Upserted, Replaced, InLoop
  <2> QED
    BY <1>4, <1>5, <2>1, <2>2 DEF JobSight, tables
<1> QED
  BY <1>3, <1>4, <1>5, <1>6, <1>7, <1>8, StepKeeps

LEMMA AnnotateKeeps ==
  ASSUME IInv, NEW j \in Jobs, NEW a \in Tickers, Annotate(j, a)
  PROVE  IInv'
<1> DEFINE row == Seen(j, a)
           new == [row EXCEPT !.fresh = Noted(j, a)]
<1>1. JobInv(j)
  BY JobInvHolds DEF IInv
<1>2. /\ pc[j] = "annotate" /\ pc'[j] = "annotate"
      /\ a \in left[j]
      /\ left' = [left EXCEPT ![j] = left[j] \ {a}]
      /\ \/ draft' = draft
         \/ /\ fresh[j][a] # NoRow /\ ~RowLocked(j, a)
            /\ draft' = [draft EXCEPT ![j][a] = new]
      /\ UNCHANGED <<data, tables, req, pc, input, copied, found, fresh, snap,
                     cutReasons, cutRisks, touched>>
  BY DEF Annotate, IInv, TypeOK
<1>3. fresh[j][a] # NoRow => row \in Score
  <2>1. fresh[j][a] # NoRow => row # NoRow
    BY <1>1, SeenType DEF JobInv, IInv
  <2>2. row \in Score \cup {NoRow}
    BY SeenType DEF IInv
  <2> QED
    BY <2>1, <2>2
<1>4. fresh[j][a] # NoRow => new \in Score /\ new # NoRow
  <2>1. fresh[j][a] # NoRow => Noted(j, a) \in Fresh
    BY NotedType DEF IInv
  <2>2. fresh[j][a] # NoRow => new \in Score
    BY <1>3, <2>1 DEF Score
  <2> QED
    BY <2>2, NoRowAssumption
<1>5. left' \in [Jobs -> SUBSET Tickers] /\ left'[j] = left[j] \ {a}
  <2>1. left \in [Jobs -> SUBSET Tickers] /\ left[j] \ {a} \in SUBSET Tickers
    BY DEF IInv, TypeOK
  <2> QED
    BY <1>2, <2>1, SetUpdate
<1>6. draft' \in [Jobs -> [Tickers -> Score \cup {NoRow}]]
  <2>1. draft \in [Jobs -> [Tickers -> Score \cup {NoRow}]]
    BY DEF IInv, TypeOK
  <2>2. CASE draft' = draft
    BY <2>1, <2>2
  <2>3. CASE fresh[j][a] # NoRow /\ draft' = [draft EXCEPT ![j][a] = new]
    <3>1. new \in Score \cup {NoRow}
      BY <1>4, <2>3
    <3> HIDE DEF new
    <3> QED
      BY <2>1, <2>3, <3>1, CellUpdate
  <2> QED
    BY <1>2, <2>2, <2>3
<1>7. TypeOK'
  BY <1>2, <1>5, <1>6 DEF IInv, TypeOK, tables
<1>8. UNCHANGED tables /\ \A k \in Jobs \ {j} : Rests(k)
  BY <1>2 DEF Rests, IInv, TypeOK
<1>9. /\ \A t \in Tickers \ {a} : draft'[j][t] = draft[j][t]
      /\ draft[j][a] # NoRow => draft'[j][a] # NoRow
      /\ draft'[j][a] # NoRow => draft[j][a] # NoRow \/ (fresh[j][a] # NoRow /\ ~RowLocked(j, a))
  BY <1>2, <1>4 DEF IInv, TypeOK
<1>10. JobInv(j)'
  BY <1>1, <1>2, <1>5, <1>9 DEF JobInv, InLoop, Passed, Upserted, Owns, Replaced, tables
<1>11. JobOrder(j)'
  <2>1. JobOrder(j)
    BY JobOrderHolds DEF IInv
  <2>2. req[j].mode = "refresh" => Passed(j, a)
    BY <1>1, <1>2 DEF JobInv, Passed, Replaced
  <2> QED
    BY <1>2, <1>9, <2>1, <2>2 DEF JobOrder, InLoop, Selected, Passed, Upserted, Replaced, Renewed
<1>12. JobSight(j)'
  <2>1. JobSight(j)
    BY JobSightHolds DEF IInv
  <2>2. \A t \in Tickers : (Selected(j, t)' => Selected(j, t)) /\ ~Upserted(j, t)'
    BY <1>2 DEF Selected, Passed, Upserted, Replaced, InLoop
  <2> QED
    BY <1>2, <2>1, <2>2 DEF JobSight, tables
<1> QED
  BY <1>2, <1>7, <1>8, <1>9, <1>10, <1>11, <1>12, StepKeeps

LEMMA AnnotatedKeeps == ASSUME IInv, NEW j \in Jobs, Annotated(j) PROVE IInv'
<1>1. JobInv(j)
  BY JobInvHolds DEF IInv
<1>2. TypeOK'
  BY DEF IInv, TypeOK, Annotated, GoTo, Labels, InLoop, tables, session
<1>3. UNCHANGED tables /\ touched' = touched /\ \A k \in Jobs \ {j} : Rests(k)
  BY DEF Annotated, Rests, GoTo, tables, session, IInv, TypeOK
<1>4. pc[j] = "annotate" /\ pc'[j] = "commit" /\ UNCHANGED <<tables, req, left, session>>
  BY DEF Annotated, GoTo, IInv, TypeOK
<1>5. JobInv(j)'
  BY <1>1, <1>4 DEF JobInv, InLoop, Passed, Upserted, Owns, Replaced, tables, session
<1>6. JobOrder(j)'
  <2>1. JobOrder(j)
    BY JobOrderHolds DEF IInv
  <2> QED
    BY <2>1, <1>4 DEF JobOrder, InLoop, Selected, Passed, Upserted, Replaced, Renewed, session
<1>7. JobSight(j)'
  <2>1. JobSight(j)
    BY JobSightHolds DEF IInv
  <2>2. \A t \in Tickers : (Selected(j, t)' => Selected(j, t)) /\ ~Upserted(j, t)'
    BY <1>4 DEF Selected, Passed, Upserted, Replaced, InLoop
  <2> QED
    BY <1>3, <1>4, <2>1, <2>2 DEF JobSight, tables, session
<1> QED
  BY <1>2, <1>3, <1>4, <1>5, <1>6, <1>7, StepKeeps DEF session

\* The session of a closed transaction is empty.
LEMMA CloseForm ==
  ASSUME TypeOK, NEW j \in Jobs, Close(j)
  PROVE  /\ pc'[j] = "done" /\ left'[j] = {} /\ cutReasons'[j] = {} /\ req' = req
         /\ \A t \in Tickers : /\ fresh'[j][t] = NoRow /\ draft'[j][t] = NoRow
                               /\ found'[j][t] = NoRow
                               /\ copied'[j][t] = {} /\ cutRisks'[j][t] = {}
         /\ \A k \in Jobs \ {j} : Rests(k)
         /\ data' = data /\ input' \in [Jobs -> [Tickers -> Reading]]
         /\ req' \in [Jobs -> Requests] /\ pc' \in [Jobs -> Labels]
         /\ left' \in [Jobs -> SUBSET Tickers]
         /\ copied' \in [Jobs -> [Tickers -> SUBSET (Jobs \cup {Seed})]]
         /\ found' \in [Jobs -> [Tickers -> Score \cup {NoRow}]]
         /\ fresh' \in [Jobs -> [Tickers -> Fresh \cup {NoRow}]]
         /\ draft' \in [Jobs -> [Tickers -> Score \cup {NoRow}]]
         /\ snap' \in [Jobs -> SUBSET (Jobs \cup {Seed})]
         /\ cutReasons' \in [Jobs -> SUBSET Tickers]
         /\ cutRisks' \in [Jobs -> [Tickers -> SUBSET (Jobs \cup {Seed})]]
BY FirstType DEF TypeOK, Close, GoTo, Rests, Labels

LEMMA ClosedInv ==
  ASSUME TypeOK, NEW j \in Jobs, Close(j)
  PROVE  JobInv(j)'
BY CloseForm DEF JobInv, InLoop, Passed, Upserted

LEMMA ClosedOrder ==
  ASSUME TypeOK, NEW j \in Jobs, Close(j)
  PROVE  JobOrder(j)'
BY CloseForm DEF JobOrder, InLoop, Selected, Passed, Upserted

LEMMA ClosedSight ==
  ASSUME TypeOK, NEW j \in Jobs, Close(j)
  PROVE  JobSight(j)'
BY CloseForm DEF JobSight, InLoop, Selected, Passed, Upserted

LEMMA AbortKeeps == ASSUME IInv, NEW j \in Jobs, Abort(j) PROVE IInv'
<1>1. Close(j) /\ UNCHANGED tables
  BY DEF Abort
<1>2. TypeOK
  BY DEF IInv
<1>3. TypeOK' /\ \A k \in Jobs \ {j} : touched'[k] = touched[k]
  <2>1. UNCHANGED <<score, reasons, risks>>
    BY <1>1 DEF tables
  <2>2. /\ touched' \in [Jobs -> SUBSET Tickers]
        /\ \A k \in Jobs \ {j} : touched'[k] = touched[k]
    BY <1>2 DEF Abort, TypeOK
  <2> QED
    BY <1>1, <1>2, <2>1, <2>2, CloseForm DEF TypeOK
<1>4. \A k \in Jobs \ {j} : Rests(k)
  BY <1>1, <1>2, CloseForm
<1>5. \A k \in Jobs : JobInv(k)' /\ JobOrder(k)' /\ JobSight(k)'
  <2>1. JobInv(j)' /\ JobOrder(j)' /\ JobSight(j)'
    BY <1>1, <1>2, ClosedInv, ClosedOrder, ClosedSight
  <2>2. \A k \in Jobs : JobInv(k) /\ JobOrder(k) /\ JobSight(k)
    BY JobInvHolds, JobOrderHolds, JobSightHolds DEF IInv
  <2> QED
    BY <1>1, <1>3, <1>4, <2>1, <2>2, RestsKeeps, RestsKeepsOrder, RestsKeepsSight
<1>6. (LoopInRequest /\ SessionRowsExist /\ PassedIsOwned)'
  BY <1>5, Zenon DEF LoopInRequest, SessionRowsExist, PassedIsOwned, JobInv
<1>7. LocksFollowLoop' /\ SightIsCurrent'
  BY <1>5, Zenon DEF LocksFollowLoop, JobOrder, SightIsCurrent, JobSight
<1>8. RowsLockedOnce'
  <2>1. \A t \in Tickers : draft'[j][t] = NoRow /\ t \notin cutReasons'[j]
    BY <1>1, <1>2, CloseForm
  <2> QED
    BY <1>4, <2>1 DEF RowsLockedOnce, IInv, Rests
<1>9. ScoreHasReasons' /\ RisksFollowReasons'
  BY <1>1 DEF IInv, ScoreHasReasons, RisksFollowReasons, Owner, tables
<1> QED
  BY <1>3, <1>6, <1>7, <1>8, <1>9 DEF IInv

\* A job about to commit has passed all tickers it replaces.
LEMMA CommitKeeps == ASSUME IInv, NEW j \in Jobs, Commit(j) PROVE IInv'
<1>1. \A k \in Jobs : JobInv(k)
  BY JobInvHolds DEF IInv
<1>2. TypeOK /\ Close(j) /\ pc[j] = "commit"
  BY DEF IInv, Commit
<1>3. \A t \in Tickers :
        /\ score'[t] = IF draft[j][t] # NoRow THEN draft[j][t] ELSE score[t]
        /\ reasons'[t] = IF t \in Replaced(j) THEN [by |-> j, from |-> input[j][t]]
                         ELSE reasons[t]
        /\ risks'[t] = (risks[t] \ cutRisks[j][t]) \cup
                         (IF copied[j][t] # {} THEN {j} ELSE {})
  BY DEF Commit
<1>4. \A t \in Tickers : t \in Replaced(j) =>
        /\ Owns(j, t) /\ cutRisks[j][t] = risks[t]
        /\ score[t] # NoRow \/ draft[j][t] # NoRow
  BY <1>1, <1>2 DEF JobInv, Passed
<1>5. \A t \in Tickers : t \notin Replaced(j) =>
        /\ cutRisks[j][t] = {} /\ copied[j][t] = {}
        /\ draft[j][t] # NoRow => score[t] # NoRow
  BY <1>1, <1>2 DEF JobInv, Passed, Upserted
<1>6. \A t \in Tickers : t \in Replaced(j) =>
        /\ reasons'[t] \in Reasons /\ reasons'[t].by = j
        /\ risks'[t] \subseteq {j}
        /\ score'[t] # NoRow
  <2> SUFFICES ASSUME NEW t \in Tickers, t \in Replaced(j)
               PROVE  /\ reasons'[t] \in Reasons /\ reasons'[t].by = j
                      /\ risks'[t] \subseteq {j}
                      /\ score'[t] # NoRow
    OBVIOUS
  <2>2. reasons'[t] \in Reasons /\ reasons'[t].by = j
    <3>1. input[j][t] \in Reading
      BY DEF IInv, TypeOK
    <3>2. reasons'[t] = [by |-> j, from |-> input[j][t]]
      BY <1>3
    <3> QED
      BY <3>1, <3>2 DEF Reasons
  <2>3. risks'[t] \subseteq {j}
    BY <1>3, <1>4
  <2> QED
    BY <1>3, <1>4, <2>2, <2>3
<1>7. \A t \in Tickers : t \notin Replaced(j) =>
        /\ reasons'[t] = reasons[t] /\ risks'[t] = risks[t]
        /\ score'[t] = NoRow <=> score[t] = NoRow
  BY <1>3, <1>5
<1>8. TypeOK'
  <2>1. \A t \in Tickers : score'[t] \in Score \cup {NoRow}
    <3>1. /\ score \in [Tickers -> Score \cup {NoRow}]
          /\ draft[j] \in [Tickers -> Score \cup {NoRow}]
      BY <1>2 DEF TypeOK
    <3> QED
      BY <1>3, <3>1
  <2>2. score' \in [Tickers -> Score \cup {NoRow}]
    BY <2>1 DEF Commit
  <2>3. \A t \in Tickers : reasons'[t] \in Reasons \cup {NoRow}
    BY <1>2, <1>6, <1>7 DEF TypeOK
  <2>4. reasons' \in [Tickers -> Reasons \cup {NoRow}]
    BY <2>3 DEF Commit
  <2>5. \A t \in Tickers : risks'[t] \in SUBSET (Jobs \cup {Seed})
    <3>1. risks \in [Tickers -> SUBSET (Jobs \cup {Seed})]
      BY <1>2 DEF TypeOK
    <3> QED
      BY <1>3, <3>1
  <2>6. risks' \in [Tickers -> SUBSET (Jobs \cup {Seed})]
    BY <2>5 DEF Commit
  <2>7. data' \in [Tickers -> Reading] /\ touched' \in [Jobs -> SUBSET Tickers]
    <3>1. \A k \in Jobs : touched'[k] \in SUBSET Tickers
      BY <1>2 DEF TypeOK, Commit, Changes
    <3>2. touched' = [k \in Jobs |-> touched'[k]]
      BY DEF Commit
    <3> QED
      BY <1>2, <3>1, <3>2, CloseForm DEF TypeOK
  <2> QED
    BY <1>2, <2>2, <2>4, <2>6, <2>7, CloseForm DEF TypeOK
<1>9. ScoreHasReasons'
  BY <1>6, <1>7, NoRowAssumption DEF ScoreHasReasons, IInv
<1>10. RisksFollowReasons'
  <2>1. \A t \in Tickers : t \in Replaced(j) => Owner(t)' = j
    BY <1>6, NoRowAssumption DEF Owner
  <2>2. \A t \in Tickers : t \notin Replaced(j) => Owner(t)' = Owner(t)
    BY <1>7 DEF Owner
  <2> QED
    BY <1>6, <1>7, <2>1, <2>2 DEF RisksFollowReasons, IInv
<1>11. \A k \in Jobs \ {j} : Rests(k)
  BY <1>2, CloseForm
<1>12. RowsLockedOnce'
  <2>1. \A t \in Tickers : draft'[j][t] = NoRow /\ t \notin cutReasons'[j]
    BY <1>2, CloseForm
  <2>2. \A k \in Jobs \ {j} : draft'[k] = draft[k] /\ cutReasons'[k] = cutReasons[k]
    BY <1>11 DEF Rests
  <2> QED
    BY <2>1, <2>2 DEF RowsLockedOnce, IInv
<1>13. ASSUME NEW k \in Jobs \ {j}, NEW t \in Tickers, Owns(k, t)
       PROVE  /\ Owns(k, t)'
              /\ risks'[t] = risks[t]
  <2>1. t \notin Replaced(j)
    <3>1. SUFFICES ASSUME t \in Replaced(j) PROVE FALSE
      OBVIOUS
    <3>2. Owns(j, t)
      BY <1>4, <3>1
    <3>3. t \in cutReasons[j] \/ t \in cutReasons[k] => score[t] # NoRow
      BY <1>1 DEF JobInv, IInv, ScoreHasReasons
    <3> QED
      BY <1>13, <3>2, <3>3 DEF Owns, IInv, RowsLockedOnce
  <2> QED
    BY <1>7, <1>11, <1>13, <2>1 DEF Owns, Rests
<1>14. ASSUME NEW k \in Jobs \ {j} PROVE JobInv(k)'
  <2>1. JobInv(k) /\ Rests(k)
    BY <1>1, <1>11, <1>14
  <2>2. \A t \in Tickers :
          /\ score[t] # NoRow => score'[t] # NoRow
          /\ reasons[t] # NoRow => reasons'[t] # NoRow
    BY <1>3, <1>6, NoRowAssumption
  <2>3. \A t \in Tickers : score[t] = NoRow /\ score'[t] # NoRow => ~Owns(k, t)
    BY <1>13, <2>1, <2>2 DEF Owns, JobInv, IInv, ScoreHasReasons, Rests
  <2> QED
    BY <1>13, <2>1, <2>2, <2>3
       DEF JobInv, Rests, Passed, Upserted, Replaced, At, Owns
<1>15. \A k \in Jobs : JobInv(k)'
  BY <1>2, <1>14, ClosedInv
<1>16. (LoopInRequest /\ SessionRowsExist /\ PassedIsOwned)'
  BY <1>15, Zenon DEF LoopInRequest, SessionRowsExist, PassedIsOwned, JobInv
<1>17. LocksFollowLoop'
  <2>1. \A k \in Jobs : JobOrder(k)'
    BY <1>2, <1>11, ClosedOrder, JobOrderHolds, RestsKeepsOrder DEF IInv
  <2> QED
    BY <2>1, Zenon DEF LocksFollowLoop, JobOrder
<1>18. ASSUME NEW k \in Jobs \ {j} PROVE JobSight(k)'
  <2>1. JobSight(k) /\ Rests(k)
    BY <1>11, JobSightHolds DEF IInv
  <2>2. \A t \in Tickers : /\ Selected(k, t)' <=> Selected(k, t)
                          /\ Upserted(k, t)' <=> Upserted(k, t)
    BY <2>1 DEF Rests, Selected, Passed, Upserted, Replaced, At
  <2>3. touched'[k] = touched[k] \cup {t \in Changes(j) : Selected(k, t)}
    BY <1>18 DEF Commit
  <2>4. ASSUME NEW t \in Tickers \ touched'[k], Selected(k, t)
        PROVE  score'[t] = score[t] /\ reasons'[t] = reasons[t]
    <3>1. t \notin Changes(j)
      BY <2>3, <2>4
    <3> QED
      BY <1>3, <3>1 DEF Changes
  <2>5. \A t \in Tickers : Upserted(k, t) => Selected(k, t)
    BY DEF Selected
  <2>6. \A t \in Tickers \ touched'[k] : t \notin touched[k]
    BY <2>3
  <2>7. \A t \in Tickers : Owns(k, t) => Owns(k, t)'
    BY <1>13
  <2>8. pc'[k] = pc[k] /\ found'[k] = found[k] /\ snap'[k] = snap[k]
    BY <2>1 DEF Rests
  <2>9. \A t \in Tickers \ touched'[k] :
          /\ Selected(k, t) => score'[t] = found[k][t] /\ reasons'[t] = reasons[t]
          /\ Upserted(k, t) /\ pc[k] = "awaitReasons" => reasons[t].by \in snap[k]
          /\ Upserted(k, t) /\ pc[k] \in {"risks", "awaitRisks", "insert"} => Owns(k, t)
    BY <2>1, <2>4, <2>6 DEF JobSight
  <2>10. \A t \in Tickers \ touched'[k] : Selected(k, t)' => score'[t] = found'[k][t]
    BY <2>1, <2>9 DEF Rests, Selected, Passed, Upserted, Replaced, At
  <2>11. \A t \in Tickers \ touched'[k] :
           Upserted(k, t)' /\ pc'[k] = "awaitReasons" => reasons'[t].by \in snap'[k]
    BY <2>1, <2>9 DEF Rests, Selected, Upserted, At
  <2>12. \A t \in Tickers \ touched'[k] :
           Upserted(k, t)' /\ pc'[k] \in {"risks", "awaitRisks", "insert"} => Owns(k, t)'
    BY <2>1, <2>7, <2>9 DEF Rests, Upserted, Owns, At
  <2> QED
    BY <2>10, <2>11, <2>12, Zenon DEF JobSight
<1>19. SightIsCurrent'
  <2>1. \A k \in Jobs : JobSight(k)'
    BY <1>2, <1>18, ClosedSight
  <2> QED
    BY <2>1, Zenon DEF SightIsCurrent, JobSight
<1> QED
  BY <1>8, <1>9, <1>10, <1>12, <1>16, <1>17, <1>19 DEF IInv

-----------------------------------------------------------------------------
(* The theorems. *)

LEMMA InitHolds == Init => IInv
<1> SUFFICES ASSUME Init PROVE IInv
  OBVIOUS
<1>1. PICK E \in SUBSET Tickers, P \in SUBSET Providers :
        /\ score = [t \in Tickers |->
             IF t \in E THEN [val |-> First, fresh |-> [base |-> First, prov |-> P]] ELSE NoRow]
        /\ reasons = [t \in Tickers |->
             IF t \in E THEN [by |-> Seed, from |-> First] ELSE NoRow]
  BY DEF Init
<1>2. /\ [val |-> First, fresh |-> [base |-> First, prov |-> P]] \in Score
      /\ [by |-> Seed, from |-> First] \in Reasons
  BY FirstType DEF Score, Fresh, Reasons
<1>3. /\ score \in [Tickers -> Score \cup {NoRow}]
      /\ reasons \in [Tickers -> Reasons \cup {NoRow}]
      /\ ScoreHasReasons
  BY <1>1, <1>2, NoRowAssumption DEF ScoreHasReasons
<1>4. risks \in [Tickers -> SUBSET (Jobs \cup {Seed})]
  BY DEF Init
<1>5. TypeOK
  BY <1>3, <1>4, FirstType DEF Init, TypeOK, Labels
<1>6. RisksFollowReasons
  <2>1. \A t \in Tickers : Owner(t) = Seed
    BY <1>1 DEF Owner
  <2> QED
    BY <2>1 DEF Init, RisksFollowReasons
<1>7. RowsLockedOnce /\ LoopInRequest
  BY DEF Init, RowsLockedOnce, LoopInRequest, InLoop
<1>8. SessionRowsExist /\ PassedIsOwned /\ LocksFollowLoop /\ SightIsCurrent
  BY DEF Init, SessionRowsExist, PassedIsOwned, LocksFollowLoop, SightIsCurrent, Selected,
         Passed, Upserted, InLoop
<1> QED
  BY <1>3, <1>5, <1>6, <1>7, <1>8 DEF IInv

LEMMA NextKeeps == IInv /\ [Next]_vars => IInv'
<1> SUFFICES ASSUME IInv, [Next]_vars PROVE IInv'
  OBVIOUS
<1>1. CASE UNCHANGED vars
  <2>1. UNCHANGED <<data, tables, req, pc, left, session, touched>>
    BY <1>1 DEF vars
  <2>2. /\ TypeOK' /\ ScoreHasReasons' /\ RisksFollowReasons' /\ RowsLockedOnce'
        /\ UNCHANGED tables /\ touched' = touched /\ \A k \in Jobs : Rests(k)
    BY <2>1 DEF tables, session, IInv, TypeOK, ScoreHasReasons, RisksFollowReasons,
                Owner, RowsLockedOnce, Rests
  <2>3. \A k \in Jobs : JobInv(k)' /\ JobOrder(k)' /\ JobSight(k)'
    BY <2>2, JobInvHolds, JobOrderHolds, JobSightHolds, RestsKeeps, RestsKeepsOrder,
       RestsKeepsSight DEF IInv
  <2>4. (LoopInRequest /\ SessionRowsExist /\ PassedIsOwned)'
    BY <2>3, Zenon DEF LoopInRequest, SessionRowsExist, PassedIsOwned, JobInv
  <2>5. LocksFollowLoop' /\ SightIsCurrent'
    BY <2>3, Zenon DEF LocksFollowLoop, JobOrder, SightIsCurrent, JobSight
  <2> QED
    BY <2>2, <2>4, <2>5 DEF IInv
<1>2. CASE \E i \in Ingestions : Ingest(i.ticker, i.parts)
  BY <1>2, IngestKeeps
<1>3. ASSUME NEW j \in Jobs,
             \/ Start(j) \/ (\E p \in Parts : ReadPart(j, p)) \/ ReadRisks(j)
             \/ Select(j) \/ Upsert(j) \/ DeleteReasons(j)
             \/ AwaitReasons(j) \/ DeleteRisks(j) \/ AwaitRisks(j) \/ Insert(j)
             \/ Load(j) \/ (\E t \in Tickers : Annotate(j, t)) \/ Annotated(j)
             \/ Commit(j) \/ Abort(j)
      PROVE  IInv'
  BY <1>3, StartKeeps, ReadPartKeeps, ReadRisksKeeps, SelectKeeps, UpsertKeeps, DeleteReasonsKeeps,
     AwaitReasonsKeeps, DeleteRisksKeeps, AwaitRisksKeeps, InsertKeeps, LoadKeeps,
     AnnotateKeeps, AnnotatedKeeps, CommitKeeps, AbortKeeps
<1> QED
  BY <1>1, <1>2, <1>3 DEF Next

\* The inductive invariant holds in every behaviour: what a refresh has replaced in
\* its session it alone may replace, and the risk rows it deletes are all there are.
THEOREM Invariance == Spec => []IInv
<1>1. Init => IInv
  BY InitHolds
<1>2. IInv /\ [Next]_vars => IInv'
  BY NextKeeps
<1> QED
  BY <1>1, <1>2, PTL DEF Spec

\* Overlapping refreshes never double the risk rows of a ticker.
THEOREM RisksFollowReasonsAlways == Spec => []RisksFollowReasons
<1>1. IInv => RisksFollowReasons
  BY DEF IInv
<1> QED
  BY <1>1, Invariance, PTL

\* Whoever of two renewing refreshes waits for the other is at an upsert, of a ticker
\* the other has passed or is at; if that one waits as well it is at a later ticker.
LEMMA WaitsUpwards ==
  ASSUME IInv, NEW j \in Jobs, NEW k \in Jobs, Renews(j), Renews(k), Waits(j, k)
  PROVE  /\ pc[j] = "upsert" /\ At(j) \in Nat
         /\ pc[k] = "upsert" => At(j) < At(k)
<1> DEFINE a == At(j)
<1>1. JobInv(j) /\ JobOrder(j) /\ JobInv(k) /\ JobOrder(k)
  BY JobInvHolds, JobOrderHolds DEF IInv
<1>2. pc[j] \in InLoop => left[j] # {} /\ a \in left[j] /\ a \in Tickers /\ a \in Nat
  BY <1>1, AtIsLeft, TickersAssumption DEF JobInv, IInv
<1>3. \A t \in Tickers : draft[j][t] # NoRow => draft[k][t] = NoRow
  BY DEF IInv, RowsLockedOnce, Waits
<1>4. \A t \in Tickers :
        /\ Passed(k, t) \/ Upserted(k, t) => draft[k][t] # NoRow
        /\ Passed(j, t) \/ Upserted(j, t) => draft[j][t] # NoRow
  BY <1>1 DEF JobOrder, Renews
<1>5. \A t \in Tickers : t \in cutReasons[k] \/ cutRisks[k][t] # {} => draft[k][t] # NoRow
  BY <1>1, <1>4 DEF JobOrder, JobInv
<1>6. pc[j] = "upsert" /\ draft[k][a] # NoRow
  <2>1. CASE pc[j] \in {"reasons", "awaitReasons", "awaitRisks", "insert"}
    <3>1. a \in Tickers /\ draft[j][a] # NoRow
      BY <1>2, <1>4, <2>1 DEF Upserted, InLoop
    <3>2. a \in cutReasons[k] \/ cutRisks[k][a] # {}
      BY <2>1 DEF Waits
    <3> QED
      BY <1>3, <1>5, <3>1, <3>2
  <2>2. CASE pc[j] = "annotate"
    <3>1. PICK u \in left[j] : draft[k][u] # NoRow
      BY <2>2 DEF Waits
    <3>2. u \in Tickers /\ Passed(j, u)
      BY <1>1, <2>2, RequestType DEF JobInv, Passed, Replaced, Renews, IInv
    <3> QED
      BY <1>3, <1>4, <3>1, <3>2
  <2> QED
    BY <2>1, <2>2 DEF Waits
<1>7. ASSUME pc[k] = "upsert" PROVE a < At(k)
  <2>1. At(k) \in left[k]
    BY <1>1, <1>7, AtIsLeft DEF JobInv, InLoop, IInv
  <2>2. Passed(k, a)
    BY <1>1, <1>2, <1>6, <1>7 DEF JobOrder, Upserted, InLoop, Renews
  <2>3. a \in req[k].tickers \ left[k]
    BY <1>7, <2>2 DEF Passed, Replaced, InLoop
  <2> QED
    BY <1>1, <1>7, <2>1, <2>3 DEF JobOrder, InLoop
<1> QED
  BY <1>2, <1>6, <1>7 DEF InLoop

LEMMA NoCircle == IInv => RefreshesDoNotDeadlock
<1> SUFFICES ASSUME IInv, NEW K \in SUBSET {j \in Jobs : Renews(j)}, Deadlocked(K)
             PROVE  FALSE
  BY DEF RefreshesDoNotDeadlock
<1> DEFINE T == {At(j) : j \in K}
<1>1. \A j \in K : pc[j] = "upsert" /\ At(j) \in Nat
  BY WaitsUpwards DEF Deadlocked
<1>2. T \subseteq Nat /\ T # {}
  BY <1>1 DEF Deadlocked
<1>3. PICK j \in K : \A t \in T : At(j) <= t
  <2>1. Min(T) \in T /\ \A t \in T : Min(T) <= t
    BY <1>2, MinIsLeast
  <2>2. PICK j \in K : At(j) = Min(T)
    BY <2>1
  <2> QED
    BY <2>1, <2>2
<1>4. PICK i \in K : Waits(i, j)
  BY DEF Deadlocked
<1>5. At(i) < At(j)
  BY <1>1, <1>4, WaitsUpwards
<1> QED
  BY <1>1, <1>3, <1>5

\* Overlapping refreshes of rows that carry a provider never wait in a circle, for any
\* number of them and any tickers.
THEOREM RefreshesDoNotDeadlockAlways == Spec => []RefreshesDoNotDeadlock
BY NoCircle, Invariance, PTL

-----------------------------------------------------------------------------
(* Refusals. *)

LEMMA RefusedIsTouched == IInv => RefusalsNeedARival
<1> SUFFICES ASSUME IInv, NEW j \in Jobs, Refused(j), At(j) \notin touched[j]
             PROVE  FALSE
  BY DEF RefusalsNeedARival
<1>1. pc[j] \in {"upsert", "insert"}
  BY DEF Refused
<1>2. JobInv(j) /\ JobSight(j)
  BY JobInvHolds, JobSightHolds DEF IInv
<1>3. PICK a \in Tickers : a = At(j)
  BY <1>1, <1>2, AtIsLeft DEF JobInv, InLoop, IInv
<1>4. CASE pc[j] = "upsert"
  <2>1. score[a] = found[j][a]
    BY <1>2, <1>3, <1>4 DEF JobSight, Selected
  <2> QED
    BY <1>3, <1>4, <2>1 DEF Refused, Before
<1>5. CASE pc[j] = "insert"
  <2>1. Owns(j, a)
    BY <1>2, <1>3, <1>5 DEF JobSight, Upserted
  <2>2. score[a] = NoRow => reasons[a] = NoRow
    BY <1>3 DEF IInv, ScoreHasReasons
  <2> QED
    BY <1>3, <1>5, <2>1, <2>2 DEF Refused, ReasonsFree, Owns
<1> QED
  BY <1>1, <1>4, <1>5

\* A refresh is refused only for a ticker that another transaction has committed since
\* the refresh selected it, for any number of refreshes and annotations.
THEOREM RefusalsNeedARivalAlways == Spec => []RefusalsNeedARival
BY RefusedIsTouched, Invariance, PTL

-----------------------------------------------------------------------------
(* What a refresh leaves on its rows. *)

Dealt(j, t) == Passed(j, t) \/ Upserted(j, t)

\* The row the job sees of ticker t is its own, or nobody else has committed it.
Firm(j, t) == draft[j][t] # NoRow \/ t \notin touched[j]

\* What the job sees of a ticker it has dealt with is of its own reading.
SeesOwnReading(j) ==
  \A t \in Tickers : Dealt(j, t) =>
    /\ t \notin touched[j] => Seen(j, t).val = input[j][t]
    /\ t \notin touched[j] \/ Renewed(j, t) => Seen(j, t).fresh.base = input[j][t]

\* The annotation deals with every ticker asked for: it has the freshness of the row it
\* will write, and where it is done the provider is noted.
NotesProvider(j) ==
  /\ pc[j] = "load" => left[j] = req[j].tickers
  /\ \A t \in Tickers : Dealt(j, t) /\ Firm(j, t) =>
       /\ pc[j] = "annotate" /\ t \in left[j] => fresh[j][t] = Seen(j, t).fresh
       /\ /\ req[j].mode = "refresh"
          /\ pc[j] = "commit" \/ (pc[j] = "annotate" /\ t \notin left[j])
          => req[j].provider \in Seen(j, t).fresh.prov

SessionsAreRight == \A j \in Jobs : SeesOwnReading(j) /\ NotesProvider(j)

\* Steps between the SELECT of the tickers and the end that change no row.
Cuts(j) == DeleteReasons(j) \/ AwaitReasons(j) \/ DeleteRisks(j) \/ AwaitRisks(j)

Reads(j) == ReadRisks(j) \/ \E p \in Parts : ReadPart(j, p)

Steps(j) ==
  \/ Start(j) \/ Reads(j) \/ Select(j) \/ Upsert(j) \/ Cuts(j) \/ Insert(j) \/ Load(j)
  \/ (\E t \in Tickers : Annotate(j, t)) \/ Annotated(j) \/ Commit(j) \/ Abort(j)

\* A step of a job leaves the others' sessions alone, and the tables but for a commit.
LEMMA OthersRest ==
  ASSUME IInv, NEW j \in Jobs, Steps(j), NEW k \in Jobs \ {j}
  PROVE  /\ Rests(k)
         /\ Commit(j) \/ (UNCHANGED tables /\ touched'[k] = touched[k])
<1> USE DEF IInv, TypeOK
<1>1. CASE Start(j)
  BY <1>1 DEF Start, Rests, GoTo, session
<1>2. CASE ReadRisks(j)
  BY <1>2 DEF ReadRisks, Rests, GoTo
<1>3. CASE Select(j)
  BY <1>3 DEF Select, Rests, GoTo
<1>4. CASE Upsert(j)
  BY <1>4 DEF Upsert, Rests, GoTo
<1>5. CASE DeleteReasons(j)
  BY <1>5 DEF DeleteReasons, Rests, GoTo
<1>6. CASE AwaitReasons(j)
  BY <1>6 DEF AwaitReasons, Rests, GoTo
<1>7. CASE DeleteRisks(j)
  BY <1>7 DEF DeleteRisks, Rests, GoTo
<1>8. CASE AwaitRisks(j)
  BY <1>8 DEF AwaitRisks, Rests, GoTo
<1>9. CASE Insert(j)
  BY <1>9 DEF Insert, Rests, GoTo, session
<1>10. CASE Load(j)
  BY <1>10 DEF Load, Rests, GoTo
<1>11. CASE \E t \in Tickers : Annotate(j, t)
  BY <1>11 DEF Annotate, Rests
<1>12. CASE Annotated(j)
  BY <1>12 DEF Annotated, Rests, GoTo, session
<1>13. CASE Commit(j)
  BY <1>13, CloseForm DEF Commit
<1>14. CASE Abort(j)
  BY <1>14, CloseForm DEF Abort
<1>15. CASE \E p \in Parts : ReadPart(j, p)
  BY <1>15 DEF ReadPart, Rests, GoTo
<1> QED
  BY <1>1, <1>2, <1>3, <1>4, <1>5, <1>6, <1>7, <1>8, <1>9, <1>10, <1>11, <1>12, <1>13,
     <1>14, <1>15 DEF Steps, Cuts, Reads

\* The row at hand is read before it is replaced.
LEMMA AtHand ==
  ASSUME IInv, NEW j \in Jobs, pc[j] \in InLoop
  PROVE  /\ left[j] # {} /\ At(j) \in left[j] /\ At(j) \in Tickers
         /\ At(j) \in req[j].tickers /\ req[j].mode # "annotate"
<1>1. JobInv(j)
  BY JobInvHolds DEF IInv
<1> QED
  BY <1>1, AtIsLeft DEF JobInv, IInv

\* A row the job has dealt with is there.
LEMMA DealtIsSeen ==
  ASSUME IInv, NEW j \in Jobs, NEW t \in Tickers, Dealt(j, t)
  PROVE  /\ Seen(j, t) \in Score /\ Seen(j, t) # NoRow
         /\ Renewed(j, t) => draft[j][t] # NoRow
<1>1. JobInv(j) /\ JobOrder(j)
  BY JobInvHolds, JobOrderHolds DEF IInv
<1>2. score[t] # NoRow \/ draft[j][t] # NoRow
  BY <1>1 DEF JobInv, Dealt
<1>3. Renewed(j, t) => draft[j][t] # NoRow
  BY <1>1 DEF JobOrder, Dealt
<1> QED
  BY <1>2, <1>3, SeenType DEF IInv

\* What a job sees stays of its reading while it writes no row and reads nothing anew
\* of the tickers it has dealt with.
LEMMA SeesStill ==
  ASSUME NEW j \in Jobs, SeesOwnReading(j),
         score' = score, draft'[j] = draft[j], touched' = touched,
         \A t \in Tickers : Dealt(j, t)' =>
           Dealt(j, t) /\ input'[j][t] = input[j][t] /\ found'[j][t] = found[j][t]
  PROVE  SeesOwnReading(j)'
BY DEF SeesOwnReading, Seen, Renewed

\* The SELECT returns the reading the upsert writes, or has found on the row.
LEMMA UpsertSees ==
  ASSUME IInv, NEW j \in Jobs, Upsert(j), SeesOwnReading(j)
  PROVE  SeesOwnReading(j)'
<1>1. PICK a \in Tickers : a = At(j)
  BY AtHand DEF Upsert, InLoop
<1>2. /\ pc[j] = "upsert" /\ pc'[j] = "reasons" /\ left[j] # {}
      /\ score' = score /\ req' = req /\ left' = left /\ found' = found
      /\ input' = input /\ touched' = touched
      /\ draft'[j][a] = IF WritesScore(j) THEN Written(j) ELSE NoRow
      /\ \A t \in Tickers \ {a} : draft'[j][t] = draft[j][t]
  BY <1>1, AtHand DEF Upsert, GoTo, tables, InLoop, IInv, TypeOK
<1>3. \A t \in Tickers : Dealt(j, t)' => t = a \/ Dealt(j, t)
  BY <1>1, <1>2 DEF Dealt, Upserted, Passed, Replaced, InLoop, At
<1>4. /\ Before(j) = found[j][a] /\ Now(j) = input[j][a]
      /\ a \notin touched[j] => score[a] = found[j][a]
  <2>1. JobSight(j)
    BY JobSightHolds DEF IInv
  <2> QED
    BY <1>1, <1>2, <2>1 DEF JobSight, Selected, Before, Now
<1>5. score[a] \in Score \cup {NoRow} /\ found[j][a] \in Score \cup {NoRow}
  BY DEF IInv, TypeOK
<1>6. Written(j) # NoRow
  <2>1. Before(j) # NoRow => score[a] # NoRow
    BY <1>1, <1>4, JobInvHolds DEF JobInv, IInv
  <2> QED
    BY <1>1, <1>2, <2>1, WrittenType DEF IInv
<1>7. /\ a \notin touched[j] => Seen(j, a)'.val = input[j][a]
      /\ a \notin touched[j] \/ Renewed(j, a) => Seen(j, a)'.fresh.base = input[j][a]
  <2>1. CASE WritesScore(j)
    <3>1. Seen(j, a)' = Written(j)
      BY <1>2, <1>6, <2>1 DEF Seen
    <3>2. a \notin touched[j] => Written(j).val = input[j][a]
      BY <1>1, <1>4 DEF Written, ValChanged
    <3>3. Renewed(j, a) => Before(j) = NoRow \/ FreshChanged(j)
      BY <1>4 DEF Renewed, FreshChanged, Materialized
    <3>4. a \notin touched[j] \/ Renewed(j, a) => Written(j).fresh.base = input[j][a]
      BY <1>1, <1>4, <3>3 DEF Written, Materialized, FreshChanged
    <3> QED
      BY <3>1, <3>2, <3>4
  <2>2. CASE ~WritesScore(j)
    <3>1. Seen(j, a)' = score[a]
      BY <1>2, <2>2 DEF Seen
    <3>2. /\ Before(j) # NoRow
          /\ Before(j).val = input[j][a] /\ Before(j).fresh.base = input[j][a]
          /\ Before(j).fresh.prov = {}
      BY <1>4, <2>2 DEF WritesScore, ValChanged, FreshChanged, Materialized
    <3>3. ~Renewed(j, a)
      BY <1>4, <3>2 DEF Renewed
    <3> QED
      BY <1>4, <3>1, <3>2, <3>3
  <2> QED
    BY <2>1, <2>2
<1>8. ASSUME NEW t \in Tickers, t # a, Dealt(j, t)
      PROVE  /\ t \notin touched[j] => Seen(j, t)'.val = input[j][t]
             /\ t \notin touched[j] \/ Renewed(j, t) => Seen(j, t)'.fresh.base = input[j][t]
  <2>1. Seen(j, t)' = Seen(j, t)
    BY <1>2, <1>8 DEF Seen
  <2> QED
    BY <1>8, <2>1 DEF SeesOwnReading
<1> QED
  BY <1>2, <1>3, <1>7, <1>8 DEF SeesOwnReading, Renewed

\* The annotation leaves the score columns and the reading the freshness is of, and
\* notes the provider.
LEMMA AnnotateSees ==
  ASSUME IInv, NEW j \in Jobs, NEW a \in Tickers, Annotate(j, a),
         SeesOwnReading(j), NotesProvider(j)
  PROVE  SeesOwnReading(j)' /\ NotesProvider(j)'
<1> DEFINE new == [Seen(j, a) EXCEPT !.fresh = Noted(j, a)]
<1>1. /\ pc[j] = "annotate" /\ a \in left[j]
      /\ pc' = pc /\ score' = score /\ req' = req /\ found' = found /\ input' = input
      /\ fresh' = fresh /\ touched' = touched
      /\ left'[j] = left[j] \ {a}
  BY DEF Annotate, tables, IInv, TypeOK
<1>2. /\ \A t \in Tickers \ {a} : draft'[j][t] = draft[j][t]
      /\ \/ draft'[j][a] = draft[j][a] /\ (fresh[j][a] # NoRow => Noted(j, a) = fresh[j][a])
         \/ fresh[j][a] # NoRow /\ draft'[j][a] = new
  <2> HIDE DEF new
  <2>1. \/ /\ draft' = draft
           /\ fresh[j][a] # NoRow => Noted(j, a) = fresh[j][a]
        \/ fresh[j][a] # NoRow /\ draft' = [draft EXCEPT ![j][a] = new]
    BY DEF Annotate, new
  <2> QED
    BY <2>1 DEF IInv, TypeOK
<1>3. \A t \in Tickers : Dealt(j, t)' <=> Dealt(j, t)
  BY <1>1 DEF Dealt, Passed, Upserted, Replaced, InLoop
<1>4. ASSUME NEW t \in Tickers, t # a
      PROVE  Seen(j, t)' = Seen(j, t) /\ (Firm(j, t)' <=> Firm(j, t))
  BY <1>1, <1>2, <1>4 DEF Seen, Firm
<1>5. ASSUME Dealt(j, a), Firm(j, a)
      PROVE  /\ fresh[j][a] = Seen(j, a).fresh /\ fresh[j][a] \in Fresh
             /\ fresh[j][a] # NoRow
  <2>1. fresh[j][a] = Seen(j, a).fresh
    BY <1>1, <1>5 DEF NotesProvider
  <2>2. fresh[j][a] \in Fresh
    BY <1>5, <2>1, DealtIsSeen, SeenType DEF IInv
  <2> QED
    BY <2>1, <2>2, NoRowAssumption
<1>6. ASSUME fresh[j][a] # NoRow, Dealt(j, a)
      PROVE  /\ Noted(j, a).base = fresh[j][a].base /\ req[j].provider \in Noted(j, a).prov
             /\ new.val = Seen(j, a).val /\ new.fresh = Noted(j, a) /\ new # NoRow
  <2>1. fresh[j][a] \in Fresh /\ Noted(j, a) \in Fresh
    BY <1>6, NotedType DEF IInv, TypeOK
  <2>2. Seen(j, a) \in Score
    BY <1>6, DealtIsSeen
  <2>3. new \in Score /\ new.val = Seen(j, a).val /\ new.fresh = Noted(j, a)
    BY <2>1, <2>2 DEF Score
  <2>4. Noted(j, a).base = fresh[j][a].base /\ req[j].provider \in Noted(j, a).prov
    BY <2>1 DEF Noted, Fresh
  <2>5. new # NoRow
    BY <2>3, NoRowAssumption
  <2> HIDE DEF new
  <2> QED
    BY <2>3, <2>4, <2>5
<1>7. ASSUME Dealt(j, a)
      PROVE  /\ Seen(j, a)'.val = Seen(j, a).val
             /\ Firm(j, a) => /\ Seen(j, a)'.fresh.base = Seen(j, a).fresh.base
                              /\ req[j].provider \in Seen(j, a)'.fresh.prov
             /\ ~Firm(j, a) /\ Firm(j, a)' => req[j].provider \in Seen(j, a)'.fresh.prov
  <2>1. CASE draft'[j][a] = draft[j][a] /\ (fresh[j][a] # NoRow => Noted(j, a) = fresh[j][a])
    <3>1. Seen(j, a)' = Seen(j, a) /\ (Firm(j, a)' <=> Firm(j, a))
      BY <1>1, <2>1 DEF Seen, Firm
    <3>2. Firm(j, a) => req[j].provider \in Seen(j, a).fresh.prov
      BY <1>5, <1>6, <1>7, <2>1
    <3> QED
      BY <3>1, <3>2
  <2>2. CASE fresh[j][a] # NoRow /\ draft'[j][a] = new
    <3>1. /\ new.val = Seen(j, a).val /\ new.fresh = Noted(j, a) /\ new # NoRow
          /\ Noted(j, a).base = fresh[j][a].base /\ req[j].provider \in Noted(j, a).prov
      BY <1>6, <1>7, <2>2
    <3> HIDE DEF new
    <3>2. Seen(j, a)' = new
      BY <2>2, <3>1 DEF Seen
    <3> QED
      BY <1>5, <1>7, <3>1, <3>2
  <2> QED
    BY <1>2, <2>1, <2>2
<1>8. SeesOwnReading(j)'
  <2> SUFFICES ASSUME NEW t \in Tickers, Dealt(j, t)
               PROVE  /\ t \notin touched[j] => Seen(j, t)'.val = input[j][t]
                      /\ t \notin touched[j] \/ Renewed(j, t) =>
                           Seen(j, t)'.fresh.base = input[j][t]
    BY <1>1, <1>3 DEF SeesOwnReading, Renewed
  <2>1. /\ t \notin touched[j] => Seen(j, t).val = input[j][t]
        /\ t \notin touched[j] \/ Renewed(j, t) => Seen(j, t).fresh.base = input[j][t]
    BY DEF SeesOwnReading
  <2>2. t \notin touched[j] \/ Renewed(j, t) => Firm(j, t)
    BY DealtIsSeen DEF Firm
  <2>3. t # a => Seen(j, t)' = Seen(j, t)
    BY <1>4
  <2>4. t = a => /\ Seen(j, t)'.val = Seen(j, t).val
                 /\ Firm(j, t) => Seen(j, t)'.fresh.base = Seen(j, t).fresh.base
    BY <1>7
  <2> QED
    BY <2>1, <2>2, <2>3, <2>4
<1>9. NotesProvider(j)'
  <2>1. ASSUME NEW t \in Tickers, Dealt(j, t), Firm(j, t)', t # a
        PROVE  /\ t \in left'[j] => fresh[j][t] = Seen(j, t)'.fresh
               /\ req[j].mode = "refresh" /\ t \notin left'[j] =>
                    req[j].provider \in Seen(j, t)'.fresh.prov
    <3>1. Firm(j, t) /\ Seen(j, t)' = Seen(j, t) /\ (t \in left'[j] <=> t \in left[j])
      BY <1>1, <1>4, <2>1
    <3> QED
      BY <1>1, <2>1, <3>1 DEF NotesProvider
  <2>2. ASSUME NEW t \in Tickers, Dealt(j, t), Firm(j, t)', t = a
        PROVE  /\ t \notin left'[j]
               /\ req[j].provider \in Seen(j, t)'.fresh.prov
    BY <1>1, <1>7, <2>2
  <2> QED
    BY <1>1, <1>3, <2>1, <2>2 DEF NotesProvider
<1> QED
  BY <1>8, <1>9

\* A job's own step keeps what it sees of its reading and notes on it.
LEMMA OwnRight ==
  ASSUME IInv, NEW j \in Jobs, Steps(j), SeesOwnReading(j), NotesProvider(j)
  PROVE  SeesOwnReading(j)' /\ NotesProvider(j)'
<1> USE DEF IInv, TypeOK
<1>1. CASE Start(j)
  <2>1. /\ pc[j] = "idle" /\ pc'[j] \in {"load", "financials"}
        /\ pc'[j] = "load" => req[j].mode = "annotate"
        /\ left'[j] = req[j].tickers /\ req' = req
    BY <1>1 DEF Start, GoTo
  <2>2. \A t \in Tickers : ~Dealt(j, t)'
    BY <2>1 DEF Dealt, Upserted, Passed, Replaced, InLoop
  <2> QED
    BY <2>1, <2>2 DEF SeesOwnReading, NotesProvider
<1>2. CASE Reads(j)
  <2>1. PICK a \in Tickers : a = At(j)
    BY <1>2, AtHand DEF Reads, ReadPart, ReadRisks, InLoop, Parts
  <2>2. /\ pc[j] \in {"financials", "price", "evidence", "signals"}
        /\ pc'[j] \in {"price", "evidence", "signals", "select"}
        /\ left' = left /\ req' = req /\ found' = found
        /\ score' = score /\ draft' = draft /\ touched' = touched
        /\ \A t \in Tickers : t # a => input'[j][t] = input[j][t]
    <3>1. CASE ReadRisks(j)
      BY <3>1 DEF ReadRisks, GoTo, tables
    <3>2. CASE \E p \in Parts : ReadPart(j, p)
      BY <2>1, <3>2 DEF ReadPart, AfterPart, GoTo, tables, Parts
    <3> QED
      BY <1>2, <3>1, <3>2 DEF Reads
  <2>3. \A t \in Tickers : Dealt(j, t)' => Dealt(j, t) /\ t # a
    BY <1>2, <2>1, <2>2, AtHand DEF Dealt, Passed, Upserted, Replaced, InLoop
  <2>4. SeesOwnReading(j)'
    BY <2>2, <2>3, SeesStill
  <2>5. NotesProvider(j)'
    BY <2>2 DEF NotesProvider
  <2> QED
    BY <2>4, <2>5
<1>3. CASE Select(j)
  <2>1. PICK a \in Tickers : a = At(j)
    BY <1>3, AtHand DEF Select, InLoop
  <2>2. /\ pc[j] = "select" /\ pc'[j] = "upsert"
        /\ left' = left /\ req' = req /\ input' = input
        /\ score' = score /\ draft' = draft /\ touched' = touched
        /\ \A t \in Tickers : t # a => found'[j][t] = found[j][t]
    BY <1>3, <2>1 DEF Select, GoTo, tables
  <2>3. \A t \in Tickers : Dealt(j, t)' => Dealt(j, t) /\ t # a
    BY <2>1, <2>2, AtHand DEF Dealt, Passed, Upserted, Replaced, InLoop
  <2>4. SeesOwnReading(j)'
    BY <2>2, <2>3, SeesStill
  <2>5. NotesProvider(j)'
    BY <2>2 DEF NotesProvider
  <2> QED
    BY <2>4, <2>5
<1>4. CASE Upsert(j)
  <2>1. SeesOwnReading(j)'
    BY <1>4, UpsertSees
  <2>2. NotesProvider(j)'
    <3>1. pc'[j] = "reasons"
      BY <1>4 DEF Upsert, GoTo
    <3> QED
      BY <3>1 DEF NotesProvider
  <2> QED
    BY <2>1, <2>2
<1>5. CASE Cuts(j)
  <2>1. /\ pc[j] \in {"reasons", "awaitReasons", "risks", "awaitRisks"}
        /\ pc'[j] \in {"awaitReasons", "risks", "awaitRisks", "insert"}
        /\ UNCHANGED <<score, req, left, input, found, draft, touched>>
    BY <1>5 DEF Cuts, DeleteReasons, AwaitReasons, DeleteRisks, AwaitRisks, GoTo, tables
  <2>2. \A t \in Tickers : Dealt(j, t)' => Dealt(j, t)
    BY <2>1 DEF Dealt, Upserted, Passed, Replaced, InLoop, At
  <2>3. SeesOwnReading(j)'
    BY <2>1, <2>2, SeesStill
  <2>4. NotesProvider(j)'
    BY <2>1 DEF NotesProvider
  <2> QED
    BY <2>3, <2>4
<1>6. CASE Insert(j)
  <2>1. /\ pc[j] = "insert" /\ pc'[j] \in {"financials", "load", "commit"}
        /\ UNCHANGED <<score, req, input, found, draft, touched>>
        /\ pc'[j] = "commit" => req[j].mode = "bare"
        /\ pc'[j] = "financials" => left'[j] = left[j] \ {At(j)}
        /\ pc'[j] # "financials" => left[j] \subseteq {At(j)} /\ left'[j] = req[j].tickers
    BY <1>6 DEF Insert, GoTo, tables, session
  <2>2. \A t \in Tickers : Dealt(j, t)' => Dealt(j, t)
    BY <2>1 DEF Dealt, Upserted, Passed, Replaced, InLoop
  <2>3. SeesOwnReading(j)'
    BY <2>1, <2>2, SeesStill
  <2>4. NotesProvider(j)'
    BY <2>1 DEF NotesProvider
  <2> QED
    BY <2>3, <2>4
<1>7. CASE Load(j)
  <2>1. /\ pc[j] = "load" /\ pc'[j] = "annotate"
        /\ UNCHANGED <<score, req, left, input, found, draft, touched>>
        /\ \A t \in Tickers : fresh'[j][t] =
             IF t \in req[j].tickers /\ Seen(j, t) # NoRow THEN Seen(j, t).fresh ELSE NoRow
    BY <1>7 DEF Load, GoTo, tables
  <2>2. \A t \in Tickers : Dealt(j, t)' => Dealt(j, t) /\ t \in req[j].tickers
    BY <2>1 DEF Dealt, Upserted, Passed, Replaced, InLoop
  <2>3. SeesOwnReading(j)'
    BY <2>1, <2>2, SeesStill
  <2>4. left[j] = req[j].tickers
    BY <2>1 DEF NotesProvider
  <2>5. \A t \in Tickers : Dealt(j, t)' => fresh'[j][t] = Seen(j, t)'.fresh
    <3>1. \A t \in Tickers : Dealt(j, t)' => Seen(j, t) # NoRow
      BY <2>2, DealtIsSeen
    <3>2. \A t \in Tickers : Seen(j, t)' = Seen(j, t)
      BY <2>1 DEF Seen
    <3> QED
      BY <2>1, <2>2, <3>1, <3>2
  <2> QED
    BY <2>1, <2>2, <2>3, <2>4, <2>5 DEF NotesProvider
<1>8. CASE \E a \in Tickers : Annotate(j, a)
  BY <1>8, AnnotateSees
<1>9. CASE Annotated(j)
  <2>1. /\ pc[j] = "annotate" /\ pc'[j] = "commit" /\ left[j] = {}
        /\ UNCHANGED <<score, req, left, input, found, fresh, draft, touched>>
    BY <1>9 DEF Annotated, GoTo, tables, session
  <2>2. \A t \in Tickers : Dealt(j, t)' => Dealt(j, t)
    BY <2>1 DEF Dealt, Upserted, Passed, Replaced, InLoop
  <2>3. SeesOwnReading(j)'
    BY <2>1, <2>2, SeesStill
  <2>4. NotesProvider(j)'
    BY <2>1, <2>2 DEF NotesProvider, Firm, Seen
  <2> QED
    BY <2>3, <2>4
<1>10. CASE Commit(j) \/ Abort(j)
  <2>1. pc'[j] = "done" /\ \A t \in Tickers : ~Dealt(j, t)'
    BY <1>10, CloseForm DEF Commit, Abort, Dealt, Upserted, Passed, InLoop
  <2> QED
    BY <2>1 DEF SeesOwnReading, NotesProvider
<1> QED
  BY <1>1, <1>2, <1>3, <1>4, <1>5, <1>6, <1>7, <1>8, <1>9, <1>10 DEF Steps

\* Another's step leaves what a job sees as it is, or touches the ticker.
LEMMA OthersKeep ==
  ASSUME IInv, NEW j \in Jobs, Steps(j), NEW k \in Jobs \ {j},
         SeesOwnReading(k), NotesProvider(k)
  PROVE  SeesOwnReading(k)' /\ NotesProvider(k)'
<1>1. /\ req'[k] = req[k] /\ pc'[k] = pc[k] /\ left'[k] = left[k] /\ input'[k] = input[k]
      /\ found'[k] = found[k] /\ fresh'[k] = fresh[k] /\ draft'[k] = draft[k]
  BY OthersRest DEF Rests
<1>2. \A t \in Tickers : Dealt(k, t)' <=> Dealt(k, t)
  BY <1>1 DEF Dealt, Passed, Upserted, Replaced, At
<1>3. touched[k] \subseteq touched'[k]
  <2>1. CASE Commit(j)
    <3>1. touched'[k] = touched[k] \cup {t \in Changes(j) : Selected(k, t)}
      BY <2>1 DEF Commit
    <3> QED
      BY <3>1
  <2> QED
    BY <2>1, OthersRest
<1>4. ASSUME NEW t \in Tickers, Dealt(k, t), draft[k][t] = NoRow, t \notin touched'[k]
      PROVE  score'[t] = score[t]
  <2>1. CASE UNCHANGED tables
    BY <2>1 DEF tables
  <2>2. CASE Commit(j)
    <3>1. touched'[k] = touched[k] \cup {u \in Changes(j) : Selected(k, u)}
      BY <2>2 DEF Commit
    <3>2. t \notin Changes(j)
      BY <1>4, <3>1 DEF Dealt, Selected
    <3> QED
      BY <2>2, <3>2 DEF Commit, Changes
  <2> QED
    BY <2>1, <2>2, OthersRest
<1>5. ASSUME NEW t \in Tickers, Dealt(k, t), Firm(k, t)'
      PROVE  Firm(k, t) /\ Seen(k, t)' = Seen(k, t)
  <2>1. draft[k][t] # NoRow \/ t \notin touched'[k]
    BY <1>1, <1>5 DEF Firm
  <2>2. CASE draft[k][t] # NoRow
    BY <1>1, <2>2 DEF Firm, Seen
  <2>3. CASE draft[k][t] = NoRow
    BY <1>1, <1>3, <1>4, <1>5, <2>1, <2>3 DEF Firm, Seen
  <2> QED
    BY <2>2, <2>3
<1>6. SeesOwnReading(k)'
  <2> SUFFICES ASSUME NEW t \in Tickers, Dealt(k, t)
               PROVE  /\ t \notin touched'[k] => Seen(k, t)'.val = input[k][t]
                      /\ t \notin touched'[k] \/ Renewed(k, t) =>
                           Seen(k, t)'.fresh.base = input[k][t]
    BY <1>1, <1>2 DEF SeesOwnReading, Renewed
  <2>1. /\ t \notin touched[k] => Seen(k, t).val = input[k][t]
        /\ t \notin touched[k] \/ Renewed(k, t) => Seen(k, t).fresh.base = input[k][t]
    BY DEF SeesOwnReading
  <2>2. t \notin touched'[k] \/ Renewed(k, t) => draft[k][t] # NoRow \/ t \notin touched'[k]
    BY DealtIsSeen
  <2>3. draft[k][t] # NoRow \/ t \notin touched'[k] => Seen(k, t)' = Seen(k, t)
    BY <1>1, <1>4 DEF Seen
  <2> QED
    BY <1>3, <2>1, <2>2, <2>3
<1>7. NotesProvider(k)'
  BY <1>1, <1>2, <1>5 DEF NotesProvider
<1> QED
  BY <1>6, <1>7

LEMMA RightKept == IInv /\ SessionsAreRight /\ [Next]_vars => SessionsAreRight'
<1> SUFFICES ASSUME IInv, SessionsAreRight, [Next]_vars PROVE SessionsAreRight'
  OBVIOUS
<1>1. ASSUME UNCHANGED <<tables, req, pc, left, session, touched>> PROVE SessionsAreRight'
  BY <1>1 DEF SessionsAreRight, SeesOwnReading, NotesProvider, Dealt, Firm, Seen, Renewed,
              Upserted, Passed, Replaced, At, tables, session
<1>2. CASE UNCHANGED vars
  BY <1>1, <1>2 DEF vars
<1>3. CASE \E i \in Ingestions : Ingest(i.ticker, i.parts)
  BY <1>1, <1>3 DEF Ingest
<1>4. ASSUME NEW j \in Jobs, Steps(j) PROVE SessionsAreRight'
  <2>1. SeesOwnReading(j)' /\ NotesProvider(j)'
    BY <1>4, OwnRight DEF SessionsAreRight
  <2>2. \A k \in Jobs \ {j} : SeesOwnReading(k)' /\ NotesProvider(k)'
    BY <1>4, OthersKeep DEF SessionsAreRight
  <2> QED
    BY <2>1, <2>2 DEF SessionsAreRight
<1> QED
  BY <1>2, <1>3, <1>4 DEF Next, Steps, Cuts, Reads

LEMMA RightAtFirst == Init => SessionsAreRight
BY DEF Init, SessionsAreRight, SeesOwnReading, NotesProvider, Dealt, Upserted, Passed, InLoop

\* Sessions are right in every behaviour: unless another transaction has committed the
\* ticker, what a refresh sees of a row it has dealt with is of its own reading; the
\* annotation has the freshness of the row it is going to write, and where it is done
\* the provider is noted, on the refresh's own row or on one nobody else has committed.
THEOREM SessionsAreRightAlways == Spec => []SessionsAreRight
<1>1. Init => SessionsAreRight
  BY RightAtFirst
<1>2. IInv /\ SessionsAreRight /\ [Next]_vars => SessionsAreRight'
  BY RightKept
<1> QED
  BY <1>1, <1>2, Invariance, PTL DEF Spec

\* A refresh that commits leaves of each ticker a score, its freshness and reasons of the
\* one reading it has made, with its provider noted, unless another transaction has
\* committed the ticker since it was selected; when the upsert has dropped providers or
\* inserted the row, freshness, reasons and provider are its own even then.
THEOREM RefreshIsWholeAlways == Spec => RefreshIsWhole
<1>1. IInv /\ SessionsAreRight /\ [Next]_vars =>
        [\A j \in Jobs : Commit(j) =>
           \A t \in Replaced(j) :
             LET undisturbed == t \notin touched[j]
             IN  /\ undisturbed => score'[t].val = reasons'[t].from
                 /\ undisturbed \/ Renewed(j, t) =>
                      /\ score'[t].fresh.base = reasons'[t].from
                      /\ req[j].mode = "refresh" =>
                           req[j].provider \in score'[t].fresh.prov]_vars
  <2> SUFFICES ASSUME IInv, SessionsAreRight, NEW j \in Jobs, Commit(j), NEW t \in Replaced(j)
               PROVE  /\ t \notin touched[j] => score'[t].val = reasons'[t].from
                      /\ t \notin touched[j] \/ Renewed(j, t) =>
                           /\ score'[t].fresh.base = reasons'[t].from
                           /\ req[j].mode = "refresh" =>
                                req[j].provider \in score'[t].fresh.prov
    OBVIOUS
  <2>1. pc[j] = "commit" /\ t \in Tickers
    BY RequestType DEF Commit, IInv, Replaced
  <2>2. Dealt(j, t)
    BY <2>1 DEF Dealt, Passed
  <2>3. score'[t] = Seen(j, t) /\ reasons'[t] = [by |-> j, from |-> input[j][t]]
    BY <2>1 DEF Commit, Seen
  <2>4. t \notin touched[j] \/ Renewed(j, t) => Firm(j, t)
    BY <2>1, <2>2, DealtIsSeen DEF Firm
  <2>5. Firm(j, t) /\ req[j].mode = "refresh" => req[j].provider \in Seen(j, t).fresh.prov
    BY <2>1, <2>2 DEF SessionsAreRight, NotesProvider
  <2>6. /\ t \notin touched[j] => Seen(j, t).val = input[j][t]
        /\ t \notin touched[j] \/ Renewed(j, t) => Seen(j, t).fresh.base = input[j][t]
    BY <2>1, <2>2 DEF SessionsAreRight, SeesOwnReading
  <2> QED
    BY <2>3, <2>4, <2>5, <2>6
<1> QED
  BY <1>1, Invariance, SessionsAreRightAlways, PTL DEF Spec, RefreshIsWhole
=============================================================================

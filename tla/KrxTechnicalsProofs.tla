------------------------ MODULE KrxTechnicalsProofs ------------------------
(***************************************************************************)
(* Proofs about KrxTechnicals, for every set of dates and closes, every    *)
(* window and any number of overlapping transactions.                      *)
(***************************************************************************)
EXTENDS KrxTechnicals, FiniteSetTheorems, TLAPS

USE DatesAssumption, ClosesAssumption, WindowAssumption

PriceTables == [Dates -> Closes \cup {NoRow}]

-----------------------------------------------------------------------------
(* The operators. *)

\* Metrics are assigned for positive closes only.
LEMMA SampleType ==
  ASSUME NEW v \in PriceTables, Computable(v)
  PROVE  Sample(v) \in Samples
<1>1. LatestRows(v) \in SUBSET Dates
  BY DEF LatestRows, Rows
<1>2. \A d \in LatestRows(v) : v[d] \in Closes \ {0}
  BY DEF LatestRows, Rows, Computable, PriceTables
<1>3. Sample(v) \in [LatestRows(v) -> Closes \ {0}]
  BY <1>2 DEF Sample
<1> QED
  BY <1>1, <1>3 DEF Samples

\* A sample the code accepts is not empty.
LEMMA SampleNotEmpty ==
  ASSUME NEW v, Computable(v)
  PROVE  Sample(v) # NoTech
<1>1. LatestRows(v) # {}
  BY FS_EmptySet DEF Computable
<1>2. DOMAIN Sample(v) = LatestRows(v) /\ DOMAIN NoTech = {}
  BY DEF Sample, NoTech
<1> QED
  BY <1>1, <1>2

LEMMA NoTechType == NoTech \in Samples
<1>1. NoTech \in [{} -> Closes \ {0}]
  BY DEF NoTech
<1> QED
  BY <1>1 DEF Samples

\* A table has at most one latest row.
LEMMA LatestUnique ==
  ASSUME NEW v, NEW d \in Dates, NEW e \in Dates, IsLatest(d, v), IsLatest(e, v)
  PROVE  d = e
BY DEF IsLatest, Rows

LEMMA ViewType ==
  ASSUME TypeOK, NEW j \in Jobs
  PROVE  View(j) \in PriceTables
BY DEF TypeOK, View, PriceTables, Items

-----------------------------------------------------------------------------
(* Types. *)

LEMMA TypeInit == Init => TypeOK
<1>1. ASSUME NEW t \in Tables PROVE t \in PriceTables
  BY TablesAssumption DEF PriceTables
<1> QED
  BY <1>1, NoTechType DEF Init, TypeOK, NoPlan, PriceTables

LEMMA TypeStep ==
  ASSUME TypeOK, [Next]_vars
  PROVE  TypeOK'
<1> USE DEF TypeOK, GoTo
<1>0. CASE UNCHANGED vars
  BY <1>0 DEF vars
<1>1. ASSUME NEW j \in Jobs, Start(j) PROVE TypeOK'
  BY <1>1 DEF Start, Items
<1>2. ASSUME NEW j \in Jobs, NEW d \in Dates, Write(j, d) PROVE TypeOK'
  BY <1>2 DEF Write
<1>3. ASSUME NEW j \in Jobs, Flushed(j) PROVE TypeOK'
  BY <1>3 DEF Flushed
<1>4. ASSUME NEW j \in Jobs, Refresh(j) PROVE TypeOK'
  <2> DEFINE v == View(j)
             changed == {d \in Dates : IsLatest(d, v) /\ Computable(v) /\ tech[d] # Sample(v)}
             p == IF changed = {} THEN NoPlan
                  ELSE [date |-> CHOOSE d \in changed : TRUE, sample |-> Sample(v)]
  <2>1. p \in [date : Dates \cup {0}, sample : Samples]
    <3>1. CASE changed = {}
      BY <3>1, NoTechType DEF NoPlan
    <3>2. CASE changed # {}
      <4>1. Computable(v) /\ (CHOOSE d \in changed : TRUE) \in Dates
        BY <3>2
      <4>2. Sample(v) \in Samples
        BY <4>1, ViewType, SampleType
      <4> QED
        BY <3>2, <4>1, <4>2
    <3> QED
      BY <3>1, <3>2
  <2>2. plan' = [plan EXCEPT ![j] = p] /\ todo' = [todo EXCEPT ![j] = @ \cup changed]
    BY <1>4 DEF Refresh
  <2>3. changed \in SUBSET Dates
    OBVIOUS
  <2> HIDE DEF p, changed
  <2> QED
    BY <1>4, <2>1, <2>2, <2>3 DEF Refresh
<1>5. ASSUME NEW j \in Jobs, Commit(j) PROVE TypeOK'
  BY <1>5, NoTechType DEF Commit, NoPlan, Items
<1>6. ASSUME NEW j \in Jobs, Abort(j) PROVE TypeOK'
  BY <1>6, NoTechType DEF Abort, NoPlan
<1> QED
  BY <1>0, <1>1, <1>2, <1>3, <1>4, <1>5, <1>6 DEF Next

\* Every variable keeps its type.
THEOREM TypeCorrect == Spec => []TypeOK
<1>1. Init => TypeOK
  BY TypeInit
<1>2. TypeOK /\ [Next]_vars => TypeOK'
  BY TypeStep
<1> QED
  BY <1>1, <1>2, PTL DEF Spec

-----------------------------------------------------------------------------
(* Row locks. *)

LEMMA LocksStep ==
  ASSUME TypeOK, RowsLockedOnce, [Next]_vars
  PROVE  RowsLockedOnce'
<1> USE DEF TypeOK, RowsLockedOnce
<1>0. CASE UNCHANGED held
  BY <1>0
<1>1. ASSUME NEW j \in Jobs, NEW d \in Dates, Write(j, d) PROVE RowsLockedOnce'
  <2>1. \A k \in Jobs \ {j} : d \notin held[k]
    BY <1>1 DEF Write, Locked
  <2>2. held' = [held EXCEPT ![j] = @ \cup {d}]
    BY <1>1 DEF Write
  <2> QED
    BY <2>1, <2>2
<1>2. ASSUME NEW j \in Jobs, held' = [held EXCEPT ![j] = {}] PROVE RowsLockedOnce'
  BY <1>2
<1> QED
  BY <1>0, <1>1, <1>2 DEF Next, Start, Flushed, Refresh, Commit, Abort, vars

LEMMA UpwardsStep ==
  ASSUME TypeOK, IngestionWritesUpwards, [Next]_vars
  PROVE  IngestionWritesUpwards'
<1> USE DEF TypeOK, IngestionWritesUpwards, Open, GoTo
<1>0. CASE UNCHANGED vars
  BY <1>0 DEF vars
<1>1. ASSUME NEW j \in Jobs, Start(j) PROVE IngestionWritesUpwards'
  <2>1. held[j] = {} \/ item[j].path # "ingest"
    BY <1>1 DEF Start
  <2>2. PICK w : /\ w \subseteq {item[j].date}
                 /\ todo' = [todo EXCEPT ![j] = w]
    BY <1>1 DEF Start
  <2>3. /\ pc' = [pc EXCEPT ![j] = IF item[j].path = "ingest" THEN "flush" ELSE "refresh"]
        /\ UNCHANGED <<item, held>>
    BY <1>1 DEF Start
  <2>4. ASSUME item[j].path = "ingest"
        PROVE  pc'[j] = "flush" /\ todo'[j] \subseteq {item[j].date} /\ held'[j] = {}
    BY <2>1, <2>2, <2>3, <2>4
  <2>5. \A k \in Jobs \ {j} :
          pc'[k] = pc[k] /\ todo'[k] = todo[k] /\ held'[k] = held[k] /\ item'[k] = item[k]
    BY <2>2, <2>3
  <2> QED
    BY <2>3, <2>4, <2>5
<1>2. ASSUME NEW j \in Jobs, NEW d \in Dates, Write(j, d) PROVE IngestionWritesUpwards'
  <2>1. /\ pc[j] \in {"flush", "store"} /\ d \in todo[j]
        /\ UNCHANGED <<pc, item>>
    BY <1>2 DEF Write
  <2>2. /\ todo'[j] = todo[j] \ {d}
        /\ held'[j] = held[j] \cup {d}
        /\ \A k \in Jobs \ {j} : todo'[k] = todo[k] /\ held'[k] = held[k]
    BY <1>2 DEF Write
  <2> SUFFICES ASSUME NEW k \in Jobs, item[k].path = "ingest"
               PROVE  /\ ~Open(k)' => held'[k] = {}
                      /\ pc'[k] \in {"flush", "refresh"}
                           => todo'[k] \cup held'[k] \subseteq {item[k].date}
                      /\ pc'[k] = "flush" => todo'[k] \cap held'[k] = {}
                      /\ pc'[k] = "refresh" => todo'[k] = {}
                      /\ pc'[k] = "store" /\ todo'[k] # {} => held'[k] \subseteq {item[k].date}
                      /\ pc'[k] = "store" =>
                           \A e, f \in todo'[k] : e = f /\ item[k].date <= e
    BY <2>1
  <2>3. CASE k # j
    BY <2>1, <2>2, <2>3
  <2>4. CASE k = j
    BY <2>1, <2>2, <2>4
  <2> QED
    BY <2>3, <2>4
<1>3. ASSUME NEW j \in Jobs, Flushed(j) PROVE IngestionWritesUpwards'
  BY <1>3 DEF Flushed
<1>4. ASSUME NEW j \in Jobs, Refresh(j) PROVE IngestionWritesUpwards'
  <2> DEFINE changed == {d \in Dates : IsLatest(d, View(j)) /\ Computable(View(j))
                                        /\ tech[d] # Sample(View(j))}
  <2>1. item[j].path = "ingest" => \A d \in changed : item[j].date <= d
    <3> SUFFICES ASSUME item[j].path = "ingest", NEW d \in changed
                 PROVE  item[j].date <= d
      OBVIOUS
    <3>1. item[j].date \in Dates /\ item[j].close \in Closes
      BY DEF Items
    <3>2. item[j].date \in Rows(View(j))
      BY <3>1 DEF Rows, View, SeesOwnRow
    <3> QED
      BY <3>2 DEF IsLatest
  <2>2. \A d, e \in changed : d = e
    BY LatestUnique
  <2>3. /\ pc[j] = "refresh"
        /\ todo' = [todo EXCEPT ![j] = @ \cup changed]
        /\ pc' = [pc EXCEPT ![j] = IF item[j].path = "ingest" THEN "store" ELSE "flush"]
        /\ UNCHANGED <<item, held>>
    BY <1>4 DEF Refresh
  <2> HIDE DEF changed
  <2> QED
    BY <2>1, <2>2, <2>3
<1>5. ASSUME NEW j \in Jobs, Commit(j) PROVE IngestionWritesUpwards'
  BY <1>5 DEF Commit
<1>6. ASSUME NEW j \in Jobs, Abort(j) PROVE IngestionWritesUpwards'
  BY <1>6 DEF Abort
<1> QED
  BY <1>0, <1>1, <1>2, <1>3, <1>4, <1>5, <1>6 DEF Next

\* Whoever is waited for has written a row, so an ingestion among them is in
\* its second flush and waits for the latest row, after the one it holds.
THEOREM WaitInDateOrder ==
  ASSUME TypeOK, RowsLockedOnce, IngestionWritesUpwards
  PROVE  IngestionsWaitInDateOrder
<1> SUFFICES ASSUME NEW i \in Jobs, NEW j \in Jobs, NEW k \in Jobs,
                    NEW d \in Dates, NEW e \in Dates,
                    item[j].path = "ingest", Waits(i, j, d), Waits(j, k, e)
             PROVE  d < e
  BY DEF IngestionsWaitInDateOrder
<1>1. d \in held[j] /\ e \in todo[j] /\ e \in held[k] /\ j # k
  BY DEF Waits
<1>2. d # e
  BY <1>1 DEF RowsLockedOnce
<1>3. pc[j] = "store"
  BY <1>1, <1>2 DEF Waits, IngestionWritesUpwards
<1>4. d = item[j].date /\ item[j].date <= e
  BY <1>1, <1>3 DEF IngestionWritesUpwards
<1> QED
  BY <1>2, <1>4

-----------------------------------------------------------------------------
(* Quiet transactions. *)

\* A quiet transaction sees the table it will leave.
LEMMA QuietCommit ==
  ASSUME TypeOK, QuietViewHolds, NEW j \in Jobs, Commit(j), alone[j],
         item[j].path = "ingest" \/ ~Inserts(j)
  PROVE  Fresh(close', tech')
<1> USE DEF TypeOK
<1>1. item[j].date \in Dates /\ item[j].close \in Closes
  BY DEF Items
<1>2. close' = View(j)
  <2>1. seen[j] = close[item[j].date]
    BY DEF QuietViewHolds, Commit, Open
  <2> QED
    BY <1>1, <2>1 DEF Commit, View, SeesOwnRow, WritesRow
<1>3. CASE plan[j] = NoPlan
  <2>1. Fresh(View(j), tech)
    BY <1>3 DEF QuietViewHolds, Commit, Open
  <2>2. tech' = tech
    BY <1>3 DEF Commit
  <2> QED
    BY <1>2, <2>1, <2>2
<1>4. CASE plan[j] # NoPlan
  <2>1. IsLatest(plan[j].date, View(j)) /\ plan[j].sample = Sample(View(j))
    BY <1>4 DEF QuietViewHolds, Commit, Open
  <2>2. \A d \in Dates : d = plan[j].date => tech'[d] = Sample(View(j))
    BY <1>4, <2>1 DEF Commit
  <2>3. plan[j].date \in Dates
    BY <2>1 DEF IsLatest, Rows
  <2>4. \A d \in Dates : IsLatest(d, View(j)) => tech'[d] = Sample(View(j))
    BY <2>1, <2>2, <2>3, LatestUnique
  <2> QED
    BY <1>2, <2>4 DEF Fresh
<1> QED
  BY <1>3, <1>4

\* Only Start and a transaction's own steps touch what a quiet one sees.
LEMMA QuietStep ==
  ASSUME TypeOK, QuietViewHolds, [Next]_vars
  PROVE  QuietViewHolds'
<1> DEFINE Planned(k) == pc[k] \in {"store", "commit"}
                         \/ (pc[k] = "flush" /\ item[k].path = "bootstrap")
           Good(k) == /\ plan[k] = NoPlan => Fresh(View(k), tech)
                      /\ plan[k] # NoPlan => /\ IsLatest(plan[k].date, View(k))
                                             /\ plan[k].sample = Sample(View(k))
           Quiet(k) == /\ \A i \in Jobs \ {k} : ~Open(i)
                       /\ seen[k] = close[item[k].date]
                       /\ Planned(k) => Good(k)
<1>a. \A k \in Jobs : Open(k) /\ alone[k] => Quiet(k)
  BY DEF QuietViewHolds
<1>b. SUFFICES ASSUME NEW k \in Jobs, Open(k)', alone[k]'
               PROVE  Quiet(k)'
  BY DEF QuietViewHolds
<1>c. ASSUME UNCHANGED <<close, tech, item, plan, seen>>
      PROVE  Good(k)' <=> Good(k)
  BY <1>c DEF Fresh, View, SeesOwnRow, Inserts, IsLatest, Computable, Sample,
              LatestRows, Rows
<1> HIDE DEF Good
<1> USE DEF TypeOK, GoTo, Open
<1>0. CASE UNCHANGED vars
  BY <1>0, <1>a, <1>b, <1>c DEF vars
<1>1. ASSUME NEW j \in Jobs, Start(j) PROVE Quiet(k)'
  <2>1. k = j
    BY <1>1, <1>b DEF Start
  <2>2. \A i \in Jobs : ~Open(i)
    BY <1>1, <1>b, <2>1 DEF Start
  <2>3. \A i \in Jobs \ {k} : ~Open(i)'
    BY <1>1, <2>1, <2>2 DEF Start
  <2>4. seen'[k] = close'[item'[k].date] /\ ~Planned(k)'
    BY <1>1, <2>1 DEF Start
  <2> QED
    BY <2>3, <2>4
<1>2. ASSUME NEW j \in Jobs, NEW d \in Dates, Write(j, d) PROVE Quiet(k)'
  BY <1>2, <1>a, <1>b, <1>c DEF Write
<1>3. ASSUME NEW j \in Jobs, Flushed(j) PROVE Quiet(k)'
  <2>1. Open(j) /\ \A i \in Jobs : Open(i)' <=> Open(i)
    BY <1>3 DEF Flushed
  <2>2. k = j
    BY <1>a, <1>b, <1>3, <2>1 DEF Flushed
  <2>3. Planned(k)' => Planned(k)
    BY <1>3, <2>2 DEF Flushed, Items
  <2>4. UNCHANGED <<close, tech, item, plan, seen, alone>>
    BY <1>3 DEF Flushed
  <2> QED
    BY <1>a, <1>b, <1>c, <2>1, <2>3, <2>4
<1>4. ASSUME NEW j \in Jobs, Refresh(j) PROVE Quiet(k)'
  <2> DEFINE v == View(j)
             changed == {d \in Dates : IsLatest(d, v) /\ Computable(v) /\ tech[d] # Sample(v)}
  <2>1. Open(j) /\ \A i \in Jobs : Open(i)' <=> Open(i)
    BY <1>4 DEF Refresh
  <2>2. k = j
    BY <1>a, <1>b, <1>4, <2>1 DEF Refresh
  <2>3. UNCHANGED <<close, tech, item, seen, alone>>
    BY <1>4 DEF Refresh
  <2>4. plan'[j] = IF changed = {} THEN NoPlan
                   ELSE [date |-> CHOOSE d \in changed : TRUE, sample |-> Sample(v)]
    BY <1>4 DEF Refresh
  <2>5. v' = v
    BY <2>3 DEF View, SeesOwnRow, Inserts
  <2>6. Good(k)'
    <3>1. CASE changed = {}
      <4>1. Fresh(v, tech)
        BY <3>1 DEF Fresh
      <4>2. Fresh(v, tech)'
        BY <4>1, <2>3, <2>5
      <4> QED
        BY <3>1, <2>2, <2>4, <4>2 DEF Good
    <3>2. CASE changed # {}
      <4>1. PICK d \in changed : plan'[j] = [date |-> d, sample |-> Sample(v)]
        BY <3>2, <2>4
      <4>2. IsLatest(d, v) /\ Computable(v)
        BY <4>1
      <4>3. plan'[j] # NoPlan
        BY <4>1, <4>2, SampleNotEmpty DEF NoPlan
      <4>4. plan'[j].date = d /\ plan'[j].sample = Sample(v)
        BY <4>1
      <4>5. IsLatest(d, v') /\ Sample(v)' = Sample(v)
        BY <4>2, <2>5 DEF Sample, LatestRows, Rows
      <4> QED
        BY <2>2, <4>3, <4>4, <4>5 DEF Good, IsLatest, Rows
    <3> QED
      BY <3>1, <3>2
  <2> QED
    BY <1>a, <1>b, <2>1, <2>3, <2>6
<1>5. ASSUME NEW j \in Jobs, Commit(j) PROVE Quiet(k)'
  <2>1. Open(j) /\ k # j /\ Open(k) /\ alone[k]
    BY <1>5, <1>b DEF Commit
  <2> QED
    BY <2>1, <1>a
<1>6. ASSUME NEW j \in Jobs, Abort(j) PROVE Quiet(k)'
  <2>1. Open(j) /\ k # j /\ Open(k) /\ alone[k]
    BY <1>6, <1>b DEF Abort
  <2> QED
    BY <2>1, <1>a
<1> QED
  BY <1>0, <1>1, <1>2, <1>3, <1>4, <1>5, <1>6 DEF Next

-----------------------------------------------------------------------------
(* Full windows. *)

\* The sample of a computable table is a full window that ends with its latest row.
LEMMA SampleIsWindow ==
  ASSUME NEW v, NEW d \in Dates, IsLatest(d, v), Computable(v)
  PROVE  /\ Cardinality(DOMAIN Sample(v)) = Window
         /\ d \in DOMAIN Sample(v)
         /\ \A e \in DOMAIN Sample(v) : e <= d
<1>1. DOMAIN Sample(v) = LatestRows(v)
  BY DEF Sample
<1>2. Cardinality(LatestRows(v)) = Window
  BY DEF Computable
<1>3. d \in LatestRows(v)
  <2>1. {e \in Rows(v) : e >= d} = {d}
    <3>1. Rows(v) \subseteq Nat /\ d \in Nat
      BY DatesAssumption DEF Rows
    <3>2. d \in Rows(v) /\ \A e \in Rows(v) : e <= d
      BY DEF IsLatest
    <3>3. \A e \in Rows(v) : e >= d <=> e = d
      BY <3>1, <3>2
    <3> QED
      BY <3>2, <3>3, Zenon
  <2>2. Cardinality({d}) <= Window
    BY FS_Singleton, WindowAssumption
  <2> QED
    BY <2>1, <2>2 DEF LatestRows, IsLatest
<1>4. \A e \in LatestRows(v) : e <= d
  BY DEF LatestRows, IsLatest
<1> QED
  BY <1>1, <1>2, <1>3, <1>4

\* Rows do not disappear.
LEMMA RowsStay ==
  ASSUME TypeOK, [Next]_vars, NEW d \in Dates, close[d] # NoRow
  PROVE  close'[d] # NoRow
<1>1. CASE UNCHANGED close
  BY <1>1
<1>2. ASSUME NEW j \in Jobs, Commit(j)
      PROVE  close'[d] # NoRow
  BY <1>2, ClosesAssumption DEF Commit, TypeOK, Items
<1> QED
  BY <1>1, <1>2 DEF Next, vars, Start, Write, Flushed, Refresh, Abort

LEMMA PlansStep ==
  ASSUME TypeOK, PlansNeedFullWindow, [Next]_vars
  PROVE  PlansNeedFullWindow'
<1> USE DEF TypeOK
<1>a. item' = item /\ \A k \in Jobs : item[k].date \in Dates
  BY DEF Next, vars, Start, Write, Flushed, Refresh, Commit, Abort, Items
<1>b. \A d \in Dates : close[d] # NoRow => close'[d] # NoRow
  BY RowsStay
<1>c. \A k \in Jobs : plan[k] # NoPlan => plan[k].date \in Dates
  BY DEF PlansNeedFullWindow
<1>0. CASE UNCHANGED <<seen, plan>>
  BY <1>0, <1>a, <1>b, <1>c DEF PlansNeedFullWindow
<1>1. ASSUME NEW j \in Jobs, Start(j) PROVE PlansNeedFullWindow'
  <2>1. seen' = [seen EXCEPT ![j] = close[item[j].date]] /\ UNCHANGED <<plan, close>>
    BY <1>1 DEF Start
  <2> QED
    BY <2>1, <1>a DEF PlansNeedFullWindow
<1>2. ASSUME NEW j \in Jobs, Abort(j) \/ Commit(j) PROVE PlansNeedFullWindow'
  <2>1. plan' = [plan EXCEPT ![j] = NoPlan] /\ UNCHANGED seen
    BY <1>2 DEF Abort, Commit
  <2> QED
    BY <2>1, <1>a, <1>b, <1>c DEF PlansNeedFullWindow
<1>3. ASSUME NEW j \in Jobs, Refresh(j) PROVE PlansNeedFullWindow'
  <2> DEFINE v == View(j)
             changed == {d \in Dates : IsLatest(d, v) /\ Computable(v) /\ tech[d] # Sample(v)}
  <2>1. /\ plan' = [plan EXCEPT ![j] =
             IF changed = {} THEN NoPlan
             ELSE [date |-> CHOOSE d \in changed : TRUE, sample |-> Sample(v)]]
        /\ UNCHANGED <<seen, close>>
    BY <1>3 DEF Refresh
  <2>2. CASE changed = {}
    BY <2>1, <2>2, <1>a DEF PlansNeedFullWindow
  <2>3. CASE changed # {}
    <3>1. PICK d \in changed : plan' = [plan EXCEPT ![j] = [date |-> d, sample |-> Sample(v)]]
      BY <2>1, <2>3
    <3>2. d \in Dates /\ IsLatest(d, v) /\ Computable(v)
      OBVIOUS
    <3>3. d = item[j].date \/ close[d] # NoRow
      BY <3>2 DEF IsLatest, Rows, View
    <3>4. /\ Cardinality(DOMAIN Sample(v)) = Window
          /\ d \in DOMAIN Sample(v)
          /\ \A e \in DOMAIN Sample(v) : e <= d
      BY <3>2, SampleIsWindow
    <3>5. /\ plan'[j].date = d /\ plan'[j].sample = Sample(v)
          /\ \A k \in Jobs \ {j} : plan'[k] = plan[k]
      BY <3>1
    <3>6. seen' = seen /\ close' = close
      BY <2>1
    <3> HIDE DEF v, changed
    <3>7. ASSUME NEW k \in Jobs, plan'[k] # NoPlan
          PROVE  LET e == plan'[k].date sample == plan'[k].sample
                 IN  /\ e \in Dates /\ (e = item[k].date \/ close[e] # NoRow)
                     /\ Cardinality(DOMAIN sample) = Window
                     /\ e \in DOMAIN sample
                     /\ \A x \in DOMAIN sample : x <= e
      <4>1. CASE k = j
        BY <3>2, <3>3, <3>4, <3>5, <4>1
      <4>2. CASE k # j
        BY <3>5, <3>7, <4>2 DEF PlansNeedFullWindow
      <4> QED
        BY <4>1, <4>2
    <3> QED
      BY <3>6, <3>7, <1>a DEF PlansNeedFullWindow
  <2> QED
    BY <2>2, <2>3
<1> QED
  BY <1>0, <1>1, <1>2, <1>3 DEF Next, vars, Write, Flushed

\* The metrics that are committed are those that were planned.
LEMMA WindowsStep ==
  ASSUME TypeOK, PlansNeedFullWindow, MetricsNeedFullWindow, [Next]_vars
  PROVE  MetricsNeedFullWindow'
<1> USE DEF TypeOK
<1>b. \A d \in Dates : close[d] # NoRow => close'[d] # NoRow
  BY RowsStay
<1>0. CASE UNCHANGED tech
  BY <1>0, <1>b DEF MetricsNeedFullWindow
<1>1. ASSUME NEW j \in Jobs, Commit(j) PROVE MetricsNeedFullWindow'
  <2>1. ASSUME NEW d \in Dates, plan[j] # NoPlan, d = plan[j].date
        PROVE  close'[d] # NoRow
    <3>1. CASE close[d] # NoRow
      BY <3>1, <1>b
    <3>2. CASE close[d] = NoRow
      <4>1. d = item[j].date /\ seen[j] = NoRow /\ item[j].close \in Closes
        BY <2>1, <3>2 DEF PlansNeedFullWindow, Items
      <4>2. close'[d] = item[j].close
        BY <1>1, <4>1, ClosesAssumption DEF Commit, WritesRow
      <4> QED
        BY <4>1, <4>2, ClosesAssumption
    <3> QED
      BY <3>1, <3>2
  <2>2. \A d \in Dates : tech'[d] = IF plan[j] # NoPlan /\ d = plan[j].date
                                     THEN plan[j].sample ELSE tech[d]
    BY <1>1 DEF Commit
  <2> QED
    BY <2>1, <2>2, <1>b DEF MetricsNeedFullWindow, PlansNeedFullWindow
<1> QED
  BY <1>0, <1>1 DEF Next, vars, Start, Write, Flushed, Refresh, Abort

-----------------------------------------------------------------------------

\* The inductive invariant holds in every reachable state.
THEOREM Invariance == Spec => []IInv
<1>1. Init => IInv
  <2> SUFFICES ASSUME Init PROVE IInv
    OBVIOUS
  <2>1. TypeOK
    BY TypeInit
  <2>2. /\ RowsLockedOnce /\ IngestionWritesUpwards /\ QuietViewHolds
        /\ PlansNeedFullWindow
    BY DEF Init, RowsLockedOnce, IngestionWritesUpwards, QuietViewHolds, PlansNeedFullWindow, Open
  <2> QED
    BY <2>1, <2>2 DEF IInv
<1>2. IInv /\ [Next]_vars => IInv'
  BY TypeStep, LocksStep, UpwardsStep, QuietStep, PlansStep DEF IInv
<1> QED
  BY <1>1, <1>2, PTL DEF Spec

\* Ingestions of one ticker never deadlock each other.
THEOREM IngestionsWaitInDateOrderAlways == Spec => []IngestionsWaitInDateOrder
<1>1. IInv => IngestionsWaitInDateOrder
  BY WaitInDateOrder DEF IInv
<1> QED
  BY <1>1, Invariance, PTL

\* A quiet transaction leaves the latest row with the metrics of the table.
THEOREM QuietRunRefreshesAlways == Spec => QuietRunRefreshes
<1>1. IInv /\ [Next]_vars =>
        [\A j \in Jobs :
           Commit(j) /\ alone[j] /\ (item[j].path = "ingest" \/ ~Inserts(j))
           => Fresh(close', tech')]_vars
  BY QuietCommit DEF IInv
<1> QED
  BY <1>1, Invariance, PTL DEF Spec, QuietRunRefreshes
\* Metrics are committed only of a full window of closes, on the row it ends with.
THEOREM MetricsNeedFullWindowAlways == Spec => []MetricsNeedFullWindow
<1>1. Init => MetricsNeedFullWindow
  BY DEF Init, MetricsNeedFullWindow
<1>2. IInv /\ MetricsNeedFullWindow /\ [Next]_vars => MetricsNeedFullWindow'
  BY WindowsStep DEF IInv
<1> QED
  BY <1>1, <1>2, Invariance, PTL DEF Spec
=============================================================================

-------------------------- MODULE DecisionsProofs --------------------------
(***************************************************************************)
(* Proofs about the questions the system answers from its tables. The gate *)
(* opens on findings that stay true; the place of a row in the list of its *)
(* peers is the count its percentile stands for; a score grows with its    *)
(* components; the pages of a list are the elements in the order of        *)
(* their keys, cut one after the other; what is recommended passed the     *)
(* gate with the evidence it shows.                                        *)
(***************************************************************************)
EXTENDS Decisions, SequenceTheorems, FiniteSetTheorems, TLAPS

\* A strict total order R of S.
Orders(R, S) ==
  /\ \A x \in S : <<x, x>> \notin R
  /\ \A x, y \in S : x # y => <<x, y>> \in R \/ <<y, x>> \in R
  /\ \A x, y, z \in S : <<x, y>> \in R /\ <<y, z>> \in R => <<x, z>> \in R

\* The place of an element in the order, counted from 0.
PlaceOf(e, R, S) == Cardinality({f \in S : <<f, e>> \in R})

\* The elements of a finite set have places of their own by a strict total order, and
\* all places are taken.
LEMMA ElementsArePlaced ==
  ASSUME NEW S, IsFiniteSet(S), NEW R, Orders(R, S)
  PROVE  /\ Cardinality(S) \in Nat
         /\ \A n \in 1..Cardinality(S) : \E e \in S : PlaceOf(e, R, S) = n - 1
         /\ \A e \in S : PlaceOf(e, R, S) \in 0..(Cardinality(S) - 1)
         /\ \A e, f \in S : <<e, f>> \in R => PlaceOf(e, R, S) < PlaceOf(f, R, S)
         /\ \A e, f \in S : PlaceOf(e, R, S) = PlaceOf(f, R, S) => e = f
<1> DEFINE below(e) == {f \in S : <<f, e>> \in R}
           rank == [e \in S |-> Cardinality(below(e))]
           ranks == 0..(Cardinality(S) - 1)
<1>1. Cardinality(S) \in Nat
  BY FS_CardinalityType
<1>2. \A e \in S : IsFiniteSet(below(e)) /\ Cardinality(below(e)) \in ranks
  <2> TAKE e \in S
  <2>1. below(e) \subseteq S /\ e \notin below(e)
    BY DEF Orders
  <2>2. IsFiniteSet(below(e)) /\ Cardinality(below(e)) <= Cardinality(S) /\ Cardinality(S) # Cardinality(below(e))
    BY <2>1, FS_Subset
  <2>3. Cardinality(below(e)) \in Nat
    BY <2>2, FS_CardinalityType
  <2> HIDE DEF below
  <2> QED
    BY <1>1, <2>2, <2>3
<1>3. \A e, f \in S : <<e, f>> \in R => Cardinality(below(e)) < Cardinality(below(f))
  <2> SUFFICES ASSUME NEW e \in S, NEW f \in S, <<e, f>> \in R
               PROVE  Cardinality(below(e)) < Cardinality(below(f))
    OBVIOUS
  <2>1. below(e) \subseteq below(f) /\ e \notin below(e) /\ e \in below(f)
    BY DEF Orders
  <2> HIDE DEF below
  <2>2. Cardinality(below(e)) <= Cardinality(below(f)) /\ Cardinality(below(f)) # Cardinality(below(e))
    BY <1>2, <2>1, FS_Subset
  <2> QED
    BY <1>1, <1>2, <2>2
<1>4. \A e, f \in S : Cardinality(below(e)) = Cardinality(below(f)) => e = f
  <2> SUFFICES ASSUME NEW e \in S, NEW f \in S, e # f
               PROVE  Cardinality(below(e)) # Cardinality(below(f))
    OBVIOUS
  <2>1. <<e, f>> \in R \/ <<f, e>> \in R
    BY DEF Orders
  <2> HIDE DEF below
  <2> QED
    BY <1>1, <1>2, <1>3, <2>1
<1> HIDE DEF below
<1>5. rank \in Injection(S, ranks)
  BY <1>2, <1>4 DEF Injection, IsInjective
<1>6. IsFiniteSet(ranks) /\ Cardinality(ranks) = Cardinality(S)
  <2>1. /\ IsFiniteSet(ranks)
        /\ Cardinality(ranks) = IF 0 > Cardinality(S) - 1 THEN 0 ELSE (Cardinality(S) - 1) - 0 + 1
    BY <1>1, FS_Interval
  <2> QED
    BY <1>1, <2>1
<1>7. rank \in Surjection(S, ranks)
  BY <1>5, <1>6, FS_Injection
<1>8. \A n \in 1..Cardinality(S) : \E e \in S : Cardinality(below(e)) = n - 1
  <2> TAKE n \in 1..Cardinality(S)
  <2>1. n - 1 \in ranks
    BY <1>1
  <2> QED
    BY <1>7, <2>1 DEF Surjection
<1> QED
  BY <1>1, <1>2, <1>3, <1>4, <1>8 DEF below, PlaceOf

\* The runs a status shows are runs of the scope, and no more than the limit.
LEMMA RecentAreRuns ==
  ASSUME NEW runs, IsFiniteSet(runs), \A r \in runs : IsRun(r), \A r, t \in runs : r.id = t.id => r = t,
         NEW providers, NEW tickers, NEW limit \in Nat
  PROVE  LET recent == RecentRuns(runs, providers, tickers, limit)
         IN  recent \subseteq runs /\ IsFiniteSet(recent) /\ Cardinality(recent) <= limit
<1> DEFINE S == InScope(runs, providers, tickers)
           newer(r, t) == r.age < t.age \/ (r.age = t.age /\ r.id > t.id)
           R == {e \in S \X S : newer(e[1], e[2])}
           N == Cardinality(S)
           L == InOrder(S, newer)
           P == {j \in DOMAIN L : j <= limit}
           picked == [j \in P |-> L[j]]
           recent == {L[j] : j \in P}
<1>1. S \subseteq runs /\ IsFiniteSet(S)
  BY FS_Subset DEF InScope
<1>2. \A r \in S : r.id \in Int /\ r.age \in Int
  BY <1>1 DEF IsRun
<1>3. \A r, t \in S : <<r, t>> \in R <=> newer(r, t)
  OBVIOUS
<1> HIDE DEF S, R
<1>4. Orders(R, S)
  <2>1. \A x \in S : <<x, x>> \notin R
    BY <1>2, <1>3
  <2>2. \A x, y \in S : x # y => <<x, y>> \in R \/ <<y, x>> \in R
    <3> TAKE x \in S, y \in S
    <3>1. x # y => x.id # y.id
      BY <1>1
    <3> QED
      BY <1>2, <1>3, <3>1
  <2>3. \A x, y, z \in S : <<x, y>> \in R /\ <<y, z>> \in R => <<x, z>> \in R
    BY <1>2, <1>3
  <2> QED
    BY <2>1, <2>2, <2>3 DEF Orders
<1>5. N \in Nat /\ \A n \in 1..N : \E e \in S : PlaceOf(e, R, S) = n - 1
  BY <1>1, <1>4, ElementsArePlaced
<1>6. \A n \in 1..N : \E e \in S : Cardinality({f \in S : newer(f, e)}) = n - 1
  <2>1. \A e \in S : Cardinality({f \in S : newer(f, e)}) = PlaceOf(e, R, S)
    <3> TAKE e \in S
    <3>1. {f \in S : newer(f, e)} = {f \in S : <<f, e>> \in R}
      BY <1>3
    <3> QED
      BY <3>1 DEF PlaceOf
  <2> HIDE DEF newer, N
  <2> QED
    BY <1>5, <2>1
<1>7. L = [p \in 1..N |-> CHOOSE e \in S : Cardinality({f \in S : newer(f, e)}) = p - 1]
  BY DEF InOrder
<1> HIDE DEF newer, N, L
<1>8. DOMAIN L = 1..N /\ \A p \in 1..N : L[p] \in S
  BY <1>6, <1>7
<1>9. P \subseteq 1..limit /\ P \subseteq 1..N
  BY <1>5, <1>8
<1>10. IsFiniteSet(P) /\ Cardinality(P) <= limit
  <2>1. IsFiniteSet(1..limit) /\ Cardinality(1..limit) = limit
    BY FS_Interval
  <2> QED
    BY <1>9, <2>1, FS_Subset
<1>11. picked \in Surjection(P, recent)
  <2> HIDE DEF P
  <2> QED
    BY DEF Surjection
<1>12. IsFiniteSet(recent) /\ Cardinality(recent) <= Cardinality(P)
  <2> HIDE DEF P, picked, recent
  <2> QED
    BY <1>10, <1>11, FS_Surjection
<1>13. recent \subseteq runs
  BY <1>1, <1>8, <1>9
<1>14. RecentRuns(runs, providers, tickers, limit) = recent
  BY DEF RecentRuns, S, L, newer
<1>15. Cardinality(P) \in Nat /\ Cardinality(recent) \in Nat
  <2> HIDE DEF P, recent
  <2> QED
    BY <1>10, <1>12, FS_CardinalityType
<1>16. Cardinality(recent) <= limit
  <2> HIDE DEF P, recent
  <2> QED
    BY <1>10, <1>12, <1>15
<1> QED
  BY <1>12, <1>13, <1>14, <1>16

-----------------------------------------------------------------------------
(* The gate. *)

\* The runs have unique ids, whatever starts and ends.
RunsInv ==
  /\ HasFields(db, TableNames)
  /\ IsFiniteSet(db.runs) /\ \A r \in db.runs : IsRun(r)
  /\ \A r, t \in db.runs : r.id = t.id => r = t

\* What the probes found was true when they ran, and of an environment that does not
\* change; a run that succeeded is there for ever.
ChecksInv ==
  /\ got.step \in {"start", "readiness", "archive", "egress", "status"}
  /\ got.step # "start" => got.readiness = ReadinessIssues(ask.env, ask.providers)
  /\ got.step \in {"archive", "egress", "status"} => got.raw_archive = RawArchiveIssues(ask.env)
  /\ got.step \in {"egress", "status"} => got.provider_egress = EgressIssues(ask.env, ask.providers)
  /\ got.step = "status" =>
       /\ \A r \in got.status : r.status = "succeeded" => r \in db.runs
       /\ IsFiniteSet(got.status) /\ Cardinality(got.status) <= ask.limit
       /\ writes = 0 => got.status = RecentRuns(db.runs, ask.providers, ask.tickers, ask.limit)

\* The runs, the checks so far and the decision.
GateInv ==
  ask.kind = "gate" => ask.limit \in Nat /\ writes \in Nat /\ RunsInv /\ ChecksInv /\ GateIsHonest

\* A question has its fields.
AskInv == HasFields(ask, {"kind"})

\* A step keeps the kind of the question, and only the next page changes the question.
LEMMA KindsStay ==
  ASSUME AskInv, [Next]_vars
  PROVE  AskInv' /\ ask'.kind = ask.kind /\ (ask.kind \notin Paged => ask' = ask)
<1>1. CASE UNCHANGED ask
  BY <1>1 DEF AskInv
<1>2. CASE NextPage
  BY <1>2 DEF NextPage, AskInv, HasFields
<1>3. UNCHANGED ask \/ NextPage
  BY DEF Next, vars, Rank, ScoreStock, Align, CountCandidates, DateCandidates, ListCandidates, SelectRows, SummarizeRows,
         CountRisks, Respond, CountChunks, ListChunks, ReadFinancials, ReadChunks, ListItems, CountFound, ListFound,
         CheckReadiness, CheckRawArchive, CheckEgress, ReadStatus, DecideGate, ScoreCommitted, ChunkCommitted,
         ChunkRemoved, RunStarted, RunEnded, Read, Answer, Show, Commit
<1> QED
  BY <1>1, <1>2, <1>3

\* A question keeps its fields and its kind; only the pages of a walk change it.
THEOREM Questions == Spec => []AskInv
<1>1. Init => AskInv
  BY StartsAssumption DEF Init, AskInv
<1> QED
  BY <1>1, KindsStay, PTL DEF Spec

\* The steps of the gate, and those of others it sees.
LEMMA GateSteps ==
  ASSUME Next, ask.kind = "gate"
  PROVE  CheckReadiness \/ CheckRawArchive \/ CheckEgress \/ ReadStatus \/ DecideGate \/ RunStarted \/ RunEnded
<1>1. ask.kind \notin Paged /\ ask.kind \notin Lists /\ ask.kind \notin {"candidates", "recommended"}
      /\ ask.kind \notin {"rank", "score", "align", "search"}
  BY DEF Paged, Lists
<1>2. ~Rank /\ ~ScoreStock /\ ~Align
  BY <1>1 DEF Rank, ScoreStock, Align, At
<1>3. ~CountCandidates /\ ~DateCandidates /\ ~ListCandidates
  BY <1>1 DEF CountCandidates, DateCandidates, ListCandidates, At
<1>4. ~SelectRows /\ ~SummarizeRows /\ ~CountRisks /\ ~Respond
  BY <1>1 DEF SelectRows, SummarizeRows, CountRisks, Respond, At
<1>5. ~CountChunks /\ ~ListChunks /\ ~ReadFinancials /\ ~ReadChunks /\ ~ListItems
  BY <1>1 DEF CountChunks, ListChunks, ReadFinancials, ReadChunks, ListItems, At, Lists
<1>6. ~CountFound /\ ~ListFound /\ ~NextPage
  BY <1>1 DEF CountFound, ListFound, NextPage, At
<1>7. ~ScoreCommitted /\ ~ChunkCommitted /\ ~ChunkRemoved
  BY <1>1 DEF ScoreCommitted, ChunkCommitted, ChunkRemoved
<1> QED
  BY <1>2, <1>3, <1>4, <1>5, <1>6, <1>7 DEF Next

\* The empty findings of the three probes say that the environment is ready, and a ready
\* environment has no findings.
LEMMA ProbesAreExact ==
  ASSUME NEW env, NEW providers
  PROVE  /\ ReadinessIssues(env, providers) = {}
         /\ RawArchiveIssues(env) = {}
         /\ EgressIssues(env, providers) = {}
         <=> Ready(env, providers)
<1> DEFINE needed == (UNION {Credentials(p) : p \in providers \intersect Providers})
                       \union (IF "KRX" \in providers \intersect Providers THEN KrxEndpoints ELSE {})
<1>1. ASSUME ReadinessIssues(env, providers) = {}, RawArchiveIssues(env) = {}, EgressIssues(env, providers) = {}
      PROVE  Ready(env, providers)
  <2>1. providers \subseteq Providers
    BY <1>1 DEF ReadinessIssues, Selection
  <2>2. "INGESTION_RAW_BUCKET" \in env.settings /\ env.writable
    BY <1>1 DEF RawArchiveIssues
  <2>3. env.arn # "none" /\ ~LoadFails(env)
    BY <1>1 DEF ReadinessIssues
  <2>4. needed \subseteq Hydrated(env)
    BY <1>1 DEF ReadinessIssues, Selection
  <2>5. \A p \in providers : Credentials(p) \subseteq env.settings \union (IF env.arn = "loads" THEN env.secret ELSE {})
    BY <2>1, <2>4 DEF Hydrated
  <2>6. \A p \in providers : \A t \in Targets(p) : Reachable(env, t)
    BY <1>1, <2>1 DEF EgressIssues, Selection
  <2>7. \A p \in providers : Targets(p) \subseteq env.answering
    BY <2>6 DEF Reachable
  <2>8. "KRX" \in providers => KrxEndpoints \subseteq env.settings
    BY <2>6 DEF Reachable, Targets
  <2> QED
    BY <2>1, <2>2, <2>3, <2>5, <2>7, <2>8 DEF Ready, LoadFails
<1>2. ASSUME Ready(env, providers)
      PROVE  ReadinessIssues(env, providers) = {} /\ RawArchiveIssues(env) = {} /\ EgressIssues(env, providers) = {}
  <2>1. providers \subseteq Providers /\ providers \intersect Providers = providers /\ providers \ Providers = {}
    BY <1>2 DEF Ready
  <2>2. "INGESTION_RAW_BUCKET" \in env.settings /\ env.writable
    BY <1>2 DEF Ready
  <2>3. env.arn # "none" /\ ~LoadFails(env)
    BY <1>2 DEF Ready, LoadFails
  <2>4. \A p \in providers : Credentials(p) \subseteq Hydrated(env)
    <3>1. CASE Complete(env.settings)
      BY <2>1, <3>1 DEF Complete, Hydrated
    <3>2. CASE ~Complete(env.settings)
      BY <1>2, <3>2 DEF Ready, Hydrated
    <3> QED
      BY <3>1, <3>2
  <2>5. env.settings \subseteq Hydrated(env)
    BY DEF Hydrated
  <2>6. {"INGESTION_RAW_BUCKET"} \union needed \subseteq Hydrated(env)
    BY <1>2, <2>1, <2>2, <2>4, <2>5 DEF Ready
  <2>7. ReadinessIssues(env, providers) = {}
    BY <2>1, <2>3, <2>6 DEF ReadinessIssues, Selection
  <2>8. RawArchiveIssues(env) = {}
    BY <2>2 DEF RawArchiveIssues
  <2>9. \A p \in providers : \A t \in Targets(p) : Reachable(env, t)
    <3> TAKE p \in providers
    <3> TAKE t \in Targets(p)
    <3>1. t \in env.answering
      BY <1>2 DEF Ready
    <3>2. t \in KrxEndpoints => p = "KRX"
      BY <2>1 DEF Targets, KrxEndpoints, Providers
    <3> QED
      BY <1>2, <3>1, <3>2 DEF Ready, Reachable
  <2>10. EgressIssues(env, providers) = {}
    BY <2>1, <2>9 DEF EgressIssues, Selection
  <2> QED
    BY <2>7, <2>8, <2>10
<1> QED
  BY <1>1, <1>2

\* Runs shown, each of at most one pair, cannot be fewer than the pairs they all try.
LEMMA PairsNeedRuns ==
  ASSUME NEW recent, IsFiniteSet(recent), NEW pairs,
         \A pair \in pairs : \E r \in recent : r.provider = pair[1] /\ r.ticker = pair[2],
         NEW providers, NEW tickers, pairs = Pairs(providers, tickers)
  PROVE  IsFiniteSet(pairs) /\ Cardinality(pairs) <= Cardinality(recent)
<1> DEFINE run == [pair \in pairs |-> CHOOSE r \in recent : r.provider = pair[1] /\ r.ticker = pair[2]]
<1>1. \A pair \in pairs : run[pair] \in recent /\ run[pair].provider = pair[1] /\ run[pair].ticker = pair[2]
  OBVIOUS
<1>2. \A pair, other \in pairs : pair[1] = other[1] /\ pair[2] = other[2] => pair = other
  BY DEF Pairs
<1>3. run \in [pairs -> recent]
  BY <1>1
<1> HIDE DEF run
<1>4. run \in Injection(pairs, recent)
  BY <1>1, <1>2, <1>3 DEF Injection, IsInjective
<1> QED
  BY <1>4, FS_Injection

\* The gate starts with runs of unique ids and nothing read.
LEMMA GateInit == Init => GateInv
<1> SUFFICES ASSUME Init, ask.kind = "gate"
             PROVE  ask.limit \in Nat /\ writes \in Nat /\ RunsInv /\ ChecksInv /\ GateIsHonest
  BY DEF GateInv
<1>1. PICK s \in Starts : db = s[1] /\ ask = s[2]
  BY DEF Init
<1>2. HasFields(db, TableNames) /\ GateStart(db, ask)
  BY <1>1, StartsAssumption
<1>3. RunsInv /\ ask.limit \in Nat
  BY <1>2 DEF RunsInv, GateStart, Unique
<1>4. ChecksInv
  BY DEF ChecksInv, Init
<1> QED
  BY <1>3, <1>4 DEF GateIsHonest, Init

\* The runs in the tables keep their ids while one starts or ends.
LEMMA RunsKeepIds ==
  ASSUME RunsInv, RunStarted \/ RunEnded
  PROVE  RunsInv' /\ \A r \in db.runs : r.status = "succeeded" => r \in db'.runs
<1>1. ASSUME RunStarted
      PROVE  RunsInv' /\ \A r \in db.runs : r.status = "succeeded" => r \in db'.runs
  <2>1. PICK r \in NewRuns : /\ \A x \in db.runs : x.id = r.id => x.status \in {"failed", "partial_failed"}
                             /\ db' = [db EXCEPT !.runs = {x \in @ : x.id # r.id} \union {r}]
    BY <1>1 DEF RunStarted, Commit
  <2>2. db'.runs = {x \in db.runs : x.id # r.id} \union {r} /\ DOMAIN db' = DOMAIN db
    BY <2>1 DEF RunsInv, HasFields, TableNames
  <2>3. IsRun(r)
    BY NewRowsAssumption
  <2>4. IsFiniteSet({x \in db.runs : x.id # r.id})
    BY FS_Subset DEF RunsInv
  <2>5. IsFiniteSet(db'.runs)
    BY <2>2, <2>4, FS_AddElement
  <2>6. \A x \in db.runs : x.status = "succeeded" => x.id # r.id
    BY <2>1
  <2> QED
    BY <2>2, <2>3, <2>5, <2>6 DEF RunsInv, HasFields
<1>2. ASSUME RunEnded
      PROVE  RunsInv' /\ \A r \in db.runs : r.status = "succeeded" => r \in db'.runs
  <2>1. PICK r \in db.runs, status \in {"succeeded", "partial_failed", "failed"} :
          r.status = "started" /\ db' = [db EXCEPT !.runs = (@ \ {r}) \union {[r EXCEPT !.status = status]}]
    BY <1>2 DEF RunEnded, Commit
  <2> DEFINE ended == [r EXCEPT !.status = status]
  <2>2. db'.runs = (db.runs \ {r}) \union {ended} /\ DOMAIN db' = DOMAIN db
    BY <2>1 DEF RunsInv, HasFields, TableNames
  <2>3. IsRun(r)
    BY DEF RunsInv
  <2>4. IsRun(ended) /\ ended.id = r.id
    BY <2>3 DEF IsRun, HasFields
  <2> HIDE DEF ended
  <2>5. IsFiniteSet(db'.runs)
    <3>1. IsFiniteSet(db.runs \ {r})
      BY FS_RemoveElement DEF RunsInv
    <3> QED
      BY <2>2, <3>1, FS_AddElement
  <2>6. \A x \in db.runs : x.status = "succeeded" => x # r
    BY <2>1
  <2>7. \A x, t \in db'.runs : x.id = t.id => x = t
    BY <2>2, <2>4 DEF RunsInv
  <2>8. \A x \in db'.runs : IsRun(x)
    BY <2>2, <2>4 DEF RunsInv
  <2> QED
    BY <2>2, <2>5, <2>6, <2>7, <2>8 DEF RunsInv, HasFields
<1> QED
  BY <1>1, <1>2

\* The gate decides by findings that are still true.
LEMMA DecisionIsHonest ==
  ASSUME GateInv, ask.kind = "gate", DecideGate
  PROVE  GateIsHonest'
<1> DEFINE checks == [readiness |-> got.readiness, raw_archive |-> got.raw_archive,
                      provider_egress |-> got.provider_egress, status |-> got.status,
                      stale_runs |-> StaleRuns(db.runs, ask.providers, ask.tickers)]
           pairs == Pairs(ask.providers, ask.tickers)
<1>1. got.step = "status" /\ UNCHANGED <<db, ask, got, writes>>
      /\ answer' = [blockers |-> Blockers(checks, ask.providers, ask.tickers)]
  BY DEF DecideGate, At, Answer
<1>2. /\ got.readiness = ReadinessIssues(ask.env, ask.providers)
      /\ got.raw_archive = RawArchiveIssues(ask.env)
      /\ got.provider_egress = EgressIssues(ask.env, ask.providers)
      /\ \A r \in got.status : r.status = "succeeded" => r \in db.runs
      /\ IsFiniteSet(got.status) /\ Cardinality(got.status) <= ask.limit /\ ask.limit \in Nat
      /\ writes = 0 => got.status = RecentRuns(db.runs, ask.providers, ask.tickers, ask.limit)
  BY <1>1 DEF GateInv, ChecksInv
<1>3. /\ checks.readiness = got.readiness /\ checks.raw_archive = got.raw_archive
      /\ checks.provider_egress = got.provider_egress /\ checks.status = got.status
      /\ checks.stale_runs = StaleRuns(db.runs, ask.providers, ask.tickers)
  OBVIOUS
<1> HIDE DEF checks
<1>4. Blockers(checks, ask.providers, ask.tickers) = {} <=>
        /\ Ready(ask.env, ask.providers)
        /\ MissingSmokeRuns(got.status, ask.providers, ask.tickers) = {}
        /\ StaleRuns(db.runs, ask.providers, ask.tickers) = {}
  <2>1. Blockers(checks, ask.providers, ask.tickers) = {} <=>
          /\ checks["readiness"] = {} /\ checks["raw_archive"] = {} /\ checks["provider_egress"] = {}
          /\ MissingSmokeRuns(checks.status, ask.providers, ask.tickers) = {}
          /\ checks.stale_runs = {}
    BY DEF Blockers
  <2> QED
    BY <1>2, <1>3, <2>1, ProbesAreExact
<1>5. MissingSmokeRuns(got.status, ask.providers, ask.tickers) = {} <=>
        \A pair \in pairs : \E r \in got.status : r.status = "succeeded" /\ r.provider = pair[1] /\ r.ticker = pair[2]
  <2>1. \A pair \in pairs : \A r : <<r.provider, r.ticker>> = pair <=> r.provider = pair[1] /\ r.ticker = pair[2]
    BY DEF Pairs
  <2> QED
    BY <2>1 DEF MissingSmokeRuns
<1>6. ASSUME Blockers(checks, ask.providers, ask.tickers) = {}
      PROVE  Tried(db.runs) /\ Cardinality(pairs) <= ask.limit
  <2>1. Tried(db.runs)
    BY <1>2, <1>4, <1>5, <1>6 DEF Tried
  <2>2. Cardinality(pairs) <= Cardinality(got.status)
    BY <1>2, <1>4, <1>5, <1>6, PairsNeedRuns
  <2>3. Cardinality(got.status) \in Nat
    BY <1>2, FS_CardinalityType
  <2>4. IsFiniteSet(pairs) /\ Cardinality(pairs) \in Nat
    BY <1>2, <1>4, <1>5, <1>6, PairsNeedRuns, FS_CardinalityType
  <2> HIDE DEF pairs
  <2> QED
    BY <1>2, <2>1, <2>2, <2>3, <2>4
<1>7. writes = 0 /\ Tried(RecentRuns(db.runs, ask.providers, ask.tickers, ask.limit))
        => MissingSmokeRuns(got.status, ask.providers, ask.tickers) = {}
  BY <1>2, <1>5 DEF Tried
<1>8. answer'.blockers = Blockers(checks, ask.providers, ask.tickers)
  BY <1>1
<1>9. /\ answer'.blockers = {} =>
           /\ Ready(ask.env, ask.providers) /\ Tried(db.runs)
           /\ StaleRuns(db.runs, ask.providers, ask.tickers) = {}
           /\ Cardinality(pairs) <= ask.limit
      /\ /\ writes = 0 /\ Ready(ask.env, ask.providers)
         /\ Tried(RecentRuns(db.runs, ask.providers, ask.tickers, ask.limit))
         /\ StaleRuns(db.runs, ask.providers, ask.tickers) = {}
         => answer'.blockers = {}
  BY <1>4, <1>6, <1>7, <1>8
<1>10. Tried(db.runs)' <=> Tried(db.runs)
  BY <1>1 DEF Tried
<1>11. Tried(RecentRuns(db.runs, ask.providers, ask.tickers, ask.limit))'
         <=> Tried(RecentRuns(db.runs, ask.providers, ask.tickers, ask.limit))
  BY <1>1 DEF Tried
<1> QED
  BY <1>1, <1>9, <1>10, <1>11 DEF GateIsHonest

\* Every step of the gate, and every commit meanwhile, keeps its invariant.
LEMMA GateStep == GateInv /\ AskInv /\ [Next]_vars => GateInv'
<1> SUFFICES ASSUME GateInv, AskInv, [Next]_vars, ask'.kind = "gate"
             PROVE  ask'.limit \in Nat /\ writes' \in Nat /\ RunsInv' /\ ChecksInv' /\ GateIsHonest'
  BY DEF GateInv
<1>1. ask.kind = "gate"
  BY KindsStay
<1>2. ask.limit \in Nat /\ writes \in Nat /\ RunsInv /\ ChecksInv /\ GateIsHonest
  BY <1>1 DEF GateInv
<1>3. CASE UNCHANGED vars
  BY <1>2, <1>3 DEF vars, RunsInv, ChecksInv, GateIsHonest, Tried
<1>4. CASE CheckReadiness
  <2>1. /\ got.step = "start" /\ got' = [step |-> "readiness", readiness |-> ReadinessIssues(ask.env, ask.providers)]
        /\ UNCHANGED <<db, ask, answer, writes>> /\ answer = None
    BY <1>4 DEF CheckReadiness, Read, At
  <2>2. ChecksInv'
    BY <2>1 DEF ChecksInv
  <2> QED
    BY <1>2, <2>1, <2>2 DEF RunsInv, GateIsHonest
<1>5. CASE CheckRawArchive
  <2>1. /\ got.step = "readiness"
        /\ got' = [step |-> "archive", readiness |-> got.readiness, raw_archive |-> RawArchiveIssues(ask.env)]
        /\ UNCHANGED <<db, ask, answer, writes>> /\ answer = None
    BY <1>5 DEF CheckRawArchive, Read, At
  <2>2. ChecksInv'
    BY <1>2, <2>1 DEF ChecksInv
  <2> QED
    BY <1>2, <2>1, <2>2 DEF RunsInv, GateIsHonest
<1>6. CASE CheckEgress
  <2>1. /\ got.step = "archive"
        /\ got' = [step |-> "egress", readiness |-> got.readiness, raw_archive |-> got.raw_archive,
                   provider_egress |-> EgressIssues(ask.env, ask.providers)]
        /\ UNCHANGED <<db, ask, answer, writes>> /\ answer = None
    BY <1>6 DEF CheckEgress, Read, At
  <2>2. ChecksInv'
    BY <1>2, <2>1 DEF ChecksInv
  <2> QED
    BY <1>2, <2>1, <2>2 DEF RunsInv, GateIsHonest
<1>7. CASE ReadStatus
  <2> DEFINE recent == RecentRuns(db.runs, ask.providers, ask.tickers, ask.limit)
  <2>1. /\ got.step = "egress"
        /\ got' = [step |-> "status", readiness |-> got.readiness, raw_archive |-> got.raw_archive,
                   provider_egress |-> got.provider_egress, status |-> recent]
        /\ UNCHANGED <<db, ask, answer, writes>> /\ answer = None
    BY <1>7 DEF ReadStatus, Read, At
  <2>2. recent \subseteq db.runs /\ IsFiniteSet(recent) /\ Cardinality(recent) <= ask.limit
    BY <1>2, RecentAreRuns DEF RunsInv
  <2>3. (recent = RecentRuns(db.runs, ask.providers, ask.tickers, ask.limit)) /\ recent' = recent
    BY <2>1
  <2> HIDE DEF recent
  <2>4. ChecksInv'
    BY <1>2, <2>1, <2>2, <2>3 DEF ChecksInv
  <2> QED
    BY <1>2, <2>1, <2>4 DEF RunsInv, GateIsHonest
<1>8. CASE DecideGate
  <2>1. UNCHANGED <<db, ask, got, writes>>
    BY <1>8 DEF DecideGate, Answer
  <2>2. GateIsHonest'
    BY <1>1, <1>8, DecisionIsHonest
  <2> QED
    BY <1>2, <2>1, <2>2 DEF RunsInv, ChecksInv
<1>9. CASE RunStarted \/ RunEnded
  <2>1. UNCHANGED <<ask, got, answer>> /\ answer = None /\ writes' = writes + 1
    BY <1>9 DEF RunStarted, RunEnded, Commit
  <2>2. RunsInv' /\ \A r \in db.runs : r.status = "succeeded" => r \in db'.runs
    BY <1>2, <1>9, RunsKeepIds
  <2>3. writes' # 0 /\ writes' \in Nat
    BY <1>2, <2>1
  <2>4. ChecksInv'
    BY <1>2, <2>1, <2>2, <2>3 DEF ChecksInv
  <2> QED
    BY <1>2, <2>1, <2>2, <2>3, <2>4 DEF GateIsHonest
<1> QED
  BY <1>1, <1>3, <1>4, <1>5, <1>6, <1>7, <1>8, <1>9, GateSteps

\* The gate of the scheduler opens only on what still holds when it opens.
THEOREM GateStaysHonest == Spec => []GateIsHonest
<1>1. GateInv => GateIsHonest
  BY DEF GateInv, GateIsHonest
<1> QED
  BY <1>1, Questions, GateInit, GateStep, PTL DEF Spec

-----------------------------------------------------------------------------
(* Lists in order. *)

\* A list has the elements of S in the order R.
Arranges(list, R, S) ==
  /\ DOMAIN list = 1..Cardinality(S)
  /\ \A p \in DOMAIN list : list[p] \in S /\ PlaceOf(list[p], R, S) = p - 1

\* A list picked element by element, by the number of elements before, is in order.
LEMMA PickedInOrder ==
  ASSUME NEW S, IsFiniteSet(S), NEW R, Orders(R, S), NEW list,
         DOMAIN list = 1..Cardinality(S),
         \A p \in 1..Cardinality(S) :
           (\E e \in S : PlaceOf(e, R, S) = p - 1) => list[p] \in S /\ PlaceOf(list[p], R, S) = p - 1
  PROVE  Arranges(list, R, S)
BY ElementsArePlaced DEF Arranges

\* In a list in order each element is where its place says, and nowhere else.
LEMMA ArrangedLists ==
  ASSUME NEW S, IsFiniteSet(S), NEW R, Orders(R, S), NEW list, Arranges(list, R, S)
  PROVE  /\ Cardinality(S) \in Nat /\ DOMAIN list = 1..Cardinality(S)
         /\ \A e \in S : PlaceOf(e, R, S) + 1 \in DOMAIN list /\ list[PlaceOf(e, R, S) + 1] = e
         /\ \A p, q \in DOMAIN list : <<list[p], list[q]>> \in R => p < q
<1>1. /\ Cardinality(S) \in Nat
      /\ \A e \in S : PlaceOf(e, R, S) \in 0..(Cardinality(S) - 1)
      /\ \A e, f \in S : <<e, f>> \in R => PlaceOf(e, R, S) < PlaceOf(f, R, S)
      /\ \A e, f \in S : PlaceOf(e, R, S) = PlaceOf(f, R, S) => e = f
  BY ElementsArePlaced
<1>2. DOMAIN list = 1..Cardinality(S)
  BY DEF Arranges
<1>3. \A e \in S : PlaceOf(e, R, S) + 1 \in DOMAIN list /\ list[PlaceOf(e, R, S) + 1] = e
  <2> TAKE e \in S
  <2> DEFINE p == PlaceOf(e, R, S)
  <2>1. p \in 0..(Cardinality(S) - 1)
    BY <1>1
  <2> HIDE DEF p
  <2>2. p + 1 \in DOMAIN list /\ (p + 1) - 1 = p
    BY <1>1, <1>2, <2>1
  <2>3. list[p + 1] \in S /\ PlaceOf(list[p + 1], R, S) = p
    BY <2>2 DEF Arranges
  <2>4. list[p + 1] = e
    BY <1>1, <2>3 DEF p
  <2> QED
    BY <2>2, <2>4 DEF p
<1>4. ASSUME NEW p \in DOMAIN list, NEW q \in DOMAIN list, <<list[p], list[q]>> \in R
      PROVE  p < q
  <2>1. /\ list[p] \in S /\ PlaceOf(list[p], R, S) = p - 1
        /\ list[q] \in S /\ PlaceOf(list[q], R, S) = q - 1
    BY DEF Arranges
  <2>2. PlaceOf(list[p], R, S) < PlaceOf(list[q], R, S)
    BY <1>1, <1>4, <2>1
  <2>3. p \in Int /\ q \in Int
    BY <1>2
  <2> QED
    BY <2>1, <2>2, <2>3
<1> QED
  BY <1>1, <1>2, <1>3, <1>4

\* What the prover knows of the operator InOrder, for the order of the percentiles.
PeerOrder(rows, peers) ==
  {e \in peers \X peers :
     \/ RankValue(rows[e[1]]) > RankValue(rows[e[2]])
     \/ RankValue(rows[e[1]]) = RankValue(rows[e[2]]) /\ rows[e[1]].ticker < rows[e[2]].ticker}

\* Rows of one factor with values and tickers of their own.
Comparable(rows, peers) ==
  /\ IsFiniteSet(peers) /\ peers \subseteq DOMAIN rows
  /\ \A i \in peers : rows[i].value \in Int /\ rows[i].ticker \in Int /\ rows[i].factor.higher \in BOOLEAN
  /\ \A i, j \in peers : rows[i].factor = rows[j].factor
  /\ \A i, j \in peers : rows[i].ticker = rows[j].ticker => i = j

\* The rank value of a row is a number, and the better row of two of one factor has the
\* greater one.
LEMMA RankValues ==
  ASSUME NEW rows, NEW peers, Comparable(rows, peers)
  PROVE  /\ \A i \in peers : RankValue(rows[i]) \in Int
         /\ \A i, j \in peers : /\ Better(rows[i], rows[j]) <=> RankValue(rows[i]) > RankValue(rows[j])
                                /\ rows[j].value = rows[i].value <=> RankValue(rows[j]) = RankValue(rows[i])
<1>1. \A i \in peers : rows[i].value \in Int
  BY DEF Comparable
<1>2. \A i \in peers : RankValue(rows[i]) = rows[i].value \/ RankValue(rows[i]) = -rows[i].value
  BY DEF RankValue
<1>3. \A i, j \in peers : /\ Better(rows[i], rows[j]) <=> RankValue(rows[i]) > RankValue(rows[j])
                          /\ rows[j].value = rows[i].value <=> RankValue(rows[j]) = RankValue(rows[i])
  <2> TAKE i \in peers, j \in peers
  <2>1. rows[i].factor = rows[j].factor /\ rows[i].value \in Int /\ rows[j].value \in Int
    BY DEF Comparable
  <2>2. CASE rows[i].factor.higher
    BY <2>1, <2>2 DEF Better, RankValue
  <2>3. CASE ~rows[i].factor.higher
    BY <2>1, <2>3 DEF Better, RankValue
  <2> QED
    BY <2>2, <2>3
<1> QED
  BY <1>1, <1>2, <1>3

\* The peers of a row are ordered by value and then by ticker.
LEMMA PeersAreOrdered ==
  ASSUME NEW rows, NEW peers, Comparable(rows, peers)
  PROVE  Orders(PeerOrder(rows, peers), peers)
<1> DEFINE R == PeerOrder(rows, peers)
           before(i, j) == \/ RankValue(rows[i]) > RankValue(rows[j])
                           \/ RankValue(rows[i]) = RankValue(rows[j]) /\ rows[i].ticker < rows[j].ticker
<1>1. \A i \in peers : RankValue(rows[i]) \in Int /\ rows[i].ticker \in Int
  BY RankValues DEF Comparable
<1>2. \A i, j \in peers : <<i, j>> \in R <=> before(i, j)
  BY DEF PeerOrder
<1> HIDE DEF R
<1>3. \A i \in peers : <<i, i>> \notin R
  BY <1>1, <1>2
<1>4. \A i, j \in peers : i # j => <<i, j>> \in R \/ <<j, i>> \in R
  <2> TAKE i \in peers, j \in peers
  <2>1. i # j => rows[i].ticker # rows[j].ticker
    BY DEF Comparable
  <2> QED
    BY <1>1, <1>2, <2>1
<1>5. \A i, j, k \in peers : <<i, j>> \in R /\ <<j, k>> \in R => <<i, k>> \in R
  BY <1>1, <1>2
<1> QED
  BY <1>3, <1>4, <1>5 DEF Orders, R

\* The sorted rows.
Sorted(rows, peers) ==
  InOrder(peers, LAMBDA i, j : \/ RankValue(rows[i]) > RankValue(rows[j])
                               \/ RankValue(rows[i]) = RankValue(rows[j]) /\ rows[i].ticker < rows[j].ticker)

\* So the sorted peers have each peer at its place.
LEMMA SortedPeers ==
  ASSUME NEW rows, NEW peers, Comparable(rows, peers)
  PROVE  Arranges(Sorted(rows, peers), PeerOrder(rows, peers), peers)
<1> DEFINE R == PeerOrder(rows, peers)
           before(i, j) == \/ RankValue(rows[i]) > RankValue(rows[j])
                           \/ RankValue(rows[i]) = RankValue(rows[j]) /\ rows[i].ticker < rows[j].ticker
           place(e) == Cardinality({f \in peers : before(f, e)})
           list == Sorted(rows, peers)
<1>1. list = [p \in 1..Cardinality(peers) |-> CHOOSE e \in peers : place(e) = p - 1]
  BY DEF Sorted, InOrder
<1>2. \A e \in peers : place(e) = PlaceOf(e, R, peers)
  <2> TAKE e \in peers
  <2>1. {f \in peers : before(f, e)} = {f \in peers : <<f, e>> \in R}
    BY DEF PeerOrder
  <2> QED
    BY <2>1 DEF PlaceOf
<1> HIDE DEF list, place, R
<1>3. \A p \in 1..Cardinality(peers) :
        (\E e \in peers : PlaceOf(e, R, peers) = p - 1) => list[p] \in peers /\ PlaceOf(list[p], R, peers) = p - 1
  BY <1>1, <1>2
<1> QED
  BY <1>1, <1>3, PeersAreOrdered, PickedInOrder DEF Comparable, R, list

-----------------------------------------------------------------------------
(* Ranks. *)

\* The peers above a row's value, at it and below it.
Over(rows, peers, i) == {j \in peers : RankValue(rows[j]) > RankValue(rows[i])}
Ties(rows, peers, i) == {j \in peers : RankValue(rows[j]) = RankValue(rows[i])}
Under(rows, peers, i) == {j \in peers : RankValue(rows[i]) > RankValue(rows[j])}

\* Three parts of the peers.
LEMMA PeersArePartitioned ==
  ASSUME NEW rows, NEW peers, Comparable(rows, peers), NEW i \in peers
  PROVE  /\ IsFiniteSet(Over(rows, peers, i)) /\ IsFiniteSet(Ties(rows, peers, i)) /\ IsFiniteSet(Under(rows, peers, i))
         /\ Cardinality(Over(rows, peers, i)) \in Nat /\ Cardinality(Ties(rows, peers, i)) \in Nat \ {0}
         /\ Cardinality(Under(rows, peers, i)) \in Nat
         /\ Cardinality(peers) = Cardinality(Over(rows, peers, i)) + Cardinality(Ties(rows, peers, i))
                                   + Cardinality(Under(rows, peers, i))
<1> DEFINE O == Over(rows, peers, i)
           T == Ties(rows, peers, i)
           U == Under(rows, peers, i)
<1>1. \A j \in peers : RankValue(rows[j]) \in Int
  BY RankValues
<1>2. O \subseteq peers /\ T \subseteq peers /\ U \subseteq peers /\ i \in T
  BY DEF Over, Ties, Under
<1>3. peers = (O \union T) \union U
  BY <1>1 DEF Over, Ties, Under
<1>4. O \intersect T = {} /\ (O \union T) \intersect U = {}
  BY <1>1 DEF Over, Ties, Under
<1> HIDE DEF O, T, U
<1>5. IsFiniteSet(O) /\ IsFiniteSet(T) /\ IsFiniteSet(U)
  BY <1>2, FS_Subset DEF Comparable
<1>6. Cardinality(O) \in Nat /\ Cardinality(T) \in Nat /\ Cardinality(U) \in Nat
  BY <1>5, FS_CardinalityType
<1>7. Cardinality({}) = 0 /\ Cardinality(T) # 0
  BY <1>2, <1>5, FS_EmptySet
<1>8. IsFiniteSet(O \union T) /\ Cardinality(O \union T) = Cardinality(O) + Cardinality(T) - Cardinality({})
  BY <1>4, <1>5, FS_Union
<1>9. Cardinality((O \union T) \union U) = Cardinality(O \union T) + Cardinality(U) - Cardinality({})
  BY <1>4, <1>5, <1>8, FS_Union
<1>10. Cardinality(peers) = Cardinality(O) + Cardinality(T) + Cardinality(U)
  BY <1>3, <1>6, <1>7, <1>8, <1>9
<1> QED
  BY <1>5, <1>6, <1>7, <1>10 DEF O, T, U

\* The place of a tie is behind the better rows, and then among the ties.
LEMMA PlaceOfATie ==
  ASSUME NEW rows, NEW peers, Comparable(rows, peers), NEW i \in peers, NEW e \in Ties(rows, peers, i)
  PROVE  PlaceOf(e, PeerOrder(rows, peers), peers)
           = Cardinality(Over(rows, peers, i)) + PlaceOf(e, PeerOrder(rows, peers), Ties(rows, peers, i))
<1> DEFINE O == Over(rows, peers, i)
           T == Ties(rows, peers, i)
           R == PeerOrder(rows, peers)
           B == {f \in T : <<f, e>> \in R}
<1>1. \A j \in peers : RankValue(rows[j]) \in Int
  BY RankValues
<1>2. e \in peers /\ RankValue(rows[e]) = RankValue(rows[i]) /\ T \subseteq peers
  BY DEF Ties
<1>3. \A f \in peers : <<f, e>> \in R <=> f \in O \/ f \in B
  <2> TAKE f \in peers
  <2>1. <<f, e>> \in R <=> \/ RankValue(rows[f]) > RankValue(rows[e])
                           \/ RankValue(rows[f]) = RankValue(rows[e]) /\ rows[f].ticker < rows[e].ticker
    BY <1>2 DEF PeerOrder
  <2>2. f \in O <=> RankValue(rows[f]) > RankValue(rows[e])
    BY <1>2 DEF Over
  <2>3. f \in T <=> RankValue(rows[f]) = RankValue(rows[e])
    BY <1>2 DEF Ties
  <2> QED
    BY <1>1, <1>2, <2>1, <2>2, <2>3
<1>4. O \subseteq peers /\ B \subseteq peers /\ O \intersect B = {}
  BY <1>1, <1>2 DEF Over, Ties
<1>5. {f \in peers : <<f, e>> \in R} = O \union B
  BY <1>3, <1>4
<1>6. PlaceOf(e, R, peers) = Cardinality(O \union B) /\ PlaceOf(e, R, T) = Cardinality(B)
  BY <1>5 DEF PlaceOf
<1> HIDE DEF O, B
<1>7. IsFiniteSet(O) /\ IsFiniteSet(B)
  BY <1>4, FS_Subset DEF Comparable
<1>8. Cardinality(O \union B) = Cardinality(O) + Cardinality(B) - Cardinality({})
  BY <1>4, <1>7, FS_Union
<1>9. Cardinality({}) = 0 /\ Cardinality(O) \in Nat /\ Cardinality(B) \in Nat
  BY <1>7, FS_EmptySet, FS_CardinalityType
<1> QED
  BY <1>6, <1>8, <1>9 DEF O

\* The first and the last position of the ties of a row among the sorted peers.
LEMMA PlacesOfTies ==
  ASSUME NEW rows, NEW peers, Comparable(rows, peers), NEW i \in peers, NEW list, list = Sorted(rows, peers),
         NEW ties, ties = {p \in DOMAIN list : RankValue(rows[list[p]]) = RankValue(rows[i])},
         NEW o, o = Cardinality(Over(rows, peers, i)), NEW t, t = Cardinality(Ties(rows, peers, i))
  PROVE  /\ (CHOOSE p \in ties : \A q \in ties : p <= q) = o + 1
         /\ (CHOOSE p \in ties : \A q \in ties : q <= p) = o + t
<1> DEFINE R == PeerOrder(rows, peers)
           T == Ties(rows, peers, i)
<1>1. o \in Nat /\ t \in Nat \ {0} /\ IsFiniteSet(T) /\ IsFiniteSet(peers)
  BY PeersArePartitioned DEF Comparable
<1>2. Orders(R, peers) /\ Arranges(list, R, peers)
  BY PeersAreOrdered, SortedPeers
<1>3. T \subseteq peers
  BY DEF Ties
<1>4. Orders(R, T)
  BY <1>2, <1>3 DEF Orders
<1> HIDE DEF R
<1>5. /\ \A e \in peers : PlaceOf(e, R, peers) + 1 \in DOMAIN list /\ list[PlaceOf(e, R, peers) + 1] = e
      /\ \A p \in DOMAIN list : list[p] \in peers /\ PlaceOf(list[p], R, peers) = p - 1
      /\ DOMAIN list = 1..Cardinality(peers) /\ Cardinality(peers) \in Nat
  <2>1. \A p \in DOMAIN list : list[p] \in peers /\ PlaceOf(list[p], R, peers) = p - 1
    BY <1>2 DEF Arranges
  <2>2. /\ Cardinality(peers) \in Nat /\ DOMAIN list = 1..Cardinality(peers)
        /\ \A e \in peers : PlaceOf(e, R, peers) + 1 \in DOMAIN list /\ list[PlaceOf(e, R, peers) + 1] = e
    BY <1>1, <1>2, ArrangedLists
  <2> QED
    BY <2>1, <2>2
<1>6. /\ \A n \in 1..t : \E e \in T : PlaceOf(e, R, T) = n - 1
      /\ \A e \in T : PlaceOf(e, R, T) \in 0..(t - 1)
  BY <1>1, <1>4, ElementsArePlaced
<1>7. \A e \in T : PlaceOf(e, R, peers) = o + PlaceOf(e, R, T)
  BY PlaceOfATie DEF R
<1>8. \A p \in ties : p \in Int /\ p >= o + 1 /\ p <= o + t
  <2> TAKE p \in ties
  <2>1. p \in DOMAIN list /\ list[p] \in T /\ PlaceOf(list[p], R, peers) = p - 1
    BY <1>5 DEF Ties
  <2>2. p - 1 = o + PlaceOf(list[p], R, T) /\ PlaceOf(list[p], R, T) \in 0..(t - 1)
    BY <1>6, <1>7, <2>1
  <2>3. p \in Int
    BY <1>5, <2>1
  <2> QED
    BY <1>1, <2>2, <2>3
<1>9. \A n \in 1..t : o + n \in ties
  <2> TAKE n \in 1..t
  <2>1. PICK e \in T : PlaceOf(e, R, T) = n - 1
    BY <1>6
  <2>2. PlaceOf(e, R, peers) = o + (n - 1)
    BY <1>7, <2>1
  <2>3. PlaceOf(e, R, peers) + 1 = o + n
    BY <1>1, <2>2
  <2>4. o + n \in DOMAIN list /\ list[o + n] = e
    BY <1>3, <1>5, <2>3
  <2> QED
    BY <2>4 DEF Ties
<1>10. 1 \in 1..t /\ t \in 1..t
  BY <1>1
<1>11. o + 1 \in ties /\ o + t \in ties
  BY <1>9, <1>10
<1>12. ASSUME NEW p \in ties, \A q \in ties : p <= q
       PROVE  p = o + 1
  BY <1>1, <1>8, <1>11, <1>12
<1>13. ASSUME NEW p \in ties, \A q \in ties : q <= p
       PROVE  p = o + t
  BY <1>1, <1>8, <1>11, <1>13
<1>14. \A q \in ties : o + 1 <= q /\ q <= o + t
  BY <1>1, <1>8
<1> HIDE DEF T
<1>15. (CHOOSE p \in ties : \A q \in ties : p <= q) = o + 1
  BY <1>11, <1>12, <1>14
<1>16. (CHOOSE p \in ties : \A q \in ties : q <= p) = o + t
  BY <1>11, <1>13, <1>14
<1> QED
  BY <1>15, <1>16

\* The percentile of a row among its peers.
LEMMA PercentileOf ==
  ASSUME NEW rows, NEW peers, Comparable(rows, peers), NEW i \in peers,
         NEW o, o = Cardinality(Over(rows, peers, i)), NEW t, t = Cardinality(Ties(rows, peers, i)),
         NEW n, n = Cardinality(peers)
  PROVE  PercentileRanks(rows, peers)[i] =
           IF n = 1 THEN [num |-> 1, den |-> 1]
           ELSE [num |-> 2 * (n - 1) - (o + (o + t - 1)), den |-> 2 * (n - 1)]
<1>1. PICK list, ties :
        list = Sorted(rows, peers) /\ ties = {p \in DOMAIN list : RankValue(rows[list[p]]) = RankValue(rows[i])}
  OBVIOUS
<1>2. PICK first, end : /\ first = CHOOSE p \in ties : \A q \in ties : p <= q
                        /\ end = CHOOSE p \in ties : \A q \in ties : q <= p
  OBVIOUS
<1>3. first = o + 1 /\ end = o + t
  BY <1>1, <1>2, PlacesOfTies
<1>4. PercentileRanks(rows, peers)[i] =
        IF Len(list) - 1 = 0 THEN [num |-> 1, den |-> 1]
        ELSE [num |-> 2 * (Len(list) - 1) - (first - 1 + end - 1), den |-> 2 * (Len(list) - 1)]
  BY <1>1, <1>2 DEF PercentileRanks, Sorted
<1>5. o \in Nat /\ t \in Nat \ {0} /\ n \in Nat
  BY PeersArePartitioned, FS_CardinalityType DEF Comparable
<1>6. DOMAIN list = 1..n
  BY <1>1, SortedPeers DEF Arranges
<1>7. Len(list) = n
  BY <1>5, <1>6
<1> QED
  BY <1>3, <1>4, <1>5, <1>7

\* The points of a row among its rivals are its rank.
LEMMA PointsOf ==
  ASSUME NEW rows, NEW peers, Comparable(rows, peers), NEW i \in peers, NEW rivals, rivals = peers \ {i},
         NEW rank, rank = PercentileRanks(rows, peers)[i],
         NEW points, points = 2 * Cardinality({j \in rivals : Better(rows[i], rows[j])})
                                + Cardinality({j \in rivals : rows[j].value = rows[i].value})
  PROVE  IF rivals = {} THEN rank.num = rank.den
         ELSE rank.num * 2 * Cardinality(rivals) = points * rank.den
<1>1. PICK o, t, u, n : /\ o = Cardinality(Over(rows, peers, i)) /\ t = Cardinality(Ties(rows, peers, i))
                        /\ u = Cardinality(Under(rows, peers, i)) /\ n = Cardinality(peers)
  OBVIOUS
<1>2. o \in Nat /\ t \in Nat \ {0} /\ u \in Nat /\ n = o + t + u
  BY <1>1, PeersArePartitioned
<1>3. IsFiniteSet(Ties(rows, peers, i)) /\ IsFiniteSet(peers)
  BY PeersArePartitioned DEF Comparable
<1>4. rank = IF n = 1 THEN [num |-> 1, den |-> 1]
             ELSE [num |-> 2 * (n - 1) - (o + (o + t - 1)), den |-> 2 * (n - 1)]
  BY <1>1, PercentileOf
<1>5. IsFiniteSet(rivals) /\ Cardinality(rivals) = n - 1
  BY <1>1, <1>3, FS_RemoveElement
<1>6. {j \in rivals : Better(rows[i], rows[j])} = Under(rows, peers, i)
  <2>1. \A j \in peers : /\ Better(rows[i], rows[j]) <=> RankValue(rows[i]) > RankValue(rows[j])
                         /\ RankValue(rows[j]) \in Int
    BY RankValues
  <2> QED
    BY <2>1 DEF Under
<1>7. {j \in rivals : rows[j].value = rows[i].value} = Ties(rows, peers, i) \ {i}
  <2>1. \A j \in peers : rows[j].value = rows[i].value <=> RankValue(rows[j]) = RankValue(rows[i])
    BY RankValues
  <2> QED
    BY <2>1 DEF Ties
<1>8. Cardinality(Ties(rows, peers, i) \ {i}) = t - 1
  BY <1>1, <1>3, FS_RemoveElement DEF Ties
<1>9. points = 2 * u + (t - 1)
  BY <1>1, <1>6, <1>7, <1>8
<1>10. CASE n = 1
  <2>1. rivals = {} /\ rank.num = rank.den
    BY <1>4, <1>5, <1>10, FS_EmptySet
  <2> QED
    BY <2>1
<1>11. CASE n # 1
  <2>1. rank.num = 2 * (n - 1) - (o + (o + t - 1)) /\ rank.den = 2 * (n - 1)
    BY <1>4, <1>11
  <2>2. rank.num = points /\ points \in Int /\ n - 1 \in Nat
    <3>1. 2 * (n - 1) - (o + (o + t - 1)) = 2 * u + (t - 1) /\ 2 * u + (t - 1) \in Int /\ n - 1 \in Nat
      BY <1>2
    <3> QED
      BY <1>9, <2>1, <3>1
  <2>3. rivals # {}
    BY <1>2, <1>5, <1>11, FS_EmptySet
  <2>4. \A a \in Int, b \in Nat : a * 2 * b = a * (2 * b)
    OBVIOUS
  <2> QED
    BY <1>5, <2>1, <2>2, <2>3, <2>4
<1> QED
  BY <1>10, <1>11

\* The peers of a row with a value are the rows the reference compares it with.
LEMMA PeersAreRivals ==
  ASSUME NEW q, RankStart(q), NEW i \in DOMAIN q.rows, q.rows[i].value # None,
         NEW peers, peers = PeerIndexes(q.rows, i, Partition(q.rows, i, q.least))
  PROVE  peers = Rivals(q.rows, i, q.least) /\ i \in peers /\ Comparable(q.rows, peers)
<1> DEFINE rows == q.rows
<1>1. /\ PeerIndexes(rows, i, "market") =
           {j \in DOMAIN rows : /\ rows[j].factor = rows[i].factor /\ rows[j].market = rows[i].market
                                /\ rows[j].value # None}
      /\ PeerIndexes(rows, i, "market_sector") =
           {j \in PeerIndexes(rows, i, "market") : rows[j].sector = rows[i].sector}
  BY DEF PeerIndexes, Usable
<1>2. peers = Rivals(rows, i, q.least)
  BY <1>1 DEF Partition, Rivals
<1>3. i \in peers /\ peers \subseteq DOMAIN rows
  BY DEF PeerIndexes, Usable
<1>4. \A j \in peers : rows[j].factor = rows[i].factor /\ rows[j].value # None
  BY DEF PeerIndexes, Usable
<1>5. IsFiniteSet(peers)
  BY <1>3, FS_Subset DEF RankStart
<1>6. \A j \in peers : rows[j].value \in Int /\ rows[j].ticker \in Int /\ rows[j].factor.higher \in BOOLEAN
  BY <1>3, <1>4 DEF RankStart, OrNull
<1>7. \A j, k \in peers : rows[j].ticker = rows[k].ticker => j = k
  BY <1>3, <1>4 DEF RankStart
<1> QED
  BY <1>2, <1>3, <1>4, <1>5, <1>6, <1>7 DEF Comparable

\* A question about ranks is answered with the ranks of its rows.
RankInv ==
  ask.kind = "rank" => RankStart(ask) /\ (answer # None => answer = [ranks |-> FactorRanks(ask.rows, ask.least)])

\* The answer to a question for ranks has the share of the rivals for each row.
LEMMA RanksAreRight ==
  ASSUME RankInv, ask.kind = "rank", answer # None, NEW i \in DOMAIN ask.rows
  PROVE  LET rows == ask.rows
             rivals == Rivals(rows, i, ask.least) \ {i}
             rank == answer.ranks[i].rank
             points == 2 * Cardinality({j \in rivals : Better(rows[i], rows[j])})
                         + Cardinality({j \in rivals : rows[j].value = rows[i].value})
         IN IF rows[i].value = None THEN rank = None
            ELSE IF rivals = {} THEN rank.num = rank.den
            ELSE rank.num * 2 * Cardinality(rivals) = points * rank.den
<1> DEFINE rows == ask.rows
<1>1. RankStart(ask) /\ answer.ranks = FactorRanks(rows, ask.least)
  BY DEF RankInv
<1>2. PICK peers : peers = PeerIndexes(rows, i, Partition(rows, i, ask.least))
  OBVIOUS
<1>3. answer.ranks[i].rank = IF i \in peers THEN PercentileRanks(rows, peers)[i] ELSE None
  BY <1>1, <1>2 DEF FactorRanks
<1>4. CASE rows[i].value = None
  BY <1>2, <1>3, <1>4 DEF PeerIndexes, Usable
<1>5. CASE rows[i].value # None
  <2>1. peers = Rivals(rows, i, ask.least) /\ i \in peers /\ Comparable(rows, peers)
    BY <1>1, <1>2, <1>5, PeersAreRivals
  <2>2. PICK rivals, rank, points :
          /\ rivals = peers \ {i} /\ rank = PercentileRanks(rows, peers)[i]
          /\ points = 2 * Cardinality({j \in rivals : Better(rows[i], rows[j])})
                        + Cardinality({j \in rivals : rows[j].value = rows[i].value})
    OBVIOUS
  <2>3. IF rivals = {} THEN rank.num = rank.den ELSE rank.num * 2 * Cardinality(rivals) = points * rank.den
    BY <2>1, <2>2, PointsOf
  <2> QED
    BY <1>3, <1>5, <2>1, <2>2, <2>3
<1> QED
  BY <1>4, <1>5

\* A step keeps the answer to a question for ranks.
LEMMA RankStep == RankInv /\ AskInv /\ [Next]_vars => RankInv'
<1> SUFFICES ASSUME RankInv, AskInv, [Next]_vars, ask'.kind = "rank"
             PROVE  RankStart(ask') /\ (answer' # None => answer' = [ranks |-> FactorRanks(ask'.rows, ask'.least)])
  BY DEF RankInv
<1>1. ask.kind = "rank" /\ ask' = ask
  BY KindsStay DEF Paged
<1>2. RankStart(ask) /\ (answer # None => answer = [ranks |-> FactorRanks(ask.rows, ask.least)])
  BY <1>1 DEF RankInv
<1>3. Rank \/ UNCHANGED answer
  BY <1>1 DEF Next, vars, ScoreStock, Align, CountCandidates, DateCandidates, ListCandidates, SelectRows, SummarizeRows,
         CountRisks, Respond, CountChunks, ListChunks, ReadFinancials, ReadChunks, ListItems, CountFound, ListFound,
         CheckReadiness, CheckRawArchive, CheckEgress, ReadStatus, DecideGate, ScoreCommitted, ChunkCommitted,
         ChunkRemoved, RunStarted, RunEnded, Read, Answer, Show, Commit, At, NextPage, Paged
<1> QED
  BY <1>1, <1>2, <1>3 DEF Rank, Answer

\* The rank of a factor is the share of its rivals a row beats, for any rows.
THEOREM RanksAlwaysMatch == Spec => []RanksMatchReference
<1>1. Init => RankInv
  <2> SUFFICES ASSUME Init, ask.kind = "rank" PROVE RankStart(ask) /\ answer = None
    BY DEF RankInv
  <2>1. PICK s \in Starts : ask = s[2]
    BY DEF Init
  <2>2. s[2].kind = "rank" => RankStart(s[2])
    BY StartsAssumption
  <2> QED
    BY <2>1, <2>2 DEF Init
<1>2. RankInv => RanksMatchReference
  BY RanksAreRight DEF RanksMatchReference
<1> QED
  BY <1>1, <1>2, Questions, RankStep, PTL DEF Spec

-----------------------------------------------------------------------------
(* Sums. *)

\* The order of the numbers.
LessThan == {p \in Nat \X Nat : p[1] < p[2]}

\* A set of numbers that is not empty has a least element.
LEMMA LeastNumber ==
  ASSUME NEW T, T \subseteq Nat, T # {}
  PROVE  \E x \in T : \A y \in T : x <= y
<1>1. LessThan = OpToRel(<, Nat)
  BY Zenon DEF LessThan, OpToRel
<1>2. IsWellFoundedOn(LessThan, Nat)
  BY <1>1, NatLessThanWellFounded, Zenon
<1>3. PICK x \in T : \A y \in T : ~(<<y, x>> \in LessThan)
  BY <1>2, WFMin
<1>4. \A y \in T : y < x => <<y, x>> \in LessThan
  BY DEF LessThan
<1>5. \A y \in T : x \in Nat /\ y \in Nat /\ ~(y < x)
  BY <1>3, <1>4
<1> QED
  BY <1>5

\* What holds of 0 and goes from each number to the next holds up to n.
LEMMA UpTheNumbers ==
  ASSUME NEW n \in Nat, NEW G, 0 \in G,
         \A k \in 1..n : k - 1 \in G => k \in G
  PROVE  0..n \subseteq G
<1> DEFINE T == 0..n \ G
<1> SUFFICES ASSUME T # {} PROVE FALSE
  OBVIOUS
<1>0. T \subseteq Nat
  OBVIOUS
<1>1. PICK k \in T : \A j \in T : k <= j
  <2> HIDE DEF T
  <2> QED
    BY <1>0, LeastNumber
<1>2. k \in 1..n /\ k - 1 \in 0..n /\ k - 1 \notin T
  BY <1>1
<1> QED
  BY <1>1, <1>2

\* g counts the sums of f up to n.
Adds(g, f, n) ==
  /\ g \in [0..n -> Int] /\ g[0] = 0
  /\ \A k \in 1..n : g[k] = g[k - 1] + f[k]

\* The recursion of the sums has a solution.
LEMMA SumsExist ==
  ASSUME NEW f \in Seq(Int)
  PROVE  Adds(Sums(f), f, Len(f))
<1> DEFINE N == Len(f)
           G == {n \in 0..N : \E g : Adds(g, f, n)}
<1>1. N \in Nat /\ \A k \in 1..N : f[k] \in Int
  OBVIOUS
<1> HIDE DEF N
<1>2. 0 \in G
  <2>1. Adds([k \in 0..0 |-> 0], f, 0)
    BY DEF Adds
  <2> QED
    BY <1>1, <2>1
<1>3. ASSUME NEW n \in 1..N, n - 1 \in G PROVE n \in G
  <2>1. PICK g : Adds(g, f, n - 1)
    BY <1>3
  <2> DEFINE h == [k \in 0..n |-> IF k = n THEN g[n - 1] + f[n] ELSE g[k]]
  <2>2. n - 1 \in 0..(n - 1) /\ n \in Int /\ 0 # n
    BY <1>1
  <2>3. h \in [0..n -> Int] /\ h[0] = 0
    BY <1>1, <2>1, <2>2 DEF Adds
  <2>4. ASSUME NEW k \in 1..n PROVE h[k] = h[k - 1] + f[k]
    <3>1. CASE k = n
      BY <1>1, <2>2, <3>1
    <3>2. CASE k # n
      <4>1. k \in 1..(n - 1) /\ k - 1 \in 0..n /\ k - 1 # n /\ k \in 0..n
        BY <1>1, <2>4, <3>2
      <4>2. g[k] = g[k - 1] + f[k]
        BY <2>1, <4>1 DEF Adds
      <4> QED
        BY <3>2, <4>1, <4>2
    <3> QED
      BY <3>1, <3>2
  <2>5. Adds(h, f, n)
    BY <2>3, <2>4 DEF Adds
  <2> QED
    BY <1>1, <2>5
<1>4. PICK g : Adds(g, f, N)
  <2>1. 0..N \subseteq G
    BY <1>1, <1>2, <1>3, UpTheNumbers
  <2>2. N \in G
    BY <1>1, <2>1
  <2> QED
    BY <2>2
<1> DEFINE Solves(h) == h = [n \in 0..N |-> IF n = 0 THEN 0 ELSE h[n - 1] + f[n]]
<1>5. Solves(g)
  <2>1. g = [n \in 0..N |-> g[n]]
    BY <1>4 DEF Adds
  <2>2. \A n \in 0..N : g[n] = IF n = 0 THEN 0 ELSE g[n - 1] + f[n]
    BY <1>1, <1>4 DEF Adds
  <2> QED
    BY <2>1, <2>2
<1>6. Sums(f) = CHOOSE h : Solves(h)
  BY DEF Sums, N
<1>7. Solves(Sums(f))
  BY <1>5, <1>6, Zenon
<1> DEFINE s == Sums(f)
<1>8. s = [n \in 0..N |-> IF n = 0 THEN 0 ELSE s[n - 1] + f[n]]
  BY <1>7
<1> HIDE DEF s
<1>9. DOMAIN s = 0..N /\ s[0] = 0 /\ \A k \in 1..N : s[k] = s[k - 1] + f[k]
  <2>1. \A n \in 0..N : s[n] = IF n = 0 THEN 0 ELSE s[n - 1] + f[n]
    BY <1>8
  <2>2. 0 \in 0..N /\ \A k \in 1..N : k \in 0..N /\ k # 0
    BY <1>1
  <2> QED
    BY <1>8, <2>1, <2>2
<1>10. 0..N \subseteq {n \in 0..N : s[n] \in Int}
  <2> DEFINE H == {n \in 0..N : s[n] \in Int}
  <2>1. 0 \in H /\ \A k \in 1..N : k - 1 \in H => k \in H
    BY <1>1, <1>9
  <2> HIDE DEF H
  <2>2. 0..N \subseteq H
    BY <1>1, <2>1, UpTheNumbers
  <2> QED
    BY <2>2 DEF H
<1>11. s \in [0..N -> Int]
  BY <1>8, <1>10
<1> QED
  BY <1>9, <1>11 DEF Adds, s, N

\* A sum is a number.
LEMMA SumsAreNumbers ==
  ASSUME NEW f \in Seq(Int)
  PROVE  Sum(f) \in Int
BY SumsExist DEF Adds, Sum

\* Greater numbers have a greater sum.
LEMMA SumsGrow ==
  ASSUME NEW f \in Seq(Int), NEW g \in Seq(Int), Len(f) = Len(g), \A i \in 1..Len(f) : f[i] <= g[i]
  PROVE  Sum(f) <= Sum(g)
<1> DEFINE N == Len(f)
           s == Sums(f)
           t == Sums(g)
           G == {n \in 0..N : s[n] <= t[n]}
<1>1. N \in Nat /\ \A k \in 1..N : f[k] \in Int /\ g[k] \in Int /\ f[k] <= g[k]
  OBVIOUS
<1>2. Adds(s, f, N) /\ Adds(t, g, N)
  BY SumsExist
<1> HIDE DEF N, s, t
<1>3. /\ s[0] = 0 /\ t[0] = 0
      /\ \A k \in 1..N : /\ s[k] = s[k - 1] + f[k] /\ t[k] = t[k - 1] + g[k]
                         /\ k - 1 \in 0..N /\ s[k - 1] \in Int /\ t[k - 1] \in Int
  BY <1>1, <1>2 DEF Adds
<1>4. 0 \in G /\ \A k \in 1..N : k - 1 \in G => k \in G
  <2>1. 0 \in 0..N /\ 0 <= 0
    BY <1>1
  <2>2. 0 \in G
    BY <1>3, <2>1
  <2>3. ASSUME NEW k \in 1..N, k - 1 \in G PROVE k \in G
    <3>1. s[k - 1] <= t[k - 1] /\ k \in 0..N /\ f[k] \in Int /\ g[k] \in Int /\ f[k] <= g[k]
      BY <1>1, <2>3
    <3>2. PICK a, b : a = s[k - 1] /\ b = t[k - 1]
      OBVIOUS
    <3>3. a + f[k] <= b + g[k]
      BY <1>3, <3>1, <3>2
    <3> QED
      BY <1>3, <3>1, <3>2, <3>3
  <2> QED
    BY <2>2, <2>3
<1> HIDE DEF G
<1>5. N \in G
  <2>1. 0..N \subseteq G
    BY <1>1, <1>4, UpTheNumbers
  <2> QED
    BY <1>1, <2>1
<1> QED
  BY <1>5 DEF G, N, s, t, Sum

\* One number more adds it to the sum.
LEMMA SumsAppend ==
  ASSUME NEW f \in Seq(Int), NEW x \in Int, NEW g \in Seq(Int), Len(g) = Len(f) + 1,
         g[Len(g)] = x, \A i \in 1..Len(f) : g[i] = f[i]
  PROVE  Sum(g) = Sum(f) + x
<1> DEFINE N == Len(f)
           s == Sums(f)
           t == Sums(g)
           G == {n \in 0..N : t[n] = s[n]}
<1>1. N \in Nat /\ (\A k \in 1..N : f[k] \in Int /\ g[k] = f[k]) /\ Len(g) = N + 1 /\ g[N + 1] = x
  OBVIOUS
<1>2. Adds(s, f, N) /\ Adds(t, g, N + 1)
  BY SumsExist
<1> HIDE DEF N, s, t
<1>3. 0 \in G /\ \A k \in 1..N : k - 1 \in G => k \in G
  BY <1>1, <1>2 DEF Adds
<1> HIDE DEF G
<1>4. N \in G
  <2>1. 0..N \subseteq G
    BY <1>1, <1>3, UpTheNumbers
  <2> QED
    BY <1>1, <2>1
<1>5. t[N + 1] = t[N] + x
  <2>1. N + 1 \in 1..(N + 1) /\ (N + 1) - 1 = N
    BY <1>1
  <2>2. t[N + 1] = t[(N + 1) - 1] + g[N + 1]
    BY <1>2, <2>1 DEF Adds
  <2> QED
    BY <1>1, <2>1, <2>2
<1>6. t[N + 1] = s[N] + x
  BY <1>4, <1>5 DEF G
<1> QED
  BY <1>6 DEF N, s, t, Sum

\* A sum of numbers from 0 to 100, where at most the elements of S are not 0.
LEMMA SumsAreBounded ==
  ASSUME NEW f \in Seq(Int), NEW S \in SUBSET (1..Len(f)), \A i \in 1..Len(f) : f[i] \in 0..(IF i \in S THEN 100 ELSE 0)
  PROVE  Cardinality(S) \in Nat /\ Sum(f) \in 0..(100 * Cardinality(S))
<1> DEFINE N == Len(f)
           s == Sums(f)
           c(n) == Cardinality(S \intersect 1..n)
           G == {n \in 0..N : c(n) \in Nat /\ s[n] \in 0..(100 * c(n))}
<1>1. N \in Nat /\ S \subseteq 1..N /\ \A k \in 1..N : f[k] \in 0..(IF k \in S THEN 100 ELSE 0)
  OBVIOUS
<1>2. Adds(s, f, N)
  BY SumsExist
<1> HIDE DEF N, s
<1>3. 0 \in G
  <2>1. S \intersect 1..0 = {}
    BY <1>1
  <2> QED
    BY <1>1, <1>2, <2>1, FS_EmptySet DEF Adds
<1>4. ASSUME NEW k \in 1..N, k - 1 \in G PROVE k \in G
  <2>1. IsFiniteSet(S \intersect 1..(k - 1))
    <3>1. k - 1 \in Int
      BY <1>1
    <3> QED
      BY <3>1, FS_Interval, FS_Subset
  <2>2. c(k) = IF k \in S THEN c(k - 1) + 1 ELSE c(k - 1)
    <3>1. CASE k \in S
      <4>1. S \intersect 1..k = (S \intersect 1..(k - 1)) \union {k} /\ k \notin S \intersect 1..(k - 1)
        BY <1>1, <3>1
      <4> QED
        BY <2>1, <3>1, <4>1, FS_AddElement
    <3>2. CASE k \notin S
      <4>1. S \intersect 1..k = S \intersect 1..(k - 1)
        BY <1>1, <3>2
      <4> QED
        BY <3>2, <4>1
    <3> QED
      BY <3>1, <3>2
  <2>3. s[k] = s[k - 1] + f[k] /\ s[k] \in Int /\ s[k - 1] \in Int
    BY <1>1, <1>2 DEF Adds
  <2>4. c(k - 1) \in Nat /\ s[k - 1] \in 0..(100 * c(k - 1)) /\ k \in 0..N /\ f[k] \in 0..(IF k \in S THEN 100 ELSE 0)
    BY <1>1, <1>4
  <2> HIDE DEF c, G
  <2>5. c(k) \in Nat /\ s[k] \in 0..(100 * c(k))
    <3>1. CASE k \in S
      BY <2>2, <2>3, <2>4, <3>1
    <3>2. CASE k \notin S
      <4>1. f[k] = 0 /\ c(k) = c(k - 1)
        BY <2>2, <2>4, <3>2
      <4>2. s[k] = s[k - 1]
        BY <2>3, <4>1
      <4> QED
        BY <2>4, <4>1, <4>2
    <3> QED
      BY <3>1, <3>2
  <2> QED
    BY <2>4, <2>5 DEF G
<1>5. N \in G
  <2> HIDE DEF G
  <2>1. 0..N \subseteq G
    BY <1>1, <1>3, <1>4, UpTheNumbers
  <2> QED
    BY <1>1, <2>1
<1>6. S \intersect 1..N = S
  BY <1>1
<1> QED
  BY <1>5, <1>6 DEF s, N, Sum

-----------------------------------------------------------------------------
(* The components of a score. *)

\* The elements of a list are at its indexes.
LEMMA ListsAreIndexed ==
  ASSUME NEW q, IsList(q)
  PROVE  Len(q) \in Nat /\ DOMAIN q = 1..Len(q) /\ \A i \in 1..Len(q) : q[i] \in ToSet(q)
<1>1. PICK S : S = ToSet(q)
  OBVIOUS
<1>2. q \in Seq(S)
  BY <1>1 DEF IsList
<1>3. Len(q) \in Nat /\ DOMAIN q = 1..Len(q) /\ \A i \in 1..Len(q) : q[i] \in S
  BY <1>2
<1> QED
  BY <1>1, <1>3

\* A sequence is a list of the elements it has.
LEMMA SequencesAreLists ==
  ASSUME NEW T, NEW p \in Seq(T)
  PROVE  IsList(p) /\ ToSet(p) \subseteq T
<1>1. PICK n, U : n = Len(p) /\ U = ToSet(p)
  OBVIOUS
<1>2. n \in Nat /\ DOMAIN p = 1..n /\ p = [i \in 1..n |-> p[i]] /\ \A i \in 1..n : p[i] \in T
  BY <1>1
<1>3. U \subseteq T /\ \A i \in 1..n : p[i] \in U
  BY <1>1, <1>2 DEF ToSet
<1>4. p \in [1..n -> U]
  BY <1>2, <1>3
<1>5. p \in Seq(U)
  BY <1>2, <1>4
<1> QED
  BY <1>1, <1>3, <1>5 DEF IsList

\* One element more.
LEMMA ListsAppend ==
  ASSUME NEW q, IsList(q), NEW x
  PROVE  /\ IsList(Append(q, x)) /\ ToSet(Append(q, x)) \subseteq ToSet(q) \union {x}
         /\ Len(Append(q, x)) = Len(q) + 1
         /\ Append(q, x)[Len(q) + 1] = x /\ \A i \in 1..Len(q) : Append(q, x)[i] = q[i]
<1>1. PICK T : T = ToSet(q) \union {x}
  OBVIOUS
<1>2. q \in Seq(T) /\ x \in T
  <2>1. PICK S : S = ToSet(q)
    OBVIOUS
  <2>2. q \in Seq(S) /\ S \subseteq T /\ x \in T
    BY <1>1, <2>1 DEF IsList
  <2> QED
    BY <2>2
<1>3. /\ Append(q, x) \in Seq(T) /\ Len(Append(q, x)) = Len(q) + 1
      /\ Append(q, x)[Len(q) + 1] = x /\ \A i \in 1..Len(q) : Append(q, x)[i] = q[i]
  BY <1>2
<1> QED
  BY <1>1, <1>3, SequencesAreLists

\* Greater numbers have greater quotients.
LEMMA QuotientsGrow ==
  ASSUME NEW a \in Int, NEW b \in Int, NEW d \in Nat \ {0}, a <= b
  PROVE  a \div d \in Int /\ b \div d \in Int /\ a \div d <= b \div d
<1>1. a = d * (a \div d) + (a % d) /\ a % d \in 0..(d - 1) /\ a \div d \in Int
  OBVIOUS
<1>2. b = d * (b \div d) + (b % d) /\ b % d \in 0..(d - 1) /\ b \div d \in Int
  OBVIOUS
<1>3. PICK p, q, m, n : p = a \div d /\ q = b \div d /\ m = a % d /\ n = b % d
  OBVIOUS
<1>4. p \in Int /\ q \in Int /\ m \in 0..(d - 1) /\ n \in 0..(d - 1) /\ d * p + m <= d * q + n
  BY <1>1, <1>2, <1>3
<1>5. ASSUME q < p PROVE FALSE
  <2>1. d * (q + 1) <= d * p
    BY <1>4, <1>5
  <2>2. d * (q + 1) = d * q + d
    BY <1>4
  <2> QED
    BY <1>4, <2>1, <2>2
<1> QED
  BY <1>1, <1>2, <1>3, <1>4, <1>5

\* A bounded number lies within its bounds, and bounds keep the order.
LEMMA BoundsKeepOrder ==
  ASSUME NEW a \in Int, NEW b \in Int, NEW low \in Int, NEW high \in Int, low <= high, a <= b
  PROVE  /\ Clamp(a, low, high) \in Int /\ low <= Clamp(a, low, high) /\ Clamp(a, low, high) <= high
         /\ Clamp(b, low, high) \in Int /\ Clamp(a, low, high) <= Clamp(b, low, high)
<1>1. PICK c, d : c = Clamp(a, low, high) /\ d = Clamp(b, low, high)
  OBVIOUS
<1>2. /\ \/ a < low /\ c = low
         \/ a > high /\ c = high
         \/ low <= a /\ a <= high /\ c = a
      /\ \/ b < low /\ d = low
         \/ b > high /\ d = high
         \/ low <= b /\ b <= high /\ d = b
  BY <1>1 DEF Clamp
<1> QED
  BY <1>1, <1>2

\* The points of a ratio are bounded.
LEMMA PointsKeepOrder ==
  ASSUME NEW a \in Int, NEW b \in Int, a <= b
  PROVE  /\ Clamp(30000 + a, 30000, 90000) \in Int /\ Clamp(30000 + b, 30000, 90000) \in Int
         /\ Clamp(30000 + a, 30000, 90000) <= Clamp(30000 + b, 30000, 90000)
<1>1. PICK p, q, low, high : p = 30000 + a /\ q = 30000 + b /\ low = 30000 /\ high = 90000
  OBVIOUS
<1>2. p \in Int /\ q \in Int /\ low \in Int /\ high \in Int /\ p <= q /\ low <= high
  BY <1>1
<1>3. Clamp(p, low, high) \in Int /\ Clamp(q, low, high) \in Int /\ Clamp(p, low, high) <= Clamp(q, low, high)
  BY <1>2, BoundsKeepOrder
<1> QED
  BY <1>1, <1>3

\* The score of a ratio grows with it.
LEMMA RatiosGrow ==
  ASSUME NEW v \in Int, NEW w \in Int, NEW weak \in Int, NEW excellent \in Int, weak < excellent, v <= w
  PROVE  /\ RatioScore(v, weak, excellent) \in Int /\ RatioScore(w, weak, excellent) \in Int
         /\ RatioScore(v, weak, excellent) <= RatioScore(w, weak, excellent)
<1> DEFINE d == excellent - weak
           x == (v - weak) * 60000
           y == (w - weak) * 60000
           a == x \div d
           b == y \div d
<1>1. RatioScore(v, weak, excellent) = Clamp(30000 + a, 30000, 90000)
  BY DEF RatioScore
<1>2. RatioScore(w, weak, excellent) = Clamp(30000 + b, 30000, 90000)
  BY DEF RatioScore
<1>3. d \in Nat \ {0} /\ x \in Int /\ y \in Int /\ x <= y
  OBVIOUS
<1> HIDE DEF d, x, y
<1>4. a \in Int /\ b \in Int /\ a <= b
  BY <1>3, QuotientsGrow
<1> HIDE DEF a, b
<1> QED
  BY <1>1, <1>2, <1>4, PointsKeepOrder

\* A ratio gives a number of points.
LEMMA RatioPoints ==
  ASSUME NEW v \in Int, NEW weak \in Int, NEW excellent \in Int, weak < excellent
  PROVE  RatioScore(v, weak, excellent) \in Int
<1>1. v <= v
  OBVIOUS
<1> QED
  BY <1>1, RatiosGrow

\* So does an inverse ratio.
LEMMA InversePoints ==
  ASSUME NEW v \in Int, NEW weak \in Int, NEW excellent \in Int, excellent < weak
  PROVE  InverseRatioScore(v, excellent, weak) \in Int
<1> DEFINE d == weak - excellent
           x == (weak - v) * 60000
           a == x \div d
<1>1. InverseRatioScore(v, excellent, weak) = Clamp(30000 + a, 30000, 90000)
  BY DEF InverseRatioScore
<1>2. d \in Nat \ {0} /\ x \in Int /\ x <= x
  OBVIOUS
<1> HIDE DEF d, x
<1>3. a \in Int /\ a <= a
  BY <1>2, QuotientsGrow
<1> HIDE DEF a
<1> QED
  BY <1>1, <1>3, PointsKeepOrder

\* A mix grows with each of its parts.
LEMMA MixesGrow ==
  ASSUME NEW a \in Int, NEW b \in Int, NEW c \in Int, NEW p \in 0..100, a <= c
  PROVE  /\ Mix(a, p, b) \in Int /\ Mix(c, p, b) \in Int /\ Mix(a, p, b) <= Mix(c, p, b)
         /\ Mix(b, p, a) \in Int /\ Mix(b, p, c) \in Int /\ Mix(b, p, a) <= Mix(b, p, c)
<1>1. a * p <= c * p /\ a * (100 - p) <= c * (100 - p)
  OBVIOUS
<1>2. a * p \in Int /\ c * p \in Int /\ b * (100 - p) \in Int
      /\ b * p \in Int /\ a * (100 - p) \in Int /\ c * (100 - p) \in Int
  OBVIOUS
<1>3. a * p + b * (100 - p) <= c * p + b * (100 - p) /\ b * p + a * (100 - p) <= b * p + c * (100 - p)
  BY <1>1, <1>2
<1> QED
  BY <1>2, <1>3, QuotientsGrow DEF Mix

\* A mix of numbers is a number.
LEMMA MixPoints ==
  ASSUME NEW a \in Int, NEW b \in Int, NEW p \in 0..100
  PROVE  Mix(a, p, b) \in Int
<1>1. a <= a
  OBVIOUS
<1> QED
  BY <1>1, MixesGrow

\* A ratio of numbers grows with the first.
LEMMA FractionsGrow ==
  ASSUME NEW a \in Int, NEW b \in Int, NEW d \in Int, d > 0, a <= b
  PROVE  Ratio(a, d) \in Int /\ Ratio(b, d) \in Int /\ Ratio(a, d) <= Ratio(b, d)
BY QuotientsGrow DEF Ratio

\* A value that is there when another is, and no less.
AtMost(a, b) == a # None => b # None /\ a <= b

\* The figures of a year.
FinancialFigures == Figures({"revenue", "operating", "net", "equity", "liabilities", "assets"})

\* The figures of an input are numbers or absent.
LEMMA InputsHaveFigures ==
  ASSUME NEW s, IsScoreInput(s)
  PROVE  /\ \A x \in {"revenue", "operating", "net", "equity", "liabilities", "assets"} : s.financials[x] \in OrNull(Int)
         /\ s.previous.revenue \in OrNull(Int) /\ s.previous.operating \in OrNull(Int)
         /\ PriceMetrics(s) # None =>
              \A x \in {"cap", "volume", "trading", "momentum", "volatility"} : PriceMetrics(s)[x] \in OrNull(Int)
<1>1. s.financials \in FinancialFigures /\ s.previous \in Figures({"revenue", "operating"})
      /\ s.price \in OrNull(Prices) /\ s.fallback \in OrNull(Prices)
  BY DEF IsScoreInput, FinancialFigures
<1>2. PriceMetrics(s) \in OrNull(Prices)
  BY <1>1 DEF PriceMetrics
<1> QED
  BY <1>1, <1>2 DEF FinancialFigures, Figures, Prices, OrNull

\* Financial stability has a number of points, or none.
LEMMA Stability == ASSUME NEW s, IsScoreInput(s) PROVE FinancialStability(s) \in OrNull(Int)
<1> DEFINE f == s.financials
           debt == InverseRatioScore(Ratio(f.liabilities, f.equity), 400, 1800)
<1> SUFFICES ASSUME f.liabilities \in Int, f.equity \in Int, f.equity > 0 PROVE FinancialStability(s) \in OrNull(Int)
  BY InputsHaveFigures DEF FinancialStability, OrNull, Known
<1>0. Ratio(f.liabilities, f.equity) \in Int
  BY FractionsGrow
<1>1. debt \in Int
  BY <1>0, InversePoints
<1>2. ASSUME f.assets # None, ~(f.assets <= 0) 
      PROVE  Mix(debt, 65, RatioScore(Ratio(f.equity, f.assets), 200, 700)) \in Int
  <2>1. f.assets \in Int /\ f.assets > 0
    BY <1>2, InputsHaveFigures DEF OrNull
  <2>2. Ratio(f.equity, f.assets) \in Int
    BY <2>1, FractionsGrow
  <2> DEFINE r == RatioScore(Ratio(f.equity, f.assets), 200, 700)
  <2>3. r \in Int
    BY <2>2, RatioPoints
  <2> HIDE DEF debt, r, f
  <2>4. Mix(debt, 65, r) \in Int
    BY <1>1, <2>3, MixPoints
  <2> QED
    BY <2>4 DEF r, debt, f
<1> QED
  BY <1>1, <1>2, NoneAssumption DEF FinancialStability, OrNull, Known

\* The profitability grows with the operating result.
LEMMA ProfitabilityGrows ==
  ASSUME NEW s, IsScoreInput(s), NEW t, IsScoreInput(t),
         \A x \in {"revenue", "net"} : t.financials[x] = s.financials[x],
         AtMost(s.financials.operating, t.financials.operating)
  PROVE  Profitability(s) \in OrNull(Int) /\ AtMost(Profitability(s), Profitability(t))
<1> DEFINE f == s.financials
           g == t.financials
           a == RatioScore(Ratio(f.operating, f.revenue), -50, 200)
           b == RatioScore(Ratio(g.operating, f.revenue), -50, 200)
           c == RatioScore(Ratio(f.net, f.revenue), -50, 150)
<1>1. g.revenue = f.revenue /\ g.net = f.net /\ f.revenue \in OrNull(Int) /\ f.operating \in OrNull(Int)
      /\ g.operating \in OrNull(Int) /\ f.net \in OrNull(Int)
  BY InputsHaveFigures
<1>2. CASE f.revenue \in Int /\ f.revenue > 0 /\ f.operating \in Int
  <2>1. g.operating \in Int /\ f.operating <= g.operating
    BY <1>1, <1>2, NoneAssumption DEF AtMost, OrNull
  <2>2. Ratio(f.operating, f.revenue) \in Int /\ Ratio(g.operating, f.revenue) \in Int
        /\ Ratio(f.operating, f.revenue) <= Ratio(g.operating, f.revenue)
    BY <1>2, <2>1, FractionsGrow
  <2>3. a \in Int /\ b \in Int /\ a <= b
    BY <2>2, RatiosGrow
  <2>4. ASSUME f.net # None
        PROVE  Mix(a, 65, c) \in Int /\ Mix(b, 65, c) \in Int /\ Mix(a, 65, c) <= Mix(b, 65, c)
    <3>1. Ratio(f.net, f.revenue) \in Int
      BY <1>1, <1>2, <2>4, FractionsGrow DEF OrNull
    <3>2. c \in Int
      BY <3>1, RatioPoints
    <3> HIDE DEF a, b, c
    <3> QED
      BY <2>3, <3>2, MixesGrow
  <2>5. Profitability(s) = IF f.net = None THEN a ELSE Mix(a, 65, c)
    BY <1>2, NoneAssumption DEF Profitability, Known
  <2>6. Profitability(t) = IF f.net = None THEN b ELSE Mix(b, 65, c)
    BY <1>1, <1>2, <2>1, NoneAssumption DEF Profitability, Known
  <2> HIDE DEF a, b, c
  <2> QED
    BY <2>3, <2>4, <2>5, <2>6, NoneAssumption DEF AtMost, OrNull
<1>3. CASE ~(f.revenue \in Int /\ f.revenue > 0 /\ f.operating \in Int)
  <2>1. Profitability(s) = None
    BY <1>1, <1>3 DEF Profitability, Known, OrNull
  <2> QED
    BY <2>1 DEF AtMost, OrNull
<1> QED
  BY <1>2, <1>3

\* The growth grows with the operating result.
LEMMA GrowthGrows ==
  ASSUME NEW s, IsScoreInput(s), NEW t, IsScoreInput(t),
         t.financials.revenue = s.financials.revenue, t.previous = s.previous,
         AtMost(s.financials.operating, t.financials.operating)
  PROVE  Growth(s) \in OrNull(Int) /\ AtMost(Growth(s), Growth(t))
<1> DEFINE f == s.financials
           g == t.financials
           p == s.previous
           r == RatioScore(Ratio(f.revenue - p.revenue, p.revenue), -150, 250)
           a == IncomeScore(f.operating, p.operating)
           b == IncomeScore(g.operating, p.operating)
<1>1. /\ g.revenue = f.revenue /\ t.previous = p
      /\ f.revenue \in OrNull(Int) /\ f.operating \in OrNull(Int)
      /\ g.operating \in OrNull(Int) /\ p.revenue \in OrNull(Int) /\ p.operating \in OrNull(Int)
  BY InputsHaveFigures
<1>2. CASE f.revenue \in Int /\ p.revenue \in Int /\ p.revenue > 0 /\ f.operating \in Int /\ p.operating \in Int
  <2>1. g.operating \in Int /\ f.operating <= g.operating
    BY <1>1, <1>2, NoneAssumption DEF AtMost, OrNull
  <2>2. r \in Int
    <3>1. f.revenue - p.revenue \in Int
      BY <1>2
    <3>2. Ratio(f.revenue - p.revenue, p.revenue) \in Int
      BY <1>2, <3>1, FractionsGrow
    <3> QED
      BY <3>2, RatioPoints
  <2>3. a \in Int /\ b \in Int /\ a <= b
    <3>1. CASE p.operating <= 0
      BY <1>2, <2>1, <3>1 DEF IncomeScore
    <3>2. CASE ~(p.operating <= 0)
      <4>1. /\ f.operating - p.operating \in Int /\ g.operating - p.operating \in Int /\ p.operating > 0
            /\ f.operating - p.operating <= g.operating - p.operating
        BY <1>2, <2>1, <3>2
      <4>2. /\ Ratio(f.operating - p.operating, p.operating) \in Int
            /\ Ratio(g.operating - p.operating, p.operating) \in Int
            /\ Ratio(f.operating - p.operating, p.operating) <= Ratio(g.operating - p.operating, p.operating)
        BY <1>2, <4>1, FractionsGrow
      <4>3. /\ a = RatioScore(Ratio(f.operating - p.operating, p.operating), -200, 300)
            /\ b = RatioScore(Ratio(g.operating - p.operating, p.operating), -200, 300)
        BY <3>2 DEF IncomeScore
      <4> QED
        BY <4>2, <4>3, RatiosGrow
    <3> QED
      BY <3>1, <3>2
  <2>4. Growth(s) = Mix(r, 60, a)
    BY <1>2, NoneAssumption DEF Growth, Known
  <2>5. Growth(t) = Mix(r, 60, b)
    BY <1>1, <1>2, <2>1, NoneAssumption DEF Growth, Known
  <2> HIDE DEF r, a, b
  <2>6. Mix(r, 60, a) \in Int /\ Mix(r, 60, b) \in Int /\ Mix(r, 60, a) <= Mix(r, 60, b)
    BY <2>2, <2>3, MixesGrow
  <2> QED
    BY <2>4, <2>5, <2>6, NoneAssumption DEF AtMost, OrNull
<1>3. CASE ~(f.revenue \in Int /\ p.revenue \in Int /\ p.revenue > 0 /\ f.operating \in Int /\ p.operating \in Int)
  <2>1. Growth(s) = None
    BY <1>1, <1>3 DEF Growth, Known, OrNull
  <2> QED
    BY <2>1 DEF AtMost, OrNull
<1> QED
  BY <1>2, <1>3

\* Valuation has a number of points, or none.
LEMMA ValuationPoints == ASSUME NEW s, IsScoreInput(s) PROVE Valuation(s) \in OrNull(Int)
<1> DEFINE p == PriceMetrics(s)
           f == s.financials
           per == InverseRatioScore(Ratio(p.cap, f.net), 8000, 35000)
           pbr == InverseRatioScore(Ratio(p.cap, f.equity), 800, 4000)
           earns == Known({f.net}) /\ (f.net # None => f.net > 0)
           owns == f.equity # None /\ (f.equity # None => f.equity > 0)
<1> SUFFICES ASSUME p # None, p.cap # None, ~(p.cap <= 0) PROVE Valuation(s) \in OrNull(Int)
  BY DEF Valuation, OrNull
<1>1. p.cap \in Int /\ f.net \in OrNull(Int) /\ f.equity \in OrNull(Int)
  BY InputsHaveFigures DEF OrNull
<1>2. earns => per \in Int
  <2> SUFFICES ASSUME earns PROVE per \in Int
    OBVIOUS
  <2>1. f.net \in Int /\ f.net > 0
    BY <1>1 DEF Known, OrNull
  <2>2. Ratio(p.cap, f.net) \in Int
    BY <1>1, <2>1, FractionsGrow
  <2> QED
    BY <2>2, InversePoints
<1>3. owns => pbr \in Int
  <2> SUFFICES ASSUME owns PROVE pbr \in Int
    OBVIOUS
  <2>1. f.equity \in Int /\ f.equity > 0
    BY <1>1 DEF OrNull
  <2>2. Ratio(p.cap, f.equity) \in Int
    BY <1>1, <2>1, FractionsGrow
  <2> QED
    BY <2>2, InversePoints
<1>4. Valuation(s) = CASE earns /\ owns -> (per + pbr) \div 2
                       [] earns /\ ~owns -> per
                       [] owns /\ ~earns -> pbr
                       [] OTHER -> None
  BY DEF Valuation
<1> HIDE DEF per, pbr, earns, owns
<1>5. CASE earns /\ owns
  BY <1>2, <1>3, <1>4, <1>5 DEF OrNull
<1>6. CASE ~(earns /\ owns)
  BY <1>2, <1>3, <1>4, <1>6 DEF OrNull
<1> QED
  BY <1>5, <1>6

\* So has liquidity.
LEMMA LiquidityPoints == ASSUME NEW s, IsScoreInput(s) PROVE Liquidity(s) \in OrNull(Int)
<1> DEFINE p == PriceMetrics(s)
           volume == RatioScore(p.volume, 100, 5000)
           trading == RatioScore(p.trading, 5, 300)
           market == RatioScore(p.cap, 1, 200)
<1> SUFFICES ASSUME p # None, Known({p.volume, p.trading}) PROVE Liquidity(s) \in OrNull(Int)
  BY DEF Liquidity, OrNull
<1>1. p.volume \in Int /\ p.trading \in Int /\ p.cap \in OrNull(Int)
  BY InputsHaveFigures DEF OrNull, Known
<1>2. volume \in Int /\ trading \in Int
  <2>1. volume \in Int
    BY <1>1, RatioPoints
  <2>2. trading \in Int
    BY <1>1, RatioPoints
  <2> QED
    BY <2>1, <2>2
<1>3. p.cap # None => market \in Int
  <2> SUFFICES ASSUME p.cap # None PROVE market \in Int
    OBVIOUS
  <2>1. p.cap \in Int
    BY <1>1 DEF OrNull
  <2> QED
    BY <2>1, RatioPoints
<1>4. Liquidity(s) = IF p.cap = None THEN Mix(volume, 45, trading)
                     ELSE (volume * 30 + trading * 45 + market * 25) \div 100
  BY DEF Liquidity
<1> HIDE DEF volume, trading, market
<1>5. Mix(volume, 45, trading) \in Int
  BY <1>2, MixPoints
<1> QED
  BY <1>2, <1>3, <1>4, <1>5 DEF OrNull

\* So have momentum and volatility.
LEMMA MomentumPoints == ASSUME NEW s, IsScoreInput(s) PROVE MomentumVolatility(s) \in OrNull(Int)
<1> DEFINE p == PriceMetrics(s)
           momentum == RatioScore(p.momentum, -100, 150)
           volatility == InverseRatioScore(p.volatility, 120, 550)
<1> SUFFICES ASSUME p # None, Known({p.momentum, p.volatility}) PROVE MomentumVolatility(s) \in OrNull(Int)
  BY DEF MomentumVolatility, OrNull
<1>1. p.momentum \in Int /\ p.volatility \in Int
  BY InputsHaveFigures DEF OrNull, Known
<1>2. momentum \in Int /\ volatility \in Int
  <2>1. momentum \in Int
    BY <1>1, RatioPoints
  <2>2. volatility \in Int
    BY <1>1, InversePoints
  <2> QED
    BY <2>1, <2>2
<1>3. MomentumVolatility(s) = Mix(momentum, 55, volatility)
  BY DEF MomentumVolatility
<1> HIDE DEF momentum, volatility, p
<1>4. Mix(momentum, 55, volatility) \in Int
  BY <1>2, MixPoints
<1> QED
  BY <1>3, <1>4 DEF OrNull

-----------------------------------------------------------------------------
(* Attention. *)

\* The evidence of a source and its confidences.
LEMMA ConfidencesAreShares ==
  ASSUME NEW s, IsScoreInput(s), NEW type
  PROVE  /\ IsFiniteSet(Of(s, type)) /\ Cardinality(Of(s, type)) \in Nat
         /\ Confidences(s, type) \in Seq(Int) /\ Len(Confidences(s, type)) = Len(s.evidence)
         /\ Sum(Confidences(s, type)) \in 0..(100 * Cardinality(Of(s, type)))
<1> DEFINE n == Len(s.evidence)
           S == Of(s, type)
           f == Confidences(s, type)
<1>1. /\ n \in Nat /\ DOMAIN s.evidence = 1..n
      /\ \A i \in 1..n : s.evidence[i] \in ToSet(s.evidence)
  BY ListsAreIndexed DEF IsScoreInput
<1>2. \A i \in 1..n : s.evidence[i].confidence \in 0..100
  BY <1>1 DEF IsScoreInput
<1>3. S \subseteq 1..n
  BY <1>1 DEF Of
<1>4. f = [i \in 1..n |-> IF i \in S THEN s.evidence[i].confidence ELSE 0]
  BY DEF Confidences
<1> HIDE DEF n, S, f
<1>5. f \in Seq(Int) /\ Len(f) = n /\ \A i \in 1..n : f[i] \in 0..(IF i \in S THEN 100 ELSE 0)
  <2>1. \A i \in 1..n : (IF i \in S THEN s.evidence[i].confidence ELSE 0) \in 0..(IF i \in S THEN 100 ELSE 0)
    BY <1>2
  <2>2. \A i \in 1..n : f[i] \in 0..(IF i \in S THEN 100 ELSE 0)
    BY <1>4, <2>1
  <2>3. f \in [1..n -> Int]
    <3>1. \A i \in 1..n : (IF i \in S THEN s.evidence[i].confidence ELSE 0) \in Int
      BY <1>2
    <3> QED
      BY <1>4, <3>1
  <2> QED
    BY <1>1, <2>2, <2>3
<1>6. Cardinality(S) \in Nat /\ Sum(f) \in 0..(100 * Cardinality(S))
  BY <1>3, <1>5, SumsAreBounded
<1>7. IsFiniteSet(S)
  <2>1. IsFiniteSet(1..n)
    BY <1>1, FS_Interval
  <2> QED
    BY <1>3, <2>1, FS_Subset
<1> QED
  BY <1>5, <1>6, <1>7 DEF S, f, n

\* The points of attention: as many as the evidence and its mean confidence have.
LEMMA AttentionPoints ==
  ASSUME NEW s, IsScoreInput(s), NEW type, NEW base \in Int, NEW each \in Int, NEW trust \in Int
  PROVE  Attention(s, type, base, each, trust) \in OrNull(Int)
<1> DEFINE n == Cardinality(Of(s, type))
           mean == Sum(Confidences(s, type)) \div n
<1>1. n \in Nat /\ Sum(Confidences(s, type)) \in Int
  BY ConfidencesAreShares
<1>2. ASSUME n # 0 PROVE Clamp(base + each * n + trust * mean, 0, 100000) \in Int
  <2>1. mean \in Int
    BY <1>1, <1>2
  <2> HIDE DEF mean, n
  <2>2. base + each * n + trust * mean \in Int
    BY <1>1, <2>1
  <2> HIDE DEF mean, n
  <2> QED
    BY <2>2, BoundsKeepOrder
<1> QED
  BY <1>2 DEF Attention, OrNull

-----------------------------------------------------------------------------
(* The total. *)

\* The components by their numbers.
Names == <<"financial_stability", "profitability", "growth", "valuation", "news_attention",
           "disclosure_event", "liquidity", "momentum_volatility">>
\* Their weights.
Weights == <<20, 15, 15, 10, 10, 10, 10, 10>>
Raw(s, i) ==
  CASE i = 1 -> FinancialStability(s) [] i = 2 -> Profitability(s) [] i = 3 -> Growth(s) [] i = 4 -> Valuation(s)
    [] i = 5 -> NewsAttention(s) [] i = 6 -> DisclosureEvent(s) [] i = 7 -> Liquidity(s) [] i = 8 -> MomentumVolatility(s)
Weighted(s, i) == IF Raw(s, i) = None THEN 0 ELSE (Clamp(Raw(s, i), 0, 100000) * Weights[i]) \div 100

\* A component is one of eight.
LEMMA EightCases ==
  ASSUME NEW i \in 1..8
  PROVE  i = 1 \/ i = 2 \/ i = 3 \/ i = 4 \/ i = 5 \/ i = 6 \/ i = 7 \/ i = 8
OBVIOUS

\* Each component is made of its name, its weight and its points.
LEMMA ComponentsAreEight ==
  ASSUME NEW s, NEW i \in 1..8
  PROVE  Components(s)[i] = Component(s, Names[i], Weights[i], Raw(s, i))
<1>1. CASE i = 1
  BY <1>1 DEF Components, Names, Weights, Raw
<1>2. CASE i = 2
  BY <1>2 DEF Components, Names, Weights, Raw
<1>3. CASE i = 3
  BY <1>3 DEF Components, Names, Weights, Raw
<1>4. CASE i = 4
  BY <1>4 DEF Components, Names, Weights, Raw
<1>5. CASE i = 5
  BY <1>5 DEF Components, Names, Weights, Raw
<1>6. CASE i = 6
  BY <1>6 DEF Components, Names, Weights, Raw
<1>7. CASE i = 7
  BY <1>7 DEF Components, Names, Weights, Raw
<1>8. CASE i = 8
  BY <1>8 DEF Components, Names, Weights, Raw
<1> QED
  BY <1>1, <1>2, <1>3, <1>4, <1>5, <1>6, <1>7, <1>8, EightCases

\* The fields of a component. (A Boolean field equals its condition.)
LEMMA FieldsOfComponents ==
  ASSUME NEW s, NEW name, NEW weight, NEW raw
  PROVE  LET c == Component(s, name, weight, raw) IN
         /\ c.weight = weight /\ c.evidence = EvidenceFor(s, name)
         /\ c.weighted = IF raw = None THEN 0 ELSE (Clamp(raw, 0, 100000) * weight) \div 100
BY DEF Component

\* What a component says of its inputs.
LEMMA ConditionsOfComponents ==
  ASSUME NEW s, NEW name, NEW weight, NEW raw
  PROVE  LET c == Component(s, name, weight, raw) IN
         /\ c.missing = (raw = None)
         /\ c.fallback = (name \in {"valuation", "liquidity", "momentum_volatility"} /\ UsesFallback(s))
BY SMT DEF Component

\* The fields of each of the eight.
LEMMA ComponentFields ==
  ASSUME NEW s, NEW i \in 1..8
  PROVE  /\ Components(s)[i].weighted = Weighted(s, i) /\ Components(s)[i].weight = Weights[i]
         /\ Components(s)[i].evidence = EvidenceFor(s, Names[i])
         /\ Components(s)[i].missing => Raw(s, i) = None
         /\ Components(s)[i].fallback => UsesFallback(s)
<1>1. PICK c, name, weight, raw : /\ name = Names[i] /\ weight = Weights[i] /\ raw = Raw(s, i)
                                  /\ c = Component(s, name, weight, raw)
  OBVIOUS
<1>2. Components(s)[i] = c
  BY <1>1, ComponentsAreEight
<1>3. c.weight = weight /\ c.evidence = EvidenceFor(s, name)
  BY <1>1, FieldsOfComponents
<1>4. c.weighted = IF raw = None THEN 0 ELSE (Clamp(raw, 0, 100000) * weight) \div 100
  BY <1>1, FieldsOfComponents
<1>5. c.weighted = Weighted(s, i)
  BY <1>1, <1>4 DEF Weighted
<1>6. c.missing => raw = None
  BY <1>1, ConditionsOfComponents, Zenon
<1>7. c.fallback => UsesFallback(s)
  BY <1>1, ConditionsOfComponents, Zenon
<1> QED
  BY <1>1, <1>2, <1>3, <1>5, <1>6, <1>7, Zenon

\* Points are numbers or absent.
LEMMA RawsAreNumbers ==
  ASSUME NEW s, IsScoreInput(s), NEW i \in 1..8
  PROVE  Raw(s, i) \in OrNull(Int)
<1>0. AtMost(s.financials.operating, s.financials.operating)
  BY InputsHaveFigures DEF AtMost, OrNull
<1>1. CASE i = 1
  BY <1>1, Stability DEF Raw
<1>2. CASE i = 2
  BY <1>0, <1>2, ProfitabilityGrows DEF Raw
<1>3. CASE i = 3
  BY <1>0, <1>3, GrowthGrows DEF Raw
<1>4. CASE i = 4
  BY <1>4, ValuationPoints DEF Raw
<1>5. CASE i = 5
  BY <1>5, AttentionPoints DEF Raw, NewsAttention
<1>6. CASE i = 6
  BY <1>6, AttentionPoints DEF Raw, DisclosureEvent
<1>7. CASE i = 7
  BY <1>7, LiquidityPoints DEF Raw
<1>8. CASE i = 8
  BY <1>8, MomentumPoints DEF Raw
<1> QED
  BY <1>1, <1>2, <1>3, <1>4, <1>5, <1>6, <1>7, <1>8, EightCases

\* Weighted points are not negative, and grow with the points.
LEMMA WeightsKeepOrder ==
  ASSUME NEW s, IsScoreInput(s), NEW t, IsScoreInput(t), NEW i \in 1..8, AtMost(Raw(s, i), Raw(t, i))
  PROVE  Weighted(s, i) \in Nat /\ Weighted(t, i) \in Nat /\ Weighted(s, i) <= Weighted(t, i)
<1> DEFINE w == Weights[i]
           x == Raw(s, i)
           y == Raw(t, i)
<1>1. w \in 10..20
  BY EightCases DEF Weights
<1>2. x \in OrNull(Int) /\ y \in OrNull(Int) /\ AtMost(x, y)
  BY RawsAreNumbers
<1>3. /\ Weighted(s, i) = IF x = None THEN 0 ELSE (Clamp(x, 0, 100000) * w) \div 100
      /\ Weighted(t, i) = IF y = None THEN 0 ELSE (Clamp(y, 0, 100000) * w) \div 100
  BY DEF Weighted
<1> HIDE DEF w, x, y
<1>4. ASSUME NEW a \in Int, NEW b \in Int, a <= b
      PROVE  /\ (Clamp(a, 0, 100000) * w) \div 100 \in Nat /\ (Clamp(b, 0, 100000) * w) \div 100 \in Nat
             /\ (Clamp(a, 0, 100000) * w) \div 100 <= (Clamp(b, 0, 100000) * w) \div 100
  <2>1. PICK c, d : c = Clamp(a, 0, 100000) /\ d = Clamp(b, 0, 100000)
    OBVIOUS
  <2>2. c \in Int /\ d \in Int /\ 0 <= c /\ c <= d
    BY <1>4, <2>1, BoundsKeepOrder
  <2>3. c * w \in Int /\ d * w \in Int /\ c * w <= d * w /\ 0 <= c * w
    BY <1>1, <2>2
  <2>4. PICK m, n : m = c * w /\ n = d * w
    OBVIOUS
  <2>5. m \div 100 \in Int /\ n \div 100 \in Int /\ m \div 100 <= n \div 100 /\ 0 <= m \div 100
    BY <2>3, <2>4
  <2> QED
    BY <2>1, <2>4, <2>5
<1>5. CASE x = None /\ y = None
  BY <1>3, <1>5
<1>6. CASE x = None /\ y # None
  <2>1. y \in Int
    BY <1>2, <1>6 DEF OrNull
  <2>2. (Clamp(y, 0, 100000) * w) \div 100 \in Nat
    BY <1>4, <2>1
  <2> QED
    BY <1>3, <1>6, <2>2
<1>7. CASE x # None
  <2>1. x \in Int /\ y \in Int /\ y # None /\ x <= y
    BY <1>2, <1>7, NoneAssumption DEF AtMost, OrNull
  <2> QED
    BY <1>3, <1>4, <1>7, <2>1
<1> QED
  BY <1>5, <1>6, <1>7

\* A function on the first numbers is a sequence.
LEMMA FunctionsAreSequences ==
  ASSUME NEW n \in Nat, NEW f \in [1..n -> Int]
  PROVE  f \in Seq(Int) /\ Len(f) = n
OBVIOUS

\* The points and the penalties that add up to the total.
Points(s) == [i \in 1..8 |-> Weighted(s, i)]
Penalties(s) == [i \in 1..Len(s.risks) |-> s.risks[i].penalty]

\* The total of a score.
LEMMA TotalsAreSums ==
  ASSUME NEW s
  PROVE  Score(s).total = TotalScore(Sum(Points(s)), Sum(Penalties(s)))
<1>1. Score(s).total = TotalScore(Sum([i \in 1..8 |-> Components(s)[i].weighted]), Sum(Penalties(s)))
  BY DEF Score, Penalties
<1>2. [i \in 1..8 |-> Components(s)[i].weighted] = Points(s)
  BY ComponentFields DEF Points
<1> QED
  BY <1>1, <1>2

\* Weighted points and penalties are numbers.
LEMMA PointsAreNumbers ==
  ASSUME NEW s, IsScoreInput(s)
  PROVE  /\ Points(s) \in Seq(Int) /\ Len(Points(s)) = 8
         /\ Len(s.risks) \in Nat /\ DOMAIN s.risks = 1..Len(s.risks)
         /\ Penalties(s) \in Seq(Int) /\ Len(Penalties(s)) = Len(s.risks)
         /\ \A i \in 1..Len(s.risks) : Penalties(s)[i] = s.risks[i].penalty /\ Penalties(s)[i] \in Nat
<1>1. \A i \in 1..8 : Weighted(s, i) \in Int
  <2> TAKE i \in 1..8
  <2>1. Raw(s, i) \in OrNull(Int)
    BY RawsAreNumbers
  <2>2. AtMost(Raw(s, i), Raw(s, i))
    BY <2>1 DEF AtMost, OrNull
  <2> QED
    BY <2>2, WeightsKeepOrder
<1>2. Points(s) \in [1..8 -> Int]
  BY <1>1 DEF Points
<1>3. Len(s.risks) \in Nat /\ DOMAIN s.risks = 1..Len(s.risks) /\ \A i \in 1..Len(s.risks) : s.risks[i] \in ToSet(s.risks)
  BY ListsAreIndexed DEF IsScoreInput
<1>4. \A i \in 1..Len(s.risks) : s.risks[i].penalty \in Nat
  BY <1>3 DEF IsScoreInput
<1>5. Penalties(s) \in [1..Len(s.risks) -> Int]
  BY <1>4 DEF Penalties
<1>6. Len(s.risks) \in Nat /\ DOMAIN s.risks = 1..Len(s.risks)
  BY <1>3
<1>7. \A i \in 1..Len(s.risks) : Penalties(s)[i] = s.risks[i].penalty
  BY DEF Penalties
<1>8. Points(s) \in Seq(Int) /\ Len(Points(s)) = 8
  <2>1. 8 \in Nat
    OBVIOUS
  <2> QED
    BY <1>2, <2>1, FunctionsAreSequences
<1>9. Penalties(s) \in Seq(Int) /\ Len(Penalties(s)) = Len(s.risks)
  BY <1>5, <1>6, FunctionsAreSequences
<1>10. \A i \in 1..Len(s.risks) : Penalties(s)[i] = s.risks[i].penalty /\ Penalties(s)[i] \in Nat
  BY <1>4, <1>7
<1> QED
  BY <1>6, <1>8, <1>9, <1>10

\* A total is a number of points, and grows with the sum less the penalties.
LEMMA TotalsKeepOrder ==
  ASSUME NEW a \in Int, NEW b \in Int, NEW p \in Int, NEW q \in Int, a - p <= b - q
  PROVE  TotalScore(a, p) \in Int /\ 0 <= TotalScore(a, p) /\ TotalScore(a, p) <= 100000
         /\ TotalScore(a, p) <= TotalScore(b, q)
<1> DEFINE x == ((a - p + 50) \div 100) * 100
           y == ((b - q + 50) \div 100) * 100
<1>1. x \in Int /\ y \in Int /\ x <= y
  OBVIOUS
<1>2. PICK low, high : low = 0 /\ high = 100000
  OBVIOUS
<1>3. TotalScore(a, p) = Clamp(x, 0, 100000) /\ TotalScore(b, q) = Clamp(y, 0, 100000)
  BY DEF TotalScore
<1> HIDE DEF x, y
<1>4. TotalScore(a, p) = Clamp(x, low, high) /\ TotalScore(b, q) = Clamp(y, low, high)
  BY <1>2, <1>3
<1>5. low \in Int /\ high \in Int /\ low <= high /\ y <= y
  BY <1>1, <1>2
<1>6. /\ Clamp(x, low, high) \in Int /\ low <= Clamp(x, low, high) /\ Clamp(x, low, high) <= high
      /\ Clamp(y, low, high) \in Int /\ Clamp(x, low, high) <= Clamp(y, low, high)
  BY <1>1, <1>5, BoundsKeepOrder
<1> QED
  BY <1>2, <1>4, <1>6

\* A score with no less of each component and no greater penalties is no lower.
LEMMA ScoresKeepOrder ==
  ASSUME NEW s, IsScoreInput(s), NEW t, IsScoreInput(t),
         \A i \in 1..8 : AtMost(Raw(s, i), Raw(t, i)),
         Sum(Penalties(t)) <= Sum(Penalties(s))
  PROVE  0 <= Score(s).total /\ Score(s).total <= 100000 /\ Score(s).total <= Score(t).total
<1>1. Sum(Points(s)) \in Int /\ Sum(Points(t)) \in Int /\ Sum(Penalties(s)) \in Int /\ Sum(Penalties(t)) \in Int
  BY PointsAreNumbers, SumsAreNumbers
<1>2. \A i \in 1..8 : Points(s)[i] <= Points(t)[i]
  BY WeightsKeepOrder DEF Points
<1>3. Sum(Points(s)) <= Sum(Points(t))
  BY <1>2, PointsAreNumbers, SumsGrow
<1>4. Sum(Points(s)) - Sum(Penalties(s)) <= Sum(Points(t)) - Sum(Penalties(t))
  BY <1>1, <1>3
<1>5. PICK a, b, p, q : a = Sum(Points(s)) /\ b = Sum(Points(t)) /\ p = Sum(Penalties(s)) /\ q = Sum(Penalties(t))
  OBVIOUS
<1>6. a \in Int /\ b \in Int /\ p \in Int /\ q \in Int /\ a - p <= b - q
  BY <1>1, <1>4, <1>5
<1>7. PICK x, y : x = TotalScore(a, p) /\ y = TotalScore(b, q)
  OBVIOUS
<1>8. x <= y
  BY <1>6, <1>7, TotalsKeepOrder
<1>9. x \in Int /\ 0 <= x /\ x <= 100000
  BY <1>6, <1>7, TotalsKeepOrder
<1>10. Score(s).total = x /\ Score(t).total = y
  BY <1>5, <1>7, TotalsAreSums
<1> QED
  BY <1>8, <1>9, <1>10

\* A score without any component is 0.
LEMMA NothingScoresNothing ==
  ASSUME NEW s, IsScoreInput(s), \A i \in 1..8 : Raw(s, i) = None
  PROVE  Score(s).total = 0
<1>1. \A i \in 1..8 : Points(s)[i] \in 0..(IF i \in {} THEN 100 ELSE 0)
  BY DEF Points, Weighted
<1>2. Points(s) \in Seq(Int) /\ Len(Points(s)) = 8 /\ Penalties(s) \in Seq(Int)
  BY PointsAreNumbers
<1>3. Sum(Points(s)) \in 0..(100 * Cardinality({}))
  BY <1>1, <1>2, SumsAreBounded
<1>4. Sum(Points(s)) = 0
  BY <1>3, FS_EmptySet
<1>5. Sum(Penalties(s)) \in Int /\ 0 <= Sum(Penalties(s))
  <2> DEFINE f == Penalties(s)
             g == [i \in 1..Len(f) |-> 0]
  <2>1. f \in Seq(Int) /\ Len(f) \in Nat /\ g \in Seq(Int) /\ Len(g) = Len(f) /\ \A i \in 1..Len(g) : g[i] <= f[i]
    <3>1. f \in Seq(Int) /\ Len(f) \in Nat /\ \A i \in 1..Len(f) : f[i] \in Nat
      BY PointsAreNumbers
    <3> HIDE DEF f
    <3>2. g \in Seq(Int) /\ Len(g) = Len(f) /\ \A i \in 1..Len(f) : g[i] = 0
      BY <3>1
    <3> QED
      BY <3>1, <3>2
  <2>2. Sum(g) <= Sum(f)
    BY <2>1, SumsGrow
  <2>3. \A i \in 1..Len(g) : g[i] \in 0..(IF i \in {} THEN 100 ELSE 0)
    BY <2>1
  <2>4. Sum(g) \in 0..(100 * Cardinality({}))
    BY <2>1, <2>3, SumsAreBounded
  <2>5. Sum(g) = 0
    BY <2>4, FS_EmptySet
  <2>6. Sum(f) \in Int
    BY <2>1, SumsAreNumbers
  <2> QED
    BY <2>2, <2>5, <2>6
<1>6. TotalScore(0, Sum(Penalties(s))) = 0
  BY <1>5 DEF TotalScore, Clamp
<1> QED
  BY <1>4, <1>6, TotalsAreSums

-----------------------------------------------------------------------------
(* What changes a score. *)

\* A component has the points its inputs give.
LEMMA SameFigures ==
  ASSUME NEW s, NEW t, t.financials = s.financials, t.previous = s.previous, t.price = s.price, t.fallback = s.fallback,
         NEW i \in {1, 2, 3, 4, 7, 8}
  PROVE  Raw(t, i) = Raw(s, i)
<1>1. PriceMetrics(t) = PriceMetrics(s)
  BY DEF PriceMetrics
<1>2. FinancialStability(t) = FinancialStability(s)
  BY DEF FinancialStability
<1>3. Profitability(t) = Profitability(s)
  BY DEF Profitability
<1>4. Growth(t) = Growth(s)
  BY DEF Growth
<1>5. Valuation(t) = Valuation(s)
  BY <1>1 DEF Valuation
<1>6. Liquidity(t) = Liquidity(s)
  BY <1>1 DEF Liquidity
<1>7. MomentumVolatility(t) = MomentumVolatility(s)
  BY <1>1 DEF MomentumVolatility
<1> QED
  BY <1>2, <1>3, <1>4, <1>5, <1>6, <1>7 DEF Raw

\* Attention has the points its evidence gives.
LEMMA SameEvidence ==
  ASSUME NEW s, NEW t, NEW type, Of(t, type) = Of(s, type), Sum(Confidences(t, type)) = Sum(Confidences(s, type)),
         NEW base, NEW each, NEW trust
  PROVE  Attention(t, type, base, each, trust) = Attention(s, type, base, each, trust)
BY DEF Attention

\* Points are at most themselves.
LEMMA PointsAtMostThemselves ==
  ASSUME NEW s, IsScoreInput(s), NEW i \in 1..8
  PROVE  AtMost(Raw(s, i), Raw(s, i))
<1>1. Raw(s, i) \in OrNull(Int)
  BY RawsAreNumbers
<1> QED
  BY <1>1 DEF AtMost, OrNull

\* A risk more.
LEMMA RisksLower ==
  ASSUME NEW s, IsScoreInput(s)
  PROVE  Score(Worse(s)).total <= Score(s).total
<1> DEFINE t == Worse(s)
           r == [tag |-> "extra", penalty |-> 3000]
<1>1. IsList(s.risks) /\ \A x \in ToSet(s.risks) : x.penalty \in Nat
  BY DEF IsScoreInput
<1>2. t = [s EXCEPT !.risks = Append(s.risks, r)]
  BY DEF Worse
<1>3. r.penalty = 3000
  OBVIOUS
<1> HIDE DEF t, r
<1>4. PICK risks : risks = Append(s.risks, r)
  OBVIOUS
<1>5. /\ IsList(risks) /\ Len(risks) = Len(s.risks) + 1 /\ Len(s.risks) \in Nat
      /\ risks[Len(risks)] = r /\ \A i \in 1..Len(s.risks) : risks[i] = s.risks[i]
      /\ \A x \in ToSet(risks) : x.penalty \in Nat
  <2>1. /\ IsList(risks) /\ ToSet(risks) \subseteq ToSet(s.risks) \union {r} /\ Len(risks) = Len(s.risks) + 1
        /\ risks[Len(s.risks) + 1] = r /\ \A i \in 1..Len(s.risks) : risks[i] = s.risks[i]
    BY <1>1, <1>4, ListsAppend
  <2>2. Len(s.risks) \in Nat
    BY <1>1, ListsAreIndexed
  <2> QED
    BY <1>1, <1>3, <2>1, <2>2
<1>6. /\ IsScoreInput(t) /\ t.risks = risks /\ t.evidence = s.evidence
      /\ t.financials = s.financials /\ t.previous = s.previous /\ t.price = s.price /\ t.fallback = s.fallback
  BY <1>2, <1>4, <1>5 DEF IsScoreInput, HasFields
<1>7. \A i \in 1..8 : AtMost(Raw(t, i), Raw(s, i))
  <2>1. \A i \in {1, 2, 3, 4, 7, 8} : Raw(t, i) = Raw(s, i)
    BY <1>6, SameFigures
  <2>2. NewsAttention(t) = NewsAttention(s) /\ DisclosureEvent(t) = DisclosureEvent(s)
    BY <1>6 DEF NewsAttention, DisclosureEvent, Attention, Of, Confidences
  <2>3. Raw(t, 5) = Raw(s, 5) /\ Raw(t, 6) = Raw(s, 6)
    BY <2>2 DEF Raw
  <2>4. \A i \in 1..8 : Raw(t, i) = Raw(s, i)
    BY <2>1, <2>3, EightCases
  <2> QED
    BY <2>4, PointsAtMostThemselves
<1>8. Sum(Penalties(t)) = Sum(Penalties(s)) + 3000
  <2>1. Len(Penalties(t)) = Len(Penalties(s)) + 1 /\ Penalties(t)[Len(Penalties(t))] = 3000
    <3>1. Len(Penalties(t)) = Len(risks) /\ Len(Penalties(s)) = Len(s.risks) /\ Len(s.risks) \in Nat
      BY <1>6, PointsAreNumbers
    <3>2. Len(risks) \in 1..Len(risks)
      BY <1>5, <3>1
    <3>3. Penalties(t)[Len(risks)] = risks[Len(risks)].penalty
      BY <1>6, <3>2, PointsAreNumbers
    <3> QED
      BY <1>3, <1>5, <3>1, <3>3
  <2>2. \A i \in 1..Len(Penalties(s)) : Penalties(t)[i] = Penalties(s)[i]
    <3>1. /\ Len(Penalties(s)) = Len(s.risks) /\ Len(s.risks) \in Nat /\ Len(t.risks) = Len(s.risks) + 1
          /\ \A i \in 1..Len(s.risks) : Penalties(s)[i] = s.risks[i].penalty
          /\ \A i \in 1..Len(t.risks) : Penalties(t)[i] = t.risks[i].penalty
      BY <1>5, <1>6, PointsAreNumbers
    <3>2. \A i \in 1..Len(s.risks) : i \in 1..Len(t.risks)
      BY <3>1
    <3> QED
      BY <1>5, <1>6, <3>1, <3>2
  <2>3. 3000 \in Int /\ Penalties(s) \in Seq(Int) /\ Penalties(t) \in Seq(Int)
    BY <1>6, PointsAreNumbers
  <2> QED
    BY <2>1, <2>2, <2>3, SumsAppend
<1>9. Sum(Penalties(s)) \in Int
  BY PointsAreNumbers, SumsAreNumbers
<1>10. Sum(Penalties(s)) <= Sum(Penalties(t))
  BY <1>8, <1>9
<1> QED
  BY <1>6, <1>7, <1>10, ScoresKeepOrder DEF t

\* A higher operating income.
LEMMA EarningRaises ==
  ASSUME NEW s, IsScoreInput(s), s.financials.operating # None
  PROVE  Score(Earning(s)).total >= Score(s).total
<1> DEFINE t == Earning(s)
           names == {"revenue", "operating", "net", "equity", "liabilities", "assets"}
<1>1. s.financials \in [names -> OrNull(Int)] /\ s.financials.operating \in Int
  BY InputsHaveFigures DEF IsScoreInput, Figures, OrNull
<1>2. PICK f : f = [s.financials EXCEPT !.operating = s.financials.operating + 40]
  OBVIOUS
<1>3. /\ f \in [names -> OrNull(Int)] /\ f.operating = s.financials.operating + 40
      /\ \A x \in names \ {"operating"} : f[x] = s.financials[x]
  BY <1>1, <1>2 DEF OrNull
<1>4. t = [s EXCEPT !.financials = f]
  BY <1>2 DEF Earning
<1> HIDE DEF t
<1>5. /\ IsScoreInput(t) /\ t.risks = s.risks /\ t.evidence = s.evidence
      /\ t.financials = f /\ t.previous = s.previous /\ t.price = s.price /\ t.fallback = s.fallback
  BY <1>3, <1>4 DEF IsScoreInput, HasFields, Figures
<1>6. AtMost(s.financials.operating, f.operating)
  BY <1>1, <1>3, NoneAssumption DEF AtMost
<1>7. AtMost(Raw(s, 1), Raw(t, 1))
  <2>1. FinancialStability(t) = FinancialStability(s)
    BY <1>3, <1>5 DEF FinancialStability
  <2>2. Raw(t, 1) = Raw(s, 1)
    BY <2>1 DEF Raw
  <2> QED
    BY <2>2, PointsAtMostThemselves
<1>8. AtMost(Raw(s, 2), Raw(t, 2))
  BY <1>3, <1>5, <1>6, ProfitabilityGrows DEF Raw
<1>9. AtMost(Raw(s, 3), Raw(t, 3))
  BY <1>3, <1>5, <1>6, GrowthGrows DEF Raw
<1>10. AtMost(Raw(s, 4), Raw(t, 4))
  <2>1. PriceMetrics(t) = PriceMetrics(s)
    BY <1>5 DEF PriceMetrics
  <2>2. Valuation(t) = Valuation(s)
    <3>1. t.financials.net = s.financials.net /\ t.financials.equity = s.financials.equity
      BY <1>3, <1>5
    <3> QED
      BY <2>1, <3>1 DEF Valuation
  <2>3. Raw(t, 4) = Raw(s, 4)
    BY <2>2 DEF Raw
  <2> QED
    BY <2>3, PointsAtMostThemselves
<1>11. \A i \in 5..8 : AtMost(Raw(s, i), Raw(t, i))
  <2>1. PriceMetrics(t) = PriceMetrics(s)
    BY <1>5 DEF PriceMetrics
  <2>2. NewsAttention(t) = NewsAttention(s) /\ DisclosureEvent(t) = DisclosureEvent(s)
    BY <1>5 DEF NewsAttention, DisclosureEvent, Attention, Of, Confidences
  <2>3. Liquidity(t) = Liquidity(s) /\ MomentumVolatility(t) = MomentumVolatility(s)
    BY <2>1 DEF Liquidity, MomentumVolatility
  <2>4. \A i \in 5..8 : Raw(t, i) = Raw(s, i)
    <3>1. Raw(t, 5) = Raw(s, 5) /\ Raw(t, 6) = Raw(s, 6)
      BY <2>2 DEF Raw
    <3>2. Raw(t, 7) = Raw(s, 7) /\ Raw(t, 8) = Raw(s, 8)
      BY <2>3 DEF Raw
    <3>3. \A i \in 5..8 : i = 5 \/ i = 6 \/ i = 7 \/ i = 8
      OBVIOUS
    <3> QED
      BY <3>1, <3>2, <3>3
  <2> QED
    BY <2>4, PointsAtMostThemselves
<1>12. \A i \in 1..8 : AtMost(Raw(s, i), Raw(t, i))
  BY <1>7, <1>8, <1>9, <1>10, <1>11, EightCases
<1>13. Sum(Penalties(t)) <= Sum(Penalties(s))
  <2>1. Penalties(t) = Penalties(s)
    BY <1>5 DEF Penalties
  <2>2. Sum(Penalties(s)) \in Int
    BY PointsAreNumbers, SumsAreNumbers
  <2> QED
    BY <2>1, <2>2
<1>14. Score(s).total <= Score(t).total
  BY <1>5, <1>12, <1>13, ScoresKeepOrder
<1>15. 0 <= Score(s).total
  BY <1>5, <1>12, <1>13, ScoresKeepOrder
<1> QED
  BY <1>14 DEF t

\* The points of news grow with one more, even of no confidence: its share of the count is
\* more than it can take from the mean.
LEMMA NewsGrows ==
  ASSUME NEW s, IsScoreInput(s), NEW t, IsScoreInput(t),
         Cardinality(Of(t, "news")) = Cardinality(Of(s, "news")) + 1,
         Sum(Confidences(t, "news")) >= Sum(Confidences(s, "news"))
  PROVE  AtMost(NewsAttention(s), NewsAttention(t))
<1> DEFINE n == Cardinality(Of(s, "news"))
           a == Sum(Confidences(s, "news"))
           b == Sum(Confidences(t, "news"))
<1>1. n \in Nat /\ a \in 0..(100 * n) /\ b \in 0..(100 * (n + 1)) /\ a <= b
  BY ConfidencesAreShares
<1>2. NewsAttention(s) = IF n = 0 THEN None ELSE Clamp(45000 + 20000 * n + 150 * (a \div n), 0, 100000)
  BY DEF NewsAttention, Attention
<1>3. NewsAttention(t) = Clamp(45000 + 20000 * (n + 1) + 150 * (b \div (n + 1)), 0, 100000)
  <2>1. n + 1 # 0
    BY <1>1
  <2> QED
    BY <2>1 DEF NewsAttention, Attention
<1> HIDE DEF n, a, b
<1>4. PICK low, high : low = 0 /\ high = 100000
  OBVIOUS
<1>5. b \div (n + 1) \in Nat
  BY <1>1
<1>6. PICK y : y = 45000 + 20000 * (n + 1) + 150 * (b \div (n + 1))
  OBVIOUS
<1>7. y \in Int /\ y <= y /\ low \in Int /\ high \in Int /\ low <= high
  BY <1>1, <1>4, <1>5, <1>6
<1>8. Clamp(y, low, high) \in Int
  BY <1>7, BoundsKeepOrder
<1>9. NewsAttention(t) = Clamp(y, low, high)
  BY <1>3, <1>4, <1>6
<1>10. ASSUME n # 0 PROVE NewsAttention(s) \in Int /\ NewsAttention(s) <= NewsAttention(t)
  <2>1. a \div n \in Int /\ a \div n <= 100
    <3>1. n \in Nat \ {0} /\ a \in Int /\ 100 * n \in Int /\ a <= 100 * n
      BY <1>1, <1>10
    <3>2. a \div n \in Int /\ a \div n <= (100 * n) \div n
      BY <3>1, QuotientsGrow
    <3>3. (100 * n) \div n = 100
      BY <3>1
    <3> QED
      BY <3>2, <3>3
  <2>2. PICK x : x = 45000 + 20000 * n + 150 * (a \div n)
    OBVIOUS
  <2>3. x \in Int /\ x <= y
    BY <1>1, <1>5, <1>6, <2>1, <2>2
  <2>4. Clamp(x, low, high) \in Int /\ Clamp(x, low, high) <= Clamp(y, low, high)
    BY <1>7, <2>3, BoundsKeepOrder
  <2>5. NewsAttention(s) = Clamp(x, low, high)
    BY <1>2, <1>4, <1>10, <2>2
  <2> QED
    BY <1>9, <2>4, <2>5
<1> QED
  BY <1>2, <1>8, <1>9, <1>10, NoneAssumption DEF AtMost

\* A news item more.
LEMMA NewsRaises ==
  ASSUME NEW s, IsScoreInput(s), NEW c \in {0, 100}
  PROVE  Score(Noted(s, c)).total >= Score(s).total
<1> DEFINE t == Noted(s, c)
           e == [id |-> 99, source |-> "news", type |-> "extra", confidence |-> c]
           n == Len(s.evidence)
<1>1. IsList(s.evidence) /\ \A x \in ToSet(s.evidence) : x.confidence \in 0..100
  BY DEF IsScoreInput
<1>2. e.source = "news" /\ e.confidence = c /\ c \in 0..100
  OBVIOUS
<1>3. t = [s EXCEPT !.evidence = Append(s.evidence, e)]
  BY DEF Noted
<1> HIDE DEF t, e
<1>4. PICK list : list = Append(s.evidence, e)
  OBVIOUS
<1>5. /\ IsList(list) /\ Len(list) = n + 1 /\ n \in Nat /\ DOMAIN list = 1..(n + 1)
      /\ DOMAIN s.evidence = 1..n /\ list[n + 1] = e /\ \A i \in 1..n : list[i] = s.evidence[i]
      /\ \A x \in ToSet(list) : x.confidence \in 0..100
  <2>1. /\ IsList(list) /\ ToSet(list) \subseteq ToSet(s.evidence) \union {e} /\ Len(list) = n + 1
        /\ list[n + 1] = e /\ \A i \in 1..n : list[i] = s.evidence[i]
    BY <1>1, <1>4, ListsAppend
  <2>2. n \in Nat /\ DOMAIN s.evidence = 1..n /\ DOMAIN list = 1..Len(list)
    BY <1>1, <2>1, ListsAreIndexed
  <2> QED
    BY <1>1, <1>2, <2>1, <2>2
<1>6. /\ IsScoreInput(t) /\ t.risks = s.risks /\ t.evidence = list
      /\ t.financials = s.financials /\ t.previous = s.previous /\ t.price = s.price /\ t.fallback = s.fallback
  BY <1>3, <1>4, <1>5 DEF IsScoreInput, HasFields
<1> HIDE DEF n
<1>7. \A i \in {1, 2, 3, 4, 7, 8} : AtMost(Raw(s, i), Raw(t, i))
  <2> TAKE i \in {1, 2, 3, 4, 7, 8}
  <2>1. Raw(t, i) = Raw(s, i) /\ i \in 1..8
    BY <1>6, SameFigures
  <2> QED
    BY <2>1, PointsAtMostThemselves
<1>8. Of(t, "disclosure") = Of(s, "disclosure") /\ Of(t, "news") = Of(s, "news") \union {n + 1} /\ n + 1 \notin Of(s, "news")
      /\ Of(s, "news") \subseteq 1..n /\ Of(s, "disclosure") \subseteq 1..n
  BY <1>2, <1>5, <1>6 DEF Of
<1>9. ASSUME NEW type \in {"news", "disclosure"},
             NEW x, x = IF type = "news" THEN c ELSE 0
      PROVE  Sum(Confidences(t, type)) = Sum(Confidences(s, type)) + x
  <2> DEFINE f == Confidences(s, type)
             g == Confidences(t, type)
  <2>1. f \in Seq(Int) /\ g \in Seq(Int) /\ Len(f) = n /\ Len(g) = n + 1
    BY <1>5, <1>6, ConfidencesAreShares DEF n
  <2>2. f = [i \in 1..n |-> IF i \in Of(s, type) THEN s.evidence[i].confidence ELSE 0]
    BY DEF Confidences, n
  <2>3. g = [i \in 1..(n + 1) |-> IF i \in Of(t, type) THEN list[i].confidence ELSE 0]
    BY <1>5, <1>6 DEF Confidences
  <2> HIDE DEF f, g
  <2>4. \A i \in 1..n : i \in Of(t, type) <=> i \in Of(s, type)
    BY <1>5, <1>8, <1>9
  <2>5. \A i \in 1..n : g[i] = f[i]
    BY <1>5, <2>2, <2>3, <2>4
  <2>6. g[n + 1] = x
    <3>1. n + 1 \in 1..(n + 1) /\ (n + 1 \in Of(t, type) <=> type = "news")
      BY <1>5, <1>8, <1>9
    <3>2. list[n + 1].confidence = c
      BY <1>2, <1>5
    <3> QED
      BY <1>9, <2>3, <3>1, <3>2
  <2>7. x \in Int
    BY <1>9
  <2> QED
    BY <2>1, <2>5, <2>6, <2>7, SumsAppend DEF f, g
<1>10. AtMost(Raw(s, 6), Raw(t, 6))
  <2>1. Sum(Confidences(t, "disclosure")) = Sum(Confidences(s, "disclosure"))
    <3>1. Sum(Confidences(t, "disclosure")) = Sum(Confidences(s, "disclosure")) + 0
      BY <1>9
    <3>2. Sum(Confidences(s, "disclosure")) \in Int
      BY ConfidencesAreShares, SumsAreNumbers
    <3> QED
      BY <3>1, <3>2
  <2>2. DisclosureEvent(t) = DisclosureEvent(s)
    BY <1>8, <2>1, SameEvidence DEF DisclosureEvent
  <2>3. Raw(t, 6) = Raw(s, 6)
    BY <2>2 DEF Raw
  <2> QED
    BY <2>3, PointsAtMostThemselves
<1>11. AtMost(Raw(s, 5), Raw(t, 5))
  <2>1. Cardinality(Of(t, "news")) = Cardinality(Of(s, "news")) + 1
    BY <1>8, ConfidencesAreShares, FS_AddElement
  <2>2. Sum(Confidences(t, "news")) = Sum(Confidences(s, "news")) + c
    BY <1>9
  <2>3. Sum(Confidences(s, "news")) \in Int /\ c \in Nat
    BY ConfidencesAreShares, SumsAreNumbers
  <2>4. Sum(Confidences(t, "news")) >= Sum(Confidences(s, "news"))
    BY <2>2, <2>3
  <2>5. AtMost(NewsAttention(s), NewsAttention(t))
    BY <1>6, <2>1, <2>4, NewsGrows
  <2> QED
    BY <2>5 DEF Raw
<1>12. \A i \in 1..8 : AtMost(Raw(s, i), Raw(t, i))
  BY <1>7, <1>10, <1>11, EightCases
<1>13. Sum(Penalties(t)) <= Sum(Penalties(s))
  <2>1. Penalties(t) = Penalties(s)
    BY <1>6 DEF Penalties
  <2>2. Sum(Penalties(s)) \in Int
    BY PointsAreNumbers, SumsAreNumbers
  <2> QED
    BY <2>1, <2>2
<1>14. Score(s).total <= Score(t).total
  BY <1>6, <1>12, <1>13, ScoresKeepOrder
<1> QED
  BY <1>14 DEF t

-----------------------------------------------------------------------------
(* The reasons. *)

\* The components from the best to the last.
ReasonOrder(c) ==
  {e \in (1..8) \X (1..8) :
     \/ c[e[1]].weighted > c[e[2]].weighted
     \/ /\ c[e[1]].weighted = c[e[2]].weighted
        /\ c[e[1]].weight > c[e[2]].weight
     \/ /\ c[e[1]].weighted = c[e[2]].weighted
        /\ c[e[1]].weight = c[e[2]].weight /\ e[1] < e[2]}
Best(c) ==
  InOrder(1..8, LAMBDA i, j : \/ c[i].weighted > c[j].weighted
                              \/ /\ c[i].weighted = c[j].weighted
                                 /\ c[i].weight > c[j].weight
                              \/ /\ c[i].weighted = c[j].weighted
                                 /\ c[i].weight = c[j].weight /\ i < j)

\* The numbers of the components.
LEMMA EightNumbers == IsFiniteSet(1..8) /\ Cardinality(1..8) = 8
<1>1. 1 \in Int /\ 8 \in Int
  OBVIOUS
<1>2. IsFiniteSet(1..8) /\ Cardinality(1..8) = IF 1 > 8 THEN 0 ELSE 8 - 1 + 1
  BY <1>1, FS_Interval
<1> QED
  BY <1>2

\* The list from the best component to the last has each at its place.
LEMMA BestFirst ==
  ASSUME NEW c, \A i \in 1..8 : c[i].weighted \in Int /\ c[i].weight \in Int
  PROVE  Orders(ReasonOrder(c), 1..8) /\ Arranges(Best(c), ReasonOrder(c), 1..8)
<1> DEFINE R == ReasonOrder(c)
           before(i, j) == \/ c[i].weighted > c[j].weighted
                           \/ /\ c[i].weighted = c[j].weighted
                              /\ c[i].weight > c[j].weight
                           \/ /\ c[i].weighted = c[j].weighted
                              /\ c[i].weight = c[j].weight /\ i < j
           list == Best(c)
<1>0. PICK S : S = 1..8
  OBVIOUS
<1>1. \A i \in S : i \in Int /\ c[i].weighted \in Int /\ c[i].weight \in Int
  BY <1>0
<1>2. \A i, j \in S : <<i, j>> \in R <=> before(i, j)
  BY <1>0 DEF ReasonOrder
<1> DEFINE place(e) == Cardinality({f \in S : before(f, e)})
<1>3. list = [p \in 1..Cardinality(S) |-> CHOOSE e \in S : place(e) = p - 1]
  BY <1>0 DEF Best, InOrder
<1>4. \A e \in S : place(e) = PlaceOf(e, R, S)
  <2> TAKE e \in S
  <2>1. {f \in S : before(f, e)} = {f \in S : <<f, e>> \in R}
    BY <1>2
  <2> QED
    BY <2>1 DEF PlaceOf
<1> HIDE DEF R, list, place
<1>5. \A i \in S : <<i, i>> \notin R
  BY <1>1, <1>2
<1>6. \A i, j \in S : i # j => <<i, j>> \in R \/ <<j, i>> \in R
  BY <1>1, <1>2
<1>7. \A i, j, k \in S : <<i, j>> \in R /\ <<j, k>> \in R => <<i, k>> \in R
  BY <1>1, <1>2
<1>8. Orders(R, S)
  BY <1>5, <1>6, <1>7 DEF Orders
<1>9. \A p \in 1..Cardinality(S) :
        (\E e \in S : PlaceOf(e, R, S) = p - 1) => list[p] \in S /\ PlaceOf(list[p], R, S) = p - 1
  BY <1>3, <1>4
<1>10. IsFiniteSet(S) /\ DOMAIN list = 1..Cardinality(S)
  BY <1>0, <1>3, EightNumbers
<1>11. Arranges(list, R, S)
  BY <1>8, <1>9, <1>10, PickedInOrder
<1> QED
  BY <1>0, <1>8, <1>11 DEF R, list

\* The three reasons are components, and any better one is a reason too.
LEMMA ReasonsAreBest ==
  ASSUME NEW c, DOMAIN c = 1..8, \A i \in 1..8 : c[i].weighted \in Int /\ c[i].weight \in Int,
         NEW s, NEW k \in 1..3
  PROVE  /\ Reasons(c, s)[k].component \in 1..8
         /\ \A i \in 1..8 : \/ \E n \in 1..3 : Reasons(c, s)[n].component = i
                            \/ c[i].weighted <= c[Reasons(c, s)[k].component].weighted
<1>1. PICK list, R, S, top : list = Best(c) /\ R = ReasonOrder(c) /\ S = 1..8 /\ top = SubSeq(list, 1, 3)
  OBVIOUS
<1>2. Orders(R, S) /\ Arranges(list, R, S) /\ IsFiniteSet(S) /\ Cardinality(S) = 8
  BY <1>1, BestFirst, EightNumbers
<1>3. /\ DOMAIN list = 1..8
      /\ \A e \in S : PlaceOf(e, R, S) + 1 \in DOMAIN list /\ list[PlaceOf(e, R, S) + 1] = e
      /\ \A p, q \in DOMAIN list : <<list[p], list[q]>> \in R => p < q
  <2>1. DOMAIN list = 1..Cardinality(S)
    BY <1>2, ArrangedLists
  <2>2. DOMAIN list = 1..8
    BY <1>2, <2>1
  <2>3. \A e \in S : PlaceOf(e, R, S) + 1 \in DOMAIN list /\ list[PlaceOf(e, R, S) + 1] = e
    BY <1>2, ArrangedLists
  <2>4. \A p, q \in DOMAIN list : <<list[p], list[q]>> \in R => p < q
    BY <1>2, ArrangedLists
  <2> QED
    BY <2>2, <2>3, <2>4
<1>4. \A p \in 1..8 : list[p] \in S
  BY <1>2, <1>3 DEF Arranges
<1>5. \A n \in 1..3 : top[n] = list[n]
  <2>1. 1 \in Int /\ 3 \in Int /\ \A i \in 1..3 : list[i] \in S
    BY <1>4
  <2>2. \A i \in 1..(3 - 1 + 1) : SubSeq(list, 1, 3)[i] = list[1 + i - 1]
    BY <2>1, SubSeqProperties
  <2> QED
    BY <1>1, <2>2
<1>6. \A n \in 1..3 : Reasons(c, s)[n].component = list[n]
  <2>1. \A n \in 1..3 : Reasons(c, s)[n].component = top[n]
    BY <1>1 DEF Reasons, Best
  <2> QED
    BY <1>5, <2>1
<1>7. ASSUME NEW i \in S, \A n \in 1..3 : list[n] # i
      PROVE  c[i].weighted <= c[list[k]].weighted
  <2>1. PICK p \in 1..8 : list[p] = i
    BY <1>3
  <2>2. k \in 1..8 /\ k < p
    <3>1. p \notin 1..3
      BY <1>7, <2>1
    <3>2. p \in Int /\ 1 <= p /\ k \in Int /\ 1 <= k /\ k <= 3
      OBVIOUS
    <3>3. 3 < p
      BY <3>1, <3>2
    <3> QED
      BY <3>2, <3>3
  <2>3. ~(p < k)
    BY <2>2
  <2>4. <<list[p], list[k]>> \notin R
    <3>1. p \in DOMAIN list /\ k \in DOMAIN list
      BY <1>3, <2>2
    <3> QED
      BY <1>3, <2>3, <3>1
  <2>5. <<i, list[k]>> \notin R
    BY <2>1, <2>4
  <2>6. ~(c[i].weighted > c[list[k]].weighted)
    BY <1>1, <1>4, <2>2, <2>5 DEF ReasonOrder
  <2>7. c[i].weighted \in Int /\ c[list[k]].weighted \in Int
    BY <1>1, <1>4, <2>2
  <2> QED
    BY <2>6, <2>7
<1>8. k \in 1..8
  OBVIOUS
<1> QED
  BY <1>1, <1>4, <1>6, <1>7, <1>8

\* The evidence of a component is given evidence.
LEMMA EvidenceIsGiven ==
  ASSUME NEW s, NEW name
  PROVE  EvidenceFor(s, name) \subseteq Ids(s, DOMAIN s.evidence)
<1>1. \A S : S \subseteq DOMAIN s.evidence => Ids(s, S) \subseteq Ids(s, DOMAIN s.evidence)
  BY DEF Ids
<1>2. \A type : Of(s, type) \subseteq DOMAIN s.evidence
  BY DEF Of
<1> QED
  BY <1>1, <1>2 DEF EvidenceFor

\* The reasons cite given evidence.
LEMMA ReasonsCite ==
  ASSUME NEW s, NEW c, c = Components(s), NEW k \in 1..3, Reasons(c, s)[k].component \in 1..8
  PROVE  Reasons(c, s)[k].evidence \subseteq Ids(s, DOMAIN s.evidence)
<1>1. PICK list, top : list = Best(c) /\ top = SubSeq(list, 1, 3)
  OBVIOUS
<1>2. DOMAIN c = 1..8
  BY DEF Components
<1>3. PICK spare : spare = Ids(s, DOMAIN s.evidence \intersect 1..2)
  OBVIOUS
<1>4. /\ Reasons(c, s)[k].component = top[k]
      /\ Reasons(c, s)[k].evidence = c[top[k]].evidence \/ Reasons(c, s)[k].evidence = spare
  BY <1>1, <1>2, <1>3 DEF Reasons, Best
<1>5. spare \subseteq Ids(s, DOMAIN s.evidence)
  BY <1>3 DEF Ids
<1>6. c[top[k]].evidence \subseteq Ids(s, DOMAIN s.evidence)
  BY <1>4, ComponentFields, EvidenceIsGiven
<1> QED
  BY <1>4, <1>5, <1>6

\* What the score says of its components.
LEMMA ScoreFields ==
  ASSUME NEW s
  PROVE  /\ Score(s).components = Components(s)
         /\ Score(s).missing = {i \in 1..8 : Components(s)[i].missing}
         /\ Score(s).fallback = {i \in 1..8 : Components(s)[i].fallback}
         /\ Score(s).reasons = Reasons(Components(s), s)
BY DEF Score

\* The score of an input is sound.
LEMMA ScoreIsSound ==
  ASSUME NEW s, IsScoreInput(s), NEW a, a = Score(s)
  PROVE  /\ 0 <= a.total /\ a.total <= 100000
         /\ Cardinality(a.missing) = 8 => a.total = 0
         /\ Score(Worse(s)).total <= a.total
         /\ \A c \in {0, 100} : Score(Noted(s, c)).total >= a.total
         /\ s.financials.operating # None => Score(Earning(s)).total >= a.total
         /\ \A k \in 1..3 : IsReason(a, k, Ids(s, DOMAIN s.evidence))
         /\ a.fallback # {} => s.price = None
<1>1. 0 <= a.total /\ a.total <= 100000
  <2>1. \A i \in 1..8 : AtMost(Raw(s, i), Raw(s, i))
    BY PointsAtMostThemselves
  <2>2. Sum(Penalties(s)) <= Sum(Penalties(s))
    BY PointsAreNumbers, SumsAreNumbers
  <2> QED
    BY <2>1, <2>2, ScoresKeepOrder
<1>2. ASSUME Cardinality(a.missing) = 8 PROVE a.total = 0
  <2>1. a.missing = {i \in 1..8 : Components(s)[i].missing}
    BY ScoreFields
  <2>2. a.missing \subseteq 1..8
    BY <2>1
  <2>3. a.missing = 1..8
    BY <1>2, <2>2, EightNumbers, FS_Subset
  <2>4. \A i \in 1..8 : Components(s)[i].missing
    BY <2>1, <2>3
  <2>5. \A i \in 1..8 : Raw(s, i) = None
    BY <2>4, ComponentFields
  <2> QED
    BY <2>5, NothingScoresNothing
<1>3. Score(Worse(s)).total <= a.total
  BY RisksLower
<1>4. \A c \in {0, 100} : Score(Noted(s, c)).total >= a.total
  BY NewsRaises
<1>5. s.financials.operating # None => Score(Earning(s)).total >= a.total
  BY EarningRaises
<1>6. PICK c : c = Components(s)
  OBVIOUS
<1>7. a.components = c /\ a.reasons = Reasons(c, s)
  BY <1>6, ScoreFields
<1>8. DOMAIN c = 1..8 /\ \A i \in 1..8 : c[i].weighted \in Int /\ c[i].weight \in Int
  <2>1. DOMAIN c = 1..8
    BY <1>6 DEF Components
  <2>2. ASSUME NEW i \in 1..8 PROVE c[i].weighted \in Int /\ c[i].weight \in Int
    <3>1. Weighted(s, i) \in Nat
      BY PointsAtMostThemselves, WeightsKeepOrder
    <3>2. Weights[i] \in Int
      BY EightCases DEF Weights
    <3> QED
      BY <1>6, <3>1, <3>2, ComponentFields
  <2> QED
    BY <2>1, <2>2
<1>9. ASSUME NEW k \in 1..3
      PROVE  IsReason(a, k, Ids(s, DOMAIN s.evidence))
  <2>1. /\ Reasons(c, s)[k].component \in 1..8
        /\ \A i \in 1..8 : \/ \E n \in 1..3 : Reasons(c, s)[n].component = i
                           \/ c[i].weighted <= c[Reasons(c, s)[k].component].weighted
    BY <1>8, ReasonsAreBest
  <2>2. Reasons(c, s)[k].evidence \subseteq Ids(s, DOMAIN s.evidence)
    BY <1>6, <2>1, ReasonsCite
  <2> QED
    BY <1>7, <2>1, <2>2 DEF IsReason
<1>10. ASSUME a.fallback # {} PROVE s.price = None
  <2>1. PICK i \in 1..8 : Components(s)[i].fallback
    BY <1>10, ScoreFields
  <2>2. UsesFallback(s)
    BY <2>1, ComponentFields
  <2> QED
    BY <2>2 DEF UsesFallback
<1> QED
  BY <1>1, <1>2, <1>3, <1>4, <1>5, <1>9, <1>10

\* A question about a score is answered with the score of its input.
ScoreInv ==
  ask.kind = "score" => IsScoreInput(ask.input) /\ (answer # None => answer = Score(ask.input))

\* A step keeps the answer to a question for a score.
LEMMA ScoreStep == ScoreInv /\ AskInv /\ [Next]_vars => ScoreInv'
<1> SUFFICES ASSUME ScoreInv, AskInv, [Next]_vars, ask'.kind = "score"
             PROVE  IsScoreInput(ask'.input) /\ (answer' # None => answer' = Score(ask'.input))
  BY DEF ScoreInv
<1>1. ask.kind = "score" /\ ask' = ask
  BY KindsStay DEF Paged
<1>2. IsScoreInput(ask.input) /\ (answer # None => answer = Score(ask.input))
  BY <1>1 DEF ScoreInv
<1>3. ScoreStock \/ UNCHANGED answer
  BY <1>1 DEF Next, vars, Rank, Align, CountCandidates, DateCandidates, ListCandidates, SelectRows, SummarizeRows,
         CountRisks, Respond, CountChunks, ListChunks, ReadFinancials, ReadChunks, ListItems, CountFound, ListFound,
         CheckReadiness, CheckRawArchive, CheckEgress, ReadStatus, DecideGate, ScoreCommitted, ChunkCommitted,
         ChunkRemoved, RunStarted, RunEnded, Read, Answer, Show, Commit, At, NextPage, Paged
<1> QED
  BY <1>1, <1>2, <1>3 DEF ScoreStock, Answer

\* The score of any input is sound: bounded, monotone, and with reasons it was given.
THEOREM ScoresStaySound == Spec => []ScoresAreSound
<1>1. Init => ScoreInv
  <2> SUFFICES ASSUME Init, ask.kind = "score" PROVE IsScoreInput(ask.input) /\ answer = None
    BY DEF ScoreInv
  <2>1. PICK s \in Starts : ask = s[2]
    BY DEF Init
  <2>2. s[2].kind = "score" => IsScoreInput(s[2].input)
    BY StartsAssumption
  <2> QED
    BY <2>1, <2>2 DEF Init
<1>2. ScoreInv => ScoresAreSound
  <2> SUFFICES ASSUME ScoreInv PROVE ScoresAreSound
    OBVIOUS
  <2>1. ask.kind = "score" /\ answer # None => IsScoreInput(ask.input) /\ answer = Score(ask.input)
    BY DEF ScoreInv
  <2> QED
    BY <2>1, ScoreIsSound DEF ScoresAreSound
<1> QED
  BY <1>1, <1>2, Questions, ScoreStep, PTL DEF Spec

-----------------------------------------------------------------------------
(* Keys of rows. *)

\* The order of the elements of a set by their keys.
ByKeys(k) == {p \in (DOMAIN k) \X (DOMAIN k) : Before(k[p[1]], k[p[2]])}

\* Keys of three numbers compare lexicographically.
LEMMA TriplesCompare ==
  ASSUME NEW a, NEW b, NEW c, NEW x, NEW y, NEW z
  PROVE  Before(<<a, b, c>>, <<x, y, z>>) <=> a < x \/ (a = x /\ b < y) \/ (a = x /\ b = y /\ c < z)
<1> DEFINE s == <<a, b, c>>
           t == <<x, y, z>>
<1>1. DOMAIN s = 1..3 /\ s[1] = a /\ s[2] = b /\ s[3] = c /\ t[1] = x /\ t[2] = y /\ t[3] = z
  OBVIOUS
<1> HIDE DEF s, t
<1>2. 1..(1 - 1) = {} /\ 1..(2 - 1) = {1} /\ 1..(3 - 1) = {1, 2} /\ 1..3 = {1, 2, 3}
  OBVIOUS
<1>3. Before(s, t) <=> \E i \in {1, 2, 3} : s[i] < t[i] /\ \A j \in 1..(i - 1) : s[j] = t[j]
  BY <1>1, <1>2 DEF Before
<1>4. Before(s, t) <=> \/ s[1] < t[1] /\ \A j \in 1..(1 - 1) : s[j] = t[j]
                       \/ s[2] < t[2] /\ \A j \in 1..(2 - 1) : s[j] = t[j]
                       \/ s[3] < t[3] /\ \A j \in 1..(3 - 1) : s[j] = t[j]
  BY <1>3
<1>5. Before(s, t) <=> s[1] < t[1] \/ (s[2] < t[2] /\ s[1] = t[1]) \/ (s[3] < t[3] /\ s[1] = t[1] /\ s[2] = t[2])
  BY <1>2, <1>4
<1>6. Before(s, t) <=> a < x \/ (a = x /\ b < y) \/ (a = x /\ b = y /\ c < z)
  BY <1>1, <1>5
<1> QED
  BY <1>6 DEF s, t

\* Keys of two numbers compare lexicographically.
LEMMA PairsCompare ==
  ASSUME NEW a, NEW b, NEW x, NEW y
  PROVE  Before(<<a, b>>, <<x, y>>) <=> a < x \/ (a = x /\ b < y)
<1> DEFINE s == <<a, b>>
           t == <<x, y>>
<1>1. DOMAIN s = 1..2 /\ s[1] = a /\ s[2] = b /\ t[1] = x /\ t[2] = y
  OBVIOUS
<1> HIDE DEF s, t
<1>2. 1..(1 - 1) = {} /\ 1..(2 - 1) = {1} /\ 1..2 = {1, 2}
  OBVIOUS
<1>3. Before(s, t) <=> \E i \in {1, 2} : s[i] < t[i] /\ \A j \in 1..(i - 1) : s[j] = t[j]
  BY <1>1, <1>2 DEF Before
<1>4. Before(s, t) <=> \/ s[1] < t[1] /\ \A j \in 1..(1 - 1) : s[j] = t[j]
                       \/ s[2] < t[2] /\ \A j \in 1..(2 - 1) : s[j] = t[j]
  BY <1>3
<1>5. Before(s, t) <=> s[1] < t[1] \/ (s[2] < t[2] /\ s[1] = t[1])
  BY <1>2, <1>4
<1>6. Before(s, t) <=> a < x \/ (a = x /\ b < y)
  BY <1>1, <1>5
<1> QED
  BY <1>6 DEF s, t

\* Keys of one number compare as the number.
LEMMA SinglesCompare ==
  ASSUME NEW a, NEW x
  PROVE  Before(<<a>>, <<x>>) <=> a < x
<1> DEFINE s == <<a>>
           t == <<x>>
<1>1. DOMAIN s = 1..1 /\ s[1] = a /\ t[1] = x
  OBVIOUS
<1> HIDE DEF s, t
<1>2. 1..(1 - 1) = {} /\ 1..1 = {1}
  OBVIOUS
<1>3. Before(s, t) <=> s[1] < t[1]
  BY <1>1, <1>2 DEF Before
<1> QED
  BY <1>1, <1>3 DEF s, t

\* Keys of three, two or one numbers, the last of which is another for each element.
TripleKeys(k, S, a, b, c) ==
  /\ DOMAIN k = S
  /\ \A e \in S : a[e] \in Int /\ b[e] \in Int /\ c[e] \in Int /\ k[e] = <<a[e], b[e], c[e]>>
  /\ \A e, f \in S : c[e] = c[f] => e = f

PairKeys(k, S, a, b) ==
  /\ DOMAIN k = S
  /\ \A e \in S : a[e] \in Int /\ b[e] \in Int /\ k[e] = <<a[e], b[e]>>
  /\ \A e, f \in S : b[e] = b[f] => e = f

SingleKeys(k, S, a) ==
  /\ DOMAIN k = S
  /\ \A e \in S : a[e] \in Int /\ k[e] = <<a[e]>>
  /\ \A e, f \in S : a[e] = a[f] => e = f

\* Such keys order the elements.
LEMMA TriplesOrder ==
  ASSUME NEW S, NEW k, NEW a, NEW b, NEW c, TripleKeys(k, S, a, b, c)
  PROVE  Orders(ByKeys(k), S)
<1> USE DEF TripleKeys
<1>1. \A e, f \in S : <<e, f>> \in ByKeys(k) <=>
        a[e] < a[f] \/ (a[e] = a[f] /\ b[e] < b[f]) \/ (a[e] = a[f] /\ b[e] = b[f] /\ c[e] < c[f])
  <2> TAKE e \in S, f \in S
  <2>1. <<e, f>> \in ByKeys(k) <=> Before(<<a[e], b[e], c[e]>>, <<a[f], b[f], c[f]>>)
    BY DEF ByKeys
  <2> QED
    BY <2>1, TriplesCompare
<1>2. \A e \in S : <<e, e>> \notin ByKeys(k)
  BY <1>1
<1>3. \A e, f \in S : e # f => <<e, f>> \in ByKeys(k) \/ <<f, e>> \in ByKeys(k)
  BY <1>1
<1>4. \A e, f, g \in S : <<e, f>> \in ByKeys(k) /\ <<f, g>> \in ByKeys(k) => <<e, g>> \in ByKeys(k)
  BY <1>1
<1> QED
  BY <1>2, <1>3, <1>4 DEF Orders

\* Keys of two numbers, the second its own, order the elements.
LEMMA PairsOrder ==
  ASSUME NEW S, NEW k, NEW a, NEW b, PairKeys(k, S, a, b)
  PROVE  Orders(ByKeys(k), S)
<1> USE DEF PairKeys
<1>1. \A e, f \in S : <<e, f>> \in ByKeys(k) <=> a[e] < a[f] \/ (a[e] = a[f] /\ b[e] < b[f])
  <2> TAKE e \in S, f \in S
  <2>1. <<e, f>> \in ByKeys(k) <=> Before(<<a[e], b[e]>>, <<a[f], b[f]>>)
    BY DEF ByKeys
  <2> QED
    BY <2>1, PairsCompare
<1>2. \A e \in S : <<e, e>> \notin ByKeys(k)
  BY <1>1
<1>3. \A e, f \in S : e # f => <<e, f>> \in ByKeys(k) \/ <<f, e>> \in ByKeys(k)
  BY <1>1
<1>4. \A e, f, g \in S : <<e, f>> \in ByKeys(k) /\ <<f, g>> \in ByKeys(k) => <<e, g>> \in ByKeys(k)
  BY <1>1
<1> QED
  BY <1>2, <1>3, <1>4 DEF Orders

\* Keys of one number of its own order the elements.
LEMMA SinglesOrder ==
  ASSUME NEW S, NEW k, NEW a, SingleKeys(k, S, a)
  PROVE  Orders(ByKeys(k), S)
<1> USE DEF SingleKeys
<1>1. \A e, f \in S : <<e, f>> \in ByKeys(k) <=> a[e] < a[f]
  <2> TAKE e \in S, f \in S
  <2>1. <<e, f>> \in ByKeys(k) <=> Before(<<a[e]>>, <<a[f]>>)
    BY DEF ByKeys
  <2> QED
    BY <2>1, SinglesCompare
<1>2. \A e \in S : <<e, e>> \notin ByKeys(k)
  BY <1>1
<1>3. \A e, f \in S : e # f => <<e, f>> \in ByKeys(k) \/ <<f, e>> \in ByKeys(k)
  BY <1>1
<1>4. \A e, f, g \in S : <<e, f>> \in ByKeys(k) /\ <<f, g>> \in ByKeys(k) => <<e, g>> \in ByKeys(k)
  BY <1>1
<1> QED
  BY <1>2, <1>3, <1>4 DEF Orders

\* A finite set of numbers that is not empty has a greatest.
LEMMA NewestExists ==
  ASSUME NEW D \in SUBSET Int, IsFiniteSet(D), D # {}
  PROVE  NewestOf(D) \in D /\ \A d \in D : d <= NewestOf(D)
<1> DEFINE R == {p \in D \X D : p[1] > p[2]}
<1>1. \A d, e \in D : <<d, e>> \in R <=> d > e
  OBVIOUS
<1> HIDE DEF R
<1>2. \A d \in D : d \in Int
  OBVIOUS
<1>3. Orders(R, D)
  BY <1>1, <1>2 DEF Orders
<1>4. /\ Cardinality(D) \in Nat
      /\ \A n \in 1..Cardinality(D) : \E d \in D : PlaceOf(d, R, D) = n - 1
  BY <1>3, ElementsArePlaced
<1>5. Cardinality(D) # 0
  BY FS_EmptySet
<1>6. PICK d \in D : PlaceOf(d, R, D) = 0
  <2>1. 1 \in 1..Cardinality(D) /\ 1 - 1 = 0
    BY <1>4, <1>5
  <2> QED
    BY <1>4, <2>1
<1>7. {e \in D : <<e, d>> \in R} = {}
  <2>1. IsFiniteSet({e \in D : <<e, d>> \in R})
    BY FS_Subset
  <2> QED
    BY <1>6, <2>1, FS_EmptySet DEF PlaceOf
<1>8. \A e \in D : e <= d
  <2> TAKE e \in D
  <2>1. ~(e > d)
    BY <1>1, <1>7
  <2> QED
    BY <1>2, <2>1
<1>9. \E m \in D : \A e \in D : e <= m
  BY <1>8
<1> QED
  BY <1>9 DEF NewestOf

-----------------------------------------------------------------------------
(* What each list shows. *)

\* The key of each element of the list that answers question q from the tables d.
KeysOf(d, q) ==
  CASE q.kind = "candidates" -> [s \in StockCandidates(d, q) |-> CandidateKey(d, q, s)]
    [] q.kind = "search" -> [k \in Found(d, q) |-> <<k.ticker>>]
    [] q.kind = "evidence" /\ OnlyChunks(q) -> [c \in DatedChunks(d, q) |-> ChunkKey(c)]
    [] OTHER -> [i \in FilterDates(FinancialItems(d, q) \union ChunkItems(d, q) \union PriceItems(d, q), q) |-> ItemKey(i)]

\* The name under which an element is shown.
NameOf(q, e) == IF q.kind \in {"candidates", "search"} THEN e.ticker ELSE e.id

\* The tables and the question of a list that nobody writes to.
GoodList(d, q) ==
  /\ ListTables(d) /\ q.kind \in Paged /\ HasFields(q, {"kind"})
  /\ HasFields(q, CASE q.kind = "evidence" -> {"ticker", "types", "from", "to", "limit", "offset"}
                    [] q.kind = "search" -> {"word", "market", "limit", "offset"}
                    [] OTHER -> {"version", "market", "sector", "sort", "profile", "limit", "offset"})
  /\ q.kind = "evidence" => {q.from, q.to} \subseteq OrNull(Int)
  /\ q.limit \in Nat /\ q.offset \in Nat

\* A stock has one newest score of a version.
LEMMA OneScoreEach ==
  ASSUME NEW d, \A s \in d.scores : IsScore(s),
         \A s, t \in d.scores : <<s.ticker, s.asOf, s.version>> = <<t.ticker, t.asOf, t.version>> => s = t,
         NEW version
  PROVE  \A s, t \in Selected(d, version) : s.ticker = t.ticker => s = t
<1> SUFFICES ASSUME NEW s \in Selected(d, version), NEW t \in Selected(d, version), s.ticker = t.ticker, s # t
             PROVE  FALSE
  OBVIOUS
<1>1. s \in d.scores /\ t \in d.scores /\ s.version = version /\ t.version = version
  BY DEF Selected
<1>2. s.asOf \in Int /\ t.asOf \in Int /\ s.asOf # t.asOf
  BY <1>1 DEF IsScore
<1>3. ~Before(<<s.asOf, s.created, s.id>>, <<t.asOf, t.created, t.id>>)
      /\ ~Before(<<t.asOf, t.created, t.id>>, <<s.asOf, s.created, s.id>>)
  BY <1>1 DEF Selected
<1>4. ~(s.asOf < t.asOf) /\ ~(t.asOf < s.asOf)
  BY <1>3, TriplesCompare
<1> QED
  BY <1>2, <1>4

\* The candidates are finitely many, ordered by each sort and profile, one for a stock.
LEMMA CandidatesAreListed ==
  ASSUME NEW d, NEW q, GoodList(d, q), q.kind = "candidates",
         NEW S, S = StockCandidates(d, q), NEW k, k = [s \in S |-> CandidateKey(d, q, s)]
  PROVE  /\ IsFiniteSet(S) /\ Orders(ByKeys(k), S)
         /\ \A s, t \in S : s.ticker = t.ticker => s = t
<1>1. S \subseteq Selected(d, q.version) /\ S \subseteq d.scores
  BY DEF StockCandidates, Selected
<1>2. IsFiniteSet(d.scores) /\ IsFiniteSet(d.prices) /\ IsFiniteSet(d.risks) /\ \A s \in d.scores : IsScore(s)
  BY DEF GoodList, ListTables
<1>3. IsFiniteSet(S)
  BY <1>1, <1>2, FS_Subset
<1>4. \A s, t \in S : s.ticker = t.ticker => s = t
  <2>1. \A s, t \in d.scores : <<s.ticker, s.asOf, s.version>> = <<t.ticker, t.asOf, t.version>> => s = t
    BY DEF GoodList, ListTables, Unique
  <2>2. \A s, t \in Selected(d, q.version) : s.ticker = t.ticker => s = t
    BY <1>2, <2>1, OneScoreEach
  <2> QED
    BY <1>1, <2>2
<1>5. \A s \in S : s.ticker \in Int /\ s.total \in Int /\ s.asOf \in Int
  BY <1>1, <1>2 DEF IsScore
<1>6. \A s \in S : Cardinality(Risks(d, s)) \in Int
  <2> TAKE s \in S
  <2>1. IsFiniteSet(Risks(d, s))
    BY <1>2, FS_Subset DEF Risks
  <2> QED
    BY <2>1, FS_CardinalityType
<1>7. \A s \in S : LatestVolume(d, s.ticker) \in Int
  <2> TAKE s \in S
  <2> DEFINE prices == {p \in d.prices : p.ticker = s.ticker}
             dates == {p.date : p \in prices}
  <2>1. prices \subseteq d.prices /\ \A p \in d.prices : p.date \in Int /\ (p.volume # None => p.volume \in Int)
    BY DEF GoodList, ListTables, OrNull
  <2>2. CASE prices = {}
    BY <2>2 DEF LatestVolume
  <2>3. CASE prices # {}
    <3>1. dates \in SUBSET Int /\ dates # {}
      BY <2>1, <2>3
    <3>2. IsFiniteSet(dates)
      <4>1. IsFiniteSet(prices)
        BY <1>2, <2>1, FS_Subset
      <4>2. [p \in prices |-> p.date] \in Surjection(prices, dates)
        BY DEF Surjection
      <4> QED
        BY <4>1, <4>2, FS_Surjection
    <3>3. NewestOf(dates) \in dates
      BY <3>1, <3>2, NewestExists
    <3>4. PICK n : n = NewestOf(dates)
      OBVIOUS
    <3>5. \E p \in prices : p.date = n
      BY <3>3, <3>4
    <3>6. PICK v : v = (CHOOSE p \in prices : p.date = n).volume
      OBVIOUS
    <3>7. v # None => v \in Int
      BY <2>1, <3>5, <3>6
    <3>8. LatestVolume(d, s.ticker) = IF v = None THEN 0 ELSE v
      BY <2>3, <3>4, <3>6 DEF LatestVolume
    <3> QED
      BY <3>7, <3>8
  <2> QED
    BY <2>2, <2>3
<1> DEFINE tickers == [s \in S |-> s.ticker]
           totals == [s \in S |-> -s.total]
<1>8. \A s \in S : tickers[s] \in Int /\ totals[s] \in Int /\ tickers[s] = s.ticker /\ totals[s] = -s.total
  BY <1>5
<1>9. \A s, t \in S : tickers[s] = tickers[t] => s = t
  BY <1>4
<1>10. DOMAIN k = S /\ \A s \in S : k[s] = CandidateKey(d, q, s)
  OBVIOUS
<1> HIDE DEF tickers, totals
<1>11. CASE q.sort = "volume_desc"
  <2> DEFINE firsts == [s \in S |-> -LatestVolume(d, s.ticker)]
  <2>1. \A s \in S : firsts[s] \in Int /\ k[s] = <<firsts[s], totals[s], tickers[s]>>
    BY <1>7, <1>8, <1>10, <1>11 DEF CandidateKey
  <2> HIDE DEF firsts
  <2>2. TripleKeys(k, S, firsts, totals, tickers)
    BY <1>8, <1>9, <1>10, <2>1 DEF TripleKeys
  <2> QED
    BY <1>3, <1>4, <2>2, TriplesOrder
<1>12. CASE q.sort = "updated_desc"
  <2> DEFINE firsts == [s \in S |-> -s.asOf]
  <2>0. q.sort # "volume_desc"
    BY <1>12
  <2>1. \A s \in S : firsts[s] \in Int /\ k[s] = <<firsts[s], totals[s], tickers[s]>>
    <3> TAKE s \in S
    <3>1. CandidateKey(d, q, s) = <<-s.asOf, -s.total, s.ticker>>
      BY <1>12, <2>0 DEF CandidateKey
    <3>2. -s.asOf \in Int
      BY <1>5
    <3> QED
      BY <1>8, <1>10, <3>1, <3>2
  <2> HIDE DEF firsts
  <2>2. TripleKeys(k, S, firsts, totals, tickers)
    BY <1>8, <1>9, <1>10, <2>1 DEF TripleKeys
  <2> QED
    BY <1>3, <1>4, <2>2, TriplesOrder
<1>13. CASE q.sort \notin {"volume_desc", "updated_desc"} /\ q.profile = "conservative"
  <2> DEFINE firsts == [s \in S |-> Cardinality(Risks(d, s))]
  <2>1. \A s \in S : firsts[s] \in Int /\ k[s] = <<firsts[s], totals[s], tickers[s]>>
    BY <1>6, <1>8, <1>10, <1>13 DEF CandidateKey
  <2> HIDE DEF firsts
  <2>2. TripleKeys(k, S, firsts, totals, tickers)
    BY <1>8, <1>9, <1>10, <2>1 DEF TripleKeys
  <2> QED
    BY <1>3, <1>4, <2>2, TriplesOrder
<1>14. CASE q.sort \notin {"volume_desc", "updated_desc"} /\ q.profile = "aggressive"
  <2>1. \A s \in S : k[s] = <<totals[s], tickers[s]>>
    BY <1>8, <1>10, <1>14 DEF CandidateKey
  <2>2. PairKeys(k, S, totals, tickers)
    BY <1>8, <1>9, <1>10, <2>1 DEF PairKeys
  <2> QED
    BY <1>3, <1>4, <2>2, PairsOrder
<1>15. CASE q.sort \notin {"volume_desc", "updated_desc"} /\ q.profile \notin {"conservative", "aggressive"}
  <2> DEFINE firsts == [s \in S |-> Cardinality(Risks(d, s)) - 2 * s.total]
  <2>1. \A s \in S : firsts[s] \in Int /\ k[s] = <<firsts[s], totals[s], tickers[s]>>
    BY <1>5, <1>6, <1>8, <1>10, <1>15 DEF CandidateKey
  <2> HIDE DEF firsts
  <2>2. TripleKeys(k, S, firsts, totals, tickers)
    BY <1>8, <1>9, <1>10, <2>1 DEF TripleKeys
  <2> QED
    BY <1>3, <1>4, <2>2, TriplesOrder
<1> QED
  BY <1>11, <1>12, <1>13, <1>14, <1>15

\* The stocks found are finitely many and ordered by ticker.
LEMMA FoundAreListed ==
  ASSUME NEW d, NEW q, GoodList(d, q), NEW S, S = Found(d, q), NEW k, k = [s \in S |-> <<s.ticker>>]
  PROVE  /\ IsFiniteSet(S) /\ Orders(ByKeys(k), S)
         /\ \A s, t \in S : s.ticker = t.ticker => s = t
<1>1. S \subseteq d.stocks
  BY DEF Found
<1>2. IsFiniteSet(S)
  BY <1>1, FS_Subset DEF GoodList, ListTables
<1>3. \A s \in S : s.ticker \in Int
  BY <1>1 DEF GoodList, ListTables
<1>4. \A s, t \in S : s.ticker = t.ticker => s = t
  BY <1>1 DEF GoodList, ListTables, Unique
<1> DEFINE tickers == [s \in S |-> s.ticker]
<1>5. SingleKeys(k, S, tickers)
  BY <1>3, <1>4 DEF SingleKeys
<1> HIDE DEF tickers
<1> QED
  BY <1>2, <1>4, <1>5, SinglesOrder

\* The chunks of a stock are finitely many and ordered by date and id.
LEMMA ChunksAreListed ==
  ASSUME NEW d, NEW q, GoodList(d, q), NEW S, S = DatedChunks(d, q), NEW k, k = [c \in S |-> ChunkKey(c)]
  PROVE  /\ IsFiniteSet(S) /\ Orders(ByKeys(k), S)
         /\ \A s, t \in S : s.id = t.id => s = t
<1>1. S \subseteq d.chunks
  BY DEF DatedChunks, Live
<1>2. IsFiniteSet(S)
  BY <1>1, FS_Subset DEF GoodList, ListTables
<1>3. \A c \in S : c.id \in Int /\ c.published \in OrNull(Int) /\ c.issued \in OrNull(Int)
  BY <1>1 DEF GoodList, ListTables, IsChunk
<1>4. \A s, t \in S : s.id = t.id => s = t
  BY <1>1 DEF GoodList, ListTables, Unique
<1> DEFINE dated == [c \in S |-> IF DateOf(c) = None THEN 0 ELSE 1]
           dates == [c \in S |-> IF DateOf(c) = None THEN 0 ELSE -DateOf(c)]
           ids == [c \in S |-> -c.id]
<1>5. \A c \in S : DateOf(c) # None => DateOf(c) \in Int
  BY <1>3 DEF DateOf, OrNull
<1>6. \A c \in S : dated[c] \in Int /\ dates[c] \in Int /\ ids[c] \in Int /\ k[c] = <<dated[c], dates[c], ids[c]>>
  BY <1>3, <1>5 DEF ChunkKey
<1>7. \A c, e \in S : ids[c] = ids[e] => c = e
  BY <1>3, <1>4
<1> HIDE DEF dated, dates, ids
<1>8. TripleKeys(k, S, dated, dates, ids)
  BY <1>6, <1>7 DEF TripleKeys
<1> QED
  BY <1>2, <1>4, <1>8, TriplesOrder

\* Items of evidence.
AllItems(d, q) == FilterDates(FinancialItems(d, q) \union ChunkItems(d, q) \union PriceItems(d, q), q)

\* So are the items of evidence of every kind, whose ids differ across kinds.
LEMMA ItemsAreListed ==
  ASSUME NEW d, NEW q, GoodList(d, q), NEW S, S = AllItems(d, q), NEW k, k = [i \in S |-> ItemKey(i)]
  PROVE  /\ IsFiniteSet(S) /\ Orders(ByKeys(k), S)
         /\ \A s, t \in S : s.id = t.id => s = t
<1> DEFINE FD == {x \in d.financials : x.ticker = q.ticker /\ ~x.mock /\ "financial" \in q.types}
           CD == {x \in Live(d) : x.ticker = q.ticker /\ x.source \in q.types}
           PD == {x \in d.prices : x.ticker = q.ticker /\ ~x.mock /\ "price" \in q.types}
           F == FinancialItems(d, q)
           C == ChunkItems(d, q)
           P == PriceItems(d, q)
<1>1. FD \subseteq d.financials /\ CD \subseteq d.chunks /\ PD \subseteq d.prices
  BY DEF Live
<1>2. IsFiniteSet(d.financials) /\ IsFiniteSet(d.chunks) /\ IsFiniteSet(d.prices)
  BY DEF GoodList, ListTables
<1>3. IsFiniteSet(FD) /\ IsFiniteSet(CD) /\ IsFiniteSet(PD)
  <2> HIDE DEF FD, CD, PD
  <2> QED
    BY <1>1, <1>2, FS_Subset
<1>4. /\ [f \in FD |-> Item("financial", f.id, f.period, f.issued)] \in Surjection(FD, F)
      /\ [c \in CD |-> Item(c.source, c.id, c.published, DateOf(c))] \in Surjection(CD, C)
      /\ [p \in PD |-> Item("price", p.id, p.date, None)] \in Surjection(PD, P)
  BY DEF Surjection, FinancialItems, ChunkItems, PriceItems
<1>5. IsFiniteSet(F) /\ IsFiniteSet(C) /\ IsFiniteSet(P)
  <2> HIDE DEF FD, CD, PD, F, C, P
  <2> QED
    BY <1>3, <1>4, FS_Surjection
<1>6. IsFiniteSet(F \union C \union P)
  BY <1>5, FS_Union
<1>7. S \subseteq F \union C \union P
  BY DEF AllItems, FilterDates
<1>8. IsFiniteSet(S)
  BY <1>6, <1>7, FS_Subset
<1>9. /\ \A i \in F : \E f \in d.financials : i = Item("financial", f.id, f.period, f.issued)
      /\ \A i \in C : \E c \in d.chunks : i = Item(c.source, c.id, c.published, DateOf(c))
      /\ \A i \in P : \E p \in d.prices : i = Item("price", p.id, p.date, None)
  BY DEF FinancialItems, ChunkItems, PriceItems, Live
<1>10. \A i \in S : i.id \in Int /\ i.asOf \in OrNull(Int)
  <2>1. \A f \in d.financials : f.id \in Int /\ f.period \in OrNull(Int)
    BY DEF GoodList, ListTables
  <2>2. \A c \in d.chunks : c.id \in Int /\ c.published \in OrNull(Int)
    BY DEF GoodList, ListTables, IsChunk
  <2>3. \A p \in d.prices : p.id \in Int /\ p.date \in OrNull(Int)
    BY DEF GoodList, ListTables, OrNull
  <2>4. \A i \in F \union C \union P : i.id \in Int /\ i.asOf \in OrNull(Int)
    BY <1>9, <2>1, <2>2, <2>3 DEF Item
  <2> QED
    BY <1>7, <2>4
<1>11. \A i, j \in S : i.id = j.id => i = j
  <2>1. /\ \A x, y \in d.financials : x.id = y.id => x = y
        /\ \A x, y \in d.chunks : x.id = y.id => x = y
        /\ \A x, y \in d.prices : x.id = y.id => x = y
    BY DEF GoodList, ListTables, Unique
  <2>2. /\ \A c \in d.chunks, p \in d.prices : c.id # p.id
        /\ \A c \in d.chunks, f \in d.financials : c.id # f.id
        /\ \A p \in d.prices, f \in d.financials : p.id # f.id
    BY DEF GoodList, ListTables
  <2>3. \A i, j \in F : i.id = j.id => i = j
    BY <1>9, <2>1 DEF Item
  <2>4. \A i, j \in C : i.id = j.id => i = j
    BY <1>9, <2>1 DEF Item
  <2>5. \A i, j \in P : i.id = j.id => i = j
    BY <1>9, <2>1 DEF Item
  <2>6. \A i \in C, j \in P : i.id # j.id
    BY <1>9, <2>2 DEF Item
  <2>7. \A i \in C, j \in F : i.id # j.id
    BY <1>9, <2>2 DEF Item
  <2>8. \A i \in P, j \in F : i.id # j.id
    BY <1>9, <2>2 DEF Item
  <2> HIDE DEF F, C, P
  <2> QED
    BY <1>7, <2>3, <2>4, <2>5, <2>6, <2>7, <2>8
<1> DEFINE dated == [i \in S |-> IF i.asOf = None THEN 0 ELSE 1]
           dates == [i \in S |-> IF i.asOf = None THEN 0 ELSE -i.asOf]
           ids == [i \in S |-> -i.id]
<1>12. \A i \in S : i.asOf # None => i.asOf \in Int
  BY <1>10 DEF OrNull
<1>13. \A i \in S : dated[i] \in Int /\ dates[i] \in Int /\ ids[i] \in Int /\ k[i] = <<dated[i], dates[i], ids[i]>>
  BY <1>10, <1>12 DEF ItemKey
<1>14. \A i, j \in S : ids[i] = ids[j] => i = j
  BY <1>10, <1>11
<1> HIDE DEF dated, dates, ids
<1>15. TripleKeys(k, S, dated, dates, ids)
  BY <1>13, <1>14 DEF TripleKeys
<1> QED
  BY <1>8, <1>11, <1>15, TriplesOrder

\* The list a handler pages through.
TheList(d, q) ==
  CASE q.kind = "candidates" -> Ordered(StockCandidates(d, q), LAMBDA s : CandidateKey(d, q, s))
    [] q.kind = "search" -> Ordered(Found(d, q), LAMBDA k : <<k.ticker>>)
    [] q.kind = "evidence" /\ OnlyChunks(q) -> Ordered(DatedChunks(d, q), ChunkKey)
    [] OTHER -> Ordered(AllItems(d, q), ItemKey)

\* Each list is finite, its keys order it, and no two elements have one name.
LEMMA ListsAreOrdered ==
  ASSUME NEW d, NEW q, GoodList(d, q), NEW k, k = KeysOf(d, q), NEW S, S = DOMAIN k
  PROVE  /\ IsFiniteSet(S) /\ Orders(ByKeys(k), S)
         /\ \A e, f \in S : NameOf(q, e) = NameOf(q, f) => e = f
<1>1. CASE q.kind = "candidates"
  <2>1. S = StockCandidates(d, q) /\ k = [s \in S |-> CandidateKey(d, q, s)]
    BY <1>1 DEF KeysOf
  <2> QED
    BY <1>1, <2>1, CandidatesAreListed DEF NameOf
<1>2. CASE q.kind = "search"
  <2>1. S = Found(d, q) /\ k = [s \in S |-> <<s.ticker>>]
    BY <1>2 DEF KeysOf
  <2> QED
    BY <1>2, <2>1, FoundAreListed DEF NameOf
<1>3. CASE q.kind = "evidence" /\ OnlyChunks(q)
  <2>1. S = DatedChunks(d, q) /\ k = [c \in S |-> ChunkKey(c)]
    BY <1>3 DEF KeysOf
  <2> QED
    BY <1>3, <2>1, ChunksAreListed DEF NameOf
<1>4. CASE q.kind = "evidence" /\ ~OnlyChunks(q)
  <2>1. S = AllItems(d, q) /\ k = [i \in S |-> ItemKey(i)]
    BY <1>4 DEF KeysOf, AllItems
  <2> QED
    BY <1>4, <2>1, ItemsAreListed DEF NameOf
<1> QED
  BY <1>1, <1>2, <1>3, <1>4 DEF GoodList, Paged

\* The operator Ordered puts the elements of each list in order.
LEMMA ListsAreArranged ==
  ASSUME NEW d, NEW q, GoodList(d, q), NEW k, k = KeysOf(d, q), NEW S, S = DOMAIN k
  PROVE  Arranges(TheList(d, q), ByKeys(k), S)
<1> DEFINE list == TheList(d, q)
           R == ByKeys(k)
<1>0. IsFiniteSet(S) /\ Orders(R, S)
  BY ListsAreOrdered
<1>1. CASE q.kind = "candidates"
  <2> DEFINE place(e) == Cardinality({f \in S : Before(CandidateKey(d, q, f), CandidateKey(d, q, e))})
  <2>1. S = StockCandidates(d, q) /\ \A e \in S : k[e] = CandidateKey(d, q, e)
    BY <1>1 DEF KeysOf
  <2>2. list = [p \in 1..Cardinality(S) |-> CHOOSE e \in S : place(e) = p - 1]
    BY <1>1, <2>1 DEF TheList, Ordered, InOrder
  <2>3. \A e \in S : place(e) = PlaceOf(e, R, S)
    <3> TAKE e \in S
    <3>1. {f \in S : Before(CandidateKey(d, q, f), CandidateKey(d, q, e))} = {f \in S : <<f, e>> \in R}
      BY <2>1 DEF ByKeys
    <3> QED
      BY <3>1 DEF PlaceOf
  <2> HIDE DEF place, list, R
  <2>4. DOMAIN list = 1..Cardinality(S) /\ \A p \in 1..Cardinality(S) :
          (\E e \in S : PlaceOf(e, R, S) = p - 1) => list[p] \in S /\ PlaceOf(list[p], R, S) = p - 1
    BY <2>2, <2>3
  <2>5. Arranges(list, R, S)
    BY <1>0, <2>4, PickedInOrder
  <2> QED
    BY <2>5 DEF list, R
<1>2. CASE q.kind = "search"
  <2> DEFINE place(e) == Cardinality({f \in S : Before(<<f.ticker>>, <<e.ticker>>)})
  <2>1. S = Found(d, q) /\ \A e \in S : k[e] = <<e.ticker>>
    BY <1>2 DEF KeysOf
  <2>2. list = [p \in 1..Cardinality(S) |-> CHOOSE e \in S : place(e) = p - 1]
    BY <1>2, <2>1 DEF TheList, Ordered, InOrder
  <2>3. \A e \in S : place(e) = PlaceOf(e, R, S)
    <3> TAKE e \in S
    <3>1. {f \in S : Before(<<f.ticker>>, <<e.ticker>>)} = {f \in S : <<f, e>> \in R}
      BY <2>1 DEF ByKeys
    <3> QED
      BY <3>1 DEF PlaceOf
  <2> HIDE DEF place, list, R
  <2>4. DOMAIN list = 1..Cardinality(S) /\ \A p \in 1..Cardinality(S) :
          (\E e \in S : PlaceOf(e, R, S) = p - 1) => list[p] \in S /\ PlaceOf(list[p], R, S) = p - 1
    BY <2>2, <2>3
  <2>5. Arranges(list, R, S)
    BY <1>0, <2>4, PickedInOrder
  <2> QED
    BY <2>5 DEF list, R
<1>3. CASE q.kind = "evidence" /\ OnlyChunks(q)
  <2> DEFINE place(e) == Cardinality({f \in S : Before(ChunkKey(f), ChunkKey(e))})
  <2>1. S = DatedChunks(d, q) /\ \A e \in S : k[e] = ChunkKey(e)
    BY <1>3 DEF KeysOf
  <2>2. list = [p \in 1..Cardinality(S) |-> CHOOSE e \in S : place(e) = p - 1]
    BY <1>3, <2>1 DEF TheList, Ordered, InOrder
  <2>3. \A e \in S : place(e) = PlaceOf(e, R, S)
    <3> TAKE e \in S
    <3>1. {f \in S : Before(ChunkKey(f), ChunkKey(e))} = {f \in S : <<f, e>> \in R}
      BY <2>1 DEF ByKeys
    <3> QED
      BY <3>1 DEF PlaceOf
  <2> HIDE DEF place, list, R
  <2>4. DOMAIN list = 1..Cardinality(S) /\ \A p \in 1..Cardinality(S) :
          (\E e \in S : PlaceOf(e, R, S) = p - 1) => list[p] \in S /\ PlaceOf(list[p], R, S) = p - 1
    BY <2>2, <2>3
  <2>5. Arranges(list, R, S)
    BY <1>0, <2>4, PickedInOrder
  <2> QED
    BY <2>5 DEF list, R
<1>4. CASE q.kind = "evidence" /\ ~OnlyChunks(q)
  <2> DEFINE place(e) == Cardinality({f \in S : Before(ItemKey(f), ItemKey(e))})
  <2>1. S = AllItems(d, q) /\ \A e \in S : k[e] = ItemKey(e)
    BY <1>4 DEF KeysOf, AllItems
  <2>2. list = [p \in 1..Cardinality(S) |-> CHOOSE e \in S : place(e) = p - 1]
    BY <1>4, <2>1 DEF TheList, Ordered, InOrder
  <2>3. \A e \in S : place(e) = PlaceOf(e, R, S)
    <3> TAKE e \in S
    <3>1. {f \in S : Before(ItemKey(f), ItemKey(e))} = {f \in S : <<f, e>> \in R}
      BY <2>1 DEF ByKeys
    <3> QED
      BY <3>1 DEF PlaceOf
  <2> HIDE DEF place, list, R
  <2>4. DOMAIN list = 1..Cardinality(S) /\ \A p \in 1..Cardinality(S) :
          (\E e \in S : PlaceOf(e, R, S) = p - 1) => list[p] \in S /\ PlaceOf(list[p], R, S) = p - 1
    BY <2>2, <2>3
  <2>5. Arranges(list, R, S)
    BY <1>0, <2>4, PickedInOrder
  <2> QED
    BY <2>5 DEF list, R
<1> QED
  BY <1>1, <1>2, <1>3, <1>4 DEF GoodList, Paged

-----------------------------------------------------------------------------
(* Pages. *)

\* A sequence shows the first m elements of a list.
ShowsFirst(seq, m, d, q) ==
  LET k == KeysOf(d, q) S == DOMAIN k IN
    /\ seq \in Seq({NameOf(q, e) : e \in S}) /\ Len(seq) = m
    /\ \A i \in 1..m : \E e \in S : seq[i] = NameOf(q, e) /\ PlaceOf(e, ByKeys(k), S) = i - 1

\* The number of elements shown after the page at an offset.
UpTo(q, n) == IF q.offset + q.limit < n THEN q.offset + q.limit ELSE n

\* A page has the next elements of its list.
LEMMA PagesGoOn ==
  ASSUME NEW d, NEW q, GoodList(d, q), NEW k, k = KeysOf(d, q), NEW S, S = DOMAIN k,
         NEW n, n = Cardinality(S), q.offset <= n, NEW page, page = Page(TheList(d, q), q.limit, q.offset)
  PROVE  /\ n \in Nat /\ UpTo(q, n) \in q.offset..n
         /\ page \in Seq(S) /\ Len(page) = UpTo(q, n) - q.offset
         /\ \A i \in 1..Len(page) : PlaceOf(page[i], ByKeys(k), S) = q.offset + i - 1
<1> DEFINE R == ByKeys(k)
<1>1. PICK list : list = TheList(d, q)
  OBVIOUS
<1>2. IsFiniteSet(S) /\ n \in Nat
  BY ListsAreOrdered, FS_CardinalityType
<1>3. Arranges(list, R, S)
  BY <1>1, ListsAreArranged
<1> HIDE DEF R
<1>4. DOMAIN list = 1..n /\ \A p \in 1..n : list[p] \in S /\ PlaceOf(list[p], R, S) = p - 1
  BY <1>3 DEF Arranges
<1>5. Len(list) = n
  BY <1>2, <1>4
<1>6. q.offset \in Nat /\ q.limit \in Nat
  BY DEF GoodList
<1>7. PICK o, m : o = q.offset /\ m = UpTo(q, n)
  OBVIOUS
<1>8. o \in Nat /\ m \in o..n
  BY <1>2, <1>6, <1>7 DEF UpTo
<1>9. page = SubSeq(list, o + 1, m)
  BY <1>1, <1>5, <1>7 DEF Page, UpTo
<1>10. \A i \in (o + 1)..m : list[i] \in S
  BY <1>2, <1>4, <1>8
<1>11. /\ page \in Seq(S) /\ Len(page) = (IF o + 1 <= m THEN m - (o + 1) + 1 ELSE 0)
       /\ \A i \in 1..(m - (o + 1) + 1) : page[i] = list[(o + 1) + i - 1]
  BY <1>8, <1>9, <1>10, SubSeqProperties
<1>12. Len(page) = m - o /\ m - (o + 1) + 1 = m - o
  BY <1>2, <1>8, <1>11
<1>13. \A i \in 1..Len(page) : PlaceOf(page[i], R, S) = o + i - 1
  <2> TAKE i \in 1..Len(page)
  <2>1. page[i] = list[(o + 1) + i - 1]
    BY <1>11, <1>12
  <2>2. (o + 1) + i - 1 = o + i /\ o + i \in 1..n
    BY <1>2, <1>8, <1>12
  <2>3. PICK j : j = o + i
    OBVIOUS
  <2>4. page[i] = list[j] /\ PlaceOf(list[j], R, S) = j - 1
    BY <1>4, <2>1, <2>2, <2>3
  <2>5. j - 1 = o + i - 1
    BY <1>2, <1>8, <2>2, <2>3
  <2> QED
    BY <2>4, <2>5
<1> QED
  BY <1>2, <1>7, <1>8, <1>11, <1>12, <1>13 DEF R

\* After it, what is shown goes as far as the page.
LEMMA ShownGoesOn ==
  ASSUME NEW d, NEW q, GoodList(d, q), NEW n, n = Cardinality(DOMAIN KeysOf(d, q)), q.offset <= n,
         NEW seq, ShowsFirst(seq, q.offset, d, q), NEW page, page = Page(TheList(d, q), q.limit, q.offset),
         NEW new, DOMAIN new = DOMAIN page, new = [i \in DOMAIN page |-> NameOf(q, page[i])]
  PROVE  ShowsFirst(seq \o new, UpTo(q, n), d, q)
<1>1. PICK k, S, names : k = KeysOf(d, q) /\ S = DOMAIN k /\ names = {NameOf(q, e) : e \in S}
  OBVIOUS
<1>2. PICK o, m : o = q.offset /\ m = UpTo(q, n)
  OBVIOUS
<1>3. /\ n \in Nat /\ m \in o..n /\ page \in Seq(S) /\ Len(page) = m - o
      /\ \A i \in 1..Len(page) : PlaceOf(page[i], ByKeys(k), S) = o + i - 1
  BY <1>1, <1>2, PagesGoOn
<1>4. o \in Nat
  BY <1>2 DEF GoodList
<1>5. /\ seq \in Seq(names) /\ Len(seq) = o
      /\ \A i \in 1..o : \E e \in S : seq[i] = NameOf(q, e) /\ PlaceOf(e, ByKeys(k), S) = i - 1
  BY <1>1, <1>2 DEF ShowsFirst
<1>6. DOMAIN page = 1..(m - o) /\ \A i \in 1..(m - o) : page[i] \in S
  BY <1>3, LenProperties, ElementOfSeq
<1>7. m - o \in Nat
  BY <1>3, <1>4
<1>8. new \in Seq(names) /\ Len(new) = m - o
  <2>1. \A i \in 1..(m - o) : new[i] \in names
    BY <1>1, <1>6
  <2>2. new \in [1..(m - o) -> names]
    BY <1>6, <2>1
  <2> QED
    BY <1>7, <2>2
<1>9. /\ seq \o new \in Seq(names) /\ Len(seq \o new) = o + (m - o)
      /\ \A i \in 1..(o + (m - o)) : (seq \o new)[i] = IF i <= o THEN seq[i] ELSE new[i - o]
  <2>1. /\ seq \o new \in Seq(names) /\ Len(seq \o new) = Len(seq) + Len(new)
        /\ \A i \in 1..(Len(seq) + Len(new)) : (seq \o new)[i] = IF i <= Len(seq) THEN seq[i] ELSE new[i - Len(seq)]
    <3>1. seq \in Seq(names) /\ new \in Seq(names)
      BY <1>5, <1>8
    <3> QED
      BY <3>1, ConcatProperties
  <2>2. Len(seq) = o /\ Len(new) = m - o
    BY <1>5, <1>8
  <2> QED
    BY <2>1, <2>2
<1>10. PICK all : all = seq \o new
  OBVIOUS
<1>11. o + (m - o) = m
  BY <1>3, <1>4
<1>12. \A i \in 1..m : \E e \in S : all[i] = NameOf(q, e) /\ PlaceOf(e, ByKeys(k), S) = i - 1
  <2> TAKE i \in 1..m
  <2>1. CASE i <= o
    <3>1. i \in 1..o /\ all[i] = seq[i]
      BY <1>3, <1>4, <1>9, <1>10, <1>11, <2>1
    <3> QED
      BY <1>5, <3>1
  <2>2. CASE ~(i <= o)
    <3>1. i - o \in 1..(m - o) /\ o + (i - o) - 1 = i - 1
      BY <1>3, <1>4, <2>2
    <3>2. all[i] = new[i - o]
      BY <1>9, <1>10, <1>11, <2>2
    <3>3. new[i - o] = NameOf(q, page[i - o]) /\ page[i - o] \in S
      BY <1>6, <3>1
    <3>4. PlaceOf(page[i - o], ByKeys(k), S) = o + (i - o) - 1
      BY <1>3, <3>1
    <3> QED
      BY <3>1, <3>2, <3>3, <3>4
  <2> QED
    BY <2>1, <2>2
<1> QED
  BY <1>1, <1>2, <1>9, <1>10, <1>11, <1>12 DEF ShowsFirst

\* What is shown of a list is in it, and nothing twice.
LEMMA ShownIsDistinct ==
  ASSUME NEW d, NEW q, GoodList(d, q), NEW m \in Nat, NEW seq, ShowsFirst(seq, m, d, q)
  PROVE  /\ Distinct(seq) /\ Len(seq) = m
         /\ {seq[i] : i \in DOMAIN seq} \subseteq {NameOf(q, e) : e \in DOMAIN KeysOf(d, q)}
<1>1. PICK k, S : k = KeysOf(d, q) /\ S = DOMAIN k
  OBVIOUS
<1>2. IsFiniteSet(S) /\ Orders(ByKeys(k), S) /\ \A e, f \in S : NameOf(q, e) = NameOf(q, f) => e = f
  BY <1>1, ListsAreOrdered
<1>3. /\ seq \in Seq({NameOf(q, e) : e \in S}) /\ Len(seq) = m
      /\ \A i \in 1..m : \E e \in S : seq[i] = NameOf(q, e) /\ PlaceOf(e, ByKeys(k), S) = i - 1
  BY <1>1 DEF ShowsFirst
<1>4. DOMAIN seq = 1..m
  BY <1>3, LenProperties
<1>5. \A i, j \in 1..m : seq[i] = seq[j] => i = j
  <2> SUFFICES ASSUME NEW i \in 1..m, NEW j \in 1..m, seq[i] = seq[j] PROVE i = j
    OBVIOUS
  <2>1. PICK e \in S : seq[i] = NameOf(q, e) /\ PlaceOf(e, ByKeys(k), S) = i - 1
    BY <1>3
  <2>2. PICK f \in S : seq[j] = NameOf(q, f) /\ PlaceOf(f, ByKeys(k), S) = j - 1
    BY <1>3
  <2>3. i - 1 = j - 1
    BY <1>2, <2>1, <2>2
  <2> QED
    BY <2>3
<1>6. \A i \in 1..m : \E e \in S : seq[i] = NameOf(q, e)
  BY <1>3
<1> QED
  BY <1>1, <1>3, <1>4, <1>5, <1>6 DEF Distinct

-----------------------------------------------------------------------------
(* Walks. *)

\* The sorted list has all elements.
LEMMA ListsAreLong ==
  ASSUME NEW d, NEW q, GoodList(d, q), NEW n, n = Cardinality(DOMAIN KeysOf(d, q))
  PROVE  n \in Nat /\ Len(TheList(d, q)) = n
<1>1. PICK k, S, list : k = KeysOf(d, q) /\ S = DOMAIN k /\ list = TheList(d, q)
  OBVIOUS
<1>2. n \in Nat
  BY ListsAreOrdered, FS_CardinalityType
<1>3. Arranges(list, ByKeys(k), S)
  BY <1>1, ListsAreArranged
<1>4. DOMAIN list = 1..n
  BY <1>1, <1>3 DEF Arranges
<1>5. Len(list) = n
  BY <1>2, <1>4
<1> QED
  BY <1>1, <1>2, <1>5

\* The names a client expects are those of the list the handler pages through.
LEMMA ExpectedAreListed ==
  ASSUME GoodList(db, ask)
  PROVE  /\ Expected = {NameOf(ask, e) : e \in DOMAIN KeysOf(db, ask)}
         /\ Cardinality(Expected) = Cardinality(DOMAIN KeysOf(db, ask))
<1>1. PICK S : S = DOMAIN KeysOf(db, ask)
  OBVIOUS
<1>2. Expected = {NameOf(ask, e) : e \in S}
  <2>1. CASE ask.kind = "candidates"
    BY <1>1, <2>1 DEF Expected, KeysOf, NameOf
  <2>2. CASE ask.kind = "search"
    BY <1>1, <2>2 DEF Expected, KeysOf, NameOf
  <2>3. CASE ask.kind = "evidence" /\ ~OnlyChunks(ask)
    BY <1>1, <2>3 DEF Expected, KeysOf, NameOf
  <2>4. CASE ask.kind = "evidence" /\ OnlyChunks(ask)
    <3>1. FinancialItems(db, ask) = {} /\ PriceItems(db, ask) = {}
      BY <2>4 DEF OnlyChunks, FinancialItems, PriceItems
    <3>2. Expected = {i.id : i \in FilterDates(ChunkItems(db, ask), ask)}
      BY <2>4, <3>1 DEF Expected
    <3>3. S = DatedChunks(db, ask) /\ \A e : NameOf(ask, e) = e.id
      BY <1>1, <2>4 DEF KeysOf, NameOf
    <3>4. \A c \in Live(db) : LET i == Item(c.source, c.id, c.published, DateOf(c)) IN
            i.id = c.id /\ ItemDate(i) = DateOf(c)
      BY DEF Item, ItemDate, DateOf
    <3>5. \A c \in Live(db) :
            c \in DatedChunks(db, ask) <=> /\ c.ticker = ask.ticker /\ c.source \in ask.types
                                           /\ \/ ask.from = None /\ ask.to = None
                                              \/ /\ DateOf(c) # None
                                                 /\ ask.from # None => DateOf(c) >= ask.from
                                                 /\ ask.to # None => DateOf(c) <= ask.to
      <4>1. ask.from \in OrNull(Int) /\ ask.to \in OrNull(Int)
        BY <2>4 DEF GoodList
      <4>2. \A c \in Live(db) : DateOf(c) \in OrNull(Int)
        BY DEF GoodList, ListTables, IsChunk, Live, DateOf
      <4> QED
        BY <4>1, <4>2 DEF DatedChunks, NotAfter, OrNull
    <3>6. \A c \in Live(db) :
            c \in DatedChunks(db, ask) <=>
              /\ c.ticker = ask.ticker /\ c.source \in ask.types
              /\ Item(c.source, c.id, c.published, DateOf(c)) \in FilterDates(ChunkItems(db, ask), ask)
      <4> TAKE c \in Live(db)
      <4>1. PICK i : i = Item(c.source, c.id, c.published, DateOf(c))
        OBVIOUS
      <4>2. c.ticker = ask.ticker /\ c.source \in ask.types => i \in ChunkItems(db, ask)
        BY <4>1 DEF ChunkItems
      <4>3. ItemDate(i) = DateOf(c)
        BY <3>4, <4>1
      <4> QED
        BY <3>5, <4>1, <4>2, <4>3 DEF FilterDates
    <3>7. \A i \in FilterDates(ChunkItems(db, ask), ask) :
            \E c \in Live(db) : /\ i = Item(c.source, c.id, c.published, DateOf(c))
                                /\ c.ticker = ask.ticker /\ c.source \in ask.types
      BY DEF FilterDates, ChunkItems
    <3>8. DatedChunks(db, ask) \subseteq Live(db)
      BY DEF DatedChunks
    <3>9. \A x : (\E i \in FilterDates(ChunkItems(db, ask), ask) : x = i.id) <=> (\E c \in DatedChunks(db, ask) : x = c.id)
      BY <3>4, <3>6, <3>7, <3>8
    <3>10. {NameOf(ask, e) : e \in S} = {c.id : c \in DatedChunks(db, ask)}
      BY <3>3
    <3>11. {i.id : i \in FilterDates(ChunkItems(db, ask), ask)} = {c.id : c \in DatedChunks(db, ask)}
      BY <3>9
    <3> QED
      BY <3>2, <3>10, <3>11
  <2> QED
    BY <2>1, <2>2, <2>3, <2>4 DEF GoodList, Paged
<1>3. IsFiniteSet(S) /\ \A e, f \in S : NameOf(ask, e) = NameOf(ask, f) => e = f
  BY <1>1, ListsAreOrdered
<1>4. PICK names : names = [e \in S |-> NameOf(ask, e)]
  OBVIOUS
<1>5. names \in Surjection(S, Expected) /\ names \in Injection(S, Expected)
  BY <1>2, <1>3, <1>4 DEF Surjection, Injection, IsInjective
<1>6. Cardinality(Expected) = Cardinality(S)
  BY <1>3, <1>5, FS_Surjection
<1> QED
  BY <1>1, <1>2, <1>6

\* The list does not depend on where a page starts.
LEMMA MovedLists ==
  ASSUME NEW d, NEW q, GoodList(d, q), NEW o \in Nat, NEW r, r = [q EXCEPT !.offset = o]
  PROVE  /\ GoodList(d, r) /\ KeysOf(d, r) = KeysOf(d, q) /\ \A e : NameOf(r, e) = NameOf(q, e)
         /\ r.offset = o /\ r.limit = q.limit /\ r.kind = q.kind
<1>0. q.kind \in {"candidates", "evidence", "search"} /\ {"kind", "offset", "limit"} \subseteq DOMAIN q
  BY DEF GoodList, Paged, HasFields
<1>1. r.kind = q.kind /\ r.limit = q.limit /\ r.offset = o /\ DOMAIN r = DOMAIN q
  BY <1>0
<1>2. \A e : NameOf(r, e) = NameOf(q, e)
  BY <1>1 DEF NameOf
<1>3. CASE q.kind = "candidates"
  <2>1. {"version", "market", "sector", "sort", "profile"} \subseteq DOMAIN q
    BY <1>3 DEF GoodList, HasFields
  <2>2. /\ r.version = q.version /\ r.market = q.market /\ r.sector = q.sector
        /\ r.sort = q.sort /\ r.profile = q.profile
    BY <2>1
  <2>3. GoodList(d, r)
    BY <1>1, <1>3 DEF GoodList, HasFields
  <2>4. \A s : (InFilter(d, r, s) <=> InFilter(d, q, s)) /\ CandidateKey(d, r, s) = CandidateKey(d, q, s)
    BY <2>2 DEF InFilter, CandidateKey
  <2>5. StockCandidates(d, r) = StockCandidates(d, q)
    BY <2>2, <2>4 DEF StockCandidates
  <2>6. KeysOf(d, r) = KeysOf(d, q)
    BY <1>1, <1>3, <2>4, <2>5 DEF KeysOf
  <2> QED
    BY <1>1, <1>2, <2>3, <2>6
<1>4. CASE q.kind = "search"
  <2>1. r.word = q.word /\ r.market = q.market
    BY <1>4 DEF GoodList, HasFields
  <2>2. GoodList(d, r)
    BY <1>1, <1>4 DEF GoodList, HasFields
  <2>3. Found(d, r) = Found(d, q)
    BY <2>1 DEF Found
  <2>4. KeysOf(d, r) = KeysOf(d, q)
    BY <1>1, <1>4, <2>3 DEF KeysOf
  <2> QED
    BY <1>1, <1>2, <2>2, <2>4
<1>5. CASE q.kind = "evidence"
  <2>1. {"ticker", "types", "from", "to"} \subseteq DOMAIN q
    BY <1>5 DEF GoodList, HasFields
  <2>2. r.ticker = q.ticker /\ r.types = q.types /\ r.from = q.from /\ r.to = q.to
    BY <2>1
  <2>3. GoodList(d, r)
    BY <1>1, <1>5, <2>2 DEF GoodList, HasFields
  <2>4. OnlyChunks(r) <=> OnlyChunks(q)
    BY <2>2 DEF OnlyChunks
  <2>5. DatedChunks(d, r) = DatedChunks(d, q)
    BY <2>2 DEF DatedChunks
  <2>6. /\ FinancialItems(d, r) = FinancialItems(d, q) /\ ChunkItems(d, r) = ChunkItems(d, q)
        /\ PriceItems(d, r) = PriceItems(d, q)
    BY <2>2 DEF FinancialItems, ChunkItems, PriceItems
  <2>7. \A items : FilterDates(items, r) = FilterDates(items, q)
    BY <2>2 DEF FilterDates
  <2>8. KeysOf(d, r) = KeysOf(d, q)
    <3>1. CASE OnlyChunks(q)
      BY <1>1, <1>5, <2>4, <2>5, <3>1 DEF KeysOf
    <3>2. CASE ~OnlyChunks(q)
      BY <1>1, <1>5, <2>4, <2>6, <2>7, <3>2 DEF KeysOf
    <3> QED
      BY <3>1, <3>2
  <2> QED
    BY <1>1, <1>2, <2>3, <2>8
<1> QED
  BY <1>0, <1>3, <1>4, <1>5

\* What has been read of a list, and shown of it, while nobody writes.
WalkReads ==
  /\ got.step \in {"counted", "dated"} => got.total = Cardinality(DOMAIN KeysOf(db, ask))
  /\ ask.kind = "evidence" /\ got.step = "counted" => OnlyChunks(ask)
  /\ got.step \in {"financials", "chunks"} => ~OnlyChunks(ask)
  /\ got.step = "financials" => got.items = FinancialItems(db, ask)
  /\ got.step = "chunks" => got.items = FinancialItems(db, ask) \union ChunkItems(db, ask)

\* What the pages so far have shown, and what the last answer announces.
WalkShows ==
  LET n == Cardinality(DOMAIN KeysOf(db, ask)) IN
  /\ answer = None => ask.offset <= n /\ ShowsFirst(shown, ask.offset, db, ask)
  /\ answer # None => /\ answer.more <=> ask.offset + ask.limit < n
                      /\ ShowsFirst(shown, UpTo(ask, n), db, ask)

\* Both, until somebody writes.
WalkInv ==
  ask.kind \in Paged => writes \in Nat /\ (writes = 0 => GoodList(db, ask) /\ WalkReads /\ WalkShows)

\* A walk that follows these rules is complete.
LEMMA WalksFollow == WalkInv => WalksAreComplete
<1> SUFFICES ASSUME WalkInv, writes = 0, answer # None, ask.kind \in Paged
             PROVE  /\ Distinct(shown)
                    /\ {shown[i] : i \in DOMAIN shown} \subseteq Expected
                    /\ ~answer.more => Len(shown) = Cardinality(Expected)
                    /\ answer.more => Len(shown) < Cardinality(Expected)
  BY DEF WalksAreComplete
<1>1. PICK n : n = Cardinality(DOMAIN KeysOf(db, ask))
  OBVIOUS
<1>2. GoodList(db, ask) /\ (answer.more <=> ask.offset + ask.limit < n) /\ ShowsFirst(shown, UpTo(ask, n), db, ask)
  BY <1>1 DEF WalkInv, WalkShows
<1>3. n \in Nat /\ ask.offset \in Nat /\ ask.limit \in Nat
  BY <1>1, <1>2, ListsAreLong DEF GoodList
<1>4. UpTo(ask, n) \in Nat
  BY <1>3 DEF UpTo
<1>5. /\ Distinct(shown) /\ Len(shown) = UpTo(ask, n)
      /\ {shown[i] : i \in DOMAIN shown} \subseteq {NameOf(ask, e) : e \in DOMAIN KeysOf(db, ask)}
  BY <1>2, <1>4, ShownIsDistinct
<1>6. Cardinality(Expected) = n /\ Expected = {NameOf(ask, e) : e \in DOMAIN KeysOf(db, ask)}
  BY <1>1, <1>2, ExpectedAreListed
<1>7. /\ ~answer.more => UpTo(ask, n) = n
      /\ answer.more => UpTo(ask, n) < n
  BY <1>2, <1>3 DEF UpTo
<1> QED
  BY <1>5, <1>6, <1>7

-----------------------------------------------------------------------------
(* Steps of a walk. *)

\* A walk starts with nothing shown.
LEMMA WalkInit == Init => WalkInv
<1> SUFFICES ASSUME Init, ask.kind \in Paged PROVE writes \in Nat /\ GoodList(db, ask) /\ WalkReads /\ WalkShows
  BY DEF WalkInv
<1>1. PICK s \in Starts : db = s[1] /\ ask = s[2]
  BY DEF Init
<1>2. ListStart(db, ask) /\ HasFields(ask, {"kind"})
  BY <1>1, StartsAssumption DEF Paged
<1>3. GoodList(db, ask) /\ ask.offset = 0
  BY <1>2 DEF GoodList, ListStart
<1>4. got = [step |-> "start"] /\ answer = None /\ shown = <<>> /\ writes = 0
  BY DEF Init
<1>5. WalkReads
  BY <1>4 DEF WalkReads
<1>6. PICK n : n = Cardinality(DOMAIN KeysOf(db, ask))
  OBVIOUS
<1>7. n \in Nat
  BY <1>3, <1>6, ListsAreLong
<1>8. ShowsFirst(shown, 0, db, ask)
  <2>1. \A S : shown \in Seq(S) /\ Len(shown) = 0
    BY <1>4
  <2> QED
    BY <2>1 DEF ShowsFirst
<1>9. WalkShows
  BY <1>3, <1>4, <1>6, <1>7, <1>8 DEF WalkShows
<1> QED
  BY <1>3, <1>4, <1>5, <1>9

\* A read shows nothing.
LEMMA ReadStep ==
  ASSUME WalkInv, UNCHANGED <<db, ask, answer, shown, writes>>, ask.kind \in Paged /\ writes = 0 => WalkReads'
  PROVE  WalkInv'
<1> SUFFICES ASSUME ask.kind \in Paged PROVE writes \in Nat /\ (writes = 0 => GoodList(db, ask) /\ WalkReads' /\ WalkShows')
  BY DEF WalkInv
<1>1. writes = 0 => WalkShows'
  BY DEF WalkInv, WalkShows
<1> QED
  BY <1>1 DEF WalkInv

\* The page shown is the next of the list, and has_more is told from its length.
LEMMA ShowStep ==
  ASSUME WalkInv, ask.kind \in Paged, answer = None, UNCHANGED <<db, ask, got, writes>>,
         NEW total, answer' = Pagination(ask.limit, ask.offset, total),
         NEW page, shown' = shown \o [i \in DOMAIN page |-> NameOf(ask, page[i])],
         writes = 0 => total = Cardinality(DOMAIN KeysOf(db, ask)) /\ page = Page(TheList(db, ask), ask.limit, ask.offset)
  PROVE  WalkInv'
<1> SUFFICES ASSUME writes = 0 PROVE GoodList(db, ask) /\ WalkReads' /\ WalkShows'
  BY DEF WalkInv
<1>1. GoodList(db, ask) /\ WalkReads /\ WalkShows
  BY DEF WalkInv
<1>2. WalkReads'
  BY <1>1 DEF WalkReads
<1>3. ask.offset <= total /\ ShowsFirst(shown, ask.offset, db, ask)
  BY <1>1 DEF WalkShows
<1>4. PICK new : DOMAIN new = DOMAIN page /\ new = [i \in DOMAIN page |-> NameOf(ask, page[i])]
  OBVIOUS
<1>5. ShowsFirst(shown \o new, UpTo(ask, total), db, ask)
  BY <1>1, <1>3, <1>4, ShownGoesOn
<1>6. ShowsFirst(shown', UpTo(ask, total), db, ask)
  BY <1>4, <1>5
<1>7. total \in Nat /\ ask.offset \in Nat /\ ask.limit \in Nat
  BY <1>1, ListsAreLong DEF GoodList
<1>8. answer' # None /\ (answer'.more <=> ask.offset + ask.limit < total)
  <2>1. answer' = [total |-> total, more |-> ask.offset + ask.limit < total]
    BY DEF Pagination
  <2>2. (ask.offset + ask.limit < total) \in BOOLEAN
    BY <1>7
  <2>3. answer' \in [total : Nat, more : BOOLEAN]
    BY <1>7, <2>1, <2>2
  <2>4. PICK b \in BOOLEAN : b <=> ask.offset + ask.limit < total
    BY <2>2
  <2>5. answer' = [total |-> total, more |-> b]
    BY <2>1, <2>2, <2>4
  <2>6. answer'.more = b
    BY <2>5
  <2> QED
    BY <2>3, <2>4, <2>6, NoneAssumption
<1>9. WalkShows'
  BY <1>6, <1>8 DEF WalkShows
<1> QED
  BY <1>1, <1>2, <1>9

\* What the candidates' handler reads and shows.
LEMMA CandidateSteps ==
  ASSUME WalkInv, CountCandidates \/ DateCandidates \/ ListCandidates
  PROVE  WalkInv'
<1>1. ask.kind = "candidates" /\ ask.kind \in Paged /\ answer = None
  BY DEF CountCandidates, DateCandidates, ListCandidates, At, Paged
<1>2. DOMAIN KeysOf(db, ask) = StockCandidates(db, ask)
  BY <1>1 DEF KeysOf
<1>3. writes = 0 => WalkReads
  BY <1>1 DEF WalkInv
<1>4. CASE CountCandidates
  <2>1. WalkReads'
    BY <1>1, <1>2, <1>4 DEF CountCandidates, Read, WalkReads
  <2> QED
    BY <1>4, <2>1, ReadStep DEF CountCandidates, Read
<1>5. CASE DateCandidates
  <2>1. got'.step = "dated" /\ got'.total = got.total /\ got.step = "counted" /\ UNCHANGED <<db, ask, answer, shown, writes>>
    BY <1>5 DEF DateCandidates, Read, At
  <2>2. writes = 0 => WalkReads'
    BY <1>1, <1>3, <2>1 DEF WalkReads
  <2> QED
    BY <2>1, <2>2, ReadStep
<1>6. CASE ListCandidates
  <2>1. PICK page : page = CandidatePage(db, ask)
    OBVIOUS
  <2>2. /\ answer' = Pagination(ask.limit, ask.offset, got.total) /\ UNCHANGED <<db, ask, got, writes>>
        /\ shown' = shown \o [i \in DOMAIN page |-> page[i].ticker] /\ got.step = "dated"
    BY <1>6, <2>1 DEF ListCandidates, Show, At
  <2>3. [i \in DOMAIN page |-> page[i].ticker] = [i \in DOMAIN page |-> NameOf(ask, page[i])]
    BY <1>1 DEF NameOf
  <2>4. page = Page(TheList(db, ask), ask.limit, ask.offset)
    BY <1>1, <2>1 DEF TheList, CandidatePage
  <2>5. writes = 0 => got.total = Cardinality(DOMAIN KeysOf(db, ask))
    BY <1>3, <2>2 DEF WalkReads
  <2> QED
    BY <1>1, <2>2, <2>3, <2>4, <2>5, ShowStep
<1> QED
  BY <1>4, <1>5, <1>6

\* What the search reads and shows.
LEMMA SearchSteps ==
  ASSUME WalkInv, CountFound \/ ListFound
  PROVE  WalkInv'
<1>1. ask.kind = "search" /\ ask.kind \in Paged /\ answer = None
  BY DEF CountFound, ListFound, At, Paged
<1>2. DOMAIN KeysOf(db, ask) = Found(db, ask)
  BY <1>1 DEF KeysOf
<1>3. writes = 0 => WalkReads
  BY <1>1 DEF WalkInv
<1>4. CASE CountFound
  <2>1. WalkReads'
    BY <1>1, <1>2, <1>4 DEF CountFound, Read, WalkReads
  <2> QED
    BY <1>4, <2>1, ReadStep DEF CountFound, Read
<1>5. CASE ListFound
  <2>1. PICK page : page = FoundPage(db, ask)
    OBVIOUS
  <2>2. /\ answer' = Pagination(ask.limit, ask.offset, got.total) /\ UNCHANGED <<db, ask, got, writes>>
        /\ shown' = shown \o [i \in DOMAIN page |-> page[i].ticker] /\ got.step = "counted"
    BY <1>5, <2>1 DEF ListFound, Show, At
  <2>3. [i \in DOMAIN page |-> page[i].ticker] = [i \in DOMAIN page |-> NameOf(ask, page[i])]
    BY <1>1 DEF NameOf
  <2>4. page = Page(TheList(db, ask), ask.limit, ask.offset)
    BY <1>1, <2>1 DEF TheList, FoundPage
  <2>5. writes = 0 => got.total = Cardinality(DOMAIN KeysOf(db, ask))
    BY <1>3, <2>2 DEF WalkReads
  <2> QED
    BY <1>1, <2>2, <2>3, <2>4, <2>5, ShowStep
<1> QED
  BY <1>4, <1>5

\* What the evidence of a stock reads and shows, paged in SQL.
LEMMA ChunkSteps ==
  ASSUME WalkInv, CountChunks \/ ListChunks
  PROVE  WalkInv'
<1>1. ask.kind = "evidence" /\ ask.kind \in Paged /\ answer = None
  BY DEF CountChunks, ListChunks, At, Paged
<1>3. writes = 0 => WalkReads
  BY <1>1 DEF WalkInv
<1>4. CASE CountChunks
  <2>1. OnlyChunks(ask)
    BY <1>4 DEF CountChunks
  <2>2. DOMAIN KeysOf(db, ask) = DatedChunks(db, ask)
    BY <1>1, <2>1 DEF KeysOf
  <2>3. WalkReads'
    BY <1>1, <1>4, <2>1, <2>2 DEF CountChunks, Read, WalkReads
  <2> QED
    BY <1>4, <2>3, ReadStep DEF CountChunks, Read
<1>5. CASE ListChunks
  <2>1. PICK page : page = ChunkPage(db, ask)
    OBVIOUS
  <2>2. /\ answer' = Pagination(ask.limit, ask.offset, got.total) /\ UNCHANGED <<db, ask, got, writes>>
        /\ shown' = shown \o [i \in DOMAIN page |-> page[i].id] /\ got.step = "counted"
    BY <1>5, <2>1 DEF ListChunks, Show, At
  <2>3. [i \in DOMAIN page |-> page[i].id] = [i \in DOMAIN page |-> NameOf(ask, page[i])]
    BY <1>1 DEF NameOf
  <2>4. writes = 0 => OnlyChunks(ask) /\ got.total = Cardinality(DOMAIN KeysOf(db, ask))
    BY <1>1, <1>3, <2>2 DEF WalkReads
  <2>5. writes = 0 => page = Page(TheList(db, ask), ask.limit, ask.offset)
    BY <1>1, <2>1, <2>4 DEF TheList, ChunkPage
  <2> QED
    BY <1>1, <2>2, <2>3, <2>4, <2>5, ShowStep
<1> QED
  BY <1>4, <1>5

\* What it reads and shows when Python cuts the list.
LEMMA ItemSteps ==
  ASSUME WalkInv, ReadFinancials \/ ReadChunks \/ ListItems
  PROVE  WalkInv'
<1>1. ask.kind = "evidence" /\ ask.kind \in Paged /\ answer = None
  BY DEF ReadFinancials, ReadChunks, ListItems, At, Paged
<1>3. writes = 0 => WalkReads
  BY <1>1 DEF WalkInv
<1>4. CASE ReadFinancials
  <2>1. WalkReads'
    BY <1>1, <1>4 DEF ReadFinancials, Read, WalkReads
  <2> QED
    BY <1>4, <2>1, ReadStep DEF ReadFinancials, Read
<1>5. CASE ReadChunks
  <2>1. /\ got'.step = "chunks" /\ got'.items = got.items \union ChunkItems(db, ask)
        /\ got.step = "financials" /\ UNCHANGED <<db, ask, answer, shown, writes>>
    BY <1>5 DEF ReadChunks, Read, At
  <2>2. writes = 0 => WalkReads'
    BY <1>1, <1>3, <2>1 DEF WalkReads
  <2> QED
    BY <2>1, <2>2, ReadStep
<1>6. CASE ListItems
  <2>1. PICK list, page : list = ItemList(got.items \union PriceItems(db, ask), ask) /\ page = Page(list, ask.limit, ask.offset)
    OBVIOUS
  <2>2. /\ answer' = Pagination(ask.limit, ask.offset, Len(list)) /\ UNCHANGED <<db, ask, got, writes>>
        /\ shown' = shown \o [i \in DOMAIN page |-> page[i].id] /\ got.step = "chunks"
    BY <1>6, <2>1 DEF ListItems, Show, At
  <2>3. [i \in DOMAIN page |-> page[i].id] = [i \in DOMAIN page |-> NameOf(ask, page[i])]
    BY <1>1 DEF NameOf
  <2>4. writes = 0 => ~OnlyChunks(ask) /\ got.items = FinancialItems(db, ask) \union ChunkItems(db, ask)
    BY <1>1, <1>3, <2>2 DEF WalkReads
  <2>5. writes = 0 => list = TheList(db, ask)
    BY <1>1, <2>1, <2>4 DEF TheList, ItemList, AllItems
  <2>6. writes = 0 => Len(list) = Cardinality(DOMAIN KeysOf(db, ask))
    BY <1>1, <2>5, ListsAreLong DEF WalkInv
  <2>7. PICK total : total = Len(list)
    OBVIOUS
  <2>8. /\ answer' = Pagination(ask.limit, ask.offset, total)
        /\ shown' = shown \o [i \in DOMAIN page |-> NameOf(ask, page[i])]
        /\ writes = 0 => total = Cardinality(DOMAIN KeysOf(db, ask)) /\ page = Page(TheList(db, ask), ask.limit, ask.offset)
    BY <2>1, <2>2, <2>3, <2>5, <2>6, <2>7
  <2> QED
    BY <1>1, <2>2, <2>8, ShowStep
<1> QED
  BY <1>4, <1>5, <1>6

\* The next page starts where the last ended.
LEMMA PageStep ==
  ASSUME WalkInv, NextPage
  PROVE  WalkInv'
<1>1. ask.kind \in Paged /\ answer # None /\ answer.more
  BY DEF NextPage
<1>2. got' = [step |-> "start"] /\ answer' = None /\ UNCHANGED <<db, shown, writes>>
  BY DEF NextPage
<1>3. PICK o : o = ask.offset + ask.limit
  OBVIOUS
<1>4. ask' = [ask EXCEPT !.offset = o]
  BY <1>3 DEF NextPage
<1>5. writes \in Nat
  BY <1>1 DEF WalkInv
<1>6. ASSUME writes = 0 PROVE GoodList(db, ask') /\ WalkReads' /\ WalkShows'
  <2>1. GoodList(db, ask) /\ WalkShows
    BY <1>1, <1>6 DEF WalkInv
  <2>2. ask.offset \in Nat /\ ask.limit \in Nat /\ o \in Nat
    BY <1>3, <2>1 DEF GoodList
  <2>3. PICK q : q = ask'
    OBVIOUS
  <2>4. /\ GoodList(db, q) /\ KeysOf(db, q) = KeysOf(db, ask) /\ \A e : NameOf(q, e) = NameOf(ask, e)
        /\ q.offset = o
    BY <1>4, <2>1, <2>2, <2>3, MovedLists
  <2>5. PICK n : n = Cardinality(DOMAIN KeysOf(db, ask))
    OBVIOUS
  <2>6. o < n /\ ShowsFirst(shown, UpTo(ask, n), db, ask)
    BY <1>1, <1>3, <2>1, <2>5 DEF WalkShows
  <2>7. n \in Nat
    BY <2>1, <2>5, ListsAreLong
  <2>8. UpTo(ask, n) = o /\ o <= n
    BY <1>3, <2>2, <2>6, <2>7 DEF UpTo
  <2>9. ShowsFirst(shown, o, db, q)
    BY <2>4, <2>6, <2>8 DEF ShowsFirst
  <2>10. WalkReads'
    BY <1>2 DEF WalkReads
  <2>11. WalkShows'
    BY <1>2, <2>3, <2>4, <2>5, <2>8, <2>9 DEF WalkShows
  <2> QED
    BY <2>3, <2>4, <2>10, <2>11
<1> QED
  BY <1>2, <1>5, <1>6 DEF WalkInv

\* A walk follows these rules.
LEMMA WalkStep == WalkInv /\ AskInv /\ [Next]_vars => WalkInv'
<1> SUFFICES ASSUME WalkInv, AskInv, [Next]_vars, ask'.kind \in Paged PROVE WalkInv'
  BY DEF WalkInv
<1>1. ask'.kind = ask.kind /\ ask.kind \in Paged
  BY KindsStay
<1>2. ask.kind \notin {"rank", "score", "align", "gate", "recommended"}
  BY <1>1 DEF Paged
<1>3. CASE UNCHANGED vars
  BY <1>3 DEF vars, WalkInv, WalkReads, WalkShows
<1>4. CASE CountCandidates \/ DateCandidates \/ ListCandidates
  BY <1>4, CandidateSteps
<1>5. CASE CountFound \/ ListFound
  BY <1>5, SearchSteps
<1>6. CASE CountChunks \/ ListChunks
  BY <1>6, ChunkSteps
<1>7. CASE ReadFinancials \/ ReadChunks \/ ListItems
  BY <1>7, ItemSteps
<1>8. CASE NextPage
  BY <1>8, PageStep
<1>9. CASE ScoreCommitted \/ ChunkCommitted \/ ChunkRemoved
  <2>1. writes' = writes + 1
    BY <1>9 DEF ScoreCommitted, ChunkCommitted, ChunkRemoved, Commit
  <2>2. writes' \in Nat /\ writes' # 0
    BY <1>1, <2>1 DEF WalkInv
  <2> QED
    BY <2>2 DEF WalkInv
<1>10. ~Rank /\ ~ScoreStock /\ ~Align /\ ~SelectRows /\ ~SummarizeRows /\ ~CountRisks /\ ~Respond
  BY <1>2 DEF Rank, ScoreStock, Align, SelectRows, SummarizeRows, CountRisks, Respond, At
<1>11. ~CheckReadiness /\ ~CheckRawArchive /\ ~CheckEgress /\ ~ReadStatus /\ ~DecideGate /\ ~RunStarted /\ ~RunEnded
  BY <1>2 DEF CheckReadiness, CheckRawArchive, CheckEgress, ReadStatus, DecideGate, RunStarted, RunEnded, At
<1> QED
  BY <1>3, <1>4, <1>5, <1>6, <1>7, <1>8, <1>9, <1>10, <1>11 DEF Next

\* The pages show each item once.
THEOREM WalksStayComplete == Spec => []WalksAreComplete
<1> QED
  BY WalkInit, WalkStep, WalksFollow, Questions, PTL DEF Spec

-----------------------------------------------------------------------------
(* Recommendations. *)

\* Scores and chunks whatever is committed: one score of a stock, a date and a version.
TablesInv ==
  /\ HasFields(db, TableNames) /\ IsFiniteSet(db.scores) /\ IsFiniteSet(db.chunks)
  /\ \A s \in db.scores : IsScore(s)
  /\ \A s, t \in db.scores : <<s.ticker, s.asOf, s.version>> = <<t.ticker, t.asOf, t.version>> => s = t

\* Rows read together have one score of each stock.
RowsInv(rows) == IsFiniteSet(rows) /\ (\A s \in rows : IsScore(s)) /\ \A s, t \in rows : s.ticker = t.ticker => s = t

\* The rows that passed the gate, with the evidence it saw.
GatedInv(rows, summaries) ==
  \A s \in rows : /\ PassesEvidenceGate(s) /\ HasListableLiveEvidence(summaries[s.ticker])
                  /\ summaries[s.ticker].news \in Nat /\ summaries[s.ticker].disclosures \in Nat

\* The rows that pass the gate by the evidence in the tables.
BackedRows(d, q) ==
  {s \in CandidateRows(d, q) : PassesEvidenceGate(s) /\ HasListableLiveEvidence(EvidenceSummary(d, s.ticker))}

\* What has been read for the recommendations, and what of it is current while nobody writes.
RowsRead ==
  /\ got.step \in {"selected", "gated", "counted"} => RowsInv(got.rows)
  /\ got.step \in {"gated", "counted"} => GatedInv(got.rows, got.summaries)
  /\ writes = 0 =>
       /\ ListTables(db)
       /\ got.step = "selected" => got.rows = CandidateRows(db, ask)
       /\ got.step \in {"gated", "counted"} => got.rows = BackedRows(db, ask)
       /\ got.step = "counted" /\ ask.profile # "aggressive" =>
            \A s \in got.rows : got.risks[s] = Cardinality(Risks(db, s))

\* A list of recommendations is backed, as RecommendationsAreBacked says.
Backed(d, q, w, items) ==
  LET rows == StockCandidates(d, q)
      listed == {i.score : i \in {items[n] : n \in DOMAIN items}}
      key(s) == RowKey(q, [r \in rows |-> Cardinality(Risks(d, r))], s)
  IN /\ \A n \in DOMAIN items : /\ items[n].count >= 2 /\ items[n].latest # None
                                /\ \A i \in items[n].ids : ~i.mock
     /\ Distinct([n \in DOMAIN items |-> items[n].ticker])
     /\ Len(items) <= q.limit
     /\ w = 0 =>
          /\ listed \subseteq {s.id : s \in rows}
          /\ \A s, t \in rows : s.id \in listed /\ t.id \notin listed /\ Before(key(t), key(s)) =>
               ~(/\ PassesEvidenceGate(t) /\ Risks(d, t) # {}
                 /\ HasListableLiveEvidence(EvidenceSummary(d, t.ticker)))

\* What is read of the recommendations, and the answer.
RecommendInv ==
  ask.kind = "recommended" =>
    /\ writes \in Nat /\ ask.limit \in Nat /\ TablesInv /\ RowsRead
    /\ answer # None => Backed(db, ask, writes, answer.items)

\* The newest scores of a filter are one for each stock.
LEMMA RowsAreSingle ==
  ASSUME TablesInv
  PROVE  RowsInv(CandidateRows(db, ask))
<1>1. CandidateRows(db, ask) \subseteq Selected(db, ask.version) /\ CandidateRows(db, ask) \subseteq db.scores
  BY DEF CandidateRows, Selected
<1>2. \A s, t \in Selected(db, ask.version) : s.ticker = t.ticker => s = t
  <2>1. PICK d : d = db
    OBVIOUS
  <2>2. /\ \A s \in d.scores : IsScore(s)
        /\ \A s, t \in d.scores : <<s.ticker, s.asOf, s.version>> = <<t.ticker, t.asOf, t.version>> => s = t
    BY <2>1 DEF TablesInv
  <2> QED
    BY <2>1, <2>2, OneScoreEach
<1>3. IsFiniteSet(CandidateRows(db, ask))
  BY <1>1, FS_Subset DEF TablesInv
<1> QED
  BY <1>1, <1>2, <1>3 DEF RowsInv, TablesInv

\* A summary counts.
LEMMA SummariesCount ==
  ASSUME NEW d, IsFiniteSet(d.chunks), NEW ticker
  PROVE  EvidenceSummary(d, ticker).news \in Nat /\ EvidenceSummary(d, ticker).disclosures \in Nat
<1> DEFINE found == {c \in Live(d) : c.ticker = ticker}
           news == {c \in found : c.source = "news"}
           disclosures == {c \in found : c.source = "disclosure"}
<1>1. news \subseteq d.chunks /\ disclosures \subseteq d.chunks
  BY DEF Live
<1>2. EvidenceSummary(d, ticker).news = Cardinality(news) /\ EvidenceSummary(d, ticker).disclosures = Cardinality(disclosures)
  BY DEF EvidenceSummary
<1> HIDE DEF news, disclosures
<1>3. IsFiniteSet(news) /\ IsFiniteSet(disclosures)
  BY <1>1, FS_Subset
<1> QED
  BY <1>2, <1>3, FS_CardinalityType

\* Each row has its place in the order of the rows, and no row goes before a better one.
Lined(order, q, rows, risks) ==
  LET n == Cardinality(rows) IN
  /\ n \in Nat /\ DOMAIN order = 1..n /\ Len(order) = n
  /\ \A i \in 1..n : order[i] \in rows
  /\ \A i, j \in 1..n : order[i] = order[j] => i = j
  /\ \A s \in rows : \E i \in 1..n : order[i] = s
  /\ \A i, j \in 1..n : i < j => ~Before(RowKey(q, risks, order[j]), RowKey(q, risks, order[i]))

\* The length of an interval.
LEMMA Intervals ==
  ASSUME NEW k \in Nat
  PROVE  IsFiniteSet(1..k) /\ Cardinality(1..k) = k
<1> QED
  BY FS_Interval

\* The rows sorted are all the rows, each once.
LEMMA SortedAreAll ==
  ASSUME NEW q, NEW rows, IsFiniteSet(rows), NEW risks, NEW order, order \in SortedRows(q, rows, risks)
  PROVE  Lined(order, q, rows, risks)
<1>0. PICK n : n = Cardinality(rows)
  OBVIOUS
<1>1. n \in Nat
  BY <1>0, FS_CardinalityType
<1>2. order \in [1..n -> rows] /\ \A i, j \in 1..n : i # j => order[i] # order[j]
  BY <1>0 DEF SortedRows, SetToSeqs
<1>3. DOMAIN order = 1..n /\ Len(order) = n
  BY <1>1, <1>2
<1>4. IsFiniteSet(1..n) /\ Cardinality(1..n) = n
  BY <1>1, Intervals
<1>5. order \in Injection(1..n, rows)
  BY <1>2 DEF Injection, IsInjective
<1>6. order \in Surjection(1..n, rows)
  BY <1>0, <1>4, <1>5, FS_Injection
<1>7. \A s \in rows : \E i \in 1..n : order[i] = s
  BY <1>6 DEF Surjection
<1>8. \A i, j \in 1..n : i < j => ~Before(RowKey(q, risks, order[j]), RowKey(q, risks, order[i]))
  BY <1>3 DEF SortedRows
<1> QED
  BY <1>0, <1>1, <1>2, <1>3, <1>7, <1>8 DEF Lined

\* The fields of a response.
LEMMA ResponsesHave ==
  ASSUME NEW d, NEW s, NEW summary, NEW r, r = CandidateResponse(d, s, summary), s.count \in Int,
         HasListableLiveEvidence(summary), summary.news \in Nat, summary.disclosures \in Nat
  PROVE  /\ r.ticker = s.ticker /\ r.score = s.id /\ r.latest # None /\ r.count >= 2
         /\ \A i \in r.ids : ~i.mock
<1>1. /\ r.ticker = s.ticker /\ r.score = s.id /\ r.latest = summary.latest /\ r.ids = PublicEvidenceIds(s.evidence)
      /\ r.count = IF s.count < summary.news + summary.disclosures THEN summary.news + summary.disclosures ELSE s.count
  BY DEF CandidateResponse
<1>2. r.latest # None /\ summary.news + summary.disclosures >= 2
  BY <1>1 DEF HasListableLiveEvidence
<1>3. r.count >= 2
  <2>1. CASE s.count < summary.news + summary.disclosures
    BY <1>1, <1>2, <2>1
  <2>2. CASE ~(s.count < summary.news + summary.disclosures)
    BY <1>1, <1>2, <2>2
  <2> QED
    BY <2>1, <2>2
<1>4. \A i \in r.ids : ~i.mock
  BY <1>1 DEF PublicEvidenceIds
<1> QED
  BY <1>1, <1>2, <1>3, <1>4

\* The first page of the rows is the list.
LEMMA FirstRows ==
  ASSUME NEW order, NEW n \in Nat, DOMAIN order = 1..n, Len(order) = n, NEW limit \in Nat,
         NEW page, page = Page(order, limit, 0), NEW m, m = IF limit < n THEN limit ELSE n
  PROVE  m \in 0..n /\ m <= limit /\ DOMAIN page = 1..m /\ Len(page) = m
<1> DEFINE S == {order[i] : i \in 1..n}
<1>1. m \in 0..n /\ m <= limit
  OBVIOUS
<1>2. page = SubSeq(order, 1, m)
  <2>1. 0 + 1 = 1 /\ 0 + limit = limit
    OBVIOUS
  <2> QED
    BY <2>1 DEF Page
<1>3. \A i \in 1..m : order[i] \in S
  BY <1>1
<1> HIDE DEF S
<1>4. page \in Seq(S) /\ Len(page) = (IF 1 <= m THEN m - 1 + 1 ELSE 0)
  BY <1>1, <1>2, <1>3, SubSeqProperties
<1>5. Len(page) = m
  BY <1>1, <1>4
<1>6. DOMAIN page = 1..m
  BY <1>4, <1>5, LenProperties
<1> QED
  BY <1>1, <1>5, <1>6

\* While nobody writes the list is the top of the candidates the gate lets through.
LEMMA TopIsListed ==
  ASSUME RowsRead, writes = 0, got.step = "counted", NEW order, Lined(order, ask, got.rows, got.risks),
         NEW m \in 0..Cardinality(got.rows), NEW i \in 1..m,
         NEW s \in StockCandidates(db, ask), NEW t \in StockCandidates(db, ask),
         s.id = order[i].id, \A j \in 1..m : order[j].id # t.id,
         NEW counts, counts = [r \in StockCandidates(db, ask) |-> Cardinality(Risks(db, r))],
         Before(RowKey(ask, counts, t), RowKey(ask, counts, s))
  PROVE  ~(PassesEvidenceGate(t) /\ HasListableLiveEvidence(EvidenceSummary(db, t.ticker)))
<1> SUFFICES ASSUME PassesEvidenceGate(t), HasListableLiveEvidence(EvidenceSummary(db, t.ticker)) PROVE FALSE
  OBVIOUS
<1>0. PICK d, q, rows, risks, all :
        d = db /\ q = ask /\ rows = got.rows /\ risks = got.risks /\ all = StockCandidates(db, ask)
  OBVIOUS
<1>1. PICK n : n = Cardinality(rows)
  OBVIOUS
<1>20. /\ ListTables(d) /\ rows = BackedRows(d, q)
       /\ q.profile # "aggressive" => \A r \in rows : risks[r] = Cardinality(Risks(d, r))
  BY <1>0 DEF RowsRead
<1>2. /\ n \in Nat
      /\ \A j \in 1..n : order[j] \in rows
      /\ \A r \in rows : \E j \in 1..n : order[j] = r
      /\ \A j, k \in 1..n : j < k => ~Before(RowKey(q, risks, order[k]), RowKey(q, risks, order[j]))
  BY <1>0, <1>1 DEF Lined
<1>3. all \subseteq CandidateRows(d, q) /\ CandidateRows(d, q) \subseteq d.scores /\ rows \subseteq CandidateRows(d, q)
  <2>1. all \subseteq CandidateRows(d, q)
    BY <1>0 DEF StockCandidates, CandidateRows
  <2>2. CandidateRows(d, q) \subseteq d.scores
    BY DEF CandidateRows, Selected
  <2>3. rows \subseteq CandidateRows(d, q)
    BY <1>20 DEF BackedRows
  <2> QED
    BY <2>1, <2>2, <2>3
<1>4. t \in rows
  BY <1>0, <1>3, <1>20 DEF BackedRows
<1>5. PICK j \in 1..n : order[j] = t
  BY <1>2, <1>4
<1>6. i \in 1..n
  BY <1>0, <1>1, <1>2
<1>7. order[i] = s
  <2>1. order[i] \in d.scores /\ s \in d.scores
    BY <1>0, <1>2, <1>3, <1>6
  <2> QED
    BY <1>20, <2>1 DEF ListTables, Unique
<1>8. i < j
  <2>1. j \notin 1..m
    BY <1>5
  <2> QED
    BY <1>0, <1>1, <1>2, <1>6, <2>1
<1>9. ~Before(RowKey(q, risks, t), RowKey(q, risks, s))
  BY <1>2, <1>5, <1>6, <1>7, <1>8
<1>10. s \in rows
  BY <1>2, <1>6, <1>7
<1>11. RowKey(q, risks, s) = RowKey(q, counts, s) /\ RowKey(q, risks, t) = RowKey(q, counts, t)
  <2>1. CASE q.profile = "aggressive"
    BY <2>1 DEF RowKey
  <2>2. CASE q.profile # "aggressive"
    <3>1. risks[s] = counts[s] /\ risks[t] = counts[t]
      BY <1>0, <1>4, <1>10, <1>20, <2>2
    <3> QED
      BY <3>1 DEF RowKey
  <2> QED
    BY <2>1, <2>2
<1> QED
  BY <1>0, <1>9, <1>11

\* The responses are backed.
LEMMA ResponsesAreBacked ==
  ASSUME RecommendInv, ask.kind = "recommended", got.step = "counted",
         NEW order, order \in SortedRows(ask, got.rows, got.risks), NEW page, page = Page(order, ask.limit, 0),
         NEW items, DOMAIN items = DOMAIN page,
         items = [i \in DOMAIN page |-> CandidateResponse(db, order[i], got.summaries[order[i].ticker])]
  PROVE  Backed(db, ask, writes, items)
<1> DEFINE rows == got.rows
           all == StockCandidates(db, ask)
           listed == {i.score : i \in {items[n] : n \in DOMAIN items}}
           counts == [r \in all |-> Cardinality(Risks(db, r))]
<1>1. ask.limit \in Nat /\ RowsInv(rows) /\ GatedInv(rows, got.summaries) /\ RowsRead
  BY DEF RecommendInv, RowsRead
<1>0. Lined(order, ask, rows, got.risks)
  BY <1>1, SortedAreAll DEF RowsInv
<1>2. PICK n : n = Cardinality(rows)
  OBVIOUS
<1>3. /\ n \in Nat /\ DOMAIN order = 1..n /\ Len(order) = n
      /\ \A i \in 1..n : order[i] \in rows
      /\ \A i, j \in 1..n : order[i] = order[j] => i = j
  BY <1>0, <1>2 DEF Lined
<1>4. PICK m : m = IF ask.limit < n THEN ask.limit ELSE n
  OBVIOUS
<1>5. m \in 0..n /\ m <= ask.limit /\ DOMAIN page = 1..m /\ Len(page) = m
  <2>1. ask.limit \in Nat /\ n \in Nat /\ DOMAIN order = 1..n /\ Len(order) = n
    BY <1>1, <1>3
  <2>2. PICK limit : limit = ask.limit
    OBVIOUS
  <2> HIDE DEF rows, all, listed, counts
  <2> QED
    BY <1>4, <2>1, <2>2, FirstRows
<1>6. DOMAIN items = 1..m /\ \A i \in 1..m :
        /\ order[i] \in rows
        /\ items[i] = CandidateResponse(db, order[i], got.summaries[order[i].ticker])
  BY <1>3, <1>5
<1>7. \A i \in 1..m : /\ items[i].count >= 2 /\ items[i].latest # None /\ \A x \in items[i].ids : ~x.mock
                      /\ items[i].ticker = order[i].ticker /\ items[i].score = order[i].id
  <2> TAKE i \in 1..m
  <2>1. PICK s, summary : s = order[i] /\ summary = got.summaries[s.ticker]
    OBVIOUS
  <2>2. s \in rows /\ items[i] = CandidateResponse(db, s, summary)
    BY <1>6, <2>1
  <2>3. IsScore(s) /\ HasListableLiveEvidence(summary) /\ summary.news \in Nat /\ summary.disclosures \in Nat
    BY <1>1, <2>1, <2>2 DEF RowsInv, GatedInv
  <2>4. s.count \in Int
    BY <2>3 DEF IsScore
  <2> QED
    BY <2>1, <2>2, <2>3, <2>4, ResponsesHave
<1>8. \A i \in 1..m : items[i].ticker = order[i].ticker /\ items[i].score = order[i].id
  BY <1>7
<1>9. Distinct([i \in DOMAIN items |-> items[i].ticker])
  <2>1. \A i, j \in 1..m : items[i].ticker = items[j].ticker => i = j
    <3> SUFFICES ASSUME NEW i \in 1..m, NEW j \in 1..m, items[i].ticker = items[j].ticker PROVE i = j
      OBVIOUS
    <3>1. order[i] \in rows /\ order[j] \in rows /\ order[i].ticker = order[j].ticker
      BY <1>6, <1>8
    <3>2. order[i] = order[j]
      BY <1>1, <3>1 DEF RowsInv
    <3>3. i \in 1..n /\ j \in 1..n
      BY <1>3, <1>5
    <3> QED
      BY <1>3, <3>2, <3>3
  <2> QED
    <3>1. PICK tickers : tickers = [i \in DOMAIN items |-> items[i].ticker]
      OBVIOUS
    <3>2. DOMAIN tickers = 1..m /\ \A i \in 1..m : tickers[i] = items[i].ticker
      BY <1>6, <3>1
    <3>3. Distinct(tickers)
      BY <2>1, <3>2 DEF Distinct
    <3> QED
      BY <3>1, <3>3
<1>10. Len(items) = m
  BY <1>3, <1>5, <1>6
<1>11. \A x : x \in listed <=> \E i \in 1..m : x = order[i].id
  <2>1. PICK shows : shows = {items[i] : i \in DOMAIN items}
    OBVIOUS
  <2>2. listed = {i.score : i \in shows}
    BY <2>1
  <2>3. \A x : x \in shows <=> \E i \in DOMAIN items : x = items[i]
    BY <2>1
  <2>4. \A x : x \in listed <=> \E y \in shows : x = y.score
    BY <2>2
  <2> HIDE DEF listed
  <2> QED
    <3> TAKE x
    <3>1. ASSUME x \in listed PROVE \E i \in 1..m : x = order[i].id
      <4>1. PICK y \in shows : x = y.score
        BY <2>4, <3>1
      <4>2. PICK i \in DOMAIN items : y = items[i]
        BY <2>3
      <4> QED
        BY <1>6, <1>8, <4>1, <4>2
    <3>2. ASSUME NEW i \in 1..m, x = order[i].id PROVE x \in listed
      <4>1. items[i] \in shows /\ x = items[i].score
        BY <1>6, <1>8, <2>3, <3>2
      <4> QED
        BY <2>4, <4>1
    <3> QED
      BY <3>1, <3>2
<1>12. ASSUME writes = 0
       PROVE  /\ listed \subseteq {s.id : s \in all}
              /\ \A s, t \in all :
                   s.id \in listed /\ t.id \notin listed /\ Before(RowKey(ask, counts, t), RowKey(ask, counts, s)) =>
                     ~(/\ PassesEvidenceGate(t) /\ Risks(db, t) # {}
                       /\ HasListableLiveEvidence(EvidenceSummary(db, t.ticker)))
  <2>1. /\ ListTables(db) /\ rows = BackedRows(db, ask)
        /\ ask.profile # "aggressive" => \A s \in rows : got.risks[s] = Cardinality(Risks(db, s))
    BY <1>1, <1>12 DEF RowsRead
  <2>2. rows \subseteq all
    <3> SUFFICES ASSUME NEW s \in rows PROVE s \in all
      OBVIOUS
    <3>1. s \in CandidateRows(db, ask) /\ PassesEvidenceGate(s)
      BY <2>1 DEF BackedRows
    <3>2. s.missing # None /\ s.freshness # None
      BY <3>1, NoneAssumption DEF PassesEvidenceGate
    <3> QED
      BY <3>1, <3>2 DEF CandidateRows, StockCandidates
  <2>3. listed \subseteq {s.id : s \in all}
    <3> SUFFICES ASSUME NEW x \in listed PROVE \E s \in all : x = s.id
      OBVIOUS
    <3>1. PICK i \in 1..m : x = order[i].id
      BY <1>11
    <3>2. order[i] \in all
      BY <1>6, <2>2
    <3> QED
      BY <3>1, <3>2
  <2>4. ASSUME NEW s \in all, NEW t \in all, s.id \in listed, t.id \notin listed,
               Before(RowKey(ask, counts, t), RowKey(ask, counts, s))
        PROVE  ~(/\ PassesEvidenceGate(t) /\ Risks(db, t) # {}
                 /\ HasListableLiveEvidence(EvidenceSummary(db, t.ticker)))
    <3>1. PICK i \in 1..m : s.id = order[i].id
      BY <1>11, <2>4
    <3>2. \A j \in 1..m : order[j].id # t.id
      BY <1>11, <2>4
    <3>3. m \in 0..Cardinality(rows) /\ IsFiniteSet(rows)
      BY <1>1, <1>2, <1>5 DEF RowsInv
    <3> HIDE DEF listed
    <3> QED
      BY <1>0, <1>1, <1>12, <2>4, <3>1, <3>2, <3>3, TopIsListed
  <2> QED
    BY <2>3, <2>4
<1> HIDE DEF rows
<1>13. Len(items) <= ask.limit
  BY <1>5, <1>10
<1> QED
  BY <1>6, <1>7, <1>9, <1>12, <1>13 DEF Backed

\* Recommendations start from the tables.
LEMMA RecommendInit == Init => RecommendInv
<1> SUFFICES ASSUME Init, ask.kind = "recommended" PROVE writes = 0 /\ ask.limit \in Nat /\ TablesInv /\ RowsRead /\ answer = None
  BY DEF RecommendInv
<1>1. PICK s \in Starts : db = s[1] /\ ask = s[2]
  BY DEF Init
<1>2. HasFields(db, TableNames) /\ ListStart(db, ask)
  BY <1>1, StartsAssumption
<1>3. ask.limit \in Nat /\ ListTables(db)
  BY <1>2 DEF ListStart
<1>4. TablesInv
  BY <1>2, <1>3 DEF TablesInv, ListTables, Unique
<1>5. got.step = "start" /\ writes = 0 /\ answer = None
  BY DEF Init
<1>6. RowsRead
  BY <1>3, <1>5 DEF RowsRead
<1> QED
  BY <1>3, <1>4, <1>5, <1>6

\* A read keeps what it does not read.
LEMMA RecommendReadStep ==
  ASSUME RecommendInv, ask.kind = "recommended", answer = None, UNCHANGED <<db, ask, answer, shown, writes>>, RowsRead'
  PROVE  RecommendInv'
  BY DEF RecommendInv, TablesInv

\* The statements of the handler.
LEMMA RecommendReads ==
  ASSUME RecommendInv, SelectRows \/ SummarizeRows \/ CountRisks
  PROVE  RecommendInv'
<1>1. ask.kind = "recommended" /\ answer = None
  BY DEF SelectRows, SummarizeRows, CountRisks, At
<1>2. TablesInv /\ RowsRead
  BY <1>1 DEF RecommendInv
<1>3. CASE SelectRows
  <2>1. /\ got'.step = "selected" /\ got'.rows = CandidateRows(db, ask)
        /\ UNCHANGED <<db, ask, answer, shown, writes>>
    BY <1>3 DEF SelectRows, Read
  <2>2. RowsInv(got'.rows)
    BY <1>2, <2>1, RowsAreSingle
  <2>3. RowsRead'
    BY <1>2, <2>1, <2>2 DEF RowsRead
  <2> QED
    BY <1>1, <2>1, <2>3, RecommendReadStep
<1>4. CASE SummarizeRows
  <2>1. PICK rows, summaries : rows = got.rows /\ summaries = EvidenceSummaries(db, {s.ticker : s \in rows})
    OBVIOUS
  <2>2. /\ got.step = "selected" /\ got'.step = "gated"
        /\ got'.rows = GatedRows(rows, summaries) /\ got'.summaries = summaries
        /\ UNCHANGED <<db, ask, answer, shown, writes>>
    BY <1>4, <2>1 DEF SummarizeRows, Read, At
  <2>3. RowsInv(rows)
    BY <1>2, <2>1, <2>2 DEF RowsRead
  <2>4. \A s \in rows : summaries[s.ticker] = EvidenceSummary(db, s.ticker)
    BY <2>1 DEF EvidenceSummaries
  <2>5. GatedRows(rows, summaries) =
          {s \in rows : PassesEvidenceGate(s) /\ HasListableLiveEvidence(EvidenceSummary(db, s.ticker))}
    BY <2>4 DEF GatedRows
  <2>6. PICK gated : gated = GatedRows(rows, summaries)
    OBVIOUS
  <2>7. gated \subseteq rows
    BY <2>6 DEF GatedRows
  <2>8. RowsInv(gated)
    BY <2>3, <2>7, FS_Subset DEF RowsInv
  <2>9. GatedInv(gated, summaries)
    <3>1. IsFiniteSet(db.chunks)
      BY <1>2 DEF TablesInv
    <3> QED
      BY <2>4, <2>6, <3>1, SummariesCount DEF GatedInv, GatedRows
  <2>10. writes = 0 => ListTables(db) /\ gated = BackedRows(db, ask)
    BY <1>2, <2>1, <2>2, <2>5, <2>6 DEF RowsRead, BackedRows
  <2>11. RowsRead'
    BY <2>2, <2>6, <2>8, <2>9, <2>10 DEF RowsRead
  <2> QED
    BY <1>1, <2>2, <2>11, RecommendReadStep
<1>5. CASE CountRisks
  <2>1. /\ got.step = "gated" /\ got'.step = "counted" /\ got'.rows = got.rows /\ got'.summaries = got.summaries
        /\ got'.risks = [s \in got.rows |-> IF ask.profile = "aggressive" THEN 0 ELSE Cardinality(Risks(db, s))]
        /\ UNCHANGED <<db, ask, answer, shown, writes>>
    BY <1>5 DEF CountRisks, Read, At
  <2>2. ask.profile # "aggressive" => \A s \in got.rows : got'.risks[s] = Cardinality(Risks(db, s))
    BY <2>1
  <2>3. RowsRead'
    BY <1>2, <2>1, <2>2 DEF RowsRead
  <2> QED
    BY <1>1, <2>1, <2>3, RecommendReadStep
<1> QED
  BY <1>3, <1>4, <1>5

\* Commits between the statements.
LEMMA RecommendCommits ==
  ASSUME RecommendInv, ask.kind = "recommended", ScoreCommitted \/ ChunkCommitted \/ ChunkRemoved
  PROVE  RecommendInv'
<1>1. answer = None /\ writes' = writes + 1 /\ UNCHANGED <<ask, got, answer, shown>>
  BY DEF ScoreCommitted, ChunkCommitted, ChunkRemoved, Commit
<1>2. writes \in Nat /\ ask.limit \in Nat /\ TablesInv /\ RowsRead
  BY DEF RecommendInv
<1>3. {"scores", "chunks"} \subseteq DOMAIN db
  BY <1>2 DEF TablesInv, HasFields, TableNames
<1>4. TablesInv'
  <2>1. CASE ScoreCommitted
    <3>1. PICK n \in NewScores :
            db' = [db EXCEPT !.scores = {s \in @ : <<s.ticker, s.asOf, s.version>> # <<n.ticker, n.asOf, n.version>>}
                                        \union {n}]
      BY <2>1 DEF ScoreCommitted, Commit
    <3>2. PICK others : others = {s \in db.scores : <<s.ticker, s.asOf, s.version>> # <<n.ticker, n.asOf, n.version>>}
      OBVIOUS
    <3>3. db'.scores = others \union {n} /\ db'.chunks = db.chunks /\ DOMAIN db' = DOMAIN db
      BY <1>3, <3>1, <3>2
    <3>4. IsScore(n)
      BY NewRowsAssumption
    <3>5. others \subseteq db.scores
      BY <3>2
    <3>6. IsFiniteSet(db'.scores)
      <4>1. IsFiniteSet(others)
        BY <1>2, <3>5, FS_Subset DEF TablesInv
      <4> QED
        BY <3>3, <4>1, FS_AddElement
    <3>7. \A s \in db'.scores : IsScore(s)
      BY <1>2, <3>3, <3>4, <3>5 DEF TablesInv
    <3>8. \A s, t \in db'.scores : <<s.ticker, s.asOf, s.version>> = <<t.ticker, t.asOf, t.version>> => s = t
      BY <1>2, <3>2, <3>3, <3>5 DEF TablesInv
    <3> QED
      BY <1>2, <3>3, <3>6, <3>7, <3>8 DEF TablesInv, HasFields
  <2>2. CASE ChunkCommitted
    <3>1. PICK c \in NewChunks : db' = [db EXCEPT !.chunks = {d \in @ : d.id # c.id} \union {c}]
      BY <2>2 DEF ChunkCommitted, Commit
    <3>2. PICK others : others = {d \in db.chunks : d.id # c.id}
      OBVIOUS
    <3>3. db'.chunks = others \union {c} /\ db'.scores = db.scores /\ DOMAIN db' = DOMAIN db
      BY <1>3, <3>1, <3>2
    <3>4. IsFiniteSet(others)
      BY <1>2, <3>2, FS_Subset DEF TablesInv
    <3>5. IsFiniteSet(db'.chunks)
      BY <3>3, <3>4, FS_AddElement
    <3> QED
      BY <1>2, <3>3, <3>5 DEF TablesInv, HasFields
  <2>3. CASE ChunkRemoved
    <3>1. PICK c \in db.chunks : db' = [db EXCEPT !.chunks = @ \ {c}]
      BY <2>3 DEF ChunkRemoved, Commit
    <3>2. db'.chunks = db.chunks \ {c} /\ db'.scores = db.scores /\ DOMAIN db' = DOMAIN db
      BY <1>3, <3>1
    <3>3. IsFiniteSet(db'.chunks)
      BY <1>2, <3>2, FS_RemoveElement DEF TablesInv
    <3> QED
      BY <1>2, <3>2, <3>3 DEF TablesInv, HasFields
  <2> QED
    BY <2>1, <2>2, <2>3
<1>5. writes' \in Nat /\ writes' # 0
  BY <1>1, <1>2
<1>6. RowsRead'
  BY <1>1, <1>2, <1>5 DEF RowsRead
<1> QED
  BY <1>1, <1>2, <1>4, <1>5, <1>6 DEF RecommendInv

\* The answer.
LEMMA RecommendAnswers ==
  ASSUME RecommendInv, Respond
  PROVE  RecommendInv'
<1>1. ask.kind = "recommended" /\ got.step = "counted" /\ UNCHANGED <<db, ask, got, shown, writes>>
  BY DEF Respond, At, Answer
<1>2. PICK order \in SortedRows(ask, got.rows, got.risks) :
        answer' = [items |-> [i \in DOMAIN Page(order, ask.limit, 0) |->
                    CandidateResponse(db, order[i], got.summaries[order[i].ticker])]]
  BY DEF Respond, Answer
<1>3. PICK page : page = Page(order, ask.limit, 0)
  OBVIOUS
<1>4. PICK items : items = [i \in DOMAIN page |-> CandidateResponse(db, order[i], got.summaries[order[i].ticker])]
  OBVIOUS
<1>5. answer'.items = items /\ DOMAIN items = DOMAIN page
  BY <1>2, <1>3, <1>4
<1>6. Backed(db, ask, writes, items)
  BY <1>1, <1>3, <1>4, <1>5, ResponsesAreBacked
<1>7. writes \in Nat /\ ask.limit \in Nat /\ TablesInv /\ RowsRead
  BY <1>1 DEF RecommendInv
<1>8. TablesInv' /\ RowsRead'
  BY <1>1, <1>7 DEF TablesInv, RowsRead
<1> QED
  BY <1>1, <1>5, <1>6, <1>7, <1>8 DEF RecommendInv

\* Recommendations follow these rules.
LEMMA RecommendStep == RecommendInv /\ AskInv /\ [Next]_vars => RecommendInv'
<1> SUFFICES ASSUME RecommendInv, AskInv, [Next]_vars, ask'.kind = "recommended" PROVE RecommendInv'
  BY DEF RecommendInv
<1>1. ask.kind = "recommended"
  BY KindsStay
<1>2. ask.kind \notin {"rank", "score", "align", "gate", "candidates", "search", "evidence"} /\ ask.kind \notin Paged
  BY <1>1 DEF Paged
<1>3. CASE UNCHANGED vars
  BY <1>3 DEF vars, RecommendInv, TablesInv, RowsRead
<1>4. CASE SelectRows \/ SummarizeRows \/ CountRisks
  BY <1>4, RecommendReads
<1>5. CASE Respond
  BY <1>5, RecommendAnswers
<1>6. CASE ScoreCommitted \/ ChunkCommitted \/ ChunkRemoved
  BY <1>1, <1>6, RecommendCommits
<1>7. ~Rank /\ ~ScoreStock /\ ~Align /\ ~CountCandidates /\ ~DateCandidates /\ ~ListCandidates /\ ~NextPage
  BY <1>2 DEF Rank, ScoreStock, Align, CountCandidates, DateCandidates, ListCandidates, NextPage, At
<1>8. ~CountChunks /\ ~ListChunks /\ ~ReadFinancials /\ ~ReadChunks /\ ~ListItems /\ ~CountFound /\ ~ListFound
  BY <1>2 DEF CountChunks, ListChunks, ReadFinancials, ReadChunks, ListItems, CountFound, ListFound, At
<1>9. ~CheckReadiness /\ ~CheckRawArchive /\ ~CheckEgress /\ ~ReadStatus /\ ~DecideGate /\ ~RunStarted /\ ~RunEnded
  BY <1>2 DEF CheckReadiness, CheckRawArchive, CheckEgress, ReadStatus, DecideGate, RunStarted, RunEnded, At
<1> QED
  BY <1>3, <1>4, <1>5, <1>6, <1>7, <1>8, <1>9 DEF Next

\* The lists a client reads are complete and what they recommend is backed, for any
\* tables, questions and commits.
THEOREM ListsStayFaithful == Spec => []ListsAreFaithful
<1>1. RecommendInv => RecommendationsAreBacked
  BY DEF RecommendInv, RecommendationsAreBacked, Backed
<1>2. WalkInv /\ RecommendInv => ListsAreFaithful
  BY <1>1, WalksFollow DEF ListsAreFaithful
<1> QED
  BY <1>2, WalkInit, WalkStep, RecommendInit, RecommendStep, Questions, PTL DEF Spec
=============================================================================

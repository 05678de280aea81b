----------------------------- MODULE Decisions -----------------------------
(***************************************************************************)
(* The questions the system answers from its tables, one at a time: the    *)
(* rank of a factor, the score of a stock, the pages of the lists, the     *)
(* gate of the scheduler. A list or the gate takes several statements or   *)
(* probes, each of which sees what is committed then, while ingestion and  *)
(* the score refresh commit in between.                                    *)
(***************************************************************************)
EXTENDS Scoring, Listings, Readiness

CONSTANTS
  Starts,      \* initial pairs <<tables, question>>
  NewScores,   \* scores a refresh may commit meanwhile
  NewChunks,   \* chunks an ingestion may commit meanwhile
  NewRuns,     \* runs an ingestion may start meanwhile
  MaxWrites    \* bound on the commits

-----------------------------------------------------------------------------
\* Tables and questions as the schema and the request models admit them.

HasFields(r, fields) == fields \subseteq DOMAIN r

OrNull(S) == S \union {None}

\* A primary key, or a unique constraint.
Unique(rows, key(_)) == \A r, t \in rows : key(r) = key(t) => r = t

IsRun(r) == HasFields(r, {"id", "provider", "ticker", "status", "age"}) /\ r.id \in Int /\ r.age \in Int

\* What the gate is asked: the runs have unique ids, the limit is a number.
GateStart(tables, q) ==
  /\ IsFiniteSet(tables.runs) /\ (\A r \in tables.runs : IsRun(r)) /\ Unique(tables.runs, LAMBDA r : r.id)
  /\ q.limit \in Nat

\* Factors are numbers or absent; a ticker has one row of a factor.
RankStart(q) ==
  /\ IsFiniteSet(DOMAIN q.rows)
  /\ \A i \in DOMAIN q.rows :
       LET r == q.rows[i] IN r.ticker \in Int /\ r.value \in OrNull(Int) /\ r.factor.higher \in BOOLEAN
  /\ \A i, j \in DOMAIN q.rows :
       q.rows[i].ticker = q.rows[j].ticker /\ q.rows[i].factor = q.rows[j].factor => i = j

\* Figures are numbers or absent; confidences are shares and penalties not negative.
Figures(fields) == [fields -> OrNull(Int)]
Prices == Figures({"cap", "volume", "trading", "momentum", "volatility"})
IsList(q) == q \in Seq(ToSet(q))
IsScoreInput(s) ==
  /\ HasFields(s, {"financials", "previous", "price", "fallback", "evidence", "risks"})
  /\ s.financials \in Figures({"revenue", "operating", "net", "equity", "liabilities", "assets"})
  /\ s.previous \in Figures({"revenue", "operating"}) /\ s.price \in OrNull(Prices) /\ s.fallback \in OrNull(Prices)
  /\ IsList(s.evidence) /\ \A e \in ToSet(s.evidence) : e.confidence \in 0..100
  /\ IsList(s.risks) /\ \A r \in ToSet(s.risks) : r.penalty \in Nat

IsScore(s) == {s.id, s.ticker, s.asOf, s.created, s.total, s.count} \subseteq Int

IsChunk(c) == c.id \in Int /\ {c.published, c.issued} \subseteq OrNull(Int)

\* The rows of the lists; evidence of different kinds has different ids.
ListTables(t) ==
  /\ \A name \in {"stocks", "scores", "risks", "chunks", "prices", "financials"} : IsFiniteSet(t[name])
  /\ (\A k \in t.stocks : k.ticker \in Int) /\ Unique(t.stocks, LAMBDA k : k.ticker)
  /\ (\A s \in t.scores : IsScore(s)) /\ Unique(t.scores, LAMBDA s : s.id)
  /\ Unique(t.scores, LAMBDA s : <<s.ticker, s.asOf, s.version>>)
  /\ (\A c \in t.chunks : IsChunk(c)) /\ Unique(t.chunks, LAMBDA c : c.id)
  /\ (\A p \in t.prices : {p.id, p.date} \subseteq Int /\ p.volume \in OrNull(Int)) /\ Unique(t.prices, LAMBDA p : p.id)
  /\ (\A f \in t.financials : f.id \in Int /\ f.period \in OrNull(Int)) /\ Unique(t.financials, LAMBDA f : f.id)
  /\ \A c \in t.chunks, x \in t.prices \union t.financials : c.id # x.id
  /\ \A p \in t.prices, f \in t.financials : p.id # f.id

\* A list starts at its first page.
ListStart(tables, q) ==
  /\ ListTables(tables)
  /\ HasFields(q, CASE q.kind = "evidence" -> {"ticker", "types", "from", "to", "limit", "offset"}
                    [] q.kind = "search" -> {"word", "market", "limit", "offset"}
                    [] OTHER -> {"version", "market", "sector", "sort", "profile", "limit", "offset"})
  /\ q.kind = "evidence" => {q.from, q.to} \subseteq OrNull(Int)
  /\ q.limit \in Nat /\ q.offset = 0

TableNames == {"stocks", "scores", "risks", "chunks", "prices", "financials", "runs"}

ASSUME StartsAssumption ==
  \A s \in Starts :
    /\ HasFields(s[1], TableNames) /\ HasFields(s[2], {"kind"})
    /\ s[2].kind = "gate" => GateStart(s[1], s[2])
    /\ s[2].kind = "rank" => RankStart(s[2])
    /\ s[2].kind = "score" => IsScoreInput(s[2].input)
    /\ s[2].kind \in {"candidates", "recommended", "evidence", "search"} => ListStart(s[1], s[2])

ASSUME NewRowsAssumption == (\A r \in NewRuns : IsRun(r)) /\ (\A s \in NewScores : IsScore(s))

\* NULL is no value of a column, and no page is absent.
ASSUME NoneAssumption == None \notin Int /\ None \notin {"list", "date"} /\ None \notin [total : Nat, more : BOOLEAN]

VARIABLES
  db,      \* the tables
  ask,     \* the question
  got,     \* what the handler has read so far; got.step names its place
  answer,  \* the answer, None before
  shown,   \* what the pages so far have shown
  writes   \* commits of others since the start

vars == <<db, ask, got, answer, shown, writes>>

Init ==
  /\ \E s \in Starts : db = s[1] /\ ask = s[2]
  /\ got = [step |-> "start"]
  /\ answer = None /\ shown = <<>> /\ writes = 0

At(kind, step) == ask.kind = kind /\ got.step = step /\ answer = None

\* The handler goes on with what it read.
Read(record) == got' = record /\ UNCHANGED <<db, ask, answer, shown, writes>>

Answer(a) == answer' = a /\ UNCHANGED <<db, ask, got, shown, writes>>

\* The items of a page are shown under their keys.
Show(items, key(_), total) ==
  /\ answer' = Pagination(ask.limit, ask.offset, total)
  /\ shown' = shown \o [i \in DOMAIN items |-> key(items[i])]
  /\ UNCHANGED <<db, ask, got, writes>>

Rank == At("rank", "start") /\ Answer([ranks |-> FactorRanks(ask.rows, ask.least)])

ScoreStock == At("score", "start") /\ Answer(Score(ask.input))

-----------------------------------------------------------------------------
\* A page of candidates: count, newest date, rows, and then their evidence.

CountCandidates ==
  /\ At("candidates", "start")
  /\ Read([step |-> "counted", total |-> Cardinality(StockCandidates(db, ask))])

DateCandidates ==
  /\ At("candidates", "counted")
  /\ LET dates == {s.asOf : s \in StockCandidates(db, ask)} IN
     Read([step |-> "dated", total |-> got.total, asOf |-> IF dates = {} THEN None ELSE NewestOf(dates)])

ListCandidates ==
  /\ At("candidates", "dated")
  /\ Show(CandidatePage(db, ask), LAMBDA s : s.ticker, got.total)

-----------------------------------------------------------------------------
\* Recommendations: rows, their evidence, their risks, then the responses.

SelectRows ==
  /\ At("recommended", "start")
  /\ Read([step |-> "selected", rows |-> CandidateRows(db, ask)])

SummarizeRows ==
  /\ At("recommended", "selected")
  /\ LET summaries == EvidenceSummaries(db, {s.ticker : s \in got.rows}) IN
     Read([step |-> "gated", rows |-> GatedRows(got.rows, summaries), summaries |-> summaries])

\* An aggressive list does not count risks.
CountRisks ==
  /\ At("recommended", "gated")
  /\ Read([step |-> "counted", rows |-> got.rows, summaries |-> got.summaries,
           risks |-> [s \in got.rows |-> IF ask.profile = "aggressive" THEN 0 ELSE Cardinality(Risks(db, s))]])

\* Mutation: the evidence shown is read again after the gate.
MutRespond ==
  /\ At("recommended", "counted")
  /\ \E order \in SortedRows(ask, got.rows, got.risks) :
       Answer([items |-> [i \in DOMAIN Page(order, ask.limit, 0) |->
                 CandidateResponse(db, order[i], EvidenceSummary(db, order[i].ticker))]])

\* The evidence shown is what the gate has seen.
Respond ==
  /\ At("recommended", "counted")
  /\ \E order \in SortedRows(ask, got.rows, got.risks) :
       Answer([items |-> [i \in DOMAIN Page(order, ask.limit, 0) |->
                 CandidateResponse(db, order[i], got.summaries[order[i].ticker])]])

-----------------------------------------------------------------------------
\* Evidence of one stock: a page in SQL, or a list sliced in Python.

CountChunks ==
  /\ At("evidence", "start") /\ OnlyChunks(ask)
  /\ Read([step |-> "counted", total |-> Cardinality(DatedChunks(db, ask))])

ListChunks ==
  /\ At("evidence", "counted")
  /\ Show(ChunkPage(db, ask), LAMBDA c : c.id, got.total)

ReadFinancials ==
  /\ At("evidence", "start") /\ ~OnlyChunks(ask)
  /\ Read([step |-> "financials", items |-> FinancialItems(db, ask)])

ReadChunks ==
  /\ At("evidence", "financials")
  /\ Read([step |-> "chunks", items |-> got.items \union ChunkItems(db, ask)])

ListItems ==
  /\ At("evidence", "chunks")
  /\ LET list == ItemList(got.items \union PriceItems(db, ask), ask) IN
     Show(Page(list, ask.limit, ask.offset), LAMBDA i : i.id, Len(list))

\* The search for stocks.

CountFound ==
  /\ At("search", "start")
  /\ Read([step |-> "counted", total |-> Cardinality(Found(db, ask))])

ListFound ==
  /\ At("search", "counted")
  /\ Show(FoundPage(db, ask), LAMBDA k : k.ticker, got.total)

Paged == {"candidates", "evidence", "search"}

\* The client follows has_more to the next page.
NextPage ==
  /\ ask.kind \in Paged /\ answer # None /\ answer.more
  /\ ask' = [ask EXCEPT !.offset = @ + ask.limit]
  /\ got' = [step |-> "start"] /\ answer' = None
  /\ UNCHANGED <<db, shown, writes>>

-----------------------------------------------------------------------------
\* The gate of the scheduler: three checks of the environment, two of the runs.

CheckReadiness ==
  /\ At("gate", "start")
  /\ Read([step |-> "readiness", readiness |-> ReadinessIssues(ask.env, ask.providers)])

CheckRawArchive ==
  /\ At("gate", "readiness")
  /\ Read([step |-> "archive", readiness |-> got.readiness, raw_archive |-> RawArchiveIssues(ask.env)])

CheckEgress ==
  /\ At("gate", "archive")
  /\ Read([step |-> "egress", readiness |-> got.readiness, raw_archive |-> got.raw_archive,
           provider_egress |-> EgressIssues(ask.env, ask.providers)])

ReadStatus ==
  /\ At("gate", "egress")
  /\ Read([step |-> "status", readiness |-> got.readiness, raw_archive |-> got.raw_archive,
           provider_egress |-> got.provider_egress,
           status |-> RecentRuns(db.runs, ask.providers, ask.tickers, ask.limit)])

DecideGate ==
  /\ At("gate", "status")
  /\ LET checks == [readiness |-> got.readiness, raw_archive |-> got.raw_archive,
                    provider_egress |-> got.provider_egress, status |-> got.status,
                    stale_runs |-> StaleRuns(db.runs, ask.providers, ask.tickers)]
     IN Answer([blockers |-> Blockers(checks, ask.providers, ask.tickers)])

Align ==
  /\ At("align", "start")
  /\ Answer([wrong |-> Mismatches(ask.seed, ask.stored, ask.actual, ask.tickers)])

-----------------------------------------------------------------------------
\* Commits of the others.

Commit(tables) ==
  /\ answer = None /\ writes < MaxWrites
  /\ db' = tables /\ db' # db /\ writes' = writes + 1
  /\ UNCHANGED <<ask, got, answer, shown>>

Lists == {"candidates", "recommended", "evidence"}

\* A score replaces the one of the same stock, date and version.
ScoreCommitted ==
  /\ ask.kind \in {"candidates", "recommended"}
  /\ \E n \in NewScores :
       Commit([db EXCEPT !.scores = {s \in @ : <<s.ticker, s.asOf, s.version>> # <<n.ticker, n.asOf, n.version>>}
                                    \union {n}])

ChunkCommitted ==
  /\ ask.kind \in Lists
  /\ \E c \in NewChunks : Commit([db EXCEPT !.chunks = {d \in @ : d.id # c.id} \union {c}])

\* A reconcile of the evidence deletes.
ChunkRemoved ==
  /\ ask.kind \in Lists
  /\ \E c \in db.chunks : Commit([db EXCEPT !.chunks = @ \ {c}])

\* A run is new, or starts a failed one again.
RunStarted ==
  /\ ask.kind = "gate"
  /\ \E r \in NewRuns :
       /\ \A x \in db.runs : x.id = r.id => x.status \in {"failed", "partial_failed"}
       /\ Commit([db EXCEPT !.runs = {x \in @ : x.id # r.id} \union {r}])

RunEnded ==
  /\ ask.kind = "gate"
  /\ \E r \in db.runs, status \in {"succeeded", "partial_failed", "failed"} :
       r.status = "started" /\ Commit([db EXCEPT !.runs = (@ \ {r}) \union {[r EXCEPT !.status = status]}])

Next ==
  \/ Rank \/ ScoreStock \/ Align
  \/ CountCandidates \/ DateCandidates \/ ListCandidates
  \/ SelectRows \/ SummarizeRows \/ CountRisks \/ Respond
  \/ CountChunks \/ ListChunks \/ ReadFinancials \/ ReadChunks \/ ListItems
  \/ CountFound \/ ListFound \/ NextPage
  \/ CheckReadiness \/ CheckRawArchive \/ CheckEgress \/ ReadStatus \/ DecideGate
  \/ ScoreCommitted \/ ChunkCommitted \/ ChunkRemoved \/ RunStarted \/ RunEnded

Spec == Init /\ [][Next]_vars

-----------------------------------------------------------------------------
\* Ranks.

Better(r, t) == IF r.factor.higher THEN r.value > t.value ELSE r.value < t.value

\* The rows of row i's factor and market, and of its sector when that has enough values.
Rivals(rows, i, least) ==
  LET market == {j \in DOMAIN rows : /\ rows[j].factor = rows[i].factor /\ rows[j].market = rows[i].market
                                     /\ rows[j].value # None}
      sector == {j \in market : rows[j].sector = rows[i].sector}
  IN IF rows[i].sector # None /\ Cardinality(sector) >= least THEN sector ELSE market

\* factors.calculate_factor_ranks (lines 45-103, 155-193) gives a rank to the
\* rows with a value and to no other; the rank is the share of the rivals the
\* row beats, a tie counting half, and 100 for a row without rivals. Walking a
\* sorted list by groups of ties must come to that in either direction.
RanksMatchReference ==
  ask.kind = "rank" /\ answer # None =>
    \A i \in DOMAIN ask.rows :
      LET rows == ask.rows
          rivals == Rivals(rows, i, ask.least) \ {i}
          rank == answer.ranks[i].rank
          points == 2 * Cardinality({j \in rivals : Better(rows[i], rows[j])})
                    + Cardinality({j \in rivals : rows[j].value = rows[i].value})
      IN IF rows[i].value = None THEN rank = None
         ELSE IF rivals = {} THEN rank.num = rank.den
         ELSE rank.num * 2 * Cardinality(rivals) = points * rank.den

-----------------------------------------------------------------------------
\* Scores.

Worse(input) == [input EXCEPT !.risks = Append(@, [tag |-> "extra", penalty |-> 3000])]
Noted(input, confidence) ==
  [input EXCEPT !.evidence = Append(@, [id |-> 99, source |-> "news", type |-> "extra", confidence |-> confidence])]
Earning(input) == [input EXCEPT !.financials.operating = @ + 40]

\* A reason cites given evidence, and a component better than its own is a reason too.
IsReason(a, k, given) ==
  /\ a.reasons[k].evidence \subseteq given
  /\ \A i \in 1..8 : \/ \E n \in 1..3 : a.reasons[n].component = i
                     \/ a.components[i].weighted <= a.components[a.reasons[k].component].weighted

\* engine.calculate_recommendation_score (lines 44-121): a score is between 0
\* and 100 points, and 0 without any input; a risk more never raises it, a news
\* item more never lowers it, even one of no confidence, nor does a higher
\* operating income, across the exception for a loss in the year before; the
\* three reasons leave no better component out and cite only given evidence;
\* a fallback price serves only where there is no price.
ScoresAreSound ==
  ask.kind = "score" /\ answer # None =>
    LET s == ask.input a == answer IN
    /\ 0 <= a.total /\ a.total <= 100000
    /\ Cardinality(a.missing) = 8 => a.total = 0
    /\ Score(Worse(s)).total <= a.total
    /\ \A c \in {0, 100} : Score(Noted(s, c)).total >= a.total
    /\ s.financials.operating # None => Score(Earning(s)).total >= a.total
    /\ \A k \in 1..3 : IsReason(a, k, Ids(s, DOMAIN s.evidence))
    /\ a.fallback # {} => s.price = None

-----------------------------------------------------------------------------
\* Lists.

Distinct(list) == \A i, j \in DOMAIN list : list[i] = list[j] => i = j

\* The keys the pages of a question must show, whatever their order.
Expected ==
  CASE ask.kind = "candidates" -> {s.ticker : s \in StockCandidates(db, ask)}
    [] ask.kind = "search" -> {k.ticker : k \in Found(db, ask)}
    [] OTHER -> {i.id : i \in FilterDates(FinancialItems(db, ask) \union ChunkItems(db, ask)
                                            \union PriceItems(db, ask), ask)}

\* candidate_service 100-136, evidence_service 28-64, stock_service 31-82: a
\* client that follows has_more, with no commit in between, has seen each item
\* of the list once, whether SQL or Python filtered and cut it; and it is never
\* sent to a page that must be empty.
WalksAreComplete ==
  writes = 0 /\ answer # None /\ ask.kind \in Paged =>
    /\ Distinct(shown)
    /\ {shown[i] : i \in DOMAIN shown} \subseteq Expected
    /\ ~answer.more => Len(shown) = Cardinality(Expected)
    /\ answer.more => Len(shown) < Cardinality(Expected)

\* candidate_service 61-92, 385-418, 594-633, 702-708: a recommendation never
\* appears with less live evidence than the list demands, without a date, or
\* with the id of mock evidence, even when evidence is deleted or rescored
\* between the statements; without a commit the list is also the top of what
\* the other list of candidates would show. Whether a stock without a risk
\* signal belongs there is left open: SCORE_ENGINE.md section 6 excludes it,
\* tests/test_evidence_gate.py:48 wants it listed.
RecommendationsAreBacked ==
  ask.kind = "recommended" /\ answer # None =>
    LET items == answer.items
        rows == StockCandidates(db, ask)
        listed == {i.score : i \in {items[n] : n \in DOMAIN items}}
        key(s) == RowKey(ask, [r \in rows |-> Cardinality(Risks(db, r))], s)
    IN /\ \A n \in DOMAIN items : /\ items[n].count >= 2 /\ items[n].latest # None
                                  /\ \A i \in items[n].ids : ~i.mock
       /\ Distinct([n \in DOMAIN items |-> items[n].ticker])
       /\ Len(items) <= ask.limit
       /\ writes = 0 =>
            /\ listed \subseteq {s.id : s \in rows}
            /\ \A s, t \in rows : s.id \in listed /\ t.id \notin listed /\ Before(key(t), key(s)) =>
                 ~(/\ PassesEvidenceGate(t) /\ Risks(db, t) # {}
                   /\ HasListableLiveEvidence(EvidenceSummary(db, t.ticker)))

\* The lists a client reads are complete, and what they recommend is backed, as
\* the two definitions above say.
ListsAreFaithful == WalksAreComplete /\ RecommendationsAreBacked

-----------------------------------------------------------------------------
\* The gate.

Ready(env, providers) ==
  /\ providers \subseteq Providers /\ env.writable
  /\ env.arn = "fails" => Complete(env.settings)
  /\ env.arn # "none"
  /\ LET have == env.settings \union (IF env.arn = "loads" THEN env.secret ELSE {}) IN
     /\ "INGESTION_RAW_BUCKET" \in env.settings
     /\ \A p \in providers : Credentials(p) \subseteq have /\ Targets(p) \subseteq env.answering
  /\ "KRX" \in providers => KrxEndpoints \subseteq env.settings

Tried(recent) == \A pair \in Pairs(ask.providers, ask.tickers) :
  \E r \in recent : r.status = "succeeded" /\ r.provider = pair[1] /\ r.ticker = pair[2]

\* readiness.check_ingestion_scheduler_enable_gate (lines 150-200, 491-556):
\* the gate opens only when every selected provider is configured and answers,
\* every provider and ticker has a succeeded run and none is stuck, although
\* runs start and end between its checks; asked for more pairs than the status
\* shows runs it cannot open. Left alone it opens when all that holds among the
\* newest runs.
GateIsHonest ==
  ask.kind = "gate" /\ answer # None =>
    /\ answer.blockers = {} =>
         /\ Ready(ask.env, ask.providers)
         /\ Tried(db.runs)
         /\ StaleRuns(db.runs, ask.providers, ask.tickers) = {}
         /\ Cardinality(Pairs(ask.providers, ask.tickers)) <= ask.limit
    /\ /\ writes = 0 /\ Ready(ask.env, ask.providers)
       /\ Tried(RecentRuns(db.runs, ask.providers, ask.tickers, ask.limit))
       /\ StaleRuns(db.runs, ask.providers, ask.tickers) = {}
       => answer.blockers = {}
=============================================================================

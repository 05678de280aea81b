---------------------------- MODULE MCDecisions ----------------------------
EXTENDS Decisions

CONSTANTS m1, m2, s1, s2

NoTables == [stocks |-> {}, scores |-> {}, risks |-> {}, chunks |-> {}, prices |-> {},
             financials |-> {}, runs |-> {}]

\* Four rows of one factor, the last perhaps of another market.
RankRow(t, m, s, v, h) ==
  [ticker |-> t, market |-> m, sector |-> s, value |-> v, factor |-> [name |-> "per", higher |-> h]]
RankStarts ==
  {<<NoTables, [kind |-> "rank", least |-> 2, rows |->
      [i \in 1..4 |-> RankRow(i, IF i = 4 THEN m ELSE m1, IF i <= 2 THEN s1 ELSE sectors[i - 2], values[i], h)]]>> :
     m \in {m1, m2}, h \in BOOLEAN, sectors \in [1..2 -> {None, s1, s2}], values \in [1..4 -> {None, 1, 2}]}

\* Inputs of a score.
Financials(o, n, e) ==
  [revenue |-> 1000, operating |-> o, net |-> n, equity |-> e, liabilities |-> 600, assets |-> 1200]
NoFinancials == [revenue |-> None, operating |-> None, net |-> None, equity |-> None,
                 liabilities |-> None, assets |-> None]
Metrics(c) == [cap |-> c, volume |-> 2000, trading |-> 50, momentum |-> 40, volatility |-> 300]
Ev(i, s, t, c) == [id |-> i, source |-> s, type |-> t, confidence |-> c]
Evidence == {<<>>, <<Ev(1, "news", "news_attention", 60)>>,
             <<Ev(1, "news", "news_attention", 100), Ev(2, "disclosure", "disclosure", 70), Ev(3, "news", "news", 20)>>}
ScoreStarts ==
  {<<NoTables, [kind |-> "score", input |->
      [financials |-> f, previous |-> [revenue |-> 900, operating |-> then],
       price |-> p, fallback |-> b, evidence |-> e, risks |-> r]]>> :
     f \in {NoFinancials} \union {Financials(o, n, e) : o \in {None, -60, 0, 30}, n \in {None, 1, 90}, e \in {0, 500}},
     then \in {None, -50, 0, 40}, p \in {None, Metrics(None), Metrics(4)}, b \in {None, Metrics(2)},
     e \in Evidence, r \in {<<>>, <<[tag |-> "debt", penalty |-> 5000], [tag |-> "debt", penalty |-> 9999]>>}}

\* Tables of the lists.
Stock(t, m, s) == [ticker |-> t, market |-> m, sector |-> s, words |-> {t, m}]
ScoreRow(i, t, d, total, miss, fresh) ==
  [id |-> i, ticker |-> t, version |-> "v1", asOf |-> d, created |-> i, total |-> total, missing |-> miss,
   freshness |-> fresh, count |-> 1, evidence |-> {[id |-> 1, mock |-> FALSE], [id |-> 2, mock |-> TRUE]}]
Chunk(i, t, s, p, d, k) == [id |-> i, ticker |-> t, source |-> s, published |-> p, issued |-> d, mock |-> k]
Chunks == {Chunk(1, 1, "news", 2, 2, FALSE), Chunk(2, 1, "disclosure", None, 3, FALSE), Chunk(3, 1, "news", None, None, FALSE),
           Chunk(4, 2, "news", 2, 2, FALSE), Chunk(5, 2, "news", 3, 3, TRUE), Chunk(6, 2, "disclosure", 2, 2, FALSE),
           Chunk(7, 3, "disclosure", 1, 1, FALSE), Chunk(8, 3, "news", None, None, FALSE)}
Tables(miss, fresh, total) ==
  [stocks |-> {Stock(1, m1, s1), Stock(2, m1, s2), Stock(3, m2, s1)},
   scores |-> {ScoreRow(1, 1, 1, 80, "list", "date"), ScoreRow(2, 1, 2, 70, "list", "date"),
               ScoreRow(3, 2, 2, total, miss, fresh), ScoreRow(4, 3, 1, 70, "list", "date")},
   risks |-> {[ticker |-> 1, asOf |-> 2, tag |-> "debt"], [ticker |-> 1, asOf |-> 1, tag |-> "news"],
              [ticker |-> 3, asOf |-> 1, tag |-> "debt"]},
   chunks |-> Chunks,
   prices |-> {[id |-> 21, ticker |-> 1, date |-> 1, volume |-> 9, mock |-> FALSE],
               [id |-> 22, ticker |-> 1, date |-> 2, volume |-> 5, mock |-> FALSE],
               [id |-> 24, ticker |-> 2, date |-> 2, volume |-> None, mock |-> FALSE],
               [id |-> 23, ticker |-> 3, date |-> 2, volume |-> 7, mock |-> TRUE]},
   financials |-> {[id |-> 11, ticker |-> 1, period |-> 1, issued |-> 2, mock |-> FALSE],
                   [id |-> 12, ticker |-> 1, period |-> 2, issued |-> 2, mock |-> TRUE]},
   runs |-> {}]
AllTables == {Tables(miss, fresh, total) : miss \in {"list", "null"}, fresh \in {"date", "blank", None}, total \in {70, 72}}
MCNewScores == {ScoreRow(5, 2, 3, 90, "list", "date"), ScoreRow(6, 1, 2, 60, "null", "date")}
MCNewChunks == {Chunk(9, 3, "news", 3, 3, FALSE), Chunk(1, 2, "news", 3, 3, FALSE)}

Candidates(kind, limit, market, sort, profile) ==
  [kind |-> kind, version |-> "v1", market |-> market, sector |-> None, sort |-> sort, profile |-> profile,
   limit |-> limit, offset |-> 0]
Profiles == {"conservative", "balanced", "aggressive"}
ListStarts ==
  AllTables \X
    ({Candidates("candidates", l, m, s, p) : l \in {1, 2}, m \in {None, m1},
        s \in {"score_desc", "volume_desc", "updated_desc"}, p \in Profiles}
     \union {Candidates("recommended", l, m, "score_desc", p) : l \in {1, 2}, m \in {None, m1}, p \in Profiles})
EvidenceStarts ==
  {Tables("list", "date", 70)} \X
    ({[kind |-> "evidence", ticker |-> t, types |-> types, from |-> f, to |-> o, limit |-> l, offset |-> 0] :
        t \in {1, 3}, types \in {{"news"}, {"news", "disclosure"}, {"financial", "price"},
                                 {"news", "disclosure", "financial", "price"}},
        f \in {None, 2}, o \in {None, 2}, l \in {1, 2}}
     \union {[kind |-> "search", word |-> w, market |-> m, limit |-> l, offset |-> 0] :
        w \in {None, 2, m1}, m \in {None, m1}, l \in {1, 2}})

\* Settings and runs of the gate.
Keys == {"OPENDART_API_KEY", "NAVER_CLIENT_ID", "NAVER_CLIENT_SECRET", "KRX_API_KEY"}
Env(settings, arn, answering, writable) ==
  [settings |-> settings, arn |-> arn, secret |-> {"NAVER_CLIENT_ID", "NAVER_CLIENT_SECRET", "KRX_API_KEY"},
   answering |-> answering, writable |-> writable]
Everywhere == {"OpenDART", "NAVER"} \union KrxEndpoints
Envs == {Env(s, arn, a, w) :
           s \in {{"INGESTION_RAW_BUCKET", "OPENDART_API_KEY"} \union KrxEndpoints,
                  {"INGESTION_RAW_BUCKET"} \union Keys \union KrxEndpoints,
                  {"OPENDART_API_KEY", "KRX_KOSPI_DAILY_URL"}},
           arn \in {"none", "loads", "fails"}, a \in {Everywhere, Everywhere \ {"KRX_KOSDAQ_DAILY_URL"}}, w \in BOOLEAN}
GateRun(i, p, t, s, a) == [id |-> i, provider |-> p, ticker |-> t, status |-> s, age |-> a]
RunTables ==
  {[NoTables EXCEPT !.runs = {GateRun(1, "NAVER", 1, one, 2), GateRun(2, "NAVER", 2, two, 1),
                              GateRun(3, "KRX", 1, "succeeded", 1), GateRun(4, "NAVER", 1, "started", age)}] :
     one \in {"succeeded", "failed"}, two \in {"succeeded", "partial_failed"}, age \in {0, 1}}
MCNewRuns == {GateRun(5, "KRX", 1, "started", 0), GateRun(2, "NAVER", 2, "started", 0)}
GateStarts ==
  RunTables \X {[kind |-> "gate", env |-> e, providers |-> p, tickers |-> t, limit |-> l] :
     e \in Envs, p \in {{"NAVER"}, {"NAVER", "KRX"}, {"NAVER", "other"}}, t \in {{1}, {1, 2}}, l \in {1, 3}}
AlignStarts ==
  {<<NoTables, [kind |-> "align", tickers |-> {1, 2}, seed |-> c[1], stored |-> c[2], actual |-> c[3]]>> :
     c \in [1..3 -> [{1, 2} -> {None, 7}]]}

MCStarts == RankStarts \union ScoreStarts \union ListStarts \union EvidenceStarts \union GateStarts \union AlignStarts
=============================================================================

----------------------------- MODULE Listings -----------------------------
(***************************************************************************)
(* What the read services compute from the tables: which score of a stock  *)
(* counts, which stocks may be listed, in which order, on which page, with *)
(* which evidence. A database is a record of sets of rows; dates, volumes  *)
(* and identifiers are numbers, None is NULL or an absent key.             *)
(***************************************************************************)
EXTENDS Tables

\* Lexicographic order of the key tuples of ORDER BY and of sorted().
Before(a, b) ==
  \E i \in DOMAIN a : a[i] < b[i] /\ \A j \in 1..(i - 1) : a[j] = b[j]

Ordered(rows, key(_)) == InOrder(rows, LAMBDA r, t : Before(key(r), key(t)))

Page(list, limit, offset) == SubSeq(list, offset + 1, IF offset + limit < Len(list) THEN offset + limit ELSE Len(list))

\* Mutation: a full last page announces one more.
MutPagination(limit, offset, total) == [total |-> total, more |-> offset + limit <= total]

Pagination(limit, offset, total) == [total |-> total, more |-> offset + limit < total]

-----------------------------------------------------------------------------
\* Candidates.

\* The newest score of each stock, by date, then by creation, then by id.
Selected(db, version) ==
  LET scores == {s \in db.scores : s.version = version} IN
  {s \in scores : ~\E t \in scores :
     t.ticker = s.ticker /\ Before(<<s.asOf, s.created, s.id>>, <<t.asOf, t.created, t.id>>)}

\* None as a filter selects every stock.
InFilter(db, q, s) ==
  \E k \in db.stocks : k.ticker = s.ticker /\ q.market \in {None, k.market} /\ q.sector \in {None, k.sector}

Risks(db, s) == {r \in db.risks : r.ticker = s.ticker /\ r.asOf = s.asOf}

\* The conditions SQL can test: the columns are there, whatever they hold.
StockCandidates(db, q) ==
  {s \in Selected(db, q.version) : InFilter(db, q, s) /\ s.missing # None /\ s.freshness # None}

NewestOf(dates) == CHOOSE d \in dates : \A e \in dates : e <= d

\* A stock without a price, or whose newest has no volume, counts as one of volume 0.
LatestVolume(db, ticker) ==
  LET prices == {p \in db.prices : p.ticker = ticker}
      volume == (CHOOSE p \in prices : p.date = NewestOf({x.date : x \in prices})).volume
  IN IF prices = {} \/ volume = None THEN 0 ELSE volume

\* The key of a stock candidate, ending with its ticker.
CandidateKey(db, q, s) ==
  LET risks == Cardinality(Risks(db, s)) IN
  CASE q.sort = "volume_desc" -> <<-LatestVolume(db, s.ticker), -s.total, s.ticker>>
    [] q.sort = "updated_desc" -> <<-s.asOf, -s.total, s.ticker>>
    [] OTHER -> CASE q.profile = "conservative" -> <<risks, -s.total, s.ticker>>
                  [] q.profile = "aggressive" -> <<-s.total, s.ticker>>
                  [] OTHER -> <<risks - 2 * s.total, -s.total, s.ticker>>

CandidatePage(db, q) ==
  Page(Ordered(StockCandidates(db, q), LAMBDA s : CandidateKey(db, q, s)), q.limit, q.offset)

Live(db) == {c \in db.chunks : c.source \in {"news", "disclosure"} /\ ~c.mock}

DateOf(c) == IF c.published # None THEN c.published ELSE c.issued

EvidenceSummary(db, ticker) ==
  LET found == {c \in Live(db) : c.ticker = ticker}
      dates == {DateOf(c) : c \in found} \ {None}
  IN [news |-> Cardinality({c \in found : c.source = "news"}),
      disclosures |-> Cardinality({c \in found : c.source = "disclosure"}),
      latest |-> IF dates = {} THEN None ELSE NewestOf(dates)]

EvidenceSummaries(db, tickers) == [t \in tickers |-> EvidenceSummary(db, t)]

\* Python looks into the values: a JSON null and an empty date do not pass.
PassesEvidenceGate(s) == s.missing = "list" /\ s.freshness = "date"

\* Mutation: one piece of live evidence is enough.
MutListable(summary) == summary.latest # None /\ summary.news + summary.disclosures >= 1

HasListableLiveEvidence(summary) == summary.latest # None /\ summary.news + summary.disclosures >= 2

\* Every version of the list goes through these rows, filtered in Python.
CandidateRows(db, q) == {s \in Selected(db, q.version) : InFilter(db, q, s)}

GatedRows(rows, summaries) ==
  {s \in rows : PassesEvidenceGate(s) /\ HasListableLiveEvidence(summaries[s.ticker])}

\* No ticker in the key: equal rows stay in the order the database gave them.
RowKey(q, risks, s) ==
  CASE q.profile = "conservative" -> <<risks[s], -s.total>>
    [] q.profile = "aggressive" -> <<-s.total>>
    [] OTHER -> <<risks[s] - 2 * s.total>>

SortedRows(q, rows, risks) ==
  {p \in SetToSeqs(rows) : \A i, j \in DOMAIN p :
     i < j => ~Before(RowKey(q, risks, p[j]), RowKey(q, risks, p[i]))}

PublicEvidenceIds(ids) == {i \in ids : ~i.mock}

CandidateResponse(db, s, summary) ==
  [ticker |-> s.ticker, score |-> s.id, risks |-> {r.tag : r \in Risks(db, s)},
   ids |-> PublicEvidenceIds(s.evidence), latest |-> summary.latest,
   count |-> IF s.count < summary.news + summary.disclosures
             THEN summary.news + summary.disclosures ELSE s.count]

-----------------------------------------------------------------------------
\* Evidence of one stock, and the search for stocks.

\* A comparison with NULL is not true.
NotAfter(d, e) == d # None /\ e # None /\ d <= e

\* The chunk filter when only chunks are asked for, with the dates in SQL.
DatedChunks(db, q) ==
  {c \in Live(db) :
     /\ c.ticker = q.ticker /\ c.source \in q.types
     /\ q.from # None => NotAfter(q.from, DateOf(c))
     /\ q.to # None => NotAfter(DateOf(c), q.to)}

\* Undated first, as PostgreSQL sorts NULLs in a descending order.
ChunkKey(c) == IF DateOf(c) = None THEN <<0, 0, -c.id>> ELSE <<1, -DateOf(c), -c.id>>

ChunkPage(db, q) == Page(Ordered(DatedChunks(db, q), ChunkKey), q.limit, q.offset)

\* One item of each kind; only a chunk's own date becomes its as_of date.
Item(kind, id, asOf, published) == [kind |-> kind, id |-> id, asOf |-> asOf, published |-> published]

\* A statement whose document is a mock one is left out.
FinancialItems(db, q) ==
  {Item("financial", f.id, f.period, f.issued) :
     f \in {x \in db.financials : x.ticker = q.ticker /\ ~x.mock /\ "financial" \in q.types}}

ChunkItems(db, q) ==
  {Item(c.source, c.id, c.published, DateOf(c)) :
     c \in {x \in Live(db) : x.ticker = q.ticker /\ x.source \in q.types}}

PriceItems(db, q) ==
  {Item("price", p.id, p.date, None) :
     p \in {x \in db.prices : x.ticker = q.ticker /\ ~x.mock /\ "price" \in q.types}}

ItemDate(i) == IF i.asOf # None THEN i.asOf ELSE i.published

\* Mutation: an item without a date passes every filter.
MutFilterDates(items, q) ==
  {i \in items : \/ ItemDate(i) = None
                 \/ (q.from # None => ItemDate(i) >= q.from) /\ (q.to # None => ItemDate(i) <= q.to)}

\* With any bound an item without a date is left out.
FilterDates(items, q) ==
  {i \in items : \/ q.from = None /\ q.to = None
                 \/ /\ ItemDate(i) # None
                    /\ q.from # None => ItemDate(i) >= q.from
                    /\ q.to # None => ItemDate(i) <= q.to}

\* Sorted in Python, undated first; kinds have disjoint ids.
ItemKey(i) == IF i.asOf = None THEN <<0, 0, -i.id>> ELSE <<1, -i.asOf, -i.id>>

ItemList(items, q) == Ordered(FilterDates(items, q), ItemKey)

OnlyChunks(q) == q.types \subseteq {"news", "disclosure"}

\* A query matches the words of a stock's ticker and names.
Found(db, q) ==
  {k \in db.stocks : q.word \in {None} \union k.words /\ q.market \in {None, k.market}}

FoundPage(db, q) == Page(Ordered(Found(db, q), LAMBDA k : <<k.ticker>>), q.limit, q.offset)
=============================================================================

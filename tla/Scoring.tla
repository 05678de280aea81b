------------------------------ MODULE Scoring ------------------------------
(***************************************************************************)
(* Factor ranks and the recommendation score. Points and ratios are in     *)
(* thousandths, volumes in thousands of shares, traded values in billions  *)
(* of won, market values and results in one unit of a hundred billion.     *)
(***************************************************************************)
EXTENDS Tables

-----------------------------------------------------------------------------
\* Percentile ranks within a partition of the rows.

Usable(r) == r.value # None

\* Rows of one factor, date and direction; a sector counts only within a market.
PeerIndexes(rows, i, kind) ==
  {j \in DOMAIN rows :
     /\ Usable(rows[j]) /\ rows[j].factor = rows[i].factor
     /\ rows[j].market = rows[i].market
     /\ kind = "market_sector" => rows[j].sector = rows[i].sector}

\* Mutation: rows without a value count for the size of a sector.
MutPartition(rows, i, least) ==
  IF /\ rows[i].sector # None
     /\ Cardinality({j \in DOMAIN rows : rows[j].market = rows[i].market /\ rows[j].sector = rows[i].sector}) >= least
  THEN "market_sector" ELSE "market"

\* The sector when it has enough peers, else the whole market.
Partition(rows, i, least) ==
  IF /\ rows[i].sector # None
     /\ Cardinality(PeerIndexes(rows, i, "market_sector")) >= least
  THEN "market_sector" ELSE "market"

RankValue(r) == IF r.factor.higher THEN r.value ELSE -r.value

\* The percentile of each peer as a fraction of 100: the mean position of its ties.
PercentileRanks(rows, peers) ==
  LET before(i, j) ==
        \/ RankValue(rows[i]) > RankValue(rows[j])
        \/ RankValue(rows[i]) = RankValue(rows[j]) /\ rows[i].ticker < rows[j].ticker
      ordered == InOrder(peers, before)
      last == Len(ordered) - 1
      ties(i) == {p \in DOMAIN ordered : RankValue(rows[ordered[p]]) = RankValue(rows[i])}
      first(i) == CHOOSE p \in ties(i) : \A q \in ties(i) : p <= q
      end(i) == CHOOSE p \in ties(i) : \A q \in ties(i) : q <= p
  IN [i \in peers |->
        IF last = 0 THEN [num |-> 1, den |-> 1]
        ELSE [num |-> 2 * last - (first(i) - 1 + end(i) - 1), den |-> 2 * last]]

\* A row without a usable value has a partition and no rank.
FactorRanks(rows, least) ==
  [i \in DOMAIN rows |->
     LET kind == Partition(rows, i, least)
         peers == PeerIndexes(rows, i, kind)
         ranks == PercentileRanks(rows, peers)
     IN [kind |-> kind, size |-> Cardinality(peers),
         fallback |-> kind = "market" /\ rows[i].sector # None,
         rank |-> IF i \in peers THEN ranks[i] ELSE None]]

-----------------------------------------------------------------------------
\* The components of a score: points, or None when their inputs are missing.

Clamp(v, low, high) == IF v < low THEN low ELSE IF v > high THEN high ELSE v

RatioScore(v, weak, excellent) ==
  Clamp(30000 + ((v - weak) * 60000) \div (excellent - weak), 30000, 90000)
InverseRatioScore(v, excellent, weak) ==
  Clamp(30000 + ((weak - v) * 60000) \div (weak - excellent), 30000, 90000)

Ratio(a, b) == (a * 1000) \div b
Mix(a, p, b) == (a * p + b * (100 - p)) \div 100
Known(values) == None \notin values

FinancialStability(s) ==
  LET f == s.financials
      debt == InverseRatioScore(Ratio(f.liabilities, f.equity), 400, 1800)
  IN IF ~Known({f.liabilities, f.equity}) THEN None
     ELSE IF f.equity <= 0 THEN None
     ELSE IF f.assets = None THEN debt
     ELSE IF f.assets <= 0 THEN debt
     ELSE Mix(debt, 65, RatioScore(Ratio(f.equity, f.assets), 200, 700))

Profitability(s) ==
  LET f == s.financials
      operating == RatioScore(Ratio(f.operating, f.revenue), -50, 200)
  IN IF ~Known({f.revenue, f.operating}) THEN None
     ELSE IF f.revenue <= 0 THEN None
     ELSE IF f.net = None THEN operating
     ELSE Mix(operating, 65, RatioScore(Ratio(f.net, f.revenue), -50, 150))

\* Mutation: only a previous result of zero is an exception.
MutIncomeScore(now, then) ==
  IF then = 0 THEN (IF now > 0 THEN 50000 ELSE 35000)
  ELSE IF then < 0 THEN RatioScore(Ratio(then - now, -then), -200, 300)
  ELSE RatioScore(Ratio(now - then, then), -200, 300)

\* After a loss the sign of the new result decides.
IncomeScore(now, then) ==
  IF then <= 0 THEN (IF now > 0 THEN 50000 ELSE 35000)
               ELSE RatioScore(Ratio(now - then, then), -200, 300)

Growth(s) ==
  LET f == s.financials p == s.previous IN
  IF ~Known({f.revenue, p.revenue, f.operating, p.operating}) THEN None
  ELSE IF p.revenue <= 0 THEN None
  ELSE Mix(RatioScore(Ratio(f.revenue - p.revenue, p.revenue), -150, 250), 60,
           IncomeScore(f.operating, p.operating))

\* The metrics of a fallback are used only when there are none.
PriceMetrics(s) == IF s.price # None THEN s.price ELSE s.fallback
UsesFallback(s) == s.price = None /\ s.fallback # None

Valuation(s) ==
  LET p == PriceMetrics(s) f == s.financials
      earns == Known({f.net}) /\ (f.net # None => f.net > 0)
      owns == f.equity # None /\ (f.equity # None => f.equity > 0)
      per == InverseRatioScore(Ratio(p.cap, f.net), 8000, 35000)
      pbr == InverseRatioScore(Ratio(p.cap, f.equity), 800, 4000)
  IN CASE p = None -> None
       [] p # None /\ p.cap = None -> None
       [] p # None /\ p.cap # None /\ p.cap <= 0 -> None
       [] OTHER -> CASE earns /\ owns -> (per + pbr) \div 2
                     [] earns /\ ~owns -> per
                     [] owns /\ ~earns -> pbr
                     [] OTHER -> None

\* The evidence of a source.
Of(s, type) == {i \in DOMAIN s.evidence : s.evidence[i].source = type}

\* The sums of the first numbers of a sequence, and of all.
Sums(f) == LET sum[n \in 0..Len(f)] == IF n = 0 THEN 0 ELSE sum[n - 1] + f[n] IN sum
Sum(f) == Sums(f)[Len(f)]

\* Confidences are percentages.
Confidences(s, type) ==
  [i \in 1..Len(s.evidence) |-> IF i \in Of(s, type) THEN s.evidence[i].confidence ELSE 0]

Attention(s, type, base, each, trust) ==
  LET count == Cardinality(Of(s, type)) IN
  IF count = 0 THEN None
  ELSE Clamp(base + each * count + trust * (Sum(Confidences(s, type)) \div count), 0, 100000)

NewsAttention(s) == Attention(s, "news", 45000, 20000, 150)
DisclosureEvent(s) == Attention(s, "disclosure", 50000, 18000, 120)

Liquidity(s) ==
  LET p == PriceMetrics(s)
      volume == RatioScore(p.volume, 100, 5000)
      trading == RatioScore(p.trading, 5, 300)
  IN CASE p = None -> None
       [] p # None /\ ~Known({p.volume, p.trading}) -> None
       [] OTHER -> IF p.cap = None THEN Mix(volume, 45, trading)
                   ELSE (volume * 30 + trading * 45 + RatioScore(p.cap, 1, 200) * 25) \div 100

MomentumVolatility(s) ==
  LET p == PriceMetrics(s) IN
  CASE p = None -> None
    [] p # None /\ ~Known({p.momentum, p.volatility}) -> None
    [] OTHER -> Mix(RatioScore(p.momentum, -100, 150), 55, InverseRatioScore(p.volatility, 120, 550))

Ids(s, indexes) == {s.evidence[i].id : i \in indexes}

\* Evidence of the component's type, else of its source.
EvidenceFor(s, name) ==
  LET typed == {i \in DOMAIN s.evidence : s.evidence[i].type = name} IN
  CASE typed # {} -> Ids(s, typed)
    [] typed = {} /\ name = "news_attention" -> Ids(s, Of(s, "news"))
    [] typed = {} /\ name = "disclosure_event" -> Ids(s, Of(s, "disclosure"))
    [] OTHER -> {}

Component(s, name, weight, raw) ==
  [name |-> name, weight |-> weight, missing |-> raw = None,
   weighted |-> IF raw = None THEN 0 ELSE (Clamp(raw, 0, 100000) * weight) \div 100,
   evidence |-> EvidenceFor(s, name),
   fallback |-> name \in {"valuation", "liquidity", "momentum_volatility"} /\ UsesFallback(s)]

Components(s) ==
  <<Component(s, "financial_stability", 20, FinancialStability(s)),
    Component(s, "profitability", 15, Profitability(s)),
    Component(s, "growth", 15, Growth(s)),
    Component(s, "valuation", 10, Valuation(s)),
    Component(s, "news_attention", 10, NewsAttention(s)),
    Component(s, "disclosure_event", 10, DisclosureEvent(s)),
    Component(s, "liquidity", 10, Liquidity(s)),
    Component(s, "momentum_volatility", 10, MomentumVolatility(s))>>

EvidenceLevel(count, missing) ==
  CASE count >= 4 /\ missing <= 1 -> "strong"
    [] count >= 2 /\ ~(count >= 4 /\ missing <= 1) -> "medium"
    [] OTHER -> "weak"

\* The three best components; one without evidence takes the first two ids.
Reasons(components, s) ==
  LET before(i, j) ==
        \/ components[i].weighted > components[j].weighted
        \/ /\ components[i].weighted = components[j].weighted
           /\ components[i].weight > components[j].weight
        \/ /\ components[i].weighted = components[j].weighted
           /\ components[i].weight = components[j].weight /\ i < j
      top == SubSeq(InOrder(DOMAIN components, before), 1, 3)
      spare == Ids(s, DOMAIN s.evidence \intersect 1..2)
  IN [k \in 1..3 |->
        [component |-> top[k],
         evidence |-> IF components[top[k]].evidence # {} THEN components[top[k]].evidence ELSE spare]]

\* Mutation: the penalties are taken off after the score is bounded.
MutTotalScore(raw, penalty) == Clamp(raw, 0, 100000) - penalty

\* To a tenth of a point, and bounded.
TotalScore(raw, penalty) == Clamp(((raw - penalty + 50) \div 100) * 100, 0, 100000)

Score(s) ==
  LET components == Components(s)
      missing == {i \in 1..8 : components[i].missing}
      penalty == Sum([i \in 1..Len(s.risks) |-> s.risks[i].penalty])
      count == Cardinality(Ids(s, DOMAIN s.evidence))
  IN [total |-> TotalScore(Sum([i \in 1..8 |-> components[i].weighted]), penalty),
      components |-> components, missing |-> missing,
      fallback |-> {i \in 1..8 : components[i].fallback},
      tags |-> {s.risks[i].tag : i \in DOMAIN s.risks},
      count |-> count, level |-> EvidenceLevel(count, Cardinality(missing)),
      reasons |-> Reasons(components, s)]
=============================================================================

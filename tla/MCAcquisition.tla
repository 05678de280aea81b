--------------------------- MODULE MCAcquisition ---------------------------
(* Instances of Acquisition for TLC. *)
EXTENDS Acquisition, TLC

CONSTANTS r1, r2, t1, t2, t3, d1, d2, d3, n1, n2, n3, f1, f2, p1, p2,
  list1, list2, list3, list4, list5, statA, statB, statC, statD, cfsA, ofsA, cfsB, ofsB, cfsC, ofsC, cfsD, ofsD,
  news1, news2, news3, twice1, daily, spare1

Single(key, spare) == <<[key |-> key, spare |-> spare, years |-> <<>>]>>
Statements(key, years) == <<[key |-> key, spare |-> key, years |-> years]>>

Of(provider, ticker, parts) ==
  [provider |-> provider, ticker |-> ticker, ready |-> TRUE, parts |-> parts]
Both(a, b) == r1 :> a @@ r2 :> b
Unready(a) == [a EXCEPT !.ready = FALSE]

NewsOf1 == Of("NAVER_NEWS", t1, Single(news1, news1))
NewsOf2 == Of("NAVER_NEWS", t2, Single(news2, news2))
TwiceOf1 == Of("NAVER_NEWS", t1, Single(twice1, twice1))
Price(t) == Of("KRX", t, Single(daily, spare1))

\* Two tickers with one disclosure, answered before; one year; two years.
DartOf1 == Of("OpenDART", t1, Single(list1, list1) \o Statements(statA, <<<<cfsA, ofsA>>>>))
DartOf2 == Of("OpenDART", t2, Single(list2, list2) \o Statements(statB, <<<<cfsB, ofsB>>>>))
OneYear == Of("OpenDART", t1, Single(list4, list4) \o Statements(statC, <<<<cfsC, ofsC>>>>))
TwoYears ==
  Of("OpenDART", t1, Single(list3, list3) \o Statements(statD, <<<<cfsC, ofsC>>, <<cfsD, ofsD>>>>))

\* A disclosure whose type is too long for its column, a description with a NUL.
OddNews == Of("NAVER_NEWS", t2, Single(news3, news3))
Odd == Of("OpenDART", t1, Single(list5, list5) \o Statements(statA, <<<<cfsA, ofsA>>>>))

MCAsks == {
  Both(NewsOf1, NewsOf2), Both(NewsOf1, NewsOf1), Both(TwiceOf1, NewsOf2),
  Both(NewsOf1, Unready(NewsOf1)), Both(Price(t1), Price(t2)), Both(Unready(Price(t1)), Price(t1)),
  Both(Unready(DartOf1), Unready(DartOf2)), Both(OneYear, OneYear), Both(TwoYears, Price(t3)),
  Both(Odd, OddNews)}

MCCleaned == {a \in MCAsks : a[r1].parts[1].key \in {list1, list2}}

MCWarm == {list1, list2, list4, list5, statA, cfsA, statB, ofsB, news3}

MCFeed == [c \in CacheKeys |->
  CASE c = list1 -> <<d2, d1>> [] c = list2 -> <<d1>> [] c = list3 -> <<d2>> [] c = list5 -> <<d2, d3>>
    [] c \in {cfsC, ofsC} -> <<f1>> [] c = ofsD -> <<f2>>
    [] c = news1 -> <<n1, n2>> [] c = news2 -> <<n2, n1>> [] c = news3 -> <<n3>> [] c = twice1 -> <<n2, n2>>
    [] c = daily -> <<p1, p2>> [] c \in {statA, cfsA} -> <<f1>> [] c \in {statB, ofsB} -> <<f2>>
    [] OTHER -> <<>>]

MCPriceOf == p1 :> t1 @@ p2 :> t2
MCUnfit == {<<"row", d3>>, <<"chunk", n3>>}
MCStored ==
  d1 :> [owner |-> t2, chunks |-> {t1, t2}] @@ d2 :> [owner |-> t2, chunks |-> {t1, t2}] @@
  n1 :> [owner |-> t2, chunks |-> {t2}]
=============================================================================

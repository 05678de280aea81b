--------------------------- MODULE MCScoreRefresh ---------------------------
(* ScoreRefresh with two tickers, two providers and two transactions. *)
EXTENDS ScoreRefresh, TLC

CONSTANTS j1, j2, p1, p2

MCJobs == {j1, j2}
MCProviders == {p1, p2}

Ask(mode, tickers, provider) == [mode |-> mode, tickers |-> tickers, provider |-> provider]

\* Refreshes for either provider, of both tickers or one; one of all tickers that
\* notes nothing; an annotation after an ingestion that failed.
MCRequests ==
  {Ask("refresh", {1, 2}, p1), Ask("refresh", {1, 2}, p2), Ask("refresh", {2}, p2),
   Ask("bare", {1, 2}, p1), Ask("annotate", {1, 2}, p2)}

\* An OpenDART ingestion of the second ticker: its financials and disclosures.
MCIngestions == {[ticker |-> 2, parts |-> {"financials", "evidence"}]}

RefreshSymmetry == Permutations(MCJobs)
=============================================================================

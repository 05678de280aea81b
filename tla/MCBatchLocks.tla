--------------------------- MODULE MCBatchLocks ---------------------------
(* BatchLocks with three tickers, listed in either direction. *)
EXTENDS BatchLocks

MCOrders == {<<1, 2, 3>>, <<3, 2, 1>>, <<2, 3>>}
=============================================================================

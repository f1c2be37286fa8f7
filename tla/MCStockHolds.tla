---------------------------- MODULE MCStockHolds ----------------------------
(* A small instance of StockHolds, and of StockLedger in it, for TLC. *)
EXTENDS StockHolds

CONSTANTS i1, shop, bench, closed

MCLocType == [l \in Locations |-> IF l = bench THEN "REPAIR_CENTER" ELSE "STORE"]
=============================================================================

-------------------------- MODULE MCStockDocuments --------------------------
(* Small instances of StockDocuments for TLC. *)
EXTENDS StockDocuments, TLC

CONSTANTS i1, i2, shop, vault, u1, u2, t1, t2

MCLocType == (shop :> "STORE") @@ (vault :> "VAULT")

Interchangeable == Permutations({u1, u2}) \union Permutations({t1, t2})
=============================================================================

---------------------------- MODULE MCStoreSync ----------------------------
(* TLC instance of StoreSync: browsers and rows are interchangeable.         *)
EXTENDS StoreSync, TLC

Interchangeable == Permutations(Tabs) \cup Permutations(Rows)
=============================================================================

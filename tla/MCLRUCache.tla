----------------------------- MODULE MCLRUCache -----------------------------
(* LRUCache on a small instance: three keys, two records, two slots. *)
EXTENDS LRUCache
=============================================================================

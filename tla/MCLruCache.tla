----------------------------- MODULE MCLruCache -----------------------------
(* The keys 0 and 3 fall into one bucket of a table for two items.         *)
EXTENDS LruCache
=============================================================================

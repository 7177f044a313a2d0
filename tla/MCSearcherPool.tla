--------------------------- MODULE MCSearcherPool ---------------------------
(* The pool of search threads with two searchers.                           *)
EXTENDS SearcherPool
=============================================================================

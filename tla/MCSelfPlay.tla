----------------------------- MODULE MCSelfPlay -----------------------------
(* See MCSelfPlay.cfg.                                                      *)
EXTENDS SelfPlay
=============================================================================

------------------------------ MODULE MCUsiLoop ------------------------------
(* The options are those of the engine; a few go commands one after another.*)
EXTENDS UsiLoop
=============================================================================

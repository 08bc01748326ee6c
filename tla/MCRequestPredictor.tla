-------------------------- MODULE MCRequestPredictor --------------------------
(* Two functions that are idle, in use, or busy.            *)
EXTENDS RequestPredictor

CONSTANTS f1, f2

Functions == {f1, f2}
IdleToBusy == {0, 40, 120}

=============================================================================

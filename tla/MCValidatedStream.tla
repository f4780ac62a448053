-------------------------- MODULE MCValidatedStream --------------------------
(* The constants are given in the configurations: no model values needed.   *)
EXTENDS ValidatedStream
=============================================================================

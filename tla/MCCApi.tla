------------------------------- MODULE MCCApi -------------------------------
(* Two threads call without end; a stream is three blocks through a         *)
(* two-block buffer, so that a call has one callback of a full buffer, one  *)
(* of the rest, and an operation that can fail before and after the first.  *)
EXTENDS CApi

CONSTANTS t1, t2
=============================================================================

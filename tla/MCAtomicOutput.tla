--------------------------- MODULE MCAtomicOutput ---------------------------
(* One invocation with --force and one without race for the target; the    *)
(* stream is two blocks through a one-block buffer, so that a failure may   *)
(* leave half of it in the file.                                            *)
EXTENDS AtomicOutput

CONSTANTS p1, p2
=============================================================================

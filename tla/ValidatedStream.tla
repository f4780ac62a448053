--------------------------- MODULE ValidatedStream ----------------------------
(***************************************************************************)
(* A stream and its consumer: `getbiblesword list` or `extract`, and        *)
(* `getbiblesword-v1 validate` on what it writes.  The two share nothing but *)
(* the stream, a pipe here; nothing goes back, so that a validator that      *)
(* reads later, from a file, sees the same and says the same.               *)
(***************************************************************************)
EXTENDS Extraction

CONSTANT PipeLines  \* bound: lines the pipe holds

ASSUME PipeAssumption == PipeLines \in Nat \ {0}

VARIABLES
    \* the validator's; its counters get other names than the producer's
    line, phase, header, footer, seen, modulesSeen, sourcesSeen, configsSeen,
    entriesSeen, severities, artifactsSeen, bytesSeen, active, paths, verdict

Validator == INSTANCE StreamValidator WITH
    modules <- modulesSeen, sources <- sourcesSeen, configs <- configsSeen,
    entries <- entriesSeen, artifacts <- artifactsSeen, sizes <- bytesSeen

producing == <<sequence, counts, hashed, finished, command, pc, diagnostics, totals,
               loop, capture, returned, history>>
validating == <<line, phase, header, footer, seen, modulesSeen, sourcesSeen,
                configsSeen, entriesSeen, severities, artifactsSeen, bytesSeen, active, paths, verdict>>
pipeVars == <<stream, torn, producing, validating>>

PipeInit == Init /\ Validator!Init

Produce == Len(stream) < PipeLines /\ Next /\ UNCHANGED validating

Validate ==
    /\ \/ Validator!Accept \/ Validator!Refuse \/ Validator!Oversized
       \/ (pc = "ended" /\ Validator!Conclude)
    /\ UNCHANGED producing

\* What a validator that has refused a line leaves unread stays in the file.
\* (After a line that is too long the producer is not followed any further:
\* what it does does not depend on who reads, and the verdict stands.)
Unread ==
    /\ verdict = "invalid" /\ stream # <<>>
    /\ stream' = Tail(stream)
    /\ UNCHANGED <<torn, producing, validating>>

PipeNext == Produce \/ Validate \/ Unread

PipeSpec == PipeInit /\ [][PipeNext]_pipeVars

-----------------------------------------------------------------------------
(* Properties.                                                             *)

TypeOK ==
    /\ pc \in Places
    /\ \A n \in 1 .. Len(stream) :
           stream[n].type \in RecordTypes \cup {"footer"}
    /\ torn \in BOOLEAN /\ finished \in BOOLEAN
    /\ sequence \in Nat /\ hashed \in 0 .. sequence /\ line \in 0 .. sequence + 1
    /\ phase \in 0 .. 5
    /\ reported \in 0 .. result.diagnostics
    /\ returned \in {"nothing", "true", "false", "exception"}
    /\ verdict \in {"none", "valid", "invalid", "oversize"}

\* A stream that has its footer breaks no rule, whatever else went wrong
\* before it, unless a file grew while it was read, emit_artifacts threw or
\* the root itself was emitted.  (A record longer than the limit given to
\* the validator is refused all the same: "oversize".)
OnlyUpsetIsInvalid == finished /\ ~upset => verdict # "invalid"

\* A stream that is cut off is never valid, wherever the sink failed: what is
\* valid has a line more than records were counted, the footer.
CutStreamIsInvalid ==
    verdict = "valid" => /\ finished \/ line = sequence + 1
                         /\ ~torn

\* A valid stream that says success has met no error anywhere, not even one
\* of an artifact; and the stream of a call that succeeded breaks no rule of
\* the validator but the one on paths, when the DataPath is the root itself.
SuccessIsClean ==
    /\ verdict = "valid" /\ footer = "true" => trouble = 0
    /\ returned = "true" /\ ~atRoot => verdict # "invalid"

\* Every error there was has a diagnostic of its own in a closed stream.
ErrorsAreRecorded ==
    finished /\ ~upset /\ verdict = "valid" => severities["error"] = trouble

(* ReturnIsTrue and FailureStillCloses are Extraction's.                    *)

(* What the documentation says and the code does not.                      *)

\* The producer closes every stream with a footer a validator accepts.  (The
\* root's own path is RoundTrip's matter.)
ClosedStreamIsValid == finished /\ ~atRoot => verdict # "invalid"
=============================================================================

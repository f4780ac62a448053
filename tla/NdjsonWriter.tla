---------------------------- MODULE NdjsonWriter -----------------------------
(***************************************************************************)
(* NdjsonWriter: numbers, counts and hashes the records of a stream, and    *)
(* closes it with a footer.  A record is a TLA+ record with its type, its   *)
(* sequence number and the fields a consumer checks; the SHA-256 of the      *)
(* lines is represented by how many of them have been hashed.  A write the   *)
(* sink refuses throws, and leaves the sink refusing for good.               *)
(***************************************************************************)
EXTENDS Integers, Sequences

VARIABLES
    stream,     \* the whole lines the sink has, less those read from it
    torn,       \* has it a part of one more line?
    sequence,   \* sequence_
    counts,     \* counts_
    hashed,     \* lines given to stream_hash_
    finished    \* finished_

writer == <<stream, torn, sequence, counts, hashed, finished>>

RecordTypes == {"header", "module", "config_source", "config_entry", "entry",
                "artifact_begin", "artifact_chunk", "artifact_end", "diagnostic"}

WriterInit ==
    /\ stream = <<>> /\ torn = FALSE
    /\ sequence = 0
    /\ counts = [t \in RecordTypes |-> 0]
    /\ hashed = 0
    /\ finished = FALSE

\* A record with the fields of both: TLC's @@, which the prover does not know.
Joined(left, right) ==
    [name \in DOMAIN left \cup DOMAIN right |->
        IF name \in DOMAIN left THEN left[name] ELSE right[name]]

Line(type, fields) == Joined([type |-> type, sequence |-> sequence], fields)

\* Mutant: a sequence number is used twice.
EmitUnnumbered(type, fields) ==
    /\ ~finished
    /\ stream' = Append(stream, Line(type, fields))
    /\ sequence' = IF type = "diagnostic" THEN sequence ELSE sequence + 1
    /\ counts' = [counts EXCEPT ![type] = @ + 1]
    /\ hashed' = hashed + 1
    /\ UNCHANGED <<torn, finished>>

Emit(type, fields) ==
    /\ ~finished
    /\ stream' = Append(stream, Line(type, fields))
    /\ sequence' = sequence + 1
    /\ counts' = [counts EXCEPT ![type] = @ + 1]
    /\ hashed' = hashed + 1
    /\ UNCHANGED <<torn, finished>>

\* The sink takes a part of a line, or nothing of it.
EmitFails ==
    /\ torn' \in BOOLEAN
    /\ UNCHANGED <<stream, sequence, counts, hashed, finished>>

Footer(success, fields) ==
    Line("footer", Joined([success |-> success, counts |-> counts, hashed |-> hashed], fields))

Finish(success, fields) ==
    /\ ~finished
    /\ stream' = Append(stream, Footer(success, fields))
    /\ sequence' = sequence + 1
    /\ finished' = TRUE
    /\ UNCHANGED <<torn, counts, hashed>>

\* write or flush fails: the footer may have got out all the same.
FinishFails(success, fields) ==
    /\ \/ stream' = Append(stream, Footer(success, fields)) /\ torn' = FALSE
       \/ UNCHANGED stream /\ torn' \in BOOLEAN
    /\ UNCHANGED <<sequence, counts, hashed, finished>>
=============================================================================

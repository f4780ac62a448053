----------------------------- MODULE AtomicFile -----------------------------
(***************************************************************************)
(* What `--output FILE` promises, without temporary files, buffers or      *)
(* system calls: the target name holds, one after the other, whole         *)
(* streams.  An invocation publishes its stream in one step, an invocation *)
(* without --force only where nothing was, and a report that the stream is *)
(* in place is given only for a publication that survives a power loss.    *)
(***************************************************************************)
EXTENDS Naturals, Sequences

CONSTANTS
    Procs,      \* invocations of the command line with the same --output
    Forced,     \* those given --force
    Old         \* the content the target may have before any of them

VARIABLES
    contents,   \* what the target name held, oldest first; the last is current
    durable,    \* how many of them a power loss cannot take back
    report      \* what each invocation told its caller

vars == <<contents, durable, report>>

\* "untouched": failed before the target changed; "in_place": the stream is
\* the target's content (with success true or false in its footer);
\* "maybe_lost": in place, but a power loss may still take it back.
Reports == {"none", "untouched", "in_place", "maybe_lost"}

Published(p) == \E i \in 1 .. Len(contents) : contents[i] = p
Survives(p)  == \E i \in 1 .. durable : contents[i] = p

Init ==
    /\ contents \in {<<>>, <<Old>>}
    /\ durable = Len(contents)
    /\ report = [p \in Procs |-> "none"]

Publish(p) ==
    /\ report[p] = "none" /\ ~Published(p)
    /\ p \in Forced \/ contents = <<>>
    /\ contents' = Append(contents, p)
    /\ UNCHANGED <<durable, report>>

\* The file system makes directory updates durable in the order they happened.
Persist ==
    /\ durable' \in durable + 1 .. Len(contents)
    /\ UNCHANGED <<contents, report>>

Answer(p, r) ==
    /\ report[p] = "none"
    /\ \/ r = "untouched" /\ ~Published(p)
       \/ r = "in_place" /\ Survives(p)
       \/ r = "maybe_lost" /\ Published(p)
    /\ report' = [report EXCEPT ![p] = r]
    /\ UNCHANGED <<contents, durable>>

PowerLoss ==
    /\ contents' = SubSeq(contents, 1, durable)
    /\ UNCHANGED <<durable, report>>

Next ==
    \/ \E p \in Procs : Publish(p) \/ \E r \in Reports : Answer(p, r)
    \/ Persist
    \/ PowerLoss

Spec == Init /\ [][Next]_vars
=============================================================================

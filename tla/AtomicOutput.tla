---------------------------- MODULE AtomicOutput ----------------------------
(***************************************************************************)
(* The command line's `--output FILE`: several invocations of getbiblesword *)
(* race for the same target name.  Each runs main() with an AtomicOutput:   *)
(* look at the target, make a temporary file beside it, stream the          *)
(* extraction into it through FileDescriptorBuffer, then synchronise,       *)
(* close, rename or link it to the target and synchronise the directory.    *)
(* Every system call may fail, a process may be killed between any two of   *)
(* its steps, and a power loss keeps only what had reached the disk.        *)
(*                                                                          *)
(* A file's content is a count of blocks of its process's stream; a block   *)
(* stands for what the 64 KiB buffer takes up at once.  mkstemp names are   *)
(* taken to be fresh: a temporary file is identified by its process.        *)
(***************************************************************************)
EXTENDS Naturals, Sequences

CONSTANTS
    Procs,      \* invocations of the command line with the same --output
    Forced,     \* those given --force
    Old,        \* the content the target may have before any of them
    Blocks,     \* length of a complete stream, in blocks
    Capacity    \* blocks the stream buffer holds

ASSUME OldAssumption == Old \notin Procs
ASSUME BlocksAssumption == Blocks \in Nat \ {0}
ASSUME CapacityAssumption == Capacity \in Nat \ {0}

VARIABLES
    pc,         \* the next step of each process
    emitted,    \* blocks handed to the ostream
    written,    \* blocks write() has put into the temporary file
    synced,     \* blocks of it that are on the disk
    success,    \* what run_extraction returned
    temps,      \* processes whose temporary name exists
    commits,    \* whose file the target name led to, oldest first
    durable,    \* how many of the commits are on the disk
    report      \* what the process's exit tells the caller

files == <<emitted, written, synced>>
directory == <<temps, commits, durable>>
vars == <<pc, emitted, written, synced, success, temps, commits, durable, report>>

Steps == {"inspect", "mkstemp", "secure", "extract", "overflow", "finish",
          "flush", "fsync", "close", "publish", "drop_temp", "sync_dir",
          "exit", "unwind", "unwind_committed", "done", "killed"}
Reports == {"none", "failed", "success", "unsuccessful", "committed_but"}

TypeOK ==
    /\ pc \in [Procs -> Steps]
    /\ emitted \in [Procs -> 0 .. Blocks]
    /\ written \in [Procs -> 0 .. Blocks]
    /\ synced \in [Procs -> 0 .. Blocks]
    /\ success \in [Procs -> BOOLEAN]
    /\ temps \in SUBSET Procs
    /\ commits \in Seq(Procs \cup {Old})
    /\ durable \in 0 .. Len(commits)
    /\ report \in [Procs -> Reports]

Exists == commits # <<>>
Committed(p) == \E i \in 1 .. Len(commits) : commits[i] = p
Survives(p)  == \E i \in 1 .. durable : commits[i] = p

Init ==
    /\ pc = [p \in Procs |-> "inspect"]
    /\ emitted = [p \in Procs |-> 0]
    /\ written = [p \in Procs |-> 0]
    /\ synced = [p \in Procs |-> 0]
    /\ success = [p \in Procs |-> FALSE]
    /\ temps = {}
    /\ commits \in {<<>>, <<Old>>}
    /\ durable = Len(commits)
    /\ report = [p \in Procs |-> "none"]

Goto(p, step) == pc' = [pc EXCEPT ![p] = step]

\* Ends a process that has no temporary file to clean up.
Fail(p) ==
    /\ Goto(p, "done")
    /\ report' = [report EXCEPT ![p] = "failed"]

-----------------------------------------------------------------------------
(* AtomicOutput's constructor.                                             *)

\* Without --force an existing target ends the run; with it nobody looks.
Inspect(p) ==
    /\ pc[p] = "inspect"
    /\ \/ Goto(p, "mkstemp") /\ (p \in Forced \/ ~Exists) /\ UNCHANGED report
       \/ Fail(p) /\ p \notin Forced    \* it exists, or stat() failed
    /\ UNCHANGED <<files, success, directory>>

MakeTemp(p) ==
    /\ pc[p] = "mkstemp"
    /\ \/ /\ Goto(p, "secure")
          /\ temps' = temps \cup {p}
          /\ UNCHANGED report
       \/ Fail(p) /\ UNCHANGED temps
    /\ UNCHANGED <<files, success, commits, durable>>

\* fcntl(FD_CLOEXEC); on failure the constructor removes the file itself,
\* and ignores an unlink() that fails.
Secure(p) ==
    /\ pc[p] = "secure"
    /\ \/ Goto(p, "extract") /\ UNCHANGED <<temps, report>>
       \/ Fail(p) /\ temps' \in {temps, temps \ {p}}
    /\ UNCHANGED <<files, success, commits, durable>>

-----------------------------------------------------------------------------
(* run_extraction into FileDescriptorBuffer.                               *)

\* Mutant: hands over a block after the last one.
EmitPastEnd(p) ==
    /\ pc[p] = "extract"
    /\ emitted[p] <= Blocks
    /\ emitted' = [emitted EXCEPT ![p] = @ + 1]
    /\ UNCHANGED <<pc, written, synced, success, directory, report>>

\* The writer hands over a block; a full buffer is written out first.
Emit(p) ==
    /\ pc[p] = "extract"
    /\ emitted[p] < Blocks
    /\ \/ /\ emitted[p] - written[p] < Capacity
          /\ emitted' = [emitted EXCEPT ![p] = @ + 1]
          /\ UNCHANGED pc
       \/ /\ emitted[p] - written[p] = Capacity
          /\ Goto(p, "overflow")
          /\ UNCHANGED emitted
    /\ UNCHANGED <<written, synced, success, directory, report>>

\* Mutant: goes on to fsync with blocks still in the buffer.
FooterUnflushed(p) ==
    /\ pc[p] = "extract"
    /\ emitted[p] = Blocks
    /\ Goto(p, "fsync")
    /\ \E ok \in BOOLEAN : success' = [success EXCEPT ![p] = ok]
    /\ UNCHANGED <<files, directory, report>>

\* The footer is out: finish() flushes, and the extraction's result is known.
Footer(p) ==
    /\ pc[p] = "extract"
    /\ emitted[p] = Blocks
    /\ Goto(p, "finish")
    /\ \E ok \in BOOLEAN : success' = [success EXCEPT ![p] = ok]
    /\ UNCHANGED <<files, directory, report>>

\* The loop of flush_pending(): write() takes some of what is pending, or
\* fails; the buffer is reused only when all of it has been taken.
Write(p) ==
    /\ pc[p] \in {"overflow", "finish", "flush"}
    /\ written[p] < emitted[p]
    /\ \/ /\ \E n \in written[p] + 1 .. emitted[p] :
                 written' = [written EXCEPT ![p] = n]
          /\ UNCHANGED pc
       \/ Goto(p, "unwind") /\ UNCHANGED written
    /\ UNCHANGED <<emitted, synced, success, directory, report>>

AfterFlush == [step \in {"overflow", "finish", "flush"} |->
                  CASE step = "overflow" -> "extract"
                    [] step = "finish"   -> "flush"
                    [] step = "flush"    -> "fsync"]

\* Mutant: a written buffer is not reset, so that overflow() finds it full again.
FlushedNotReset(p) ==
    /\ pc[p] \in {"overflow", "finish", "flush"}
    /\ written[p] = emitted[p]
    /\ Goto(p, IF pc[p] = "overflow" THEN "overflow" ELSE AfterFlush[pc[p]])
    /\ UNCHANGED <<files, success, directory, report>>

Flushed(p) ==
    /\ pc[p] \in {"overflow", "finish", "flush"}
    /\ written[p] = emitted[p]
    /\ Goto(p, AfterFlush[pc[p]])
    /\ UNCHANGED <<files, success, directory, report>>

\* An exception that extract_module and list_modules let through.
Throw(p) ==
    /\ pc[p] = "extract"
    /\ Goto(p, "unwind")
    /\ UNCHANGED <<files, success, directory, report>>

-----------------------------------------------------------------------------
(* AtomicOutput::commit.                                                   *)

\* Mutant: commit() closes the file without synchronising it.
FsyncForgotten(p) ==
    /\ pc[p] = "fsync"
    /\ Goto(p, "close")
    /\ UNCHANGED <<files, success, directory, report>>

Fsync(p) ==
    /\ pc[p] = "fsync"
    /\ \/ Goto(p, "close") /\ synced' = [synced EXCEPT ![p] = written[p]]
       \/ Goto(p, "unwind") /\ UNCHANGED synced
    /\ UNCHANGED <<emitted, written, success, directory, report>>

Close(p) ==
    /\ pc[p] = "close"
    /\ Goto(p, "publish") \/ Goto(p, "unwind")
    /\ UNCHANGED <<files, success, directory, report>>

\* --force: rename() replaces whatever the target is now.
Rename(p) ==
    /\ pc[p] = "publish" /\ p \in Forced
    /\ \/ /\ Goto(p, "sync_dir")
          /\ commits' = Append(commits, p)
          /\ temps' = temps \ {p}
       \/ Goto(p, "unwind") /\ UNCHANGED <<commits, temps>>
    /\ UNCHANGED <<files, success, durable, report>>

\* Mutant: renames although --force is not given.
LinkReplaces(p) ==
    /\ pc[p] = "publish" /\ p \notin Forced
    /\ Goto(p, "drop_temp")
    /\ commits' = Append(commits, p)
    /\ UNCHANGED <<files, success, temps, durable, report>>

\* Mutant: forgets that link() leaves the temporary name in place.
LinkKeepsTemp(p) ==
    /\ pc[p] = "publish" /\ p \notin Forced
    /\ \/ /\ ~Exists
          /\ Goto(p, "sync_dir")
          /\ commits' = Append(commits, p)
       \/ Goto(p, "unwind") /\ UNCHANGED commits
    /\ UNCHANGED <<files, success, temps, durable, report>>

\* No --force: link() refuses a target that exists by now.
Link(p) ==
    /\ pc[p] = "publish" /\ p \notin Forced
    /\ \/ /\ ~Exists
          /\ Goto(p, "drop_temp")
          /\ commits' = Append(commits, p)
       \/ Goto(p, "unwind") /\ UNCHANGED commits
    /\ UNCHANGED <<files, success, temps, durable, report>>

DropTemp(p) ==
    /\ pc[p] = "drop_temp"
    /\ \/ Goto(p, "sync_dir") /\ temps' = temps \ {p}
       \/ Goto(p, "unwind_committed") /\ UNCHANGED temps
    /\ UNCHANGED <<files, success, commits, durable, report>>

\* Mutant: the status of the directory's fsync is not looked at.
SyncDirUnchecked(p) ==
    /\ pc[p] = "sync_dir"
    /\ Goto(p, "exit")
    /\ durable' \in {durable, Len(commits)}
    /\ UNCHANGED <<files, success, temps, commits, report>>

\* open, fsync and close of the parent directory; close may fail last.
SyncDir(p) ==
    /\ pc[p] = "sync_dir"
    /\ \/ Goto(p, "exit") /\ durable' = Len(commits)
       \/ Goto(p, "unwind_committed") /\ durable' \in {durable, Len(commits)}
    /\ UNCHANGED <<files, success, temps, commits, report>>

-----------------------------------------------------------------------------
(* How a process ends.                                                     *)

\* committed_ is set: the destructor has nothing to remove.
Exit(p) ==
    /\ pc[p] = "exit"
    /\ Goto(p, "done")
    /\ report' = [report EXCEPT
                     ![p] = IF success[p] THEN "success" ELSE "unsuccessful"]
    /\ UNCHANGED <<files, success, directory>>

\* An exception unwinds through the destructor, which removes the temporary
\* name if it can, to main's handler.
Unwind(p) ==
    /\ pc[p] \in {"unwind", "unwind_committed"}
    /\ Goto(p, "done")
    /\ temps' \in {temps, temps \ {p}}
    /\ report' = [report EXCEPT
                     ![p] = IF pc[p] = "unwind" THEN "failed" ELSE "committed_but"]
    /\ UNCHANGED <<files, success, commits, durable>>

Kill(p) ==
    /\ pc[p] \notin {"inspect", "done", "killed"}
    /\ Goto(p, "killed")
    /\ UNCHANGED <<files, success, directory, report>>

-----------------------------------------------------------------------------
(* The file system (external): directory updates reach the disk in order,  *)
(* at the latest with a directory fsync; data reaches it with fsync.       *)

Writeback ==
    /\ durable' \in durable + 1 .. Len(commits)
    /\ UNCHANGED <<pc, files, success, temps, commits, report>>

Survivor(step) == IF step \in {"inspect", "done"} THEN step ELSE "killed"

PowerLoss ==
    /\ pc' = [p \in Procs |-> Survivor(pc[p])]
    /\ commits' = SubSeq(commits, 1, durable)
    /\ written' = synced
    /\ emitted' = synced
    /\ temps' \in SUBSET {p \in Procs : pc[p] \notin {"inspect", "mkstemp"}}
    /\ UNCHANGED <<synced, success, durable, report>>

Step(p) ==
    \/ Inspect(p) \/ MakeTemp(p) \/ Secure(p)
    \/ Emit(p) \/ Footer(p) \/ Write(p) \/ Flushed(p) \/ Throw(p)
    \/ Fsync(p) \/ Close(p) \/ Rename(p) \/ Link(p) \/ DropTemp(p) \/ SyncDir(p)
    \/ Exit(p) \/ Unwind(p)

Next ==
    \/ \E p \in Procs : Step(p) \/ Kill(p)
    \/ Writeback
    \/ PowerLoss

\* A process that is not killed keeps running.
Fairness == \A p \in Procs : WF_vars(Step(p))

Spec == Init /\ [][Next]_vars /\ Fairness
-----------------------------------------------------------------------------
(* Properties.                                                             *)

\* Whatever the target name leads to, now or after a power loss, is the
\* complete stream of one invocation: fsync and close come before rename or
\* link, and no failure of write() is survived.
TargetIsWhole ==
    \A i \in 1 .. Len(commits) :
        commits[i] # Old => written[commits[i]] = Blocks
                            /\ synced[commits[i]] = Blocks

\* An invocation without --force is only ever the first content of the
\* target, also when another one creates it after the check in the
\* constructor.
NoClobber ==
    \A i \in 1 .. Len(commits) : commits[i] \in Procs \ Forced => i = 1

\* The exit status and the message say what happened: 0 or an unsuccessful
\* footer means the stream is in place for good, a plain failure that the
\* target was not touched, and a failure after rename or link says so.
ReportIsTruthful ==
    \A p \in Procs :
        /\ report[p] \in {"success", "unsuccessful"} => Survives(p)
        /\ report[p] = "failed" => ~Committed(p)

\* No path forgets the temporary name: an invocation that ends with it still
\* there does so from a step whose unlink() failed, never from a success.
CleansUp ==
    [][\A p \in temps \cap temps' :
          pc[p] # "done" /\ pc'[p] = "done" =>
              pc[p] \in {"secure", "unwind", "unwind_committed"}]_vars

\* Every invocation ends, whatever its system calls return.
Terminates == \A p \in Procs : pc[p] # "inspect" ~> pc[p] \in {"done", "killed"}

(* What readers of the target see is what AtomicFile promises.              *)
Contents == [i \in 1 .. Len(commits) |->
                IF commits[i] = Old \/ written[commits[i]] = Blocks
                THEN commits[i] ELSE "torn"]

PromisedReport == [p \in Procs |->
                      CASE report[p] \in {"success", "unsuccessful"} -> "in_place"
                        [] report[p] = "failed" -> "untouched"
                        [] report[p] = "committed_but" -> "maybe_lost"
                        [] report[p] = "none" -> "none"]

Promise == INSTANCE AtomicFile WITH contents <- Contents, report <- PromisedReport

\* AtomicOutput implements the promise.
ImplementsAtomicFile == Promise!Spec
=============================================================================

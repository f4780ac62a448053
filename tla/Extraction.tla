------------------------------ MODULE Extraction ------------------------------
(***************************************************************************)
(* list_modules and extract_module: one run of the producer, from the       *)
(* header to the footer.  Every record is one step, for every one may be     *)
(* the one the sink refuses.  What the SWORD engine and the file system      *)
(* answer is left open: keys that stall or cannot be read, configuration     *)
(* files that vanish, artifacts that change, exceptions.  What is known of   *)
(* the capture of one artifact is what ArtifactCapture establishes.          *)
(***************************************************************************)
EXTENDS NdjsonWriter

CONSTANTS
    ChunkBlocks,    \* the chunk size, in blocks
    FilesGrow,      \* may a file grow while it is read?
    CaptureThrows,  \* may emit_artifacts throw, for want of memory?
    MaxModules,     \* bound: modules a list finds
    MaxSources,     \* bound: configuration files that define the module
    MaxConfig,      \* bound: interpreted configuration entries
    MaxEntries,     \* bound: entries traversed
    MaxCandidates,  \* bound: artifacts discovered
    MaxBlocks,      \* bound: the longest artifact
    MaxTrouble      \* bound: errors of one run

ASSUME ChunkAssumption == ChunkBlocks \in Nat \ {0}
ASSUME EnvironmentAssumption == FilesGrow \in BOOLEAN /\ CaptureThrows \in BOOLEAN
ASSUME BoundsAssumption ==
    {MaxModules, MaxSources, MaxConfig, MaxEntries, MaxCandidates, MaxBlocks,
     MaxTrouble} \subseteq Nat

VARIABLES
    command,
    pc,
    diagnostics,    \* DiagnosticCounts
    entries, artifacts, bytes,  \* the totals for the footer
    ordinal,        \* the ordinal of the loop under way
    limit,          \* how many rounds it has
    group,          \* the artifact whose records are being emitted
    result,         \* ArtifactResult: artifacts, bytes, diagnostics collected
    reported,       \* how many of these have been emitted
    returned,       \* what the call returned
    trouble,        \* history: how many errors there have been
    upset,          \* history: has a file grown, emit_artifacts thrown, or
                    \* the root itself been emitted?
    atRoot          \* history: the last of these

totals == <<entries, artifacts, bytes>>
loop == <<ordinal, limit>>
capture == <<group, result, reported>>
history == <<trouble, upset, atRoot>>
vars == <<writer, command, pc, diagnostics, totals, loop, capture, returned, history>>

NoGroup == [kind |-> "none", expected |-> 0, size |-> 0, chunks |-> 0,
            short |-> FALSE, grown |-> FALSE, failed |-> FALSE]

\* Where the code is inside a try block, and something it calls may throw.
Trying == {"root", "modules", "module", "unknown", "search", "unmatched", "sources",
           "configs", "top", "read", "project", "projected", "advance", "discover"}
              \cup (IF CaptureThrows THEN {"capture"} ELSE {})

Places == Trying \cup {"header", "capture", "caught", "finish", "ended"}

Init ==
    /\ WriterInit
    /\ command \in {"list", "extract"}
    /\ pc = "header"
    /\ diagnostics = [error |-> 0, warning |-> 0, info |-> 0]
    /\ entries = 0 /\ artifacts = 0 /\ bytes = 0
    /\ ordinal = 0 /\ limit = 0
    /\ group = NoGroup
    /\ result = [artifacts |-> 0, bytes |-> 0, diagnostics |-> 0]
    /\ reported = 0
    /\ returned = "nothing"
    /\ trouble = 0 /\ upset = FALSE /\ atRoot = FALSE

-----------------------------------------------------------------------------
\* Mutant: the record is written and not counted.
DiagnoseUncounted(severity) ==
    /\ Emit("diagnostic", [severity |-> severity])
    /\ diagnostics' = IF severity = "warning" THEN diagnostics
                      ELSE [diagnostics EXCEPT ![severity] = @ + 1]

\* emit_diagnostic counts what it writes.
Diagnose(severity) ==
    /\ diagnostics' = [diagnostics EXCEPT ![severity] = @ + 1]
    /\ Emit("diagnostic", [severity |-> severity])

\* Another n errors, within the bound.
Trouble(n) ==
    /\ trouble + n <= MaxTrouble
    /\ trouble' = trouble + n

Warn(next) ==
    /\ Diagnose("warning")
    /\ pc' = next
    /\ UNCHANGED <<command, totals, capture, returned, history>>

Complain(next) ==
    /\ Diagnose("error")
    /\ Trouble(1)
    /\ pc' = next
    /\ UNCHANGED <<command, totals, capture, returned, upset, atRoot>>

Proceed(next) ==
    /\ pc' = next
    /\ UNCHANGED <<writer, command, diagnostics, totals, capture, returned, history>>

Put(type, fields, next) ==
    /\ Emit(type, fields)
    /\ pc' = next
    /\ UNCHANGED <<command, diagnostics, capture, returned, history>>

\* The rounds of a loop begin, or their ordinal goes up.
Loop(n) == ordinal' = 0 /\ limit' = n
Round == ordinal' = ordinal + 1 /\ UNCHANGED limit

Header ==
    /\ pc = "header"
    /\ Put("header", [command |-> command], "root")
    /\ UNCHANGED <<totals, loop>>

\* canonical_root fails.
BadRoot ==
    /\ pc = "root"
    /\ Complain("finish")
    /\ UNCHANGED loop

-----------------------------------------------------------------------------
(* list_modules.                                                           *)

Discovered ==
    /\ pc = "root" /\ command = "list"
    /\ Proceed("modules")
    /\ \E n \in 0 .. MaxModules : Loop(n)

Listed ==
    /\ pc = "modules" /\ ordinal < limit
    /\ Put("module", <<>>, pc)
    /\ Round
    /\ UNCHANGED totals

AllListed ==
    /\ pc = "modules" /\ ordinal = limit
    /\ Proceed("finish")
    /\ UNCHANGED loop

List == Discovered \/ Listed \/ AllListed

-----------------------------------------------------------------------------
(* extract_module, up to the configuration.                                *)

ModuleNotFound ==
    /\ pc = "root" /\ command = "extract"
    /\ Complain("finish")
    /\ UNCHANGED loop

Module ==
    /\ pc = "root" /\ command = "extract"
    /\ \E next \in {"unknown", "search"} : Put("module", <<>>, next)
    /\ UNCHANGED <<totals, loop>>

UnknownType == pc = "unknown" /\ Warn("search") /\ UNCHANGED loop

\* find_configuration_files refuses a link, or cannot read a file.
ConfigurationRefused ==
    /\ pc = "search"
    /\ Complain(pc)
    /\ UNCHANGED loop

ConfigurationFound ==
    /\ pc = "search"
    /\ \E n \in 0 .. MaxSources :
           /\ Proceed(IF n = 0 THEN "unmatched" ELSE "sources")
           /\ Loop(n)

Unmatched == pc = "unmatched" /\ Warn("sources") /\ UNCHANGED loop

\* emit_configuration_sources: `limit` files are left; one that cannot be
\* read again gets no ordinal.
Source ==
    /\ pc = "sources" /\ limit > 0
    /\ \/ /\ Put("config_source", [ordinal |-> ordinal], pc)
          /\ ordinal' = ordinal + 1
          /\ UNCHANGED totals
       \/ Complain(pc) /\ UNCHANGED ordinal
    /\ limit' = limit - 1

SourcesDone ==
    /\ pc = "sources" /\ limit = 0
    /\ Proceed("configs")
    /\ \E n \in 0 .. MaxConfig : Loop(n)

\* emit_interpreted_configuration.
ConfigEntry ==
    /\ pc = "configs" /\ ordinal < limit
    /\ Put("config_entry", [ordinal |-> ordinal], pc)
    /\ Round
    /\ UNCHANGED totals

ConfigDone == pc = "configs" /\ ordinal = limit /\ Proceed("top") /\ UNCHANGED loop

Configure == ModuleNotFound \/ Module \/ UnknownType \/ ConfigurationRefused
             \/ ConfigurationFound \/ Unmatched \/ Source \/ SourcesDone
             \/ ConfigEntry \/ ConfigDone

-----------------------------------------------------------------------------
(* emit_entries.                                                           *)

Empty == pc = "top" /\ Warn("discover") /\ UNCHANGED loop

Positioned == pc = "top" /\ Proceed("read") /\ UNCHANGED loop

\* The key did not move, or its entry cannot be read: the traversal ends.
Unreadable == pc = "read" /\ Complain("discover") /\ UNCHANGED loop

\* The raw entry is too long for the engine's int: nothing is rendered.
TooLong == pc = "read" /\ Complain("project") /\ UNCHANGED loop

\* The source cannot be normalised, its normal form is too long, or what
\* the engine strips of it is not UTF-8: at most one of these is said.
Remark ==
    /\ pc \in {"read", "project"}
    /\ Warn("projected") \/ Complain("projected")
    /\ UNCHANGED loop

Entry ==
    /\ pc \in {"read", "project", "projected"}
    /\ entries < MaxEntries
    /\ Put("entry", [ordinal |-> entries], "advance")
    /\ entries' = entries + 1
    /\ UNCHANGED <<artifacts, bytes, loop>>

\* To the next key, past the last one, or neither.
Increment ==
    /\ pc = "advance"
    /\ \/ Proceed("read") /\ entries < MaxEntries
       \/ Proceed("discover")
       \/ Complain("discover")
    /\ UNCHANGED loop

Traverse == Empty \/ Positioned \/ Unreadable \/ TooLong \/ Remark \/ Entry \/ Increment

-----------------------------------------------------------------------------
(* discover_artifacts and emit_artifacts.                                  *)

\* A configuration file or the data path leads out of the root, or cannot
\* be enumerated.
Undiscovered ==
    /\ pc = "discover"
    /\ Complain(pc)
    /\ UNCHANGED loop

Candidates ==
    /\ pc = "discover"
    /\ Proceed("capture")
    /\ \E n \in 0 .. MaxCandidates : Loop(n)

\* Mutant: only the first diagnostic is kept.
CollectFirst(n) ==
    /\ Trouble(n)
    /\ result' = [result EXCEPT !.diagnostics = IF @ = 0 THEN n ELSE @]

\* result.diagnostics.push_back
Collect(n) ==
    /\ Trouble(n)
    /\ result' = [result EXCEPT !.diagnostics = @ + n]

SkipCandidate ==
    /\ pc = "capture" /\ group = NoGroup /\ ordinal < limit
    /\ Collect(1)
    /\ Round
    /\ UNCHANGED <<writer, command, pc, diagnostics, totals, group, reported, returned, upset, atRoot>>

RootPath == -1  \* the path "."; the others are numbers

\* The byte_length artifact_begin announces.
Announced(kind) ==
    CASE kind = "directory" -> {0}
      [] kind = "symlink"   -> {1}
      [] kind = "regular"   -> 0 .. MaxBlocks

BeginArtifact ==
    /\ pc = "capture" /\ group = NoGroup /\ ordinal < limit
    /\ \E kind \in {"directory", "symlink", "regular"} :
           \E expected \in Announced(kind) :
               /\ group' = [NoGroup EXCEPT !.kind = kind, !.expected = expected]
               /\ Emit("artifact_begin", [id |-> result.artifacts, path |-> ordinal,
                                         kind |-> kind, expected |-> expected])
    /\ UNCHANGED <<command, pc, diagnostics, totals, loop, result, reported, returned, history>>

\* A DataPath such as `a/..` is the root itself, whose relative path is ".".
BeginRoot ==
    /\ pc = "capture" /\ group = NoGroup /\ ordinal < limit
    /\ ~atRoot
    /\ group' = [NoGroup EXCEPT !.kind = "directory"]
    /\ Emit("artifact_begin", [id |-> result.artifacts, path |-> RootPath,
                              kind |-> "directory", expected |-> 0])
    /\ upset' = TRUE /\ atRoot' = TRUE
    /\ UNCHANGED <<command, pc, diagnostics, totals, loop, result, reported, returned, trouble>>

\* A read gives a whole chunk, except before the end of the file; it gives
\* something after the end only if the file has grown.
ReadChunk ==
    /\ pc = "capture" /\ group.kind = "regular" /\ ~group.failed
    /\ group.short => FilesGrow
    /\ \E count \in 1 .. ChunkBlocks :
           /\ group.size + count <= MaxBlocks
           /\ group' = [group EXCEPT !.size = @ + count, !.chunks = @ + 1,
                                     !.short = count < ChunkBlocks,
                                     !.grown = @ \/ group.short]
           /\ Emit("artifact_chunk", [id |-> result.artifacts, index |-> group.chunks,
                                     size |-> count])
    /\ upset' = (upset \/ group.short)
    /\ UNCHANGED <<command, pc, diagnostics, totals, loop, result, reported, returned, trouble, atRoot>>

ReadError ==
    /\ pc = "capture" /\ group.kind = "regular" /\ ~group.failed
    /\ group' = [group EXCEPT !.failed = TRUE]
    /\ Collect(1)
    /\ UNCHANGED <<writer, command, pc, diagnostics, totals, loop, reported, returned, upset, atRoot>>

\* The fields of artifact_end: its sizes are those of the data emitted.
Close(fields, size) ==
    /\ Emit("artifact_end", Joined([id |-> result.artifacts, size |-> size], fields))
    /\ group' = NoGroup
    /\ Round
    /\ UNCHANGED <<command, pc, diagnostics, totals, reported, returned, upset, atRoot>>

\* The target of a link has no chunks; its length is known at the begin.
EndWhole ==
    /\ pc = "capture" /\ group.kind \in {"directory", "symlink"}
    /\ Close(<<>>, group.expected)
    /\ result' = [artifacts |-> result.artifacts + 1,
                  bytes |-> result.bytes + group.expected,
                  diagnostics |-> result.diagnostics]
    /\ UNCHANGED trouble

\* What has the state of before is a snapshot (StableIsSnapshot).
EndRegular ==
    /\ pc = "capture" /\ group.kind = "regular"
    /\ \E unchanged \in BOOLEAN :
           /\ unchanged => group.failed \/ (group.size = group.expected /\ ~group.grown)
           /\ Close([stable |-> unchanged /\ ~group.failed], group.size)
           /\ result' = [artifacts |-> result.artifacts + 1,
                         bytes |-> result.bytes + group.size,
                         diagnostics |-> result.diagnostics + (IF unchanged THEN 0 ELSE 1)]
           /\ Trouble(IF unchanged THEN 0 ELSE 1)

\* What was collected is emitted after the last group, not yet counted.
Report ==
    /\ pc = "capture" /\ group = NoGroup /\ ordinal = limit
    /\ reported < result.diagnostics
    /\ Emit("diagnostic", [severity |-> "error"])
    /\ reported' = reported + 1
    /\ UNCHANGED <<command, pc, diagnostics, totals, loop, group, result, returned, history>>

\* Mutant: the errors of the capture are not merged.
CapturedUnmerged ==
    /\ pc = "capture" /\ group = NoGroup /\ ordinal = limit
    /\ reported = result.diagnostics
    /\ artifacts' = result.artifacts /\ bytes' = result.bytes
    /\ pc' = "finish"
    /\ UNCHANGED <<writer, command, diagnostics, entries, loop, capture, returned, history>>

\* extract_module takes over what emit_artifacts returned.
Captured ==
    /\ pc = "capture" /\ group = NoGroup /\ ordinal = limit
    /\ reported = result.diagnostics
    /\ artifacts' = result.artifacts /\ bytes' = result.bytes
    /\ diagnostics' = [diagnostics EXCEPT !.error = @ + result.diagnostics]
    /\ pc' = "finish"
    /\ UNCHANGED <<writer, command, entries, loop, capture, returned, history>>

Capture == Undiscovered \/ Candidates \/ SkipCandidate \/ BeginArtifact \/ BeginRoot
           \/ ReadChunk \/ ReadError \/ EndWhole \/ EndRegular \/ Report \/ Captured

-----------------------------------------------------------------------------
(* The end, whatever happened.                                             *)

\* Something threw: the engine, the file system.  BadRoot is outside the
\* try block, so that only its answer is behind at "root".
Throw ==
    /\ pc \in Trying
    /\ pc' = "caught"
    /\ Trouble(1)
    /\ upset' = (upset \/ pc = "capture")
    /\ UNCHANGED <<writer, command, diagnostics, totals, loop, capture, returned, atRoot>>

\* Mutant: the catch block returns.
CatchAndReturn ==
    /\ pc = "caught"
    /\ Diagnose("error")
    /\ pc' = "ended"
    /\ returned' = "false"
    /\ UNCHANGED <<command, totals, loop, capture, history>>

\* Mutant: the catch block swallows the exception.
CatchSilently ==
    /\ pc = "caught"
    /\ pc' = "finish"
    /\ UNCHANGED <<writer, command, diagnostics, totals, loop, capture, returned, history>>

\* The catch block; the error it emits is the exception's.
Catch ==
    /\ pc = "caught"
    /\ Diagnose("error")
    /\ pc' = "finish"
    /\ UNCHANGED <<command, totals, loop, capture, returned, history>>

Success == diagnostics.error = 0

Totals == [diagnostics |-> diagnostics, entries |-> entries,
           artifacts |-> artifacts, bytes |-> bytes]

FinishStream ==
    /\ pc = "finish"
    /\ Finish(Success, Totals)
    /\ pc' = "ended"
    /\ returned' = IF Success THEN "true" ELSE "false"
    /\ UNCHANGED <<command, diagnostics, totals, loop, capture, history>>

\* A record the sink refuses: the exception is caught, the diagnostic for it
\* is refused as well, and the second exception leaves the call.  (Outside
\* the try block any other exception leaves as much behind.)
SinkFails ==
    /\ pc # "ended"
    /\ IF pc = "finish" THEN FinishFails(Success, Totals) ELSE EmitFails
    /\ pc' = "ended"
    /\ returned' = "exception"
    /\ UNCHANGED <<command, diagnostics, totals, loop, capture, history>>

Next == Header \/ BadRoot \/ List \/ Configure \/ Traverse \/ Capture
        \/ Throw \/ Catch \/ FinishStream \/ SinkFails

Spec == Init /\ [][Next]_vars

-----------------------------------------------------------------------------
(* Properties of the call alone.                                           *)

\* What the call returns tells whether there was an error, even one of an
\* artifact, which only what emit_artifacts returned tells.
ReturnIsTrue ==
    /\ returned = "true" => trouble = 0
    /\ returned = "false" => trouble > 0

\* Failing is no reason to leave the stream open: only an exception that
\* leaves the call does, and then the sink has failed.
FailureStillCloses == returned \in {"true", "false"} => finished
=============================================================================

--------------------------- MODULE StreamValidator ----------------------------
(***************************************************************************)
(* Validator of tools/getbiblesword_v1.py: reads a stream record by record, *)
(* keeps count of what it has seen, refuses the first record that breaks a   *)
(* rule, and at the end of the input what is incomplete.  The records are    *)
(* those of NdjsonWriter.                                                   *)
(***************************************************************************)
EXTENDS Integers, Sequences

CONSTANTS ChunkBlocks, RecordTypes

VARIABLES
    stream, torn,   \* the input: lines not yet read, and a line without its LF
    line,           \* self.sequence: the records accepted
    phase,
    header,         \* self.command, "" before the header
    footer,         \* footer.success, "none" before the footer
    seen,           \* self.counts
    modules, sources, configs, entries, \* the counters, next ordinals
    severities,     \* self.diagnostics
    artifacts, sizes,   \* how many artifacts are complete, and the sum of their sizes
    active,         \* active_artifact
    paths,          \* artifact_paths
    verdict

input == <<stream, torn>>
counters == <<seen, modules, sources, configs, entries, severities>>
complete == <<artifacts, sizes>>
vars == <<stream, torn, line, phase, header, footer, counters, complete, active, paths,
          verdict>>

Severities == {"error", "warning", "info"}
NoArtifact == [kind |-> "none", expected |-> 0, size |-> 0, chunks |-> 0, short |-> FALSE]

Init ==
    /\ line = 0 /\ phase = 0
    /\ header = "" /\ footer = "none"
    /\ seen = [t \in RecordTypes |-> 0]
    /\ modules = 0 /\ sources = 0 /\ configs = 0 /\ entries = 0
    /\ severities = [s \in Severities |-> 0]
    /\ artifacts = 0 /\ sizes = 0 /\ active = NoArtifact /\ paths = {}
    /\ verdict = "none"

-----------------------------------------------------------------------------
(* The rules.                                                              *)

\* _extract_only and _advance.
InOrder(target) == header = "extract" /\ modules = 1 /\ target >= phase

HeaderRules(r) == header = "" /\ line = 0 /\ r.command \in {"list", "extract"}

ModuleRules(r) == 1 >= phase /\ (header = "extract" => modules = 0)

\* validate_relative_path: the paths are normal forms below the root, for which
\* numbers stand; "." is not.
Proper(path) == path \in Nat

BeginRules(r) ==
    /\ InOrder(5)
    /\ active = NoArtifact
    /\ r.id = artifacts
    /\ Proper(r.path)
    /\ r.path \notin paths

ChunkRules(r) ==
    /\ 5 >= phase
    /\ active.kind = "regular"
    /\ r.id = artifacts /\ r.index = active.chunks
    /\ r.size \in 1 .. ChunkBlocks
    /\ ~active.short

EndRules(r) ==
    /\ 5 >= phase
    /\ active # NoArtifact
    /\ r.id = artifacts
    /\ active.kind = "regular" => (r.stable => active.expected = active.size)
    /\ r.size = IF active.kind = "symlink" THEN active.expected ELSE active.size

DiagnosticRules(r) == active = NoArtifact /\ r.severity \in Severities

FooterRules(r) ==
    /\ active = NoArtifact
    /\ r.hashed = line
    /\ r.counts = seen
    /\ r.entries = entries
    /\ r.artifacts = artifacts
    /\ r.bytes = sizes
    /\ r.diagnostics = severities
    /\ r.success <=> severities["error"] = 0

\* validate and _validate_record.
Acceptable(r) ==
    /\ r.sequence = line
    /\ footer = "none"
    /\ header = "" => r.type = "header"
    /\ CASE r.type = "header"         -> HeaderRules(r)
         [] r.type = "module"         -> ModuleRules(r)
         [] r.type = "config_source"  -> InOrder(2) /\ r.ordinal = sources
         [] r.type = "config_entry"   -> InOrder(3) /\ r.ordinal = configs
         [] r.type = "entry"          -> InOrder(4) /\ r.ordinal = entries
         [] r.type = "artifact_begin" -> BeginRules(r)
         [] r.type = "artifact_chunk" -> ChunkRules(r)
         [] r.type = "artifact_end"   -> EndRules(r)
         [] r.type = "diagnostic"     -> DiagnosticRules(r)
         [] r.type = "footer"         -> FooterRules(r)

-----------------------------------------------------------------------------
(* The effect of a record that is accepted.                                *)

Header(r) ==
    /\ r.type = "header"
    /\ header' = r.command
    /\ UNCHANGED <<footer, phase, modules, sources, configs, entries, severities, complete,
                   active, paths>>

Module(r) ==
    /\ r.type = "module"
    /\ phase' = 1 /\ modules' = modules + 1
    /\ UNCHANGED <<footer, header, sources, configs, entries, severities, complete, active, paths>>

ConfigSource(r) ==
    /\ r.type = "config_source"
    /\ phase' = 2 /\ sources' = sources + 1
    /\ UNCHANGED <<footer, header, modules, configs, entries, severities, complete, active, paths>>

ConfigEntry(r) ==
    /\ r.type = "config_entry"
    /\ phase' = 3 /\ configs' = configs + 1
    /\ UNCHANGED <<footer, header, modules, sources, entries, severities, complete, active, paths>>

Entry(r) ==
    /\ r.type = "entry"
    /\ phase' = 4 /\ entries' = entries + 1
    /\ UNCHANGED <<footer, header, modules, sources, configs, severities, complete, active, paths>>

ArtifactBegin(r) ==
    /\ r.type = "artifact_begin"
    /\ phase' = 5
    /\ active' = [NoArtifact EXCEPT !.kind = r.kind, !.expected = r.expected]
    /\ paths' = paths \cup {r.path}
    /\ UNCHANGED <<footer, header, modules, sources, configs, entries, severities, complete>>

ArtifactChunk(r) ==
    /\ r.type = "artifact_chunk"
    /\ phase' = 5
    /\ active' = [active EXCEPT !.size = @ + r.size, !.chunks = @ + 1,
                                !.short = r.size < ChunkBlocks]
    /\ UNCHANGED <<footer, header, modules, sources, configs, entries, severities, complete, paths>>

ArtifactEnd(r) ==
    /\ r.type = "artifact_end"
    /\ phase' = 5
    /\ artifacts' = artifacts + 1 /\ sizes' = sizes + r.size
    /\ active' = NoArtifact
    /\ UNCHANGED <<footer, header, modules, sources, configs, entries, severities, paths>>

Diagnostic(r) ==
    /\ r.type = "diagnostic"
    /\ severities' = [severities EXCEPT ![r.severity] = @ + 1]
    /\ UNCHANGED <<footer, phase, header, modules, sources, configs, entries, complete, active, paths>>

Footer(r) ==
    /\ r.type = "footer"
    /\ footer' = IF r.success THEN "true" ELSE "false"
    /\ UNCHANGED <<phase, header, modules, sources, configs, entries, severities,
                   complete, active, paths>>

-----------------------------------------------------------------------------
Accept ==
    /\ verdict = "none" /\ stream # <<>>
    /\ LET r == Head(stream)
       IN  /\ Acceptable(r)
           /\ Header(r) \/ Module(r) \/ ConfigSource(r) \/ ConfigEntry(r) \/ Entry(r)
              \/ ArtifactBegin(r) \/ ArtifactChunk(r) \/ ArtifactEnd(r)
              \/ Diagnostic(r) \/ Footer(r)
           /\ seen' = IF r.type = "footer" THEN seen ELSE [seen EXCEPT ![r.type] = @ + 1]
    /\ line' = line + 1
    /\ stream' = Tail(stream)
    /\ UNCHANGED <<torn, verdict>>

Refuse ==
    /\ verdict = "none" /\ stream # <<>>
    /\ ~Acceptable(Head(stream))
    /\ verdict' = "invalid"
    /\ UNCHANGED <<input, line, phase, header, footer, counters, complete, active, paths>>

\* The line is longer than --max-record-bytes, which may be as little as
\* 1024 bytes and is 64 MiB unless it is given: any record may be too long.
Oversized ==
    /\ verdict = "none" /\ stream # <<>>
    /\ verdict' = "oversize"
    /\ UNCHANGED <<input, line, phase, header, footer, counters, complete, active, paths>>

\* Mutant: a stream without a footer is complete.
CompleteUnclosed ==
    /\ ~torn
    /\ line > 0
    /\ active = NoArtifact
    /\ (header = "extract" /\ footer = "true") => modules = 1
    /\ header = "list" => entries = 0 /\ artifacts = 0

\* What is looked at when the input ends; the last line must have its LF,
\* unless it is too long, and then it is refused for that.
Complete ==
    /\ ~torn
    /\ footer # "none"
    /\ active = NoArtifact
    /\ (header = "extract" /\ footer = "true") => modules = 1
    /\ header = "list" => entries = 0 /\ artifacts = 0

\* The input has ended.
Conclude ==
    /\ verdict = "none" /\ stream = <<>>
    /\ verdict' = IF Complete THEN "valid" ELSE "invalid"
    /\ UNCHANGED <<input, line, phase, header, footer, counters, complete, active, paths>>
=============================================================================

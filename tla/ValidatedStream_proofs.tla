------------------------- MODULE ValidatedStream_proofs -------------------------
(***************************************************************************)
(* What producer and validator say of each other, for any bounds and a pipe   *)
(* of any length: the properties of ValidatedStream.  The argument runs       *)
(* through the pipe: what the validator will have seen when it has read all   *)
(* of it is what the producer has counted, and it refuses nothing on the way. *)
(***************************************************************************)
EXTENDS ValidatedStream, Extraction_proofs, SequenceTheorems

-----------------------------------------------------------------------------
(* What holds of the producer alone.                                       *)

Groups == [kind : {"none", "directory", "symlink", "regular"}, expected : Nat, size : Nat,
           chunks : Nat, short : BOOLEAN, grown : BOOLEAN, failed : BOOLEAN]

\* The types of the producer's variables.
ProducerTyped ==
    /\ command \in {"list", "extract"}
    /\ sequence \in Nat /\ hashed \in Nat /\ counts \in [RecordTypes -> Nat]
    /\ entries \in Nat /\ artifacts \in Nat /\ bytes \in Nat
    /\ ordinal \in Nat /\ limit \in Nat
    /\ result \in [artifacts : Nat, bytes : Nat, diagnostics : Nat]
    /\ group \in Groups /\ reported \in 0 .. result.diagnostics
    /\ returned \in {"nothing", "true", "false", "exception"}

Flags == torn \in BOOLEAN /\ finished \in BOOLEAN /\ upset \in BOOLEAN /\ atRoot \in BOOLEAN

\* Where the call is, and how its stream has ended.
Placed ==
    /\ pc = "ended" <=> returned # "nothing"
    /\ pc = "header" => sequence = 0
    /\ finished => pc = "ended" /\ ~torn
    /\ torn => pc = "ended"
    /\ hashed = IF finished THEN sequence - 1 ELSE sequence
    /\ command = "list" => pc \in {"header", "root", "modules", "caught", "finish", "ended"}
    /\ command = "extract" => pc # "modules"

\* The totals are taken over at the end of the capture, and only an exception leaves a
\* group open.
Totalled ==
    /\ pc \in Before \cup {"capture"} => artifacts = 0 /\ bytes = 0
    /\ pc \in Before => result.artifacts = 0 /\ result.bytes = 0 /\ reported = 0
    /\ command = "list" => entries = 0 /\ (pc # "ended" => artifacts = 0 /\ bytes = 0)
    /\ group.kind = "none" <=> group = NoGroup
    /\ group.kind = "directory" => group.expected = 0 /\ group.size = 0
    /\ group.grown => group.kind = "regular"
    /\ pc \notin {"capture", "ended"} /\ ~upset => group = NoGroup

\* Without an upset the errors are counted exactly; an upset is an error, or soon is
\* one, unless it is the root.
Exact ==
    /\ ~upset => /\ pc = "caught" => trouble = diagnostics["error"] + 1
                 /\ pc = "finish" \/ finished => trouble = diagnostics["error"]
    /\ group.grown => upset
    /\ group.failed => trouble > 0
    /\ upset => \/ trouble > 0 \/ (pc = "capture" /\ group.grown) \/ returned = "exception"
                \/ atRoot

Producer == IInv /\ ProducerTyped /\ Flags /\ Placed /\ Totalled /\ Exact

-----------------------------------------------------------------------------
(* What holds of the lines in the pipe, whatever has gone wrong.            *)

\* A line has a type; a footer is the last one of a call that has ended, and one that
\* says success is the truth.
Lines ==
    /\ \E S : stream \in Seq(S)
    /\ \A i \in 1 .. Len(stream) :
           /\ stream[i].type \in RecordTypes \cup {"footer"}
           /\ stream[i].type = "footer" =>
                  /\ i = Len(stream) /\ pc = "ended" /\ ~torn
                  /\ stream[i].success \in BOOLEAN
                  /\ stream[i].success => trouble = 0

\* Nothing is lost in the pipe as long as the validator reads; an uncounted line is a
\* footer whose flush has failed.
Numbered ==
    /\ line \in Nat /\ phase \in 0 .. 5
    /\ verdict \in {"none", "valid", "invalid", "oversize"}
    /\ footer \in {"none", "true", "false"}
    /\ line + Len(stream) \in sequence .. sequence + 1 \/ verdict = "invalid"
    /\ line + Len(stream) = sequence + 1 /\ verdict # "invalid" => pc = "ended" /\ ~finished
    /\ line <= sequence + 1
    /\ \A i \in 1 .. Len(stream) :
           stream[i].type = "footer" /\ verdict # "invalid" =>
               finished \/ line + Len(stream) = sequence + 1
    /\ footer # "none" => /\ pc = "ended" /\ ~torn
                          /\ verdict # "invalid" => stream = <<>>
    /\ footer # "none" /\ verdict # "invalid" => finished \/ line = sequence + 1
    /\ footer = "true" => trouble = 0
    /\ verdict = "valid" => footer # "none" /\ stream = <<>>

-----------------------------------------------------------------------------
(* The validator's state as a value, and what it becomes line by line.      *)

Now == [line |-> line, phase |-> phase, header |-> header, footer |-> footer, seen |-> seen,
        modules |-> modulesSeen, sources |-> sourcesSeen, configs |-> configsSeen,
        entries |-> entriesSeen, severities |-> severities,
        artifacts |-> artifactsSeen, sizes |-> bytesSeen, active |-> active, paths |-> paths]

At(v) == INSTANCE StreamValidator WITH
    line <- v.line, phase <- v.phase, header <- v.header, footer <- v.footer, seen <- v.seen,
    modules <- v.modules, sources <- v.sources, configs <- v.configs, entries <- v.entries,
    severities <- v.severities, artifacts <- v.artifacts, sizes <- v.sizes,
    active <- v.active, paths <- v.paths

NoArtifact == Validator!NoArtifact

\* What accepting r makes of v.
After(v, r) ==
    [line |-> v.line + 1,
     phase |-> IF r.type = "module" THEN 1
               ELSE IF r.type = "config_source" THEN 2
               ELSE IF r.type = "config_entry" THEN 3
               ELSE IF r.type = "entry" THEN 4
               ELSE IF r.type \in {"artifact_begin", "artifact_chunk", "artifact_end"} THEN 5
               ELSE v.phase,
     header |-> IF r.type = "header" THEN r.command ELSE v.header,
     footer |-> IF r.type = "footer" THEN (IF r.success THEN "true" ELSE "false") ELSE v.footer,
     seen |-> IF r.type = "footer" THEN v.seen ELSE [v.seen EXCEPT ![r.type] = @ + 1],
     modules |-> IF r.type = "module" THEN v.modules + 1 ELSE v.modules,
     sources |-> IF r.type = "config_source" THEN v.sources + 1 ELSE v.sources,
     configs |-> IF r.type = "config_entry" THEN v.configs + 1 ELSE v.configs,
     entries |-> IF r.type = "entry" THEN v.entries + 1 ELSE v.entries,
     severities |-> IF r.type = "diagnostic" THEN [v.severities EXCEPT ![r.severity] = @ + 1]
                    ELSE v.severities,
     artifacts |-> IF r.type = "artifact_end" THEN v.artifacts + 1 ELSE v.artifacts,
     sizes |-> IF r.type = "artifact_end" THEN v.sizes + r.size ELSE v.sizes,
     active |-> IF r.type = "artifact_begin"
                THEN [NoArtifact EXCEPT !.kind = r.kind, !.expected = r.expected]
                ELSE IF r.type = "artifact_chunk"
                THEN [v.active EXCEPT !.size = @ + r.size, !.chunks = @ + 1,
                                      !.short = r.size < ChunkBlocks]
                ELSE IF r.type = "artifact_end" THEN NoArtifact
                ELSE v.active,
     paths |-> IF r.type = "artifact_begin" THEN v.paths \cup {r.path} ELSE v.paths]

-----------------------------------------------------------------------------
(* What the validator knows once it has read all there is.                  *)

\* How far the order of records has got.
Reached ==
    IF pc \in {"header", "root"} THEN 0
    ELSE IF pc \in {"modules", "unknown", "search", "unmatched"} THEN 1
    ELSE IF pc = "sources" THEN 2
    ELSE IF pc = "configs" THEN 3
    ELSE IF pc \in {"top", "read", "project", "projected", "advance", "discover"} THEN 4
    ELSE 5

\* The next ordinals of the records that are not counted elsewhere.
Ordered(v) ==
    /\ v.modules \in Nat /\ v.sources \in Nat /\ v.configs \in Nat
    /\ v.phase \in 0 .. Reached
    /\ command = "extract" =>
           /\ pc \in {"header", "root"} => v.modules = 0
           /\ pc \in (Before \cup {"capture"}) \ {"header", "root"} => v.modules = 1
           /\ pc = "finish" /\ diagnostics["error"] = 0 => v.modules = 1
    /\ pc \in {"header", "root", "unknown", "search"} => v.sources = 0
    /\ pc \in {"unmatched", "sources"} => v.sources = ordinal
    /\ pc \in {"header", "root", "unknown", "search", "unmatched", "sources"} => v.configs = 0
    /\ pc = "configs" => v.configs = ordinal

\* What the footer is going to say.
Counted(v) ==
    /\ v.line = sequence /\ v.seen = counts
    /\ v.footer = "none"
    /\ v.header = IF pc = "header" THEN "" ELSE command
    /\ v.entries = entries
    /\ v.severities = IF pc = "capture" THEN [diagnostics EXCEPT !["error"] = @ + reported]
                      ELSE diagnostics
    /\ v.artifacts = IF pc = "capture" THEN result.artifacts ELSE artifacts
    /\ v.sizes = IF pc = "capture" THEN result.bytes ELSE bytes

\* The group under way, and the paths there have been.
Grouped(v) ==
    /\ v.active = [kind |-> group.kind, expected |-> group.expected, size |-> group.size,
                   chunks |-> group.chunks, short |-> group.short]
    /\ pc \in Before => v.paths = {}
    /\ pc = "capture" =>
           \A p \in v.paths : p \in Nat /\ (p < ordinal \/ (p = ordinal /\ group # NoGroup))

Fits(v) == Ordered(v) /\ Counted(v) /\ Grouped(v)

\* What the validator asks for at the end.
Closed(v) ==
    /\ v.footer \in {"true", "false"}
    /\ v.active = NoArtifact
    /\ v.header = "extract" /\ v.footer = "true" => v.modules = 1
    /\ v.header = "list" => v.entries = 0 /\ v.artifacts = 0
    /\ v.severities["error"] = trouble

\* Line after line is accepted, and leads from one state to the next.
Reads(run, lines) ==
    \A i \in 1 .. Len(lines) :
        At(run[i - 1])!Acceptable(lines[i]) /\ run[i] = After(run[i - 1], lines[i])

\* The validator accepts what is in the pipe, and is then at one with the producer.
Agreed ==
    \E run, last :
        /\ run[0] = Now
        /\ Reads(run, stream)
        /\ last = run[Len(stream)]
        /\ IF pc = "ended" THEN Closed(last) ELSE Fits(last)

Accepted == (pc # "ended" \/ finished) /\ ~upset => verdict # "invalid" /\ Agreed

PInv == Producer /\ Lines /\ Numbered /\ Accepted

-----------------------------------------------------------------------------
(* The producer's own part.                                                *)

\* What writing a record does, whichever it is.
LEMMA EmitWrites ==
  ASSUME NEW type \in RecordTypes, NEW fields, Emit(type, fields), counts \in [RecordTypes -> Nat]
  PROVE  /\ stream' = Append(stream, Line(type, fields))
         /\ sequence' = sequence + 1 /\ hashed' = hashed + 1
         /\ counts' = [counts EXCEPT ![type] = @ + 1]
         /\ counts' \in [RecordTypes -> Nat]
         /\ ~finished /\ finished' = finished /\ torn' = torn
  BY DEF Emit

USE DEF RecordTypes, Groups, NoGroup, Places, Trying, Before

LEMMA InitProducer == Init => Producer
  <1> SUFFICES ASSUME Init PROVE Producer
    OBVIOUS
  <1>1. IInv
    BY InitInvariant
  <1>2. Flags /\ ~torn /\ ~finished /\ ~upset /\ ~atRoot
    BY Zenon DEF Init, WriterInit, Flags
  <1>3. ProducerTyped
    BY DEF Init, WriterInit, ProducerTyped
  <1>4. Placed
    <2>1. pc = "header" /\ returned = "nothing" /\ hashed = 0 /\ sequence = 0
      BY DEF Init, WriterInit
    <2> QED
      BY <1>2, <2>1 DEF Placed
  <1>5. Totalled
    BY <1>2 DEF Init, WriterInit, Totalled
  <1>6. Exact
    BY <1>2 DEF Init, WriterInit, Exact
  <1> QED
    BY <1>1, <1>2, <1>3, <1>4, <1>5, <1>6 DEF Producer

\* A step that writes one record at most and leaves the capture alone.
LEMMA PutProducer ==
  ASSUME Producer, NEW type \in RecordTypes, NEW fields, NEW next \in Places \ {"ended"},
         pc # "ended", Put(type, fields, next), ordinal' \in Nat, limit' \in Nat,
         artifacts' = artifacts, bytes' = bytes, entries' \in Nat,
         command = "list" => entries' = entries /\ next \in {"root", "modules"},
         command = "extract" => next # "modules",
         pc \in Before, next \in Before \ {"header"}
  PROVE  ProducerTyped' /\ Flags' /\ Placed' /\ Totalled' /\ Exact'
  <1>1. /\ sequence' = sequence + 1 /\ hashed' = hashed + 1
        /\ counts' \in [RecordTypes -> Nat]
        /\ ~finished /\ finished' = finished /\ torn' = torn
    BY EmitWrites DEF Put, Producer, ProducerTyped
  <1>2. Flags'
    BY <1>1, Zenon DEF Put, Producer, Flags, history
  <1>3. ProducerTyped'
    BY <1>1 DEF Put, Producer, ProducerTyped, capture, history
  <1>4. Placed'
    BY <1>1 DEF Put, Producer, ProducerTyped, Placed, capture, history
  <1>5. Totalled'
    BY <1>1 DEF Put, Producer, ProducerTyped, Totalled, capture, history
  <1>6. Exact'
    BY <1>1 DEF Put, Producer, ProducerTyped, Exact, capture, history
  <1> QED
    BY <1>2, <1>4, <1>5, <1>6, <1>3

LEMMA ProceedProducer ==
  ASSUME Producer, NEW next \in Places \ {"header", "ended", "caught"}, pc \in Before, Proceed(next),
         ordinal' \in Nat, limit' \in Nat,
         command = "list" => next \in {"modules", "finish"},
         command = "extract" => next \notin {"modules", "finish"}
  PROVE  ProducerTyped' /\ Flags' /\ Placed' /\ Totalled' /\ Exact'
  <1> USE DEF Proceed, Producer, writer, totals, capture, history
  <1>1. Flags'
    BY DEF Flags
  <1>2. ProducerTyped'
    BY DEF ProducerTyped
  <1>3. Placed'
    BY DEF ProducerTyped, Placed
  <1>4. Totalled'
    BY DEF ProducerTyped, Totalled
  <1>5. Exact'
    BY DEF ProducerTyped, Totalled, Exact, IInv, ErrorsAreCounted
  <1> QED
    BY <1>1, <1>2, <1>3, <1>4, <1>5

\* A diagnostic that is written and counted at once.
LEMMA DiagnoseWrites ==
  ASSUME NEW severity \in {"error", "warning"}, Diagnose(severity),
         counts \in [RecordTypes -> Nat], CountsOK
  PROVE  /\ stream' = Append(stream, Line("diagnostic", [severity |-> severity]))
         /\ sequence' = sequence + 1 /\ hashed' = hashed + 1
         /\ counts' = [counts EXCEPT !["diagnostic"] = @ + 1]
         /\ counts' \in [RecordTypes -> Nat]
         /\ ~finished /\ finished' = finished /\ torn' = torn
         /\ diagnostics' = [diagnostics EXCEPT ![severity] = @ + 1]
         /\ severity = "error" => diagnostics'["error"] = diagnostics["error"] + 1
         /\ severity # "error" => diagnostics'["error"] = diagnostics["error"]
  BY EmitWrites DEF Diagnose, CountsOK

LEMMA WarnProducer ==
  ASSUME Producer, NEW next \in Before \ {"header"}, pc \in Before, Warn(next), UNCHANGED loop,
         command = "extract", next # "modules"
  PROVE  ProducerTyped' /\ Flags' /\ Placed' /\ Totalled' /\ Exact'
  <1> USE DEF Warn, Producer, totals, capture, history, loop
  <1>1. /\ sequence' = sequence + 1 /\ hashed' = hashed + 1
        /\ counts' \in [RecordTypes -> Nat]
        /\ ~finished /\ finished' = finished /\ torn' = torn
        /\ diagnostics'["error"] = diagnostics["error"]
    BY DiagnoseWrites DEF ProducerTyped, IInv
  <1>2. Flags'
    BY <1>1, Zenon DEF Flags
  <1>3. ProducerTyped'
    BY <1>1 DEF ProducerTyped
  <1>4. Placed'
    BY <1>1 DEF ProducerTyped, Placed
  <1>5. Totalled'
    BY <1>1 DEF ProducerTyped, Totalled
  <1>6. Exact'
    BY <1>1 DEF ProducerTyped, Exact
  <1> QED
    BY <1>2, <1>3, <1>4, <1>5, <1>6

LEMMA ComplainProducer ==
  ASSUME Producer, NEW next \in (Before \ {"header"}) \cup {"finish"}, pc \in Before, Complain(next),
         ordinal' = ordinal, limit' \in Nat,
         command = "list" => next = "finish",
         command = "extract" => next # "modules"
  PROVE  ProducerTyped' /\ Flags' /\ Placed' /\ Totalled' /\ Exact'
  <1> USE DEF Complain, Producer, totals, capture
  <1>1. /\ sequence' = sequence + 1 /\ hashed' = hashed + 1
        /\ counts' \in [RecordTypes -> Nat]
        /\ ~finished /\ finished' = finished /\ torn' = torn
        /\ diagnostics'["error"] = diagnostics["error"] + 1
    BY DiagnoseWrites DEF ProducerTyped, IInv
  <1>2. trouble' = trouble + 1 /\ trouble \in Nat
    BY DEF Trouble, IInv, CountsOK
  <1>3. Flags'
    BY <1>1, Zenon DEF Flags
  <1>4. ProducerTyped'
    BY <1>1 DEF ProducerTyped
  <1>5. Placed'
    BY <1>1 DEF ProducerTyped, Placed
  <1>6. Totalled'
    BY <1>1 DEF ProducerTyped, Totalled
  <1>7. Exact'
    BY <1>1, <1>2, SMTT(30) DEF ProducerTyped, Totalled, Exact, IInv, ErrorsAreCounted
  <1> QED
    BY <1>3, <1>4, <1>5, <1>6, <1>7

LEMMA ListProducer ==
  ASSUME Producer, List PROVE ProducerTyped' /\ Flags' /\ Placed' /\ Totalled' /\ Exact'
  <1> USE DEF Producer, ProducerTyped, Placed, Loop, Round
  <1>1. CASE Discovered
    BY <1>1, ProceedProducer DEF Discovered
  <1>2. CASE Listed
    <2>1. /\ pc = "modules" /\ Put("module", <<>>, pc) /\ command = "list"
          /\ ordinal' = ordinal + 1 /\ limit' = limit
          /\ UNCHANGED <<entries, artifacts, bytes>>
      BY <1>2 DEF Listed, totals
    <2>2. ordinal' \in Nat /\ limit' \in Nat /\ entries' \in Nat
      BY <2>1
    <2>3. "module" \in RecordTypes
      OBVIOUS
    <2> HIDE DEF ProducerTyped, Placed, Producer
    <2> QED
      BY <2>1, <2>2, <2>3, PutProducer
  <1>3. CASE AllListed
    BY <1>3, ProceedProducer DEF AllListed, loop
  <1> QED
    BY <1>1, <1>2, <1>3 DEF List

LEMMA ConfigureProducer ==
  ASSUME Producer, Configure
  PROVE  ProducerTyped' /\ Flags' /\ Placed' /\ Totalled' /\ Exact'
  <1> USE DEF Producer, ProducerTyped, Placed, Loop, Round, loop, totals
  <1>1. CASE ModuleNotFound
    BY <1>1, ComplainProducer DEF ModuleNotFound
  <1>2. CASE Module
    BY <1>2, PutProducer DEF Module
  <1>3. CASE UnknownType
    BY <1>3, WarnProducer DEF UnknownType
  <1>4. CASE ConfigurationRefused
    BY <1>4, ComplainProducer DEF ConfigurationRefused
  <1>5. CASE ConfigurationFound
    <2>1. PICK n \in 0 .. MaxSources :
              Proceed(IF n = 0 THEN "unmatched" ELSE "sources") /\ Loop(n)
      BY <1>5 DEF ConfigurationFound
    <2> QED
      BY <1>5, <2>1, ProceedProducer DEF ConfigurationFound
  <1>6. CASE Unmatched
    BY <1>6, WarnProducer DEF Unmatched
  <1>7. CASE Source
    BY <1>7, PutProducer, ComplainProducer DEF Source
  <1>8. CASE SourcesDone
    BY <1>8, ProceedProducer DEF SourcesDone
  <1>9. CASE ConfigEntry
    BY <1>9, PutProducer DEF ConfigEntry
  <1>10. CASE ConfigDone
    BY <1>10, ProceedProducer DEF ConfigDone
  <1> QED
    BY <1>1, <1>2, <1>3, <1>4, <1>5, <1>6, <1>7, <1>8, <1>9, <1>10 DEF Configure

LEMMA TraverseProducer ==
  ASSUME Producer, Traverse
  PROVE  ProducerTyped' /\ Flags' /\ Placed' /\ Totalled' /\ Exact'
  <1> USE DEF Producer, ProducerTyped, Placed, loop
  <1>1. CASE Empty
    BY <1>1, WarnProducer DEF Empty
  <1>2. CASE Positioned
    BY <1>2, ProceedProducer DEF Positioned
  <1>3. CASE Unreadable
    BY <1>3, ComplainProducer DEF Unreadable
  <1>4. CASE TooLong
    BY <1>4, ComplainProducer DEF TooLong
  <1>5. CASE Remark
    BY <1>5, WarnProducer, ComplainProducer DEF Remark
  <1>6. CASE Entry
    BY <1>6, PutProducer DEF Entry
  <1>7. CASE Increment
    BY <1>7, ProceedProducer, ComplainProducer DEF Increment
  <1> QED
    BY <1>1, <1>2, <1>3, <1>4, <1>5, <1>6, <1>7 DEF Traverse

\* A step of the capture that writes one record at most and stays
\* within the capture.
LEMMA CaptureStep ==
  ASSUME Producer, pc = "capture", pc' = pc,
         UNCHANGED <<command, diagnostics, totals, returned, torn, finished>>,
         \/ sequence' = sequence /\ hashed' = hashed
         \/ sequence' = sequence + 1 /\ hashed' = hashed + 1,
         counts' \in [RecordTypes -> Nat],
         ordinal' \in Nat, limit' = limit,
         trouble' \in Nat, trouble' >= trouble,
         result' \in [artifacts : Nat, bytes : Nat, diagnostics : Nat],
         reported' \in 0 .. result'.diagnostics,
         group' \in Groups, upset' \in BOOLEAN, atRoot' \in BOOLEAN,
         group'.grown => upset', upset' => trouble' > 0 \/ group'.grown \/ atRoot',
         group'.failed => group.failed \/ trouble' > trouble,
         group'.kind = "none" <=> group' = NoGroup,
         group'.kind = "directory" => group'.expected = 0 /\ group'.size = 0,
         group'.grown => group'.kind = "regular"
  PROVE  ProducerTyped' /\ Flags' /\ Placed' /\ Totalled' /\ Exact'
  <1> USE DEF Producer, totals
  <1>1. Flags'
    <2>1. torn' = torn /\ finished' = finished
      OBVIOUS
    <2> QED
      BY <2>1, Zenon DEF Flags
  <1>2. ProducerTyped'
    BY DEF ProducerTyped
  <1>3. Placed'
    <2>1. ~finished /\ ~finished' /\ ~torn'
      BY DEF Placed
    <2> QED
      BY <2>1 DEF ProducerTyped, Placed
  <1>4. Totalled'
    BY DEF ProducerTyped, Totalled
  <1>5. Exact'
    <2>1. ~finished /\ ~finished' /\ pc' = "capture"
      BY DEF Placed
    <2>2. trouble \in Nat /\ (trouble > 0 => trouble' > 0)
      BY DEF IInv, CountsOK
    <2> QED
      BY <2>1, <2>2 DEF Exact
  <1> QED
    BY <1>1, <1>2, <1>3, <1>4, <1>5

LEMMA CaptureProducer ==
  ASSUME Producer, Capture
  PROVE  ProducerTyped' /\ Flags' /\ Placed' /\ Totalled' /\ Exact'
  <1>0. /\ trouble \in Nat /\ result.diagnostics \in Nat /\ reported \in 0 .. result.diagnostics
        /\ counts \in [RecordTypes -> Nat] /\ sequence \in Nat /\ hashed \in Nat
        /\ ordinal \in Nat /\ limit \in Nat /\ group \in Groups
        /\ result \in [artifacts : Nat, bytes : Nat, diagnostics : Nat]
        /\ upset => trouble > 0 \/ group.grown \/ atRoot
    BY DEF Producer, ProducerTyped, IInv, CountsOK, Exact, ReturnsOnce, Capture, Undiscovered,
           Candidates, SkipCandidate, BeginArtifact, BeginRoot, ReadChunk, ReadError, EndWhole, EndRegular,
           Report, Captured
  <1>1. CASE Undiscovered
    BY <1>1, ComplainProducer DEF Undiscovered, Producer, ProducerTyped, Placed, loop
  <1>2. CASE Candidates
    BY <1>2, ProceedProducer DEF Candidates, Loop, Producer, ProducerTyped, Placed
  <1>3. CASE SkipCandidate
    BY <1>0, <1>3, CaptureStep
    DEF SkipCandidate, Collect, Trouble, Round, Producer, ProducerTyped, Flags, Totalled, Exact,
        totals, writer
  <1>4. CASE BeginArtifact
    <2>1. PICK kind \in {"directory", "symlink", "regular"} :
              \E expected \in Announced(kind) :
                  /\ group' = [NoGroup EXCEPT !.kind = kind, !.expected = expected]
                  /\ Emit("artifact_begin", [id |-> result.artifacts, path |-> ordinal,
                                             kind |-> kind, expected |-> expected])
      BY <1>4 DEF BeginArtifact
    <2>2. PICK expected \in Announced(kind) :
              /\ group' = [NoGroup EXCEPT !.kind = kind, !.expected = expected]
              /\ Emit("artifact_begin", [id |-> result.artifacts, path |-> ordinal,
                                         kind |-> kind, expected |-> expected])
      BY <2>1
    <2>3. expected \in Nat /\ (kind = "directory" => expected = 0)
      BY <2>2 DEF Announced
    <2>4. /\ sequence' = sequence + 1 /\ hashed' = hashed + 1
          /\ counts' \in [RecordTypes -> Nat]
          /\ finished' = finished /\ torn' = torn
      BY <1>0, <2>2, EmitWrites
    <2>5. group' = [kind |-> kind, expected |-> expected, size |-> 0, chunks |-> 0,
                    short |-> FALSE, grown |-> FALSE, failed |-> FALSE]
      BY <2>2
    <2>6. group' \in Groups
      BY <2>3, <2>5
    <2>7. /\ pc = "capture" /\ pc' = pc /\ command' = command
          /\ UNCHANGED <<diagnostics, totals, ordinal, limit, result, reported, returned,
                         trouble, upset, atRoot>>
      BY <1>4 DEF BeginArtifact, history, loop
    <2>8. /\ ~group'.grown /\ ~group'.failed /\ group'.kind # "none" /\ group' # NoGroup
          /\ group'.kind = "directory" => group'.expected = 0 /\ group'.size = 0
      BY <2>3, <2>5
    <2>9. /\ upset \in BOOLEAN /\ atRoot \in BOOLEAN /\ ~group.grown
          /\ upset => trouble > 0 \/ group.grown \/ atRoot
      BY <1>0, <1>4 DEF BeginArtifact, Producer, Flags, Exact, Totalled
    <2> HIDE DEF totals
    <2> QED
      BY <1>0, <2>4, <2>6, <2>7, <2>8, <2>9, CaptureStep DEF Producer
  <1>5. CASE ReadChunk
    <2>1. PICK count \in 1 .. ChunkBlocks :
              /\ group' = [group EXCEPT !.size = @ + count, !.chunks = @ + 1,
                                        !.short = count < ChunkBlocks,
                                        !.grown = @ \/ group.short]
              /\ Emit("artifact_chunk", [id |-> result.artifacts, index |-> group.chunks,
                                        size |-> count])
      BY <1>5 DEF ReadChunk
    <2>2. /\ sequence' = sequence + 1 /\ hashed' = hashed + 1
          /\ counts' \in [RecordTypes -> Nat]
          /\ finished' = finished /\ torn' = torn
      BY <1>0, <2>1, EmitWrites
    <2>3. group' = [kind |-> group.kind, expected |-> group.expected,
                    size |-> group.size + count, chunks |-> group.chunks + 1,
                    short |-> count < ChunkBlocks, grown |-> (group.grown \/ group.short),
                    failed |-> group.failed]
      BY <1>0, <2>1
    <2>4. group' \in Groups
      BY <1>0, <2>3
    <2>5. upset' = (upset \/ group.short) /\ upset' \in BOOLEAN
      BY <1>5, Zenon DEF ReadChunk
    <2> QED
      BY <1>0, <1>5, <2>2, <2>3, <2>4, <2>5, CaptureStep
      DEF ReadChunk, Producer, Flags, Totalled, Exact, totals, loop
  <1>6. CASE ReadError
    <2>1. group' = [kind |-> group.kind, expected |-> group.expected,
                    size |-> group.size, chunks |-> group.chunks,
                    short |-> group.short, grown |-> group.grown, failed |-> TRUE]
      BY <1>0, <1>6 DEF ReadError
    <2>2. group' \in Groups
      BY <1>0, <2>1
    <2> QED
      BY <1>0, <1>6, <2>1, <2>2, CaptureStep, SMTT(30)
      DEF ReadError, Collect, Trouble, Producer, ProducerTyped, Flags, Totalled, Exact, totals,
          loop, writer
  <1>7. CASE EndWhole
    <2>1. Close(<<>>, group.expected) /\ group' = NoGroup
      BY <1>7 DEF EndWhole, Close
    <2>2. /\ sequence' = sequence + 1 /\ hashed' = hashed + 1
          /\ counts' \in [RecordTypes -> Nat]
          /\ finished' = finished /\ torn' = torn
      BY <1>0, <2>1, EmitWrites DEF Close
    <2>3. ~group.grown
      BY <1>7 DEF EndWhole, Producer, Totalled
    <2>4. /\ result' \in [artifacts : Nat, bytes : Nat, diagnostics : Nat]
          /\ result'.diagnostics = result.diagnostics
      <3>1. result' = [artifacts |-> result.artifacts + 1,
                       bytes |-> result.bytes + group.expected,
                       diagnostics |-> result.diagnostics]
        BY <1>7 DEF EndWhole
      <3>2. /\ result.artifacts \in Nat /\ result.bytes \in Nat /\ result.diagnostics \in Nat
            /\ group.expected \in Nat
        BY <1>0
      <3> QED
        BY <3>1, <3>2
    <2> QED
      BY <1>0, <1>7, <2>1, <2>2, <2>3, <2>4, CaptureStep
      DEF EndWhole, Close, Round, Producer, Flags, Totalled, Exact, totals
  <1>8. CASE EndRegular
    <2>1. PICK unchanged \in BOOLEAN :
             /\ unchanged => group.failed \/ (group.size = group.expected /\ ~group.grown)
             /\ Close([stable |-> unchanged /\ ~group.failed], group.size)
             /\ result' = [artifacts |-> result.artifacts + 1,
                           bytes |-> result.bytes + group.size,
                           diagnostics |-> result.diagnostics
                                               + (IF unchanged THEN 0 ELSE 1)]
             /\ Trouble(IF unchanged THEN 0 ELSE 1)
      BY <1>8 DEF EndRegular
    <2>2. /\ sequence' = sequence + 1 /\ hashed' = hashed + 1
          /\ counts' \in [RecordTypes -> Nat]
          /\ finished' = finished /\ torn' = torn
      BY <1>0, <2>1, EmitWrites DEF Close
    <2> QED
      BY <1>0, <1>8, <2>1, <2>2, CaptureStep
      DEF EndRegular, Close, Round, Trouble, Producer, Flags, Totalled, Exact, totals
  <1>9. CASE Report
    <2>1. /\ sequence' = sequence + 1 /\ hashed' = hashed + 1
          /\ counts' \in [RecordTypes -> Nat]
          /\ finished' = finished /\ torn' = torn
      BY <1>0, <1>9, EmitWrites DEF Report
    <2>2. pc = "capture" /\ pc' = pc /\ UNCHANGED <<command, diagnostics, totals, returned, torn, finished>>
      BY <1>9, <2>1 DEF Report
    <2>3. ordinal' \in Nat /\ limit' = limit /\ trouble' \in Nat /\ trouble' >= trouble
      BY <1>0, <1>9, <2>1 DEF Report, loop, history
    <2>4. /\ result' \in [artifacts : Nat, bytes : Nat, diagnostics : Nat]
          /\ reported' \in 0 .. result'.diagnostics
      BY <1>0, <1>9, <2>1 DEF Report, loop, history
    <2>5. group' \in Groups /\ upset' \in BOOLEAN /\ atRoot' \in BOOLEAN
      BY <1>0, <1>9 DEF Report, history, Producer, Flags
    <2>6. /\ group'.grown => upset'
          /\ upset' => trouble' > 0 \/ group'.grown \/ atRoot'
          /\ group'.failed => group.failed \/ trouble' > trouble
          /\ group'.kind = "none" <=> group' = NoGroup
          /\ group'.kind = "directory" => group'.expected = 0 /\ group'.size = 0
          /\ group'.grown => group'.kind = "regular"
      BY <1>0, <1>9 DEF Report, history, Producer, Exact, Totalled
    <2> QED
      BY <2>1, <2>2, <2>3, <2>4, <2>5, <2>6, CaptureStep
  <1>10. CASE Captured
    <2> USE <1>10 DEF Captured, Producer, writer, loop, capture, history, Placed
    <2>1. ProducerTyped'
      BY <1>0 DEF ProducerTyped
    <2>2. Flags'
      BY Zenon DEF Flags
    <2>3. Placed'
      BY DEF ProducerTyped, Placed
    <2>4. Totalled'
      BY DEF ProducerTyped, Totalled
    <2>5. diagnostics'["error"] = diagnostics["error"] + result.diagnostics
      BY DEF IInv, CountsOK
    <2>6. Exact'
      BY <2>5 DEF ProducerTyped, Totalled, Exact, IInv, ErrorsAreCounted
    <2> QED
      BY <2>1, <2>2, <2>3, <2>4, <2>6
  <1>11. CASE BeginRoot
    <2>1. /\ group' = [kind |-> "directory", expected |-> 0, size |-> 0, chunks |-> 0,
                       short |-> FALSE, grown |-> FALSE, failed |-> FALSE]
          /\ Emit("artifact_begin", [id |-> result.artifacts, path |-> RootPath,
                                     kind |-> "directory", expected |-> 0])
          /\ pc = "capture" /\ pc' = pc /\ command' = command
          /\ UNCHANGED <<diagnostics, totals, ordinal, limit, result, reported, returned,
                         trouble>>
          /\ upset' = TRUE /\ atRoot' = TRUE
      BY <1>11 DEF BeginRoot, loop
    <2>2. /\ sequence' = sequence + 1 /\ hashed' = hashed + 1
          /\ counts' \in [RecordTypes -> Nat]
          /\ finished' = finished /\ torn' = torn
      BY <1>0, <2>1, EmitWrites
    <2>3. group' \in Groups
      BY <2>1
    <2>4. /\ ~group'.grown /\ ~group'.failed /\ group'.kind = "directory" /\ group' # NoGroup
          /\ group'.expected = 0 /\ group'.size = 0
      BY <2>1
    <2> HIDE DEF totals
    <2> QED
      BY <1>0, <2>1, <2>2, <2>3, <2>4, CaptureStep DEF Producer
  <1> QED
    BY <1>1, <1>2, <1>3, <1>4, <1>5, <1>6, <1>7, <1>8, <1>9, <1>10, <1>11 DEF Capture

LEMMA EndProducer ==
  ASSUME Producer, Throw \/ Catch \/ FinishStream \/ SinkFails
  PROVE  ProducerTyped' /\ Flags' /\ Placed' /\ Totalled' /\ Exact'
  <1>0. /\ trouble \in Nat /\ counts \in [RecordTypes -> Nat] /\ sequence \in Nat
        /\ hashed \in Nat
    BY DEF Producer, ProducerTyped, IInv, CountsOK
  <1>1. CASE Throw
    <2> USE <1>1 DEF Throw, Producer, writer, loop, capture, totals
    <2>1. trouble' = trouble + 1
      BY DEF Trouble
    <2>2. Flags'
      BY Zenon DEF Flags
    <2>3. ProducerTyped'
      BY DEF ProducerTyped
    <2>4. Placed'
      BY DEF ProducerTyped, Placed
    <2>5. Totalled'
      BY DEF ProducerTyped, Totalled
    <2>6. ~upset' => ~upset /\ pc # "capture"
      OBVIOUS
    <2>7. pc # "capture" => pc \in Before
      OBVIOUS
    <2>8. ~finished /\ (upset => upset')
      BY DEF Placed
    <2>9. Exact'
      BY <1>0, <2>1, <2>6, <2>7, <2>8 DEF Exact, IInv, ErrorsAreCounted
    <2> QED
      BY <2>2, <2>3, <2>4, <2>5, <2>9
  <1>2. CASE Catch
    <2> USE <1>2 DEF Catch, Producer, loop, capture, totals, history
    <2>1. /\ sequence' = sequence + 1 /\ hashed' = hashed + 1
          /\ counts' \in [RecordTypes -> Nat]
          /\ ~finished /\ finished' = finished /\ torn' = torn
          /\ diagnostics'["error"] = diagnostics["error"] + 1
      BY DiagnoseWrites DEF ProducerTyped, IInv
    <2>2. Flags'
      BY <2>1, Zenon DEF Flags
    <2>3. ProducerTyped'
      BY <2>1 DEF ProducerTyped
    <2>4. Placed'
      BY <2>1 DEF ProducerTyped, Placed
    <2>5. Totalled'
      BY DEF ProducerTyped, Totalled
    <2>6. Exact'
      BY <1>0, <2>1 DEF Totalled, Exact, Placed
    <2> QED
      BY <2>2, <2>3, <2>4, <2>5, <2>6
  <1>3. CASE FinishStream
    <2> USE <1>3 DEF FinishStream, Finish, Producer, loop, capture, totals, history
    <2>1. Flags'
      BY Zenon DEF Flags
    <2>2. ProducerTyped'
      BY DEF ProducerTyped
    <2>3. Placed'
      BY DEF ProducerTyped, Placed
    <2>4. Totalled'
      BY DEF ProducerTyped, Totalled
    <2>5. Exact'
      BY <1>0 DEF Totalled, Exact, Placed
    <2> QED
      BY <2>1, <2>2, <2>3, <2>4, <2>5
  <1>4. CASE SinkFails
    <2> USE <1>4 DEF SinkFails, Producer, loop, capture, totals, history
    <2>1. /\ torn' \in BOOLEAN /\ UNCHANGED <<sequence, counts, hashed, finished>>
      BY Zenon DEF FinishFails, EmitFails
    <2>2. Flags'
      BY <2>1, Zenon DEF Flags
    <2>3. ProducerTyped'
      BY <2>1 DEF ProducerTyped
    <2>4. Placed'
      BY <2>1 DEF ProducerTyped, Placed
    <2>5. Totalled'
      BY <2>1 DEF ProducerTyped, Totalled
    <2>6. Exact'
      BY <1>0, <2>1 DEF Totalled, Exact, Placed
    <2> QED
      BY <2>2, <2>3, <2>4, <2>5, <2>6
  <1> QED
    BY <1>1, <1>2, <1>3, <1>4

LEMMA HeaderProducer ==
  ASSUME Producer, Header \/ BadRoot
  PROVE  ProducerTyped' /\ Flags' /\ Placed' /\ Totalled' /\ Exact'
  <1> USE DEF Producer, ProducerTyped, Placed, loop, totals
  <1>1. CASE Header
    BY <1>1, PutProducer DEF Header
  <1>2. CASE BadRoot
    BY <1>2, ComplainProducer DEF BadRoot
  <1> QED
    BY <1>1, <1>2

LEMMA NextProducer == ASSUME Producer, Next PROVE Producer'
  <1>1. IInv'
    BY StepInvariant DEF Producer
  <1>2. ProducerTyped' /\ Flags' /\ Placed' /\ Totalled' /\ Exact'
    BY HeaderProducer, ListProducer, ConfigureProducer, TraverseProducer, CaptureProducer,
       EndProducer DEF Next
  <1> QED
    BY <1>1, <1>2 DEF Producer

\* The validator touches nothing of the producer's but the stream.
LEMMA IdleProducer == ASSUME Producer, UNCHANGED <<torn, producing>> PROVE Producer'
  <1>1. UNCHANGED <<torn, sequence, counts, hashed, finished, command, pc, diagnostics>>
        /\ UNCHANGED <<entries, artifacts, bytes, ordinal, limit, group, result, reported>>
        /\ UNCHANGED <<returned, trouble, upset, atRoot>>
    BY DEF producing, totals, loop, capture, history
  <1>2. IInv'
    BY <1>1 DEF Producer, IInv, CountsOK, ErrorsAreCounted, ReturnsOnce, ReturnIsTrue,
                FailureStillCloses
  <1>3. ProducerTyped' /\ Flags' /\ Placed' /\ Totalled' /\ Exact'
    BY <1>1 DEF Producer, ProducerTyped, Flags, Placed, Totalled, Exact
  <1> QED
    BY <1>2, <1>3 DEF Producer

-----------------------------------------------------------------------------
(* The pipe.                                                               *)

\* What a step of the producer may do to the stream: nothing, a record, the footer, or
\* what is left of either when the sink fails.
Silent == UNCHANGED writer /\ pc' # "ended"
Record == pc' # "ended" /\ \E type \in RecordTypes : \E fields : Emit(type, fields)
Last == FinishStream \/ SinkFails

LEMMA PutShape ==
  ASSUME NEW type \in RecordTypes, NEW fields, NEW next, next # "ended", Put(type, fields, next)
  PROVE  Record
  BY DEF Put, Record

LEMMA DiagnosticShape ==
  ASSUME NEW next, next # "ended", Warn(next) \/ Complain(next)
  PROVE  Record
  BY DEF Warn, Complain, Diagnose, Record

LEMMA ProceedShape == ASSUME NEW next, next # "ended", Proceed(next) PROVE Silent
  BY DEF Proceed, Silent

LEMMA NextShape ==
  ASSUME Producer, Next
  PROVE  /\ pc # "ended" /\ ~finished /\ ~torn
         /\ Silent \/ Record \/ Last
  <1>1. pc # "ended"
    BY DEF Next, Header, BadRoot, List, Discovered, Listed, AllListed, Configure,
           ModuleNotFound, Module, UnknownType, ConfigurationRefused, ConfigurationFound,
           Unmatched, Source, SourcesDone, ConfigEntry, ConfigDone, Traverse, Empty,
           Positioned, Unreadable, TooLong, Remark, Entry, Increment, Capture, Undiscovered,
           Candidates, SkipCandidate, BeginArtifact, BeginRoot, ReadChunk, ReadError, EndWhole,
           EndRegular, Report, Captured, Throw, Catch, FinishStream, SinkFails
  <1>2. ~finished /\ ~torn
    BY <1>1 DEF Producer, Placed
  <1>3. SUFFICES Silent \/ Record \/ Last
    BY <1>1, <1>2
  <1>4. CASE Header \/ BadRoot
    BY PutShape, DiagnosticShape, <1>4 DEF Header, BadRoot
  <1>5. CASE List
    BY <1>1, PutShape, ProceedShape, <1>5 DEF List, Discovered, Listed, AllListed
  <1>6. CASE Configure
    <2>1. CASE ModuleNotFound \/ UnknownType \/ ConfigurationRefused \/ Unmatched
      BY <1>1, DiagnosticShape, <2>1 DEF ModuleNotFound, UnknownType, ConfigurationRefused, Unmatched
    <2>2. CASE Module \/ ConfigEntry
      BY <1>1, PutShape, <2>2 DEF Module, ConfigEntry
    <2>3. CASE ConfigurationFound \/ SourcesDone \/ ConfigDone
      BY ProceedShape, <2>3 DEF ConfigurationFound, SourcesDone, ConfigDone
    <2>4. CASE Source
      BY <1>1, PutShape, DiagnosticShape, <2>4 DEF Source
    <2> QED
      BY <1>6, <2>1, <2>2, <2>3, <2>4 DEF Configure
  <1>7. CASE Traverse
    <2>1. CASE Empty \/ Unreadable \/ TooLong \/ Remark
      BY DiagnosticShape, <2>1 DEF Empty, Unreadable, TooLong, Remark
    <2>2. CASE Entry
      BY PutShape, <2>2 DEF Entry
    <2>3. CASE Positioned \/ Increment
      BY DiagnosticShape, ProceedShape, <2>3 DEF Positioned, Increment
    <2> QED
      BY <1>7, <2>1, <2>2, <2>3 DEF Traverse
  <1>8. CASE Capture
    <2>1. CASE Undiscovered \/ Candidates
      BY <1>1, DiagnosticShape, ProceedShape, <2>1 DEF Undiscovered, Candidates
    <2>2. CASE SkipCandidate \/ ReadError \/ Captured
      BY <1>1, <2>2 DEF SkipCandidate, ReadError, Captured, Silent
    <2>3. CASE BeginArtifact \/ BeginRoot \/ ReadChunk
      <3>1. \E type \in RecordTypes : \E fields : Emit(type, fields)
        BY <2>3 DEF BeginArtifact, BeginRoot, ReadChunk
      <3> QED
        BY <1>1, <2>3, <3>1 DEF BeginArtifact, BeginRoot, ReadChunk, Record
    <2>4. CASE EndWhole \/ EndRegular \/ Report
      <3>1. \E type \in RecordTypes : \E fields : Emit(type, fields)
        BY <2>4 DEF EndWhole, EndRegular, Close, Report
      <3> QED
        BY <1>1, <2>4, <3>1 DEF EndWhole, EndRegular, Close, Report, Record
    <2> QED
      BY <1>8, <2>1, <2>2, <2>3, <2>4 DEF Capture
  <1>9. CASE Throw \/ Catch
    BY <1>9 DEF Throw, Catch, Diagnose, Silent, Record
  <1> QED
    BY <1>1, <1>2, <1>4, <1>5, <1>6, <1>7, <1>8, <1>9 DEF Next, Last

\* Joining keeps the fields of both, those of the left first.
LEMMA LineFields ==
  ASSUME NEW type, NEW fields
  PROVE  /\ Line(type, fields).type = type
         /\ Line(type, fields).sequence = sequence
         /\ \A name \in DOMAIN fields \ {"type", "sequence"} :
                Line(type, fields)[name] = fields[name]
  BY Zenon DEF Line, Joined

LEMMA FooterFields ==
  ASSUME NEW success, NEW fields
  PROVE  /\ Footer(success, fields).type = "footer"
         /\ Footer(success, fields).sequence = sequence
         /\ Footer(success, fields).success = success
         /\ Footer(success, fields).counts = counts
         /\ Footer(success, fields).hashed = hashed
         /\ \A name \in DOMAIN fields \ {"type", "sequence", "success", "counts", "hashed"} :
                Footer(success, fields)[name] = fields[name]
  BY Zenon DEF Footer, Line, Joined

\* The lines of a stream one longer.
LEMMA AppendLines ==
  ASSUME NEW r, \E S : stream \in Seq(S), stream' = Append(stream, r)
  PROVE  /\ \E S : stream' \in Seq(S)
         /\ Len(stream) \in Nat
         /\ Len(stream') = Len(stream) + 1
         /\ \A i \in 1 .. Len(stream) : stream'[i] = stream[i]
         /\ stream'[Len(stream) + 1] = r
  <1>1. PICK S : stream \in Seq(S)
    OBVIOUS
  <1>2. stream \in Seq(S \cup {r})
    BY <1>1
  <1>3. stream' \in Seq(S \cup {r})
    BY <1>2
  <1> QED
    BY <1>2, <1>3

\* The lines of a stream without its first one.
LEMMA TailLines ==
  ASSUME \E S : stream \in Seq(S), stream # <<>>, stream' = Tail(stream)
  PROVE  /\ \E S : stream' \in Seq(S)
         /\ Len(stream) \in Nat \ {0}
         /\ Len(stream') = Len(stream) - 1
         /\ \A i \in 1 .. Len(stream) - 1 : stream'[i] = stream[i + 1]
         /\ Head(stream) = stream[1]
  <1>1. PICK S : stream \in Seq(S)
    OBVIOUS
  <1>2. stream' \in Seq(S)
    BY <1>1
  <1> QED
    BY <1>1, <1>2

\* The producer's step keeps the pipe in order.
LEMMA ProducePipe ==
  ASSUME Producer, Lines, Numbered, Next, UNCHANGED validating
  PROVE  Lines' /\ Numbered'
  <1>1. /\ pc # "ended" /\ ~finished /\ ~torn
        /\ Silent \/ Record \/ Last
    BY NextShape
  <1>2. UNCHANGED <<line, phase, footer, verdict>>
    BY DEF validating
  <1>3. footer = "none" /\ verdict # "valid" /\ line \in Nat /\ sequence \in Nat
    BY <1>1 DEF Numbered, Producer, ProducerTyped
  <1>4. \A i \in 1 .. Len(stream) : stream[i].type \in RecordTypes
    BY <1>1 DEF Lines
  <1>5. Len(stream) \in Nat
    BY DEF Lines
  <1>6. CASE Silent
    <2>1. UNCHANGED <<stream, sequence, finished>> /\ pc' # "ended"
      BY <1>6 DEF Silent, writer
    <2>2. Lines'
      BY <1>4, <2>1 DEF Lines
    <2>3. Numbered'
      BY <1>1, <1>2, <1>3, <1>4, <1>5, <2>1 DEF Numbered
    <2> QED
      BY <2>2, <2>3
  <1>7. CASE Record
    <2>1. PICK type \in RecordTypes : \E fields : Emit(type, fields)
      BY <1>7 DEF Record
    <2>2. PICK fields : Emit(type, fields)
      BY <2>1
    <2>3. /\ stream' = Append(stream, Line(type, fields))
          /\ sequence' = sequence + 1 /\ finished' = finished /\ pc' # "ended"
      BY <1>7, <2>2 DEF Emit, Record
    <2>4. /\ \E S : stream' \in Seq(S)
          /\ Len(stream') = Len(stream) + 1
          /\ \A i \in 1 .. Len(stream) : stream'[i] = stream[i]
          /\ stream'[Len(stream) + 1] = Line(type, fields)
      BY <2>3, AppendLines DEF Lines
    <2>5. stream'[Len(stream) + 1].type \in RecordTypes
      BY <2>1, <2>4, LineFields
    <2>6. \A i \in 1 .. Len(stream') : stream'[i].type \in RecordTypes
      BY <1>4, <1>5, <2>4, <2>5
    <2>7. Lines'
      BY <2>4, <2>6 DEF Lines
    <2>8. Numbered'
      <3>1. /\ phase \in 0 .. 5 /\ verdict \in {"none", "invalid", "oversize"}
            /\ verdict # "invalid" => line + Len(stream) = sequence
            /\ line <= sequence + 1
        BY <1>1, <1>3, <1>5 DEF Numbered
      <3>2. /\ verdict # "invalid" => line + Len(stream') = sequence'
            /\ line <= sequence' + 1 /\ sequence' \in Nat
        BY <1>3, <1>5, <2>3, <2>4, <3>1
      <3> QED
        BY <1>2, <1>3, <2>3, <2>6, <3>1, <3>2 DEF Numbered
    <2> QED
      BY <2>7, <2>8
  <1>8. CASE Last
    <2>1. pc' = "ended" /\ trouble' = trouble
      BY <1>8 DEF Last, FinishStream, SinkFails, history
    <2>2. CASE FinishStream \/ (SinkFails /\ pc = "finish")
      <3>1. \/ /\ stream' = Append(stream, Footer(Success, Totals)) /\ ~torn'
               /\ \/ finished' /\ sequence' = sequence + 1
                  \/ finished' = finished /\ sequence' = sequence
            \/ UNCHANGED <<stream, sequence, finished>>
        BY <1>1, <2>2 DEF FinishStream, SinkFails, Finish, FinishFails
      <3>2. CASE UNCHANGED <<stream, sequence, finished>>
        BY <1>1, <1>2, <1>3, <1>4, <1>5, <2>1, <3>2 DEF Lines, Numbered
      <3>3. CASE /\ stream' = Append(stream, Footer(Success, Totals)) /\ ~torn'
                 /\ \/ finished' /\ sequence' = sequence + 1
                    \/ finished' = finished /\ sequence' = sequence
        <4>1. /\ \E S : stream' \in Seq(S)
              /\ Len(stream') = Len(stream) + 1
              /\ \A i \in 1 .. Len(stream) : stream'[i] = stream[i]
              /\ stream'[Len(stream) + 1] = Footer(Success, Totals)
          BY <3>3, AppendLines DEF Lines
        <4>2. /\ stream'[Len(stream) + 1].type = "footer"
              /\ stream'[Len(stream) + 1].success = Success
          BY <4>1, FooterFields
        <4>3. Success \in BOOLEAN
          BY Zenon DEF Success
        <4>4. pc = "finish" /\ (Success => trouble' = 0)
          BY <2>1, <2>2 DEF FinishStream, Success, Producer, IInv, ErrorsAreCounted
        <4>5. \A i \in 1 .. Len(stream') :
                  stream'[i].type # "footer" \/ i = Len(stream')
          BY <1>4, <1>5, <4>1
        <4>6. \A i \in 1 .. Len(stream') : stream'[i].type \in RecordTypes \cup {"footer"}
          BY <1>4, <1>5, <4>1, <4>2
        <4>7. Lines'
          BY <1>5, <2>1, <3>3, <4>1, <4>2, <4>3, <4>4, <4>5, <4>6 DEF Lines
        <4>8. Numbered'
          BY <1>1, <1>2, <1>3, <1>5, <2>1, <3>3, <4>1, SMTT(30) DEF Numbered
        <4> QED
          BY <4>7, <4>8
      <3> QED
        BY <3>1, <3>2, <3>3
    <2>3. CASE SinkFails /\ pc # "finish"
      <3>1. UNCHANGED <<stream, sequence, finished>>
        BY <2>3 DEF SinkFails, EmitFails
      <3> QED
        BY <1>1, <1>2, <1>3, <1>4, <1>5, <2>1, <3>1 DEF Lines, Numbered
    <2> QED
      BY <1>8, <2>2, <2>3 DEF Last
  <1> QED
    BY <1>1, <1>6, <1>7, <1>8

\* What accepting a record does, whichever it is, as a new state of the validator.
LEMMA AcceptDoes ==
  ASSUME Validator!Accept
  PROVE  /\ verdict = "none" /\ verdict' = "none" /\ stream # <<>>
         /\ stream' = Tail(stream) /\ torn' = torn
         /\ line' = line + 1
         /\ footer = "none"
         /\ phase' \in 0 .. 5 \/ phase' = phase
         /\ Head(stream).type = "footer" =>
                footer' = IF Head(stream).success THEN "true" ELSE "false"
         /\ Head(stream).type # "footer" => footer' = footer
  <1>1. /\ verdict = "none" /\ verdict' = "none" /\ stream # <<>>
        /\ stream' = Tail(stream) /\ torn' = torn
        /\ line' = line + 1
        /\ footer = "none"
    BY DEF Validator!Accept, Validator!Acceptable
  <1>2. \/ Validator!Header(Head(stream)) \/ Validator!Module(Head(stream))
        \/ Validator!ConfigSource(Head(stream)) \/ Validator!ConfigEntry(Head(stream))
        \/ Validator!Entry(Head(stream)) \/ Validator!ArtifactBegin(Head(stream))
        \/ Validator!ArtifactChunk(Head(stream)) \/ Validator!ArtifactEnd(Head(stream))
        \/ Validator!Diagnostic(Head(stream)) \/ Validator!Footer(Head(stream))
    BY DEF Validator!Accept
  <1>3. /\ phase' \in 0 .. 5 \/ phase' = phase
        /\ Head(stream).type = "footer" =>
               footer' = IF Head(stream).success THEN "true" ELSE "false"
        /\ Head(stream).type # "footer" => footer' = footer
    BY <1>2 DEF Validator!Header, Validator!Module, Validator!ConfigSource,
                Validator!ConfigEntry, Validator!Entry, Validator!ArtifactBegin,
                Validator!ArtifactChunk, Validator!ArtifactEnd, Validator!Diagnostic,
                Validator!Footer
  <1> QED
    BY <1>1, <1>3

\* A stream without its first line.
LEMMA TailKeepsLines ==
  ASSUME Lines, stream # <<>>, stream' = Tail(stream), UNCHANGED <<torn, pc, trouble>>
  PROVE  Lines'
  <1>1. /\ \E S : stream' \in Seq(S)
        /\ Len(stream) \in Nat \ {0}
        /\ Len(stream') = Len(stream) - 1
        /\ \A i \in 1 .. Len(stream) - 1 : stream'[i] = stream[i + 1]
    BY TailLines DEF Lines
  <1>2. ASSUME NEW i \in 1 .. Len(stream')
        PROVE  /\ stream'[i].type \in RecordTypes \cup {"footer"}
               /\ stream'[i].type = "footer" =>
                      /\ i = Len(stream') /\ pc' = "ended" /\ ~torn'
                      /\ stream'[i].success \in BOOLEAN
                      /\ stream'[i].success => trouble' = 0
    <2>1. i + 1 \in 1 .. Len(stream) /\ stream'[i] = stream[i + 1]
      BY <1>1
    <2>2. /\ stream[i + 1].type \in RecordTypes \cup {"footer"}
          /\ stream[i + 1].type = "footer" =>
                 /\ i + 1 = Len(stream) /\ pc = "ended" /\ ~torn
                 /\ stream[i + 1].success \in BOOLEAN
                 /\ stream[i + 1].success => trouble = 0
      BY <2>1 DEF Lines
    <2>3. i = Len(stream') <=> i + 1 = Len(stream)
      BY <1>1
    <2> QED
      BY <2>1, <2>2, <2>3
  <1> QED
    BY <1>1, <1>2 DEF Lines

LEMMA ValidatePipe ==
  ASSUME Producer, Lines, Numbered, Validate
  PROVE  Lines' /\ Numbered'
  <1>1. /\ UNCHANGED <<sequence, finished, pc, trouble>>
        /\ sequence \in Nat
    BY DEF Validate, producing, history, Producer, ProducerTyped
  <1>2. Len(stream) \in Nat
    BY DEF Lines
  <1>3. CASE Validator!Accept
    <2>1. /\ verdict = "none" /\ verdict' = "none" /\ stream # <<>>
          /\ stream' = Tail(stream) /\ torn' = torn
          /\ line' = line + 1
          /\ footer = "none"
          /\ phase' \in 0 .. 5 \/ phase' = phase
          /\ Head(stream).type = "footer" =>
                 footer' = IF Head(stream).success THEN "true" ELSE "false"
          /\ Head(stream).type # "footer" => footer' = footer
      BY <1>3, AcceptDoes
    <2>2. /\ \E S : stream' \in Seq(S)
          /\ Len(stream) \in Nat \ {0}
          /\ Len(stream') = Len(stream) - 1
          /\ \A i \in 1 .. Len(stream) - 1 : stream'[i] = stream[i + 1]
          /\ Head(stream) = stream[1]
      BY <2>1, TailLines DEF Lines
    <2>3. Lines'
      BY <1>1, <2>1, TailKeepsLines
    <2>4. Head(stream).type = "footer" =>
              /\ Len(stream) = 1 /\ stream' = <<>> /\ pc' = "ended" /\ ~torn'
              /\ finished \/ line + 1 = sequence + 1
              /\ footer' = "true" => trouble' = 0
      <3>1. SUFFICES ASSUME Head(stream).type = "footer"
                     PROVE  /\ Len(stream) = 1 /\ stream' = <<>> /\ pc' = "ended" /\ ~torn'
                            /\ finished \/ line + 1 = sequence + 1
                            /\ footer' = "true" => trouble' = 0
        OBVIOUS
      <3>2. 1 = Len(stream) /\ pc = "ended" /\ ~torn
        BY <2>2, <3>1 DEF Lines
      <3>3. stream' = <<>>
        <4>1. PICK S : stream' \in Seq(S)
          BY <2>2
        <4>2. Len(stream') = Len(stream) - 1 /\ Len(stream) = 1
          BY <2>2, <3>2
        <4>3. Len(stream') = 0
          BY <4>2
        <4> QED
          BY <4>1, <4>3, EmptySeq
      <3>4. finished \/ line + 1 = sequence + 1
        BY <2>1, <2>2, <3>1, <3>2 DEF Numbered
      <3>5. footer' = "true" => trouble' = 0
        <4>1. stream[1].success \in BOOLEAN /\ (stream[1].success => trouble = 0)
          BY <2>2, <3>1 DEF Lines
        <4> QED
          BY <1>1, <2>1, <2>2, <3>1, <4>1
      <3> QED
        BY <1>1, <2>1, <3>2, <3>3, <3>4, <3>5
    <2>5. Numbered'
      <3>1. /\ line' \in Nat /\ phase' \in 0 .. 5 /\ verdict' = "none"
            /\ footer' \in {"none", "true", "false"}
            /\ line' + Len(stream') = line + Len(stream)
            /\ line' <= sequence' + 1
        BY <1>1, <2>1, <2>2 DEF Numbered
      <3>2. /\ line + Len(stream) \in sequence .. sequence + 1
            /\ line + Len(stream) = sequence + 1 => pc = "ended" /\ ~finished
        BY <2>1 DEF Numbered
      <3>3. \A i \in 1 .. Len(stream') :
                stream'[i].type = "footer" => finished' \/ line' + Len(stream') = sequence' + 1
        <4>1. SUFFICES ASSUME NEW i \in 1 .. Len(stream'), stream'[i].type = "footer"
                       PROVE  finished' \/ line' + Len(stream') = sequence' + 1
          OBVIOUS
        <4>2. i + 1 \in 1 .. Len(stream) /\ stream[i + 1].type = "footer"
          BY <2>2, <4>1
        <4> QED
          BY <1>1, <2>1, <3>1, <4>2 DEF Numbered
      <3>4. CASE Head(stream).type = "footer"
        BY <1>1, <2>2, <2>4, <3>1, <3>2, <3>3, <3>4 DEF Numbered
      <3>5. CASE Head(stream).type # "footer"
        BY <1>1, <2>1, <2>2, <3>1, <3>2, <3>3, <3>5 DEF Numbered
      <3> QED
        BY <3>4, <3>5
    <2> QED
      BY <2>3, <2>5
  <1>4. CASE Validator!Refuse
    <2>1. UNCHANGED <<stream, torn, line, phase, footer>> /\ verdict' = "invalid"
      BY <1>4 DEF Validator!Refuse, Validator!input
    <2> QED
      BY <1>1, <1>2, <2>1 DEF Lines, Numbered
  <1>5. CASE Validator!Conclude
    <2>1. /\ UNCHANGED <<stream, torn, line, phase, footer>> /\ verdict = "none"
          /\ verdict' \in {"valid", "invalid"}
          /\ verdict' = "valid" => footer # "none" /\ stream = <<>>
      BY <1>5 DEF Validator!Conclude, Validator!Complete, Validator!input
    <2> QED
      BY <1>1, <1>2, <2>1 DEF Lines, Numbered
  <1>6. CASE Validator!Oversized
    <2>1. /\ UNCHANGED <<stream, torn, line, phase, footer>> /\ verdict = "none"
          /\ verdict' = "oversize"
      BY <1>6 DEF Validator!Oversized, Validator!input
    <2> QED
      BY <1>1, <1>2, <2>1 DEF Lines, Numbered
  <1> QED
    BY <1>3, <1>4, <1>5, <1>6 DEF Validate

\* What a validator that has given up leaves unread.
LEMMA UnreadPipe ==
  ASSUME Producer, Lines, Numbered, Unread
  PROVE  Lines' /\ Numbered'
  <1>1. /\ UNCHANGED <<sequence, finished, pc, trouble>>
        /\ UNCHANGED <<line, phase, footer, verdict, torn>>
        /\ verdict = "invalid" /\ stream # <<>> /\ stream' = Tail(stream)
    BY DEF Unread, producing, validating, history
  <1>2. /\ \E S : stream' \in Seq(S)
        /\ Len(stream) \in Nat \ {0}
        /\ Len(stream') = Len(stream) - 1
        /\ \A i \in 1 .. Len(stream) - 1 : stream'[i] = stream[i + 1]
    BY <1>1, TailLines DEF Lines
  <1>3. Lines'
    BY <1>1, TailKeepsLines
  <1>4. Numbered'
    BY <1>1, <1>2 DEF Numbered
  <1> QED
    BY <1>3, <1>4

-----------------------------------------------------------------------------
(* The validator's step.                                                   *)

\* The rules of the validator are those of its state as a value.
LEMMA RulesOfNow ==
  ASSUME NEW r
  PROVE  Validator!Acceptable(r) <=> At(Now)!Acceptable(r)
  BY DEF Now, Validator!Acceptable, Validator!HeaderRules, Validator!ModuleRules,
         Validator!InOrder, Validator!Proper, Validator!BeginRules, Validator!ChunkRules, Validator!EndRules,
         Validator!DiagnosticRules, Validator!FooterRules, Validator!Severities,
         At!Acceptable, At!HeaderRules, At!ModuleRules, At!InOrder, At!BeginRules,
         At!Proper, At!ChunkRules, At!EndRules, At!DiagnosticRules, At!FooterRules, At!Severities,
         At!NoArtifact, NoArtifact, Validator!NoArtifact

\* What it does with a record it accepts is After.
LEMMA AfterNow ==
  ASSUME NEW r, line' = line + 1,
         seen' = IF r.type = "footer" THEN seen ELSE [seen EXCEPT ![r.type] = @ + 1],
         \/ Validator!Header(r) \/ Validator!Module(r) \/ Validator!ConfigSource(r)
         \/ Validator!ConfigEntry(r) \/ Validator!Entry(r) \/ Validator!ArtifactBegin(r)
         \/ Validator!ArtifactChunk(r) \/ Validator!ArtifactEnd(r)
         \/ Validator!Diagnostic(r) \/ Validator!Footer(r)
  PROVE  Now' = After(Now, r)
  <1> USE DEF Now, After, NoArtifact, Validator!complete
  <1>1. CASE Validator!Header(r)
    BY <1>1 DEF Validator!Header
  <1>2. CASE Validator!Module(r)
    BY <1>2 DEF Validator!Module
  <1>3. CASE Validator!ConfigSource(r)
    BY <1>3 DEF Validator!ConfigSource
  <1>4. CASE Validator!ConfigEntry(r)
    BY <1>4 DEF Validator!ConfigEntry
  <1>5. CASE Validator!Entry(r)
    BY <1>5 DEF Validator!Entry
  <1>6. CASE Validator!ArtifactBegin(r)
    BY <1>6 DEF Validator!ArtifactBegin
  <1>7. CASE Validator!ArtifactChunk(r)
    BY <1>7 DEF Validator!ArtifactChunk
  <1>8. CASE Validator!ArtifactEnd(r)
    BY <1>8 DEF Validator!ArtifactEnd
  <1>9. CASE Validator!Diagnostic(r)
    BY <1>9 DEF Validator!Diagnostic
  <1>10. CASE Validator!Footer(r)
    BY <1>10 DEF Validator!Footer
  <1> QED
    BY <1>1, <1>2, <1>3, <1>4, <1>5, <1>6, <1>7, <1>8, <1>9, <1>10

\* What the producer has counted stays as it is when the validator reads.
LEMMA IdleFits ==
  ASSUME NEW v, UNCHANGED producing
  PROVE  (Fits(v) => Fits(v)') /\ (Closed(v) => Closed(v)')
  <1>1. /\ UNCHANGED <<sequence, counts, command, pc, diagnostics, entries, artifacts, bytes>>
        /\ UNCHANGED <<ordinal, group, result, reported, trouble>>
    BY DEF producing, totals, loop, capture, history
  <1>2. Fits(v) => Fits(v)'
    BY <1>1 DEF Fits, Ordered, Counted, Grouped, Reached
  <1>3. Closed(v) => Closed(v)'
    BY <1>1 DEF Closed
  <1> QED
    BY <1>2, <1>3

LEMMA ValidateAccepted ==
  ASSUME Producer, Lines, Numbered, Accepted, Validate
  PROVE  Accepted'
  <1>1. UNCHANGED <<pc, finished, upset>> /\ UNCHANGED producing
    BY DEF Validate, producing, history
  <1>2. SUFFICES ASSUME pc # "ended" \/ finished, ~upset
                 PROVE  verdict' # "invalid" /\ Agreed'
    BY <1>1 DEF Accepted
  <1>3. PICK run, last :
            /\ run[0] = Now
            /\ Reads(run, stream)
            /\ last = run[Len(stream)]
            /\ IF pc = "ended" THEN Closed(last) ELSE Fits(last)
    BY <1>2 DEF Accepted, Agreed
  <1>4. IF pc' = "ended" THEN Closed(last)' ELSE Fits(last)'
    BY <1>1, <1>3, IdleFits
  <1>5. CASE Validator!Accept
    <2>1. /\ verdict = "none" /\ verdict' = "none" /\ stream # <<>> /\ stream' = Tail(stream)
      BY <1>5, AcceptDoes
    <2>2. /\ Len(stream) \in Nat \ {0}
          /\ Len(stream') = Len(stream) - 1
          /\ \A i \in 1 .. Len(stream) - 1 : stream'[i] = stream[i + 1]
          /\ Head(stream) = stream[1]
      BY <2>1, TailLines DEF Lines
    <2>3. Now' = After(Now, Head(stream))
      BY <1>5, AfterNow DEF Validator!Accept
    <2> DEFINE rest == [i \in Nat |-> run[i + 1]]
    <2>4. /\ rest[0] = run[1]
          /\ \A i \in 1 .. Len(stream) : rest[i - 1] = run[i] /\ rest[i] = run[i + 1]
      BY <2>2
    <2> HIDE DEF rest
    <2>5. rest[0] = Now'
      BY <1>3, <2>2, <2>3, <2>4 DEF Reads
    <2>6. Reads(rest, stream')
      <3>1. SUFFICES ASSUME NEW i \in 1 .. Len(stream')
                     PROVE  /\ At(rest[i - 1])!Acceptable(stream'[i])
                            /\ rest[i] = After(rest[i - 1], stream'[i])
        BY DEF Reads
      <3>2. i \in 1 .. Len(stream) /\ i + 1 \in 1 .. Len(stream) /\ stream'[i] = stream[i + 1]
        BY <2>2
      <3>3. rest[i - 1] = run[i] /\ rest[i] = run[i + 1]
        BY <2>4, <3>2
      <3>4. (i + 1) - 1 = i
        BY <3>2
      <3>5. /\ At(run[i])!Acceptable(stream[i + 1])
            /\ run[i + 1] = After(run[i], stream[i + 1])
        BY <1>3, <3>2, <3>4 DEF Reads
      <3> QED
        BY <3>2, <3>3, <3>5
    <2>7. last = rest[Len(stream')]
      BY <1>3, <2>2, <2>4
    <2> QED
      BY <1>4, <2>1, <2>5, <2>6, <2>7 DEF Agreed
  <1>6. CASE Validator!Refuse
    <2>1. stream # <<>> /\ ~Validator!Acceptable(Head(stream))
      BY <1>6 DEF Validator!Refuse
    <2>2. \E S : stream \in Seq(S)
      BY DEF Lines
    <2>3. Head(stream) = stream[1] /\ 1 \in 1 .. Len(stream)
      BY <2>1, <2>2
    <2>4. At(Now)!Acceptable(Head(stream))
      BY <1>3, <2>3 DEF Reads
    <2> QED
      BY <2>1, <2>4, RulesOfNow
  <1>7. CASE pc = "ended" /\ Validator!Conclude
    <2>1. /\ stream = <<>> /\ stream' = stream
          /\ verdict' = IF Validator!Complete THEN "valid" ELSE "invalid"
          /\ Now' = Now
      BY <1>7 DEF Validator!Conclude, Validator!input, Validator!counters, Validator!complete,
                  Now
    <2>2. Closed(Now)
      BY <1>3, <1>7, <2>1
    <2>3. ~torn
      BY <1>2, <1>7 DEF Producer, Placed
    <2>4. Validator!Complete
      BY <2>2, <2>3 DEF Closed, Now, Validator!Complete, NoArtifact
    <2> QED
      BY <1>3, <1>4, <2>1, <2>4 DEF Agreed
  <1>8. CASE Validator!Oversized
    <2>1. stream' = stream /\ verdict' = "oversize" /\ Now' = Now
      BY <1>8 DEF Validator!Oversized, Validator!input, Validator!counters,
                  Validator!complete, Now
    <2> QED
      BY <1>3, <1>4, <2>1 DEF Agreed
  <1> QED
    BY <1>5, <1>6, <1>7, <1>8 DEF Validate

LEMMA UnreadAccepted ==
  ASSUME Accepted, Unread
  PROVE  Accepted'
  BY DEF Accepted, Unread, producing, validating, history

-----------------------------------------------------------------------------
(* The producer's step: what it writes is accepted, and what the validator will     *)
(* know goes along with what it counts.                                            *)

\* A line is added that is accepted, and the two are at one again.
Appended(v) ==
    \E r, w :
        /\ stream' = Append(stream, r)
        /\ At(v)!Acceptable(r)
        /\ w = After(v, r)
        /\ IF pc' = "ended" THEN Closed(w)' ELSE Fits(w)'

\* Nothing is written, and the two stay at one.
Kept(v) == UNCHANGED stream /\ pc' # "ended" /\ Fits(v)'

\* The line r is accepted as far as its number goes, and leads from v to w, where all
\* but the order of records agrees.
Tallied(v, r, w) ==
    /\ stream' = Append(stream, r) /\ w = After(v, r)
    /\ r.sequence = v.line /\ v.footer = "none"
    /\ v.header = "" => r.type = "header"
    /\ Counted(w)' /\ Grouped(w)'

\* Whatever is written, the numbers and the counts agree.
LEMMA EmitCounted ==
  ASSUME NEW v, NEW type \in RecordTypes, NEW fields, NEW r, NEW w,
         Producer, Counted(v), Emit(type, fields), r = Line(type, fields), w = After(v, r)
  PROVE  /\ stream' = Append(stream, r)
         /\ r.type = type /\ r.sequence = v.line /\ v.footer = "none"
         /\ w.line = sequence' /\ w.seen = counts' /\ w.footer = "none"
  <1>1. r.type = type /\ r.sequence = sequence
    BY LineFields
  <1>2. /\ stream' = Append(stream, r) /\ sequence' = sequence + 1
        /\ counts' = [counts EXCEPT ![type] = @ + 1]
    BY DEF Emit
  <1> QED
    BY <1>1, <1>2 DEF Counted, After

\* A record of the call itself: it leaves the capture alone, and does not end it.
LEMMA PutFits ==
  ASSUME NEW v, NEW type \in {"header", "module", "config_source", "config_entry", "entry"},
         NEW fields, NEW next \in Before \ {"header"}, NEW r, NEW w,
         Producer, Fits(v), pc \in Before, Put(type, fields, next),
         r = Line(type, fields), w = After(v, r),
         artifacts' = artifacts, bytes' = bytes,
         type = "entry" => entries' = entries + 1, type # "entry" => entries' = entries,
         type = "header" <=> pc = "header", type = "header" => r.command = command
  PROVE  Tallied(v, r, w)
  <1>1. /\ stream' = Append(stream, r)
        /\ r.type = type /\ r.sequence = v.line /\ v.footer = "none"
        /\ w.line = sequence' /\ w.seen = counts' /\ w.footer = "none"
    BY EmitCounted DEF Put, Fits
  <1>2. (type = "header" => v.header = "") /\ (type # "header" => v.header = command)
    BY DEF Fits, Counted
  <1>3. command # ""
    BY DEF Producer, ProducerTyped
  <1>4. Counted(w)'
    BY <1>1, <1>2 DEF Fits, Counted, After, Put, capture
  <1>5. Grouped(w)'
    BY <1>1 DEF Fits, Grouped, After, Put, capture
  <1> QED
    BY <1>1, <1>2, <1>3, <1>4, <1>5 DEF Tallied

LEMMA HeaderAgrees == ASSUME Producer, NEW v, Fits(v), Header PROVE Appended(v)
  <1>1. PICK r, w : r = Line("header", [command |-> command]) /\ w = After(v, r)
    OBVIOUS
  <1>2. r.type = "header" /\ r.command = command /\ command \in {"list", "extract"}
    BY <1>1, LineFields DEF Producer, ProducerTyped
  <1>3. Tallied(v, r, w)
    BY <1>1, <1>2, PutFits DEF Header, totals
  <1>4. At(v)!Acceptable(r)
    BY <1>2, <1>3 DEF Tallied, Header, Fits, Counted, Producer, Placed, At!Acceptable,
                      At!HeaderRules
  <1>5. Ordered(w)'
    BY <1>1, <1>2 DEF Header, Fits, Ordered, Reached, After, Put
  <1> QED
    BY <1>3, <1>4, <1>5 DEF Tallied, Appended, Fits, Header, Put

\* A diagnostic that is counted at once.
LEMMA DiagnoseAgrees ==
  ASSUME NEW v, NEW severity \in {"error", "warning"},
         Producer, Fits(v), Diagnose(severity), pc \in (Before \ {"header"}) \cup {"caught"},
         pc' \in Before \cup {"finish"}, pc' # "header", pc' \in Before => pc \in Before, ~upset,
         UNCHANGED <<command, totals, capture>>, Ordered(v)'
  PROVE  Appended(v)
  <1>1. PICK r, w : r = Line("diagnostic", [severity |-> severity]) /\ w = After(v, r)
    OBVIOUS
  <1>2. r.type = "diagnostic" /\ r.severity = severity
    BY <1>1, LineFields
  <1>3. /\ stream' = Append(stream, r)
        /\ r.sequence = v.line /\ v.footer = "none"
        /\ w.line = sequence' /\ w.seen = counts' /\ w.footer = "none"
    BY <1>1, EmitCounted DEF Diagnose, Fits
  <1>4. v.header = command /\ command # ""
    BY DEF Fits, Counted, Producer, ProducerTyped
  <1>5. v.active = NoArtifact
    <2>1. group = NoGroup
      BY DEF Producer, Totalled
    <2> QED
      BY <2>1 DEF Fits, Grouped, NoArtifact, Validator!NoArtifact
  <1>6. At(v)!Acceptable(r)
    BY <1>2, <1>3, <1>4, <1>5
    DEF At!Acceptable, At!DiagnosticRules, At!NoArtifact, NoArtifact, Validator!NoArtifact,
        At!Severities
  <1>7. Counted(w)'
    BY <1>1, <1>2, <1>3, <1>4 DEF Diagnose, Fits, Counted, After, totals
  <1>8. Grouped(w)'
    BY <1>1, <1>2 DEF Fits, Grouped, After, capture
  <1>9. Ordered(w)'
    BY <1>1, <1>2 DEF Ordered, After, Reached
  <1> QED
    BY <1>1, <1>3, <1>6, <1>7, <1>8, <1>9 DEF Appended, Fits

LEMMA WarnAgrees ==
  ASSUME NEW v, NEW next \in Before \ {"header"},
         Producer, Fits(v), Warn(next), pc \in Before \ {"header"}, ~upset, Ordered(v)'
  PROVE  Appended(v)
  BY DiagnoseAgrees DEF Warn

LEMMA ComplainAgrees ==
  ASSUME NEW v, NEW next \in (Before \ {"header"}) \cup {"finish"},
         Producer, Fits(v), Complain(next), pc \in Before \ {"header"}, ~upset, Ordered(v)'
  PROVE  Appended(v)
  BY DiagnoseAgrees DEF Complain

LEMMA ProceedAgrees ==
  ASSUME NEW v, NEW next \in (Before \ {"header"}) \cup {"finish"},
         Producer, Fits(v), Proceed(next), pc \in Before \ {"header"}, Ordered(v)'
  PROVE  Kept(v)
  <1>1. Counted(v)' /\ Grouped(v)'
    BY DEF Proceed, Fits, Counted, Grouped, writer, totals, capture
  <1> QED
    BY <1>1 DEF Kept, Fits, Proceed, writer

\* A record of the call that is tallied, accepted and in its order.
LEMMA TalliedAppended ==
  ASSUME NEW v, NEW r, NEW w, Tallied(v, r, w), At(v)!Acceptable(r), Ordered(w)', pc' # "ended"
  PROVE  Appended(v)
  BY DEF Tallied, Appended, Fits

LEMMA Rules ==
  ASSUME NEW v, NEW r, NEW w, Tallied(v, r, w),
         \/ r.type = "module" /\ At(v)!ModuleRules(r)
         \/ r.type = "config_source" /\ At(v)!InOrder(2) /\ r.ordinal = v.sources
         \/ r.type = "config_entry" /\ At(v)!InOrder(3) /\ r.ordinal = v.configs
         \/ r.type = "entry" /\ At(v)!InOrder(4) /\ r.ordinal = v.entries
         \/ r.type = "artifact_begin" /\ At(v)!BeginRules(r)
         \/ r.type = "artifact_chunk" /\ At(v)!ChunkRules(r)
         \/ r.type = "artifact_end" /\ At(v)!EndRules(r)
         \/ r.type = "diagnostic" /\ At(v)!DiagnosticRules(r)
  PROVE  At(v)!Acceptable(r)
  BY DEF Tallied, At!Acceptable

\* An error keeps the footer from saying success.
LEMMA ComplainIsError ==
  ASSUME NEW next, Producer, Complain(next)
  PROVE  /\ diagnostics'["error"] # 0
         /\ pc' = next /\ command' = command
  <1>1. diagnostics'["error"] = diagnostics["error"] + 1 /\ diagnostics["error"] \in Nat
    BY DEF Complain, Diagnose, Producer, IInv, CountsOK
  <1> QED
    BY <1>1 DEF Complain

LEMMA RootAgrees ==
  ASSUME NEW v, Producer, Fits(v), ~upset, BadRoot \/ List
  PROVE  Kept(v) \/ Appended(v)
  <1>0. Ordered(v) /\ v.header = (IF pc = "header" THEN "" ELSE command)
    BY DEF Fits, Counted
  <1> USE DEF Ordered, Reached, Producer, Placed
  <1>1. CASE BadRoot
    <2>1. Ordered(v)'
      BY <1>0, <1>1, ComplainIsError DEF BadRoot
    <2> QED
      BY <1>1, <2>1, ComplainAgrees DEF BadRoot
  <1>2. CASE Discovered
    <2>1. Ordered(v)'
      BY <1>0, <1>2 DEF Discovered, Proceed
    <2> QED
      BY <1>2, <2>1, ProceedAgrees DEF Discovered
  <1>3. CASE Listed
    <2>1. PICK r, w : r = Line("module", <<>>) /\ w = After(v, r)
      OBVIOUS
    <2>2. r.type = "module"
      BY <2>1, LineFields
    <2>3. Tallied(v, r, w)
      BY <1>3, <2>1, PutFits DEF Listed, totals
    <2>4. pc' = "modules" /\ command' = "list" /\ v.header = "list" /\ v.phase \in 0 .. 1
      BY <1>0, <1>3 DEF Listed, Put, ProducerTyped
    <2>5. At(v)!Acceptable(r)
      BY <2>2, <2>3, <2>4, Rules DEF At!ModuleRules
    <2>6. /\ w.modules = v.modules + 1 /\ w.sources = v.sources /\ w.configs = v.configs
          /\ w.phase = 1
      BY <2>1, <2>2 DEF After
    <2>7. Ordered(w)'
      BY <1>0, <1>3, <2>4, <2>6 DEF Listed
    <2> QED
      BY <2>3, <2>4, <2>5, <2>7, TalliedAppended
  <1>4. CASE AllListed
    <2>1. Ordered(v)'
      BY <1>0, <1>4 DEF AllListed, Proceed
    <2> QED
      BY <1>4, <2>1, ProceedAgrees DEF AllListed
  <1> QED
    BY <1>1, <1>2, <1>3, <1>4 DEF List

LEMMA ConfigureAgrees ==
  ASSUME NEW v, Producer, Fits(v), ~upset, Configure
  PROVE  Kept(v) \/ Appended(v)
  <1>0. pc \in {"root", "unknown", "search", "unmatched", "sources", "configs"} /\ command = "extract"
        /\ v.header = "extract" /\ Ordered(v)
    BY DEF Producer, ProducerTyped, Placed, Fits, Configure, ModuleNotFound, Module,
           UnknownType, ConfigurationRefused,
           ConfigurationFound, Unmatched, Source, SourcesDone, ConfigEntry, ConfigDone, Counted
  <1> USE DEF Ordered, Reached
  <1>1. CASE ModuleNotFound
    <2>1. Ordered(v)'
      BY <1>0, <1>1, ComplainIsError DEF ModuleNotFound
    <2> QED
      BY <1>1, <2>1, ComplainAgrees DEF ModuleNotFound
  <1>2. CASE Module
    <2>1. PICK r, w : r = Line("module", <<>>) /\ w = After(v, r)
      OBVIOUS
    <2>2. r.type = "module"
      BY <2>1, LineFields
    <2>3. Tallied(v, r, w)
      BY <1>2, <2>1, PutFits DEF Module, totals
    <2>4. At(v)!Acceptable(r)
      <3>1. v.phase \in 0 .. 0 /\ v.modules = 0
        BY <1>0, <1>2 DEF Module
      <3> QED
        BY <1>0, <2>2, <2>3, <3>1, Rules DEF At!ModuleRules
    <2>5. pc' \in {"unknown", "search"} /\ command' = command
      BY <1>2 DEF Module, Put
    <2>6. /\ w.modules = v.modules + 1 /\ w.sources = v.sources /\ w.configs = v.configs
          /\ w.phase = 1
      BY <2>1, <2>2 DEF After
    <2>7. Ordered(w)'
      BY <1>0, <1>2, <2>5, <2>6 DEF Module
    <2> QED
      BY <2>3, <2>4, <2>5, <2>7, TalliedAppended
  <1>3. CASE UnknownType
    <2>1. Ordered(v)'
      BY <1>0, <1>3 DEF UnknownType, Warn, loop
    <2> QED
      BY <1>3, <2>1, WarnAgrees DEF UnknownType
  <1>4. CASE ConfigurationRefused
    <2>1. Ordered(v)'
      BY <1>0, <1>4 DEF ConfigurationRefused, Complain, loop
    <2> QED
      BY <1>4, <2>1, ComplainAgrees DEF ConfigurationRefused
  <1>5. CASE ConfigurationFound
    <2>1. PICK n \in 0 .. MaxSources :
              Proceed(IF n = 0 THEN "unmatched" ELSE "sources") /\ ordinal' = 0
      BY <1>5 DEF ConfigurationFound, Loop
    <2>2. pc' \in {"unmatched", "sources"} /\ command' = command /\ Proceed(pc')
      BY <2>1 DEF Proceed
    <2>3. Ordered(v)'
      BY <1>0, <1>5, <2>1, <2>2 DEF ConfigurationFound
    <2>4. PICK next \in {"unmatched", "sources"} : Proceed(next)
      BY <2>1
    <2> QED
      BY <1>5, <2>3, <2>4, ProceedAgrees DEF ConfigurationFound
  <1>6. CASE Unmatched
    <2>1. Ordered(v)'
      BY <1>0, <1>6 DEF Unmatched, Warn, loop
    <2> QED
      BY <1>6, <2>1, WarnAgrees DEF Unmatched
  <1>7. CASE Source
    <2>1. CASE Complain(pc) /\ UNCHANGED ordinal
      <3>1. Ordered(v)'
        BY <1>0, <1>7, <2>1 DEF Source, Complain
      <3> QED
        BY <1>7, <2>1, <3>1, ComplainAgrees DEF Source
    <2>2. CASE /\ Put("config_source", [ordinal |-> ordinal], pc)
               /\ ordinal' = ordinal + 1 /\ UNCHANGED totals
      <3>1. PICK r, w : r = Line("config_source", [ordinal |-> ordinal]) /\ w = After(v, r)
        OBVIOUS
      <3>2. r.type = "config_source" /\ r.ordinal = ordinal
        BY <3>1, LineFields
      <3>3. Tallied(v, r, w)
        BY <1>7, <2>2, <3>1, PutFits DEF Source, totals
      <3>4. At(v)!Acceptable(r)
        <4>1. v.phase \in 0 .. 2 /\ v.modules = 1 /\ v.sources = ordinal
          BY <1>0, <1>7 DEF Source
        <4> QED
          BY <1>0, <3>2, <3>3, <4>1, Rules DEF At!InOrder
      <3>5. pc' = "sources" /\ command' = command
        BY <1>7, <2>2 DEF Source, Put
      <3>6. Ordered(w)'
        BY <1>0, <1>7, <2>2, <3>1, <3>2, <3>5 DEF Source, After
      <3> QED
        BY <3>3, <3>4, <3>5, <3>6, TalliedAppended
    <2> QED
      BY <1>7, <2>1, <2>2 DEF Source
  <1>8. CASE SourcesDone
    <2>1. Ordered(v)'
      BY <1>0, <1>8 DEF SourcesDone, Proceed, Loop
    <2> QED
      BY <1>8, <2>1, ProceedAgrees DEF SourcesDone
  <1>9. CASE ConfigEntry
    <2>1. PICK r, w : r = Line("config_entry", [ordinal |-> ordinal]) /\ w = After(v, r)
      OBVIOUS
    <2>2. r.type = "config_entry" /\ r.ordinal = ordinal
      BY <2>1, LineFields
    <2>3. Tallied(v, r, w)
      BY <1>9, <2>1, PutFits DEF ConfigEntry, totals
    <2>4. At(v)!Acceptable(r)
      <3>1. v.phase \in 0 .. 3 /\ v.modules = 1 /\ v.configs = ordinal
        BY <1>0, <1>9 DEF ConfigEntry
      <3> QED
        BY <1>0, <2>2, <2>3, <3>1, Rules DEF At!InOrder
    <2>5. pc' = "configs" /\ command' = command /\ ordinal' = ordinal + 1
      BY <1>9 DEF ConfigEntry, Put, Round
    <2>6. Ordered(w)'
      BY <1>0, <1>9, <2>1, <2>2, <2>5 DEF ConfigEntry, After
    <2> QED
      BY <2>3, <2>4, <2>5, <2>6, TalliedAppended
  <1>10. CASE ConfigDone
    <2>1. Ordered(v)'
      BY <1>0, <1>10 DEF ConfigDone, Proceed
    <2> QED
      BY <1>10, <2>1, ProceedAgrees DEF ConfigDone
  <1> QED
    BY <1>1, <1>2, <1>3, <1>4, <1>5, <1>6, <1>7, <1>8, <1>9, <1>10 DEF Configure

LEMMA TraverseAgrees ==
  ASSUME NEW v, Producer, Fits(v), ~upset, Traverse
  PROVE  Kept(v) \/ Appended(v)
  <1>0. pc \in {"top", "read", "project", "projected", "advance"} /\ command = "extract"
        /\ v.header = "extract" /\ Ordered(v) /\ v.entries = entries
    BY DEF Producer, ProducerTyped, Placed, Fits, Traverse, Empty, Positioned, Unreadable,
           TooLong, Remark, Entry, Increment, Counted
  <1>1. ASSUME pc' \in {"read", "project", "projected", "advance", "discover"}, command' = command
        PROVE  Ordered(v)'
    BY <1>0, <1>1 DEF Ordered, Reached
  <1>2. CASE Empty
    BY <1>1, <1>2, WarnAgrees DEF Empty, Warn
  <1>3. CASE Positioned
    BY <1>1, <1>3, ProceedAgrees DEF Positioned, Proceed
  <1>4. CASE Unreadable
    BY <1>1, <1>4, ComplainAgrees DEF Unreadable, Complain
  <1>5. CASE TooLong
    BY <1>1, <1>5, ComplainAgrees DEF TooLong, Complain
  <1>6. CASE Remark
    BY <1>1, <1>6, WarnAgrees, ComplainAgrees DEF Remark, Warn, Complain
  <1>7. CASE Entry
    <2>1. PICK r, w : r = Line("entry", [ordinal |-> entries]) /\ w = After(v, r)
      OBVIOUS
    <2>2. r.type = "entry" /\ r.ordinal = entries
      BY <2>1, LineFields
    <2>3. Tallied(v, r, w)
      BY <1>7, <2>1, PutFits DEF Entry
    <2>4. At(v)!Acceptable(r)
      <3>1. v.phase \in 0 .. 4 /\ v.modules = 1
        BY <1>0 DEF Ordered, Reached
      <3> QED
        BY <1>0, <2>2, <2>3, <3>1, Rules DEF At!InOrder
    <2>5. pc' = "advance" /\ command' = command
      BY <1>7 DEF Entry, Put
    <2>6. /\ w.modules = v.modules /\ w.sources = v.sources /\ w.configs = v.configs
          /\ w.phase = 4
      BY <2>1, <2>2 DEF After
    <2>7. Ordered(w)'
      BY <1>0, <2>5, <2>6 DEF Ordered, Reached
    <2> QED
      BY <2>3, <2>4, <2>5, <2>7, TalliedAppended
  <1>8. CASE Increment
    BY <1>1, <1>8, ProceedAgrees, ComplainAgrees DEF Increment, Proceed, Complain
  <1> QED
    BY <1>2, <1>3, <1>4, <1>5, <1>6, <1>7, <1>8 DEF Traverse

\* What the validator knows while a group may be under way.
LEMMA AtCapture ==
  ASSUME NEW v, Producer, Fits(v), pc = "capture"
  PROVE  /\ v.header = "extract" /\ command = "extract"
         /\ v.phase \in 0 .. 5 /\ v.modules = 1 /\ v.sources \in Nat /\ v.configs \in Nat
         /\ v.line = sequence /\ v.seen = counts /\ v.footer = "none" /\ v.entries = entries
         /\ v.severities = [diagnostics EXCEPT !["error"] = @ + reported]
         /\ v.artifacts = result.artifacts /\ v.sizes = result.bytes
         /\ v.active = [kind |-> group.kind, expected |-> group.expected, size |-> group.size,
                        chunks |-> group.chunks, short |-> group.short]
         /\ \A p \in v.paths : p \in Nat /\ (p < ordinal \/ (p = ordinal /\ group # NoGroup))
  BY DEF Fits, Ordered, Reached, Counted, Grouped, Producer, ProducerTyped, Placed

\* And what is to be shown of it.
LEMMA StillCapture ==
  ASSUME NEW w, pc' = "capture", command' = "extract",
         w.header = "extract",
         w.phase \in 0 .. 5, w.modules = 1, w.sources \in Nat, w.configs \in Nat,
         w.line = sequence', w.seen = counts', w.footer = "none", w.entries = entries',
         w.severities = [diagnostics' EXCEPT !["error"] = @ + reported'],
         w.artifacts = result'.artifacts, w.sizes = result'.bytes,
         w.active = [kind |-> group'.kind, expected |-> group'.expected, size |-> group'.size,
                     chunks |-> group'.chunks, short |-> group'.short],
         \A p \in w.paths : p \in Nat /\ (p < ordinal' \/ (p = ordinal' /\ group' # NoGroup))
  PROVE  Fits(w)'
  <1>1. Ordered(w)'
    BY DEF Ordered, Reached
  <1>2. Counted(w)'
    BY DEF Counted
  <1>3. Grouped(w)'
    BY DEF Grouped
  <1> QED
    BY <1>1, <1>2, <1>3 DEF Fits

\* Into and out of the capture.
LEMMA AroundCapture ==
  ASSUME NEW v, Producer, Fits(v), ~upset, Undiscovered \/ Candidates \/ Captured
  PROVE  Kept(v) \/ Appended(v)
  <1>1. CASE Undiscovered
    <2>1. Ordered(v)'
      BY <1>1 DEF Undiscovered, Complain, Fits, Ordered, Reached
    <2> QED
      BY <1>1, <2>1, ComplainAgrees DEF Undiscovered
  <1>2. CASE Candidates
    <2>1. /\ pc = "discover" /\ pc' = "capture"
          /\ UNCHANGED <<stream, sequence, counts, command, diagnostics, entries, result, reported, group>>
      BY <1>2 DEF Candidates, Proceed, writer, totals, capture
    <2>2. /\ command = "extract" /\ reported = 0 /\ result.artifacts = 0 /\ result.bytes = 0
          /\ artifacts = 0 /\ bytes = 0
      BY <2>1 DEF Producer, ProducerTyped, Placed, Totalled
    <2>3. [diagnostics EXCEPT !["error"] = @ + reported] = diagnostics
      BY <2>2 DEF Producer, IInv, CountsOK
    <2>4. Fits(v)'
      <3>1. Ordered(v)'
        BY <2>1, <2>2 DEF Fits, Ordered, Reached
      <3>2. Counted(v)'
        BY <2>1, <2>2, <2>3 DEF Fits, Counted
      <3>3. Grouped(v)'
        BY <2>1 DEF Fits, Grouped
      <3> QED
        BY <3>1, <3>2, <3>3 DEF Fits
    <2> QED
      BY <2>1, <2>4 DEF Kept
  <1>3. CASE Captured
    <2>1. /\ pc = "capture" /\ pc' = "finish" /\ reported = result.diagnostics
          /\ artifacts' = result.artifacts /\ bytes' = result.bytes
          /\ UNCHANGED <<stream, sequence, counts, command, entries, group>>
          /\ diagnostics' = [diagnostics EXCEPT !["error"] = @ + result.diagnostics]
      BY <1>3 DEF Captured, writer, capture
    <2>2. Fits(v)'
      <3>1. Ordered(v)'
        BY <2>1, AtCapture DEF Ordered, Reached
      <3>2. Counted(v)'
        BY <2>1 DEF Fits, Counted
      <3>3. Grouped(v)'
        BY <2>1 DEF Fits, Grouped
      <3> QED
        BY <3>1, <3>2, <3>3 DEF Fits
    <2> QED
      BY <2>1, <2>2 DEF Kept
  <1> QED
    BY <1>1, <1>2, <1>3

\* Between two records nothing changes that the validator knows of.
LEMMA SilentCapture ==
  ASSUME NEW v, Producer, Fits(v), SkipCandidate \/ ReadError
  PROVE  Kept(v)
  <1>0. pc = "capture"
    BY DEF SkipCandidate, ReadError
  <1>1. /\ UNCHANGED <<stream, sequence, counts, command, pc, diagnostics, entries, reported>>
        /\ result'.artifacts = result.artifacts /\ result'.bytes = result.bytes
        /\ ordinal \in Nat /\ group \in Groups
    BY DEF SkipCandidate, ReadError, Collect, writer, totals, Producer, ProducerTyped
  <1>2. [kind |-> group'.kind, expected |-> group'.expected, size |-> group'.size,
         chunks |-> group'.chunks, short |-> group'.short]
            = [kind |-> group.kind, expected |-> group.expected, size |-> group.size,
               chunks |-> group.chunks, short |-> group.short]
    BY <1>1 DEF SkipCandidate, ReadError
  <1>3. \A p \in v.paths : p \in Nat /\ (p < ordinal' \/ (p = ordinal' /\ group' # NoGroup))
    <2>1. CASE SkipCandidate
      BY <1>0, <1>1, <2>1, AtCapture DEF SkipCandidate, Round
    <2>2. CASE ReadError
      <3>1. group'.failed /\ ordinal' = ordinal
        BY <1>1, <2>2 DEF ReadError, loop
      <3>2. group' # NoGroup /\ group # NoGroup
        BY <2>2, <3>1 DEF ReadError
      <3> QED
        BY <1>0, <3>1, <3>2, AtCapture
    <2> QED
      BY <2>1, <2>2
  <1>4. Fits(v)'
    BY <1>0, <1>1, <1>2, <1>3, AtCapture, StillCapture
  <1> QED
    BY <1>0, <1>1, <1>4 DEF Kept

\* A line of the capture that follows the rules.
LEMMA CaptureAppended ==
  ASSUME NEW v, NEW type \in RecordTypes \ {"header"}, NEW fields, NEW r, NEW w,
         Producer, Fits(v), pc = "capture", pc' = pc, command' = command,
         Emit(type, fields), r = Line(type, fields), w = After(v, r),
         \/ type = "artifact_begin" /\ At(v)!BeginRules(r)
         \/ type = "artifact_chunk" /\ At(v)!ChunkRules(r)
         \/ type = "artifact_end" /\ At(v)!EndRules(r)
         \/ type = "diagnostic" /\ At(v)!DiagnosticRules(r),
         w.entries = entries',
         w.severities = [diagnostics' EXCEPT !["error"] = @ + reported'],
         w.artifacts = result'.artifacts, w.sizes = result'.bytes,
         w.active = [kind |-> group'.kind, expected |-> group'.expected, size |-> group'.size,
                     chunks |-> group'.chunks, short |-> group'.short],
         \A p \in w.paths : p \in Nat /\ (p < ordinal' \/ (p = ordinal' /\ group' # NoGroup))
  PROVE  Appended(v)
  <1>1. /\ stream' = Append(stream, r)
        /\ r.type = type /\ r.sequence = v.line /\ v.footer = "none"
        /\ w.line = sequence' /\ w.seen = counts' /\ w.footer = "none"
    BY EmitCounted DEF Fits
  <1>2. /\ v.header = "extract" /\ command = "extract"
        /\ v.phase \in 0 .. 5 /\ v.modules = 1 /\ v.sources \in Nat /\ v.configs \in Nat
    BY AtCapture
  <1>3. At(v)!Acceptable(r)
    BY <1>1, <1>2 DEF At!Acceptable
  <1>4. /\ w.header = v.header /\ w.modules = v.modules /\ w.sources = v.sources
        /\ w.configs = v.configs
        /\ w.phase \in {v.phase, 5}
    BY <1>1 DEF After
  <1>5. Fits(w)'
    <2>1. /\ pc' = "capture" /\ command' = "extract" /\ w.header = "extract"
          /\ w.phase \in 0 .. 5 /\ w.modules = 1 /\ w.sources \in Nat /\ w.configs \in Nat
      BY <1>2, <1>4
    <2> QED
      BY <1>1, <2>1, StillCapture
  <1> QED
    BY <1>1, <1>3, <1>5 DEF Appended

LEMMA BeginAgrees ==
  ASSUME NEW v, Producer, Fits(v), BeginArtifact
  PROVE  Appended(v)
  <1>1. PICK kind \in {"directory", "symlink", "regular"} :
            \E expected \in Announced(kind) :
               /\ group' = [NoGroup EXCEPT !.kind = kind, !.expected = expected]
               /\ Emit("artifact_begin", [id |-> result.artifacts, path |-> ordinal,
                                          kind |-> kind, expected |-> expected])
    BY DEF BeginArtifact
  <1>2. PICK expected \in Announced(kind) :
            /\ group' = [NoGroup EXCEPT !.kind = kind, !.expected = expected]
            /\ Emit("artifact_begin", [id |-> result.artifacts, path |-> ordinal,
                                       kind |-> kind, expected |-> expected])
    BY <1>1
  <1>3. PICK fields : fields = [id |-> result.artifacts, path |-> ordinal,
                                kind |-> kind, expected |-> expected]
    OBVIOUS
  <1>4. PICK r, w : r = Line("artifact_begin", fields) /\ w = After(v, r)
    OBVIOUS
  <1>5. /\ r.type = "artifact_begin"
        /\ r.id = result.artifacts /\ r.path = ordinal /\ r.kind = kind /\ r.expected = expected
    BY <1>3, <1>4, LineFields
  <1>6. /\ pc = "capture" /\ pc' = pc /\ group = NoGroup /\ command' = command
        /\ UNCHANGED <<diagnostics, entries, ordinal, result, reported>>
        /\ ordinal \in Nat
    BY DEF BeginArtifact, totals, loop, Producer, ProducerTyped
  <1>7. At(v)!BeginRules(r)
    <2>1. v.active = NoArtifact
      BY <1>6, AtCapture DEF NoArtifact, Validator!NoArtifact
    <2>2. ordinal \notin v.paths
      BY <1>6, AtCapture
    <2> QED
      BY <1>5, <1>6, <2>1, <2>2, AtCapture
      DEF At!BeginRules, At!Proper, At!InOrder, At!NoArtifact, NoArtifact, Validator!NoArtifact
  <1>8. group' = [kind |-> kind, expected |-> expected, size |-> 0, chunks |-> 0,
                  short |-> FALSE, grown |-> FALSE, failed |-> FALSE]
    BY <1>2
  <1>9. w.active = [kind |-> group'.kind, expected |-> group'.expected, size |-> group'.size,
                    chunks |-> group'.chunks, short |-> group'.short]
    BY <1>4, <1>5, <1>8 DEF After, NoArtifact, Validator!NoArtifact
  <1>10. /\ w.entries = entries' /\ w.artifacts = result'.artifacts /\ w.sizes = result'.bytes
        /\ w.severities = [diagnostics' EXCEPT !["error"] = @ + reported']
        /\ w.paths = v.paths \cup {ordinal}
    BY <1>4, <1>5, <1>6, AtCapture DEF After
  <1>11. \A p \in w.paths : p \in Nat /\ (p < ordinal' \/ (p = ordinal' /\ group' # NoGroup))
    <2>1. group' # NoGroup
      BY <1>8
    <2> QED
      BY <1>6, <1>10, <2>1, AtCapture
  <1>12. Emit("artifact_begin", fields)
    BY <1>2, <1>3
  <1> QED
    BY <1>4, <1>6, <1>7, <1>9, <1>10, <1>11, <1>12, CaptureAppended

LEMMA ChunkAgrees ==
  ASSUME NEW v, Producer, Fits(v), ReadChunk, ~upset'
  PROVE  Appended(v)
  <1>1. PICK count \in 1 .. ChunkBlocks :
            /\ group' = [group EXCEPT !.size = @ + count, !.chunks = @ + 1,
                                      !.short = count < ChunkBlocks,
                                      !.grown = @ \/ group.short]
            /\ Emit("artifact_chunk", [id |-> result.artifacts, index |-> group.chunks,
                                      size |-> count])
    BY DEF ReadChunk
  <1>2. PICK fields : fields = [id |-> result.artifacts, index |-> group.chunks, size |-> count]
    OBVIOUS
  <1>3. PICK r, w : r = Line("artifact_chunk", fields) /\ w = After(v, r)
    OBVIOUS
  <1>4. /\ r.type = "artifact_chunk"
        /\ r.id = result.artifacts /\ r.index = group.chunks /\ r.size = count
    BY <1>2, <1>3, LineFields
  <1>5. /\ pc = "capture" /\ pc' = pc /\ group.kind = "regular" /\ command' = command
        /\ UNCHANGED <<diagnostics, entries, ordinal, result, reported>>
        /\ ordinal \in Nat /\ group \in Groups
        /\ ~group.short
    BY DEF ReadChunk, totals, loop, Producer, ProducerTyped
  <1>6. At(v)!ChunkRules(r)
    BY <1>4, <1>5, AtCapture DEF At!ChunkRules
  <1>7. group' = [kind |-> group.kind, expected |-> group.expected, size |-> group.size + count,
                  chunks |-> group.chunks + 1, short |-> count < ChunkBlocks,
                  grown |-> (group.grown \/ group.short), failed |-> group.failed]
    BY <1>1, <1>5
  <1>8. w.active = [kind |-> group'.kind, expected |-> group'.expected, size |-> group'.size,
                    chunks |-> group'.chunks, short |-> group'.short]
    <2>1. w.active = [v.active EXCEPT !.size = @ + count, !.chunks = @ + 1,
                                      !.short = count < ChunkBlocks]
      BY <1>3, <1>4 DEF After
    <2>2. PICK a : a = v.active
      OBVIOUS
    <2>3. a = [kind |-> group.kind, expected |-> group.expected, size |-> group.size,
               chunks |-> group.chunks, short |-> group.short]
      BY <1>5, <2>2, AtCapture
    <2>4. /\ a \in [kind : {"regular"}, expected : Nat, size : Nat, chunks : Nat, short : BOOLEAN]
          /\ a.kind = group.kind /\ a.expected = group.expected /\ a.size = group.size
          /\ a.chunks = group.chunks
      BY <1>5, <2>3
    <2>5. PICK b : b = [a EXCEPT !.size = @ + count, !.chunks = @ + 1,
                                 !.short = count < ChunkBlocks]
      OBVIOUS
    <2>6. b = [kind |-> a.kind, expected |-> a.expected, size |-> a.size + count,
               chunks |-> a.chunks + 1, short |-> count < ChunkBlocks]
      BY <2>4, <2>5
    <2> QED
      BY <1>7, <2>1, <2>2, <2>4, <2>5, <2>6
  <1>9. /\ w.entries = entries' /\ w.artifacts = result'.artifacts /\ w.sizes = result'.bytes
        /\ w.severities = [diagnostics' EXCEPT !["error"] = @ + reported']
        /\ w.paths = v.paths
    BY <1>3, <1>4, <1>5, AtCapture DEF After
  <1>10. \A p \in w.paths : p \in Nat /\ (p < ordinal' \/ (p = ordinal' /\ group' # NoGroup))
    <2>1. group' # NoGroup
      BY <1>5, <1>7
    <2> QED
      BY <1>5, <1>9, <2>1, AtCapture
  <1>11. Emit("artifact_chunk", fields)
    BY <1>1, <1>2
  <1> QED
    BY <1>3, <1>5, <1>6, <1>8, <1>9, <1>10, <1>11, CaptureAppended

\* The end of a group, whatever its fields besides are.
LEMMA EndAgrees ==
  ASSUME NEW v, NEW fields, NEW extra, NEW size, NEW r, NEW w,
         Producer, Fits(v), pc = "capture", Close(extra, size), ~upset,
         r = Line("artifact_end", fields), w = After(v, r),
         Emit("artifact_end", fields), r.id = result.artifacts, r.size = size,
         group.kind # "none",
         group.kind = "regular" => (r.stable => group.expected = group.size),
         group.kind = "symlink" => size = group.expected,
         group.kind # "symlink" => size = group.size,
         result'.artifacts = result.artifacts + 1, result'.bytes = result.bytes + size
  PROVE  Appended(v)
  <1>1. r.type = "artifact_end"
    BY LineFields
  <1>2. /\ pc' = pc /\ command' = command /\ group' = NoGroup /\ ordinal' = ordinal + 1
        /\ UNCHANGED <<diagnostics, entries, reported>>
        /\ ordinal \in Nat /\ group \in Groups
    BY DEF Close, Round, totals, Producer, ProducerTyped
  <1>3. At(v)!EndRules(r)
    BY <1>1, <1>2, AtCapture DEF At!EndRules, At!NoArtifact
  <1>4. w.active = [kind |-> group'.kind, expected |-> group'.expected, size |-> group'.size,
                    chunks |-> group'.chunks, short |-> group'.short]
    BY <1>1, <1>2 DEF After, NoArtifact, Validator!NoArtifact
  <1>5. /\ w.entries = entries' /\ w.artifacts = result'.artifacts /\ w.sizes = result'.bytes
        /\ w.severities = [diagnostics' EXCEPT !["error"] = @ + reported']
        /\ w.paths = v.paths
    <2>1. /\ w.entries = v.entries /\ w.artifacts = v.artifacts + 1
          /\ w.sizes = v.sizes + r.size /\ w.severities = v.severities /\ w.paths = v.paths
      BY <1>1 DEF After
    <2>2. /\ v.entries = entries /\ v.artifacts = result.artifacts /\ v.sizes = result.bytes
          /\ v.severities = [diagnostics EXCEPT !["error"] = @ + reported]
      BY AtCapture
    <2> QED
      BY <1>2, <2>1, <2>2
  <1>6. \A p \in w.paths : p \in Nat /\ (p < ordinal' \/ (p = ordinal' /\ group' # NoGroup))
    BY <1>2, <1>5, AtCapture
  <1> QED
    BY <1>2, <1>3, <1>4, <1>5, <1>6, CaptureAppended

LEMMA EndsAgree ==
  ASSUME NEW v, Producer, Fits(v), ~upset, EndWhole \/ EndRegular
  PROVE  Appended(v)
  <1>1. CASE EndWhole
    <2>1. PICK fields : fields = Joined([id |-> result.artifacts, size |-> group.expected], <<>>)
      OBVIOUS
    <2>2. PICK r, w : r = Line("artifact_end", fields) /\ w = After(v, r)
      OBVIOUS
    <2>3. /\ pc = "capture" /\ group.kind \in {"directory", "symlink"}
          /\ Close(<<>>, group.expected)
          /\ result'.artifacts = result.artifacts + 1
          /\ result'.bytes = result.bytes + group.expected
      BY <1>1 DEF EndWhole
    <2>4. Emit("artifact_end", fields)
      BY <2>1, <2>3 DEF Close
    <2>5. /\ "id" \in DOMAIN fields /\ fields["id"] = result.artifacts
          /\ "size" \in DOMAIN fields /\ fields["size"] = group.expected
      BY <2>1, Zenon DEF Joined
    <2>6. r.id = result.artifacts /\ r.size = group.expected
      BY <2>2, <2>5, LineFields
    <2>7. group.kind # "symlink" => group.expected = group.size
      BY <2>3 DEF Producer, Totalled
    <2> QED
      BY <2>2, <2>3, <2>4, <2>6, <2>7, EndAgrees
  <1>2. CASE EndRegular
    <2>1. PICK unchanged \in BOOLEAN :
              /\ unchanged => group.failed \/ (group.size = group.expected /\ ~group.grown)
              /\ Close([stable |-> unchanged /\ ~group.failed], group.size)
              /\ result'.artifacts = result.artifacts + 1
              /\ result'.bytes = result.bytes + group.size
      BY <1>2 DEF EndRegular
    <2>2. PICK stable : stable = [stable |-> unchanged /\ ~group.failed]
      OBVIOUS
    <2>3. PICK fields : fields = Joined([id |-> result.artifacts, size |-> group.size], stable)
      OBVIOUS
    <2>4. PICK r, w : r = Line("artifact_end", fields) /\ w = After(v, r)
      OBVIOUS
    <2>5. Close(stable, group.size) /\ pc = "capture" /\ group.kind = "regular"
      BY <1>2, <2>1, <2>2 DEF EndRegular
    <2>6. Emit("artifact_end", fields)
      BY <2>3, <2>5 DEF Close
    <2>7. "stable" \in DOMAIN stable /\ (stable["stable"] => unchanged /\ ~group.failed)
      BY <2>2
    <2>8. /\ "id" \in DOMAIN fields /\ fields["id"] = result.artifacts
          /\ "size" \in DOMAIN fields /\ fields["size"] = group.size
          /\ "stable" \in DOMAIN fields /\ fields["stable"] = stable["stable"]
      BY <2>3, <2>7, Zenon DEF Joined
    <2>9. r.id = result.artifacts /\ r.size = group.size /\ r.stable = stable["stable"]
      BY <2>4, <2>8, LineFields
    <2>10. r.stable => group.expected = group.size
      BY <2>1, <2>7, <2>9
    <2> QED
      BY <2>1, <2>4, <2>5, <2>6, <2>9, <2>10, EndAgrees
  <1> QED
    BY <1>1, <1>2

LEMMA ReportAgrees ==
  ASSUME NEW v, Producer, Fits(v), Report
  PROVE  Appended(v)
  <1>1. PICK r, w : r = Line("diagnostic", [severity |-> "error"]) /\ w = After(v, r)
    OBVIOUS
  <1>2. r.type = "diagnostic" /\ r.severity = "error"
    BY <1>1, LineFields
  <1>3. /\ pc = "capture" /\ pc' = pc /\ group = NoGroup /\ command' = command
        /\ UNCHANGED <<diagnostics, entries, ordinal, result, group>>
        /\ reported' = reported + 1 /\ reported \in Nat
        /\ Emit("diagnostic", [severity |-> "error"])
        /\ diagnostics \in [{"error", "warning", "info"} -> Nat]
    BY DEF Report, totals, loop, Producer, ProducerTyped, IInv, CountsOK
  <1>4. v.active = NoArtifact
    BY <1>3, AtCapture DEF NoArtifact, Validator!NoArtifact
  <1>5. At(v)!DiagnosticRules(r)
    BY <1>2, <1>4
    DEF At!DiagnosticRules, At!NoArtifact, At!Severities, NoArtifact, Validator!NoArtifact
  <1>6. w.severities = [diagnostics' EXCEPT !["error"] = @ + reported']
    <2>1. w.severities = [v.severities EXCEPT !["error"] = @ + 1]
      BY <1>1, <1>2 DEF After
    <2>2. v.severities = [diagnostics EXCEPT !["error"] = @ + reported]
      BY <1>3, AtCapture
    <2> QED
      BY <1>3, <2>1, <2>2
  <1>7. /\ w.entries = entries' /\ w.artifacts = result'.artifacts /\ w.sizes = result'.bytes
        /\ w.paths = v.paths /\ w.active = v.active
    BY <1>1, <1>2, <1>3, AtCapture DEF After
  <1>8. w.active = [kind |-> group'.kind, expected |-> group'.expected, size |-> group'.size,
                    chunks |-> group'.chunks, short |-> group'.short]
    BY <1>3, <1>7, AtCapture
  <1>9. \A p \in w.paths : p \in Nat /\ (p < ordinal' \/ (p = ordinal' /\ group' # NoGroup))
    BY <1>3, <1>7, AtCapture
  <1> QED
    BY <1>1, <1>3, <1>5, <1>6, <1>7, <1>8, <1>9, CaptureAppended

LEMMA ThrownAgrees ==
  ASSUME NEW v, Producer, Fits(v), Throw \/ Catch, ~upset, ~upset'
  PROVE  Kept(v) \/ Appended(v)
  <1>1. CASE Throw
    <2>1. /\ pc \in Before /\ pc' = "caught"
          /\ UNCHANGED <<stream, sequence, counts, command, diagnostics, entries, artifacts, bytes, group>>
      BY <1>1 DEF Throw, writer, totals, capture
    <2>2. pc # "header"
      BY <1>1 DEF Throw
    <2>3. Fits(v)'
      <3>1. Ordered(v)'
        BY <2>1 DEF Fits, Ordered, Reached
      <3>2. Counted(v)'
        BY <2>1, <2>2 DEF Fits, Counted
      <3>3. Grouped(v)'
        BY <2>1 DEF Fits, Grouped
      <3> QED
        BY <3>1, <3>2, <3>3 DEF Fits
    <2> QED
      BY <2>1, <2>3 DEF Kept
  <1>2. CASE Catch
    <2>1. diagnostics'["error"] # 0
      <3>1. diagnostics'["error"] = diagnostics["error"] + 1 /\ diagnostics["error"] \in Nat
        BY <1>2 DEF Catch, Diagnose, Producer, IInv, CountsOK
      <3> QED
        BY <3>1
    <2>2. Ordered(v)'
      BY <1>2, <2>1 DEF Catch, Fits, Ordered, Reached
    <2> QED
      BY <1>2, <2>2, DiagnoseAgrees DEF Catch
  <1> QED
    BY <1>1, <1>2

LEMMA FinishAgrees ==
  ASSUME NEW v, Producer, Fits(v), FinishStream, ~upset
  PROVE  Appended(v)
  <1>1. PICK r, w : r = Footer(Success, Totals) /\ w = After(v, r)
    OBVIOUS
  <1>2. /\ r.type = "footer" /\ r.sequence = sequence /\ r.success = Success
        /\ r.counts = counts /\ r.hashed = hashed
        /\ r.entries = entries /\ r.artifacts = artifacts /\ r.bytes = bytes
        /\ r.diagnostics = diagnostics
    BY <1>1, FooterFields DEF Totals
  <1>3. /\ pc = "finish" /\ stream' = Append(stream, r) /\ pc' = "ended"
        /\ hashed = sequence
        /\ UNCHANGED <<trouble, diagnostics>>
    BY <1>1 DEF FinishStream, Finish, history, Producer, Placed
  <1>4. /\ v.line = sequence /\ v.seen = counts /\ v.footer = "none" /\ v.header = command
        /\ v.entries = entries /\ v.severities = diagnostics
        /\ v.artifacts = artifacts /\ v.sizes = bytes
    BY <1>3 DEF Fits, Counted
  <1>5. v.active = NoArtifact
    <2>1. group = NoGroup
      BY <1>3 DEF Producer, Totalled
    <2> QED
      BY <2>1 DEF Fits, Grouped, NoArtifact, Validator!NoArtifact
  <1>6. command \in {"list", "extract"}
    BY DEF Producer, ProducerTyped
  <1>7. At(v)!FooterRules(r)
    BY <1>2, <1>3, <1>4, <1>5
    DEF At!FooterRules, At!NoArtifact, NoArtifact, Validator!NoArtifact, Success
  <1>8. At(v)!Acceptable(r)
    BY <1>2, <1>4, <1>6, <1>7 DEF At!Acceptable
  <1>9. w.footer = (IF Success THEN "true" ELSE "false")
    BY <1>1, <1>2 DEF After
  <1>10. /\ w.active = NoArtifact /\ w.header = command /\ w.modules = v.modules
         /\ w.entries = entries /\ w.artifacts = artifacts /\ w.severities = diagnostics
    BY <1>1, <1>2, <1>4, <1>5 DEF After
  <1>11. Closed(w)'
    <2>1. command = "extract" /\ w.footer = "true" => v.modules = 1
      BY <1>3, <1>9 DEF Success, Fits, Ordered
    <2>2. command = "list" => entries = 0 /\ artifacts = 0
      BY <1>3 DEF Producer, Totalled
    <2>3. diagnostics["error"] = trouble
      BY <1>3 DEF Producer, Exact
    <2> QED
      BY <1>3, <1>9, <1>10, <2>1, <2>2, <2>3 DEF Closed
  <1> QED
    BY <1>1, <1>3, <1>8, <1>11 DEF Appended

LEMMA StepAgrees ==
  ASSUME NEW v, Producer, Fits(v), Next, ~upset', pc' # "ended" \/ finished'
  PROVE  Kept(v) \/ Appended(v)
  <1>1. pc # "ended" /\ ~finished
    BY NextShape
  <1>2. ~upset
    BY DEF Next, Header, BadRoot, List, Discovered, Listed, AllListed, Configure,
           ModuleNotFound, Module, UnknownType, ConfigurationRefused, ConfigurationFound,
           Unmatched, Source, SourcesDone, ConfigEntry, ConfigDone, Traverse, Empty,
           Positioned, Unreadable, TooLong, Remark, Entry, Increment, Capture, Undiscovered,
           Candidates, SkipCandidate, BeginArtifact, BeginRoot, ReadChunk, ReadError, EndWhole,
           EndRegular, Report, Captured, Throw, Catch, FinishStream, SinkFails, Put, Warn,
           Complain, Proceed, Close, history
  <1>3. ~SinkFails
    <2>1. SinkFails => finished' = finished /\ pc' = "ended"
      BY DEF SinkFails, FinishFails, EmitFails
    <2> QED
      BY <1>1, <2>1
  <1>4. CASE Header
    BY <1>4, HeaderAgrees
  <1>5. CASE BadRoot \/ List
    BY <1>2, <1>5, RootAgrees
  <1>6. CASE Configure
    BY <1>2, <1>6, ConfigureAgrees
  <1>7. CASE Traverse
    BY <1>2, <1>7, TraverseAgrees
  <1>8. CASE Capture
    <2>1. CASE Undiscovered \/ Candidates \/ Captured
      BY <1>2, <2>1, AroundCapture
    <2>2. CASE SkipCandidate \/ ReadError
      BY <2>2, SilentCapture
    <2>3. CASE BeginArtifact
      BY <2>3, BeginAgrees
    <2>4. CASE ReadChunk
      BY <2>4, ChunkAgrees
    <2>5. CASE EndWhole \/ EndRegular
      BY <1>2, <2>5, EndsAgree
    <2>6. CASE Report
      BY <2>6, ReportAgrees
    <2>7. ~BeginRoot
      BY DEF BeginRoot
    <2> QED
      BY <1>8, <2>1, <2>2, <2>3, <2>4, <2>5, <2>6, <2>7 DEF Capture
  <1>9. CASE Throw \/ Catch
    BY <1>2, <1>9, ThrownAgrees
  <1>10. CASE FinishStream
    BY <1>2, <1>10, FinishAgrees
  <1> QED
    BY <1>3, <1>4, <1>5, <1>6, <1>7, <1>8, <1>9, <1>10 DEF Next

LEMMA ProduceAccepted ==
  ASSUME Producer, Lines, Numbered, Accepted, Next, UNCHANGED validating
  PROVE  Accepted'
  <1>1. /\ pc # "ended" /\ ~finished
        /\ verdict' = verdict /\ Now' = Now
    BY NextShape DEF validating, Now
  <1>2. SUFFICES ASSUME pc' # "ended" \/ finished', ~upset'
                 PROVE  verdict' # "invalid" /\ Agreed'
    BY DEF Accepted
  <1>3. ~upset
    BY <1>2 DEF Next, Header, BadRoot, List, Discovered, Listed, AllListed, Configure,
           ModuleNotFound, Module, UnknownType, ConfigurationRefused, ConfigurationFound,
           Unmatched, Source, SourcesDone, ConfigEntry, ConfigDone, Traverse, Empty,
           Positioned, Unreadable, TooLong, Remark, Entry, Increment, Capture, Undiscovered,
           Candidates, SkipCandidate, BeginArtifact, BeginRoot, ReadChunk, ReadError, EndWhole,
           EndRegular, Report, Captured, Throw, Catch, FinishStream, SinkFails, Put, Warn,
           Complain, Proceed, Close, history
  <1>4. verdict # "invalid" /\ Agreed
    BY <1>1, <1>3 DEF Accepted
  <1>5. PICK run, last :
            /\ run[0] = Now
            /\ Reads(run, stream)
            /\ last = run[Len(stream)]
            /\ IF pc = "ended" THEN Closed(last) ELSE Fits(last)
    BY <1>4 DEF Agreed
  <1>6. Fits(last)
    BY <1>1, <1>5
  <1>7. Kept(last) \/ Appended(last)
    BY <1>2, <1>6, StepAgrees
  <1>8. CASE Kept(last)
    BY <1>1, <1>4, <1>5, <1>8 DEF Kept, Agreed
  <1>9. CASE Appended(last)
    <2>1. PICK r, w :
              /\ stream' = Append(stream, r)
              /\ At(last)!Acceptable(r)
              /\ w = After(last, r)
              /\ IF pc' = "ended" THEN Closed(w)' ELSE Fits(w)'
      BY <1>9 DEF Appended
    <2>2. /\ Len(stream) \in Nat
          /\ Len(stream') = Len(stream) + 1
          /\ \A i \in 1 .. Len(stream) : stream'[i] = stream[i]
          /\ stream'[Len(stream) + 1] = r
      BY <2>1, AppendLines DEF Lines
    <2> DEFINE longer == [i \in Nat |-> IF i \in 0 .. Len(stream) THEN run[i] ELSE w]
    <2>3. /\ \A i \in 0 .. Len(stream) : longer[i] = run[i]
          /\ longer[Len(stream) + 1] = w
      BY <2>2
    <2> HIDE DEF longer
    <2>4. longer[0] = Now'
      BY <1>1, <1>5, <2>2, <2>3
    <2>5. Reads(longer, stream')
      <3>1. SUFFICES ASSUME NEW i \in 1 .. Len(stream')
                     PROVE  /\ At(longer[i - 1])!Acceptable(stream'[i])
                            /\ longer[i] = After(longer[i - 1], stream'[i])
        BY DEF Reads
      <3>2. CASE i \in 1 .. Len(stream)
        <4>1. longer[i - 1] = run[i - 1] /\ longer[i] = run[i] /\ stream'[i] = stream[i]
          BY <2>2, <2>3, <3>2
        <4>2. At(run[i - 1])!Acceptable(stream[i]) /\ run[i] = After(run[i - 1], stream[i])
          BY <1>5, <3>2 DEF Reads
        <4> QED
          BY <4>1, <4>2
      <3>3. CASE i = Len(stream) + 1
        <4>1. longer[i - 1] = last /\ longer[i] = w /\ stream'[i] = r
          <5>1. i - 1 = Len(stream) /\ Len(stream) \in 0 .. Len(stream)
            BY <2>2, <3>3
          <5> QED
            BY <1>5, <2>2, <2>3, <3>3, <5>1
        <4> QED
          BY <2>1, <4>1
      <3> QED
        BY <2>2, <3>1, <3>2, <3>3
    <2>6. w = longer[Len(stream')]
      BY <2>2, <2>3
    <2> QED
      BY <1>1, <1>4, <2>1, <2>4, <2>5, <2>6 DEF Agreed
  <1> QED
    BY <1>7, <1>8, <1>9

-----------------------------------------------------------------------------
(* The invariant.                                                          *)

LEMMA InitPInv == PipeInit => PInv
  <1> SUFFICES ASSUME PipeInit PROVE PInv
    OBVIOUS
  <1>1. Producer
    BY InitProducer DEF PipeInit
  <1>2. /\ stream = <<>> /\ sequence = 0 /\ counts = [t \in RecordTypes |-> 0]
        /\ pc = "header" /\ diagnostics = [error |-> 0, warning |-> 0, info |-> 0]
        /\ entries = 0 /\ artifacts = 0 /\ bytes = 0 /\ group = NoGroup
        /\ ~finished
    BY <1>1 DEF PipeInit, Init, WriterInit, Producer, Placed
  <1>3. /\ line = 0 /\ phase = 0 /\ header = "" /\ footer = "none"
        /\ seen = [t \in RecordTypes |-> 0]
        /\ modulesSeen = 0 /\ sourcesSeen = 0 /\ configsSeen = 0 /\ entriesSeen = 0
        /\ severities = [s \in {"error", "warning", "info"} |-> 0]
        /\ artifactsSeen = 0 /\ bytesSeen = 0 /\ paths = {} /\ verdict = "none"
        /\ active = [kind |-> "none", expected |-> 0, size |-> 0, chunks |-> 0, short |-> FALSE]
    BY DEF PipeInit, Validator!Init, Validator!Severities, Validator!NoArtifact
  <1>4. line = 0 /\ phase = 0 /\ footer = "none" /\ verdict = "none" /\ sequence = 0
    BY <1>2, <1>3
  <1>5. Len(stream) = 0 /\ stream \in Seq({}) /\ (\E S : stream \in Seq(S))
    BY <1>2
  <1>6. Lines
    <2>1. 1 .. Len(stream) = {}
      BY <1>5
    <2> QED
      BY <1>5, <2>1, Zenon DEF Lines
  <1>7. Numbered
    <2>1. \A i \in 1 .. Len(stream) : FALSE
      BY <1>5
    <2>2. line + Len(stream) = 0
      BY <1>4, <1>5
    <2>3. line \in Nat /\ phase \in 0 .. 5 /\ line <= sequence + 1
      BY <1>4
    <2>4. line + Len(stream) \in sequence .. sequence + 1 /\ line + Len(stream) # sequence + 1
      BY <1>4, <2>2
    <2> QED
      BY <1>4, <2>1, <2>3, <2>4 DEF Numbered
  <1>8. Fits(Now)
    <2>1. Ordered(Now)
      <3>1. /\ Now.modules = 0 /\ Now.sources = 0 /\ Now.configs = 0 /\ Now.phase = 0
        BY <1>3 DEF Now
      <3> QED
        BY <1>2, <3>1 DEF Ordered, Reached
    <2>2. Counted(Now)
      <3>1. severities = diagnostics
        <4>1. \A s \in {"error", "warning", "info"} : diagnostics[s] = 0
          BY <1>2
        <4>2. DOMAIN diagnostics = {"error", "warning", "info"}
          BY <1>2
        <4>3. diagnostics = [s \in {"error", "warning", "info"} |-> 0]
          BY <1>2
        <4> QED
          BY <1>3, <4>3
      <3> QED
        BY <1>2, <1>3, <3>1 DEF Counted, Now
    <2>3. Grouped(Now)
      BY <1>2, <1>3 DEF Grouped, Now
    <2> QED
      BY <2>1, <2>2, <2>3 DEF Fits
  <1>9. Agreed
    <2>1. PICK run, last : run = [i \in {0} |-> Now] /\ last = Now
      OBVIOUS
    <2>2. run[0] = Now /\ last = run[Len(stream)] /\ Reads(run, stream)
      BY <1>5, <2>1 DEF Reads
    <2>3. Fits(last)
      BY <1>8, <2>1
    <2> QED
      BY <1>2, <2>2, <2>3 DEF Agreed
  <1> QED
    BY <1>1, <1>3, <1>6, <1>7, <1>9 DEF PInv, Accepted

\* Where nothing happens, the two stay at one.
LEMMA IdleAccepted ==
  ASSUME Accepted, UNCHANGED pipeVars
  PROVE  Accepted'
  <1>1. /\ UNCHANGED <<stream, producing, pc, finished, upset, verdict>>
        /\ Now' = Now
    BY DEF pipeVars, producing, validating, history, Now
  <1>2. SUFFICES ASSUME (pc # "ended" \/ finished) /\ ~upset
                 PROVE  verdict' # "invalid" /\ Agreed'
    BY <1>1 DEF Accepted
  <1>3. PICK run, last :
            /\ run[0] = Now
            /\ Reads(run, stream)
            /\ last = run[Len(stream)]
            /\ IF pc = "ended" THEN Closed(last) ELSE Fits(last)
    BY <1>2 DEF Accepted, Agreed
  <1>4. IF pc' = "ended" THEN Closed(last)' ELSE Fits(last)'
    BY <1>1, <1>3, IdleFits
  <1> QED
    BY <1>1, <1>2, <1>3, <1>4 DEF Accepted, Agreed

LEMMA StepPInv == PInv /\ [PipeNext]_pipeVars => PInv'
  <1> SUFFICES ASSUME PInv, [PipeNext]_pipeVars PROVE PInv'
    OBVIOUS
  <1>0. Producer /\ Lines /\ Numbered /\ Accepted
    BY DEF PInv
  <1>1. CASE Produce
    BY <1>0, <1>1, NextProducer, ProducePipe, ProduceAccepted DEF Produce, PInv
  <1>2. CASE Validate
    <2>1. UNCHANGED <<torn, producing>>
      BY <1>2 DEF Validate, Validator!Accept, Validator!Refuse, Validator!Oversized,
                  Validator!Conclude, Validator!input
    <2> QED
      BY <1>0, <1>2, <2>1, IdleProducer, ValidatePipe, ValidateAccepted DEF PInv
  <1>3. CASE Unread
    BY <1>0, <1>3, IdleProducer, UnreadPipe, UnreadAccepted DEF Unread, PInv
  <1>4. CASE UNCHANGED pipeVars
    <2>1. UNCHANGED <<stream, torn, producing>>
      BY <1>4 DEF pipeVars
    <2>2. UNCHANGED <<sequence, finished, pc, trouble, line, phase, footer, verdict>>
      BY <1>4 DEF pipeVars, producing, validating, history
    <2>3. Lines' /\ Numbered'
      BY <1>0, <2>1, <2>2 DEF Lines, Numbered
    <2> QED
      BY <1>0, <1>4, <2>1, <2>3, IdleProducer, IdleAccepted DEF PInv
  <1> QED
    BY <1>1, <1>2, <1>3, <1>4 DEF PipeNext

LEMMA PipeInvariance == PipeSpec => []PInv
  BY InitPInv, StepPInv, PTL DEF PipeSpec

-----------------------------------------------------------------------------
(* The theorems.                                                           *)

\* The state of producer, pipe and validator is well formed, and the validator is never
\* further than a footer past the records that were counted.
THEOREM PipeTypes == PipeSpec => []TypeOK
  <1>1. PInv => TypeOK
    <2> SUFFICES ASSUME PInv PROVE TypeOK
      OBVIOUS
    <2>1. /\ pc \in Places /\ sequence \in Nat /\ hashed \in Nat
          /\ hashed = IF finished THEN sequence - 1 ELSE sequence
          /\ reported \in 0 .. result.diagnostics
          /\ returned \in {"nothing", "true", "false", "exception"}
      BY DEF PInv, Producer, IInv, ProducerTyped, Placed
    <2>2. hashed \in 0 .. sequence
      BY <2>1
    <2>3. torn \in BOOLEAN /\ finished \in BOOLEAN
      BY Zenon DEF PInv, Producer, Flags
    <2>4. \A n \in 1 .. Len(stream) : stream[n].type \in RecordTypes \cup {"footer"}
      BY DEF PInv, Lines
    <2>5. line \in 0 .. sequence + 1 /\ phase \in 0 .. 5 /\ verdict \in {"none", "valid", "invalid", "oversize"}
      BY <2>1 DEF PInv, Numbered
    <2> QED
      BY <2>1, <2>2, <2>3, <2>4, <2>5 DEF TypeOK
  <1> QED
    BY <1>1, PipeInvariance, PTL

\* No record that a call of extract_module or list_modules which wrote its footer has
\* written breaks a rule of the validator of tools/getbiblesword_v1.py, unless a file grew
\* while it was read, emit_artifacts threw or the root itself was emitted; what is refused
\* otherwise is a record over the size limit the validator was given.
THEOREM ClosedIsAccepted == PipeSpec => []OnlyUpsetIsInvalid
  <1>1. PInv => OnlyUpsetIsInvalid
    BY DEF PInv, Accepted, OnlyUpsetIsInvalid
  <1> QED
    BY <1>1, PipeInvariance, PTL

\* A stream that the sink cut off, at any line or inside one, is never found valid.
THEOREM CutIsRefused == PipeSpec => []CutStreamIsInvalid
  <1>1. PInv => CutStreamIsInvalid
    BY DEF PInv, Numbered, CutStreamIsInvalid
  <1> QED
    BY <1>1, PipeInvariance, PTL

\* A valid footer that says success means that there was no error at all, and the stream
\* of a call that returned true breaks a rule only by the path of the root itself.
THEOREM SuccessIsTrusted == PipeSpec => []SuccessIsClean
  <1>1. PInv => SuccessIsClean
    <2> SUFFICES ASSUME PInv PROVE SuccessIsClean
      OBVIOUS
    <2>1. verdict = "valid" /\ footer = "true" => trouble = 0
      BY DEF PInv, Numbered
    <2>2. ASSUME returned = "true", ~atRoot PROVE verdict # "invalid"
      <3>1. trouble = 0 /\ finished /\ pc = "ended"
        BY <2>2 DEF PInv, Producer, IInv, ReturnIsTrue, FailureStillCloses, Placed
      <3>2. ~upset
        BY <2>2, <3>1 DEF PInv, Producer, Exact
      <3> QED
        BY <3>1, <3>2 DEF PInv, Accepted
    <2> QED
      BY <2>1, <2>2 DEF SuccessIsClean
  <1> QED
    BY <1>1, PipeInvariance, PTL

\* What the validator has counted under "error" when it finds a closed stream valid is how
\* many errors the producer has met.
THEOREM ErrorsAreAllRecorded == PipeSpec => []ErrorsAreRecorded
  <1>1. PInv => ErrorsAreRecorded
    <2> SUFFICES ASSUME PInv, finished, ~upset, verdict = "valid"
                 PROVE  severities["error"] = trouble
      BY DEF ErrorsAreRecorded
    <2>1. pc = "ended" /\ stream = <<>>
      BY DEF PInv, Producer, Placed, Numbered
    <2>2. Agreed
      BY DEF PInv, Accepted
    <2>3. PICK run, last :
              /\ run[0] = Now
              /\ last = run[Len(stream)]
              /\ Closed(last)
      BY <2>1, <2>2 DEF Agreed
    <2>4. last.severities = severities
      BY <2>1, <2>3 DEF Now
    <2> QED
      BY <2>3, <2>4 DEF Closed
  <1> QED
    BY <1>1, PipeInvariance, PTL

\* What the call returns stays the truth while a consumer reads along.
THEOREM PipedReturnsTruthfully == PipeSpec => []ReturnIsTrue
  <1>1. PInv => ReturnIsTrue
    BY DEF PInv, Producer, IInv
  <1> QED
    BY <1>1, PipeInvariance, PTL

\* A call that returns has closed its stream, whoever reads it meanwhile.
THEOREM PipedReturnsClosed == PipeSpec => []FailureStillCloses
  <1>1. PInv => FailureStillCloses
    BY DEF PInv, Producer, IInv
  <1> QED
    BY <1>1, PipeInvariance, PTL
==============================================================================

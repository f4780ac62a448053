---------------------------- MODULE EntryTraversal ----------------------------
(***************************************************************************)
(* emit_entries: one traversal of a module, from its first key to an answer. *)
(* The engine is external and chosen at the start: where its key goes, which *)
(* keys look alike, what it declares and what its texts are.  Every record    *)
(* emitted is kept, as the byte values a consumer gets.                      *)
(***************************************************************************)
EXTENDS EntryText, TLC

CONSTANTS
    Position,       \* where the engine's key can be
    MaxEntries      \* bound: entries emitted

ASSUME PositionAssumption == {"none", "end", "error"} \cap Position = {}
ASSUME BoundAssumption == MaxEntries \in Nat

\* What a key shows, and what an entry is: its bytes, whether they or their
\* UTF-8 form are more than an int can count, and what the engine makes of them.
Look == [key : Bytes, index : Int]
Text == [raw : Bytes, size : {"short", "swelling", "long"}, stripped : Bytes,
         scsu : OptionalBytes]

Engine == [first : Position \cup {"none"},
           next : [Position -> Position \cup {"end", "error"}],
           look : [Position -> Look],
           text : [Position -> Text],
           unreadable : SUBSET Position,
           dictionary : BOOLEAN, count : Int,
           encoding : Encodings]

VARIABLES
    engine,         \* the SWORD module; nothing changes it
    pc,
    at,             \* the engine's key
    previous,       \* previous_key and previous_index
    entry_count,
    normalized, normalized_stripped,
    said,           \* diagnostics of the entry under way
    records,        \* what the writer was given
    returned

locals == <<at, previous, normalized, normalized_stripped>>
vars == <<engine, pc, locals, entry_count, said, records, returned>>

Unseen == [key |-> <<>>, index |-> -1]      \* an index no key has

Start ==
    /\ pc = "top"
    /\ at = "none"
    /\ previous = Unseen
    /\ entry_count = 0
    /\ normalized = None /\ normalized_stripped = None
    /\ said = 0
    /\ records = <<>>
    /\ returned = "nothing"

Init == engine \in Engine /\ Start

-----------------------------------------------------------------------------
\* A dictionary's own count ends its traversal, if it has one.
dictionary_entry_limit ==
    IF engine.dictionary /\ engine.count >= 0 THEN Some(engine.count) ELSE None

\* What tells a key from another.
Seen(position) == engine.look[position]

text == engine.text[at]

Null == [null |-> TRUE]
Nullable(optional) == IF optional.has THEN byte_value_json(optional.value) ELSE Null

Diagnose(severity, code) ==
    records' = Append(records, [type |-> "diagnostic", severity |-> severity, code |-> code])

Return(answer) == pc' = "returned" /\ returned' = answer

-----------------------------------------------------------------------------
\* setPosition(TOP) and its error.
Top ==
    /\ pc = "top"
    /\ IF engine.first = "none"
       THEN Diagnose("warning", "module.empty") /\ Return("true") /\ UNCHANGED at
       ELSE at' = engine.first /\ pc' = "read" /\ UNCHANGED <<records, returned>>
    /\ UNCHANGED <<engine, previous, normalized, normalized_stripped, entry_count, said>>

\* Mutant: only the second entry can stall.
StalledSecond == ~dictionary_entry_limit.has /\ entry_count = 1 /\ Seen(at) = previous

\* Mutant: dictionaries are not exempt.
StalledAnywhere == entry_count # 0 /\ Seen(at) = previous

Stalled == ~dictionary_entry_limit.has /\ entry_count # 0 /\ Seen(at) = previous

\* The head of the loop: the key, and the raw entry.
Read ==
    /\ pc = "read"
    /\ previous' = Seen(at)
    /\ CASE Stalled ->
              Diagnose("error", "module.navigation.stalled") /\ Return("false")
         [] ~Stalled /\ at \in engine.unreadable ->
              Diagnose("error", "entry.read.failed") /\ Return("false")
         [] ~Stalled /\ at \notin engine.unreadable ->
              pc' = "length" /\ UNCHANGED <<records, returned>>
    /\ UNCHANGED <<engine, at, normalized, normalized_stripped, entry_count, said>>

\* Mutant: an entry too long to render is skipped.
LengthSkips ==
    /\ pc = "length"
    /\ IF text.size = "long"
       THEN /\ Diagnose("error", "entry.length.unsupported")
            /\ said' = said + 1
            /\ pc' = "advance"
       ELSE pc' = "normalize" /\ UNCHANGED <<records, said>>
    /\ UNCHANGED <<engine, locals, entry_count, returned>>

\* sword_length of the raw entry.
Length ==
    /\ pc = "length"
    /\ IF text.size = "long"
       THEN Diagnose("error", "entry.length.unsupported") /\ said' = said + 1
       ELSE UNCHANGED <<records, said>>
    /\ pc' = "normalize"
    /\ UNCHANGED <<engine, locals, entry_count, returned>>

\* The UTF-8 form of a text, if it has one.
Normalized(source) ==
    source_utf8(source.raw, source.size = "long", engine.encoding, source.scsu)

Normalize ==
    /\ pc = "normalize"
    /\ normalized' = Normalized(text)
    /\ IF normalized'.has THEN UNCHANGED <<records, said>>
       ELSE Diagnose("warning", "entry.encoding.unavailable") /\ said' = said + 1
    /\ pc' = "strip"
    /\ UNCHANGED <<engine, at, previous, normalized_stripped, entry_count, returned>>

\* Is the UTF-8 form too long?  Other sources may swell when they become UTF-8.
NormalizedTooLong == text.size = (IF engine.encoding = "utf-8" THEN "long" ELSE "swelling")

\* Mutant: what is not there has a NUL as well.
StripDefectOtherwise ==
    IF normalized.has /\ ~Contains(normalized.value, 0)
    THEN IF NormalizedTooLong THEN "entry.length.unsupported"
         ELSE IF ~is_valid_utf8(text.stripped) THEN "entry.normalized_stripped.invalid_utf8"
         ELSE "none"
    ELSE "entry.encoding.embedded_nul"

\* Why there is no normalized_stripped, if there is none.
StripDefect ==
    CASE ~normalized.has -> "none"
      [] normalized.has /\ Contains(normalized.value, 0) -> "entry.encoding.embedded_nul"
      [] normalized.has /\ ~Contains(normalized.value, 0) ->
             IF NormalizedTooLong THEN "entry.length.unsupported"
             ELSE IF ~is_valid_utf8(text.stripped) THEN "entry.normalized_stripped.invalid_utf8"
             ELSE "none"

\* stripText of the UTF-8 form.
Strip ==
    /\ pc = "strip"
    /\ normalized_stripped' =
           IF normalized.has /\ StripDefect = "none" THEN Some(text.stripped) ELSE None
    /\ IF StripDefect = "none" THEN UNCHANGED <<records, said>>
       ELSE /\ Diagnose(IF StripDefect = "entry.length.unsupported" THEN "error" ELSE "warning",
                        StripDefect)
            /\ said' = said + 1
    /\ pc' = "emit"
    /\ UNCHANGED <<engine, at, previous, normalized, entry_count, returned>>

projections_available == text.size # "long"

Emit ==
    /\ pc = "emit" /\ entry_count < MaxEntries
    /\ records' = Append(records,
           [type |-> "entry", ordinal |-> entry_count,
            annotation_segments |-> annotation_segments_json(text.raw),
            key |-> byte_value_json(engine.look[at].key),
            normalized_raw |-> Nullable(normalized),
            normalized_stripped |-> Nullable(normalized_stripped),
            projections_available |-> projections_available,
            raw |-> byte_value_json(text.raw),
            rendered_default |-> Nullable(IF projections_available THEN Some(text.raw) ELSE None),
            stripped |-> Nullable(IF projections_available THEN Some(text.stripped) ELSE None)])
    /\ entry_count' = entry_count + 1
    /\ said' = 0
    /\ pc' = "advance"
    /\ UNCHANGED <<engine, locals, returned>>

\* The declared number is reached; else increment(), and what it answers.
Enough == dictionary_entry_limit.has /\ entry_count >= dictionary_entry_limit.value

\* Mutant: the end of a dictionary is the end, whatever it declared.
AdvanceUncounted ==
    /\ pc = "advance"
    /\ LET next == engine.next[at]
       IN  \/ /\ Enough \/ next = "end"
              /\ Return("true") /\ UNCHANGED <<at, records>>
           \/ /\ ~Enough /\ next \in Position
              /\ at' = next /\ pc' = "read" /\ UNCHANGED <<records, returned>>
           \/ /\ ~Enough /\ next = "error"
              /\ Diagnose("error", "module.navigation.failed")
              /\ Return("false") /\ UNCHANGED at
    /\ UNCHANGED <<engine, previous, normalized, normalized_stripped, entry_count, said>>

Advance ==
    /\ pc = "advance"
    /\ LET next == engine.next[at]
       IN  \/ /\ Enough
              /\ Return("true") /\ UNCHANGED <<at, records>>
           \/ /\ ~Enough /\ next \in Position
              /\ at' = next /\ pc' = "read" /\ UNCHANGED <<records, returned>>
           \/ /\ ~Enough /\ next = "end" /\ dictionary_entry_limit.has
              /\ Diagnose("error", "module.entry_count.mismatch")
              /\ Return("false") /\ UNCHANGED at
           \/ /\ ~Enough /\ next = "end" /\ ~dictionary_entry_limit.has
              /\ Return("true") /\ UNCHANGED <<at, records>>
           \/ /\ ~Enough /\ next = "error"
              /\ Diagnose("error", "module.navigation.failed")
              /\ Return("false") /\ UNCHANGED at
    /\ UNCHANGED <<engine, previous, normalized, normalized_stripped, entry_count, said>>

Next == Top \/ Read \/ Length \/ Normalize \/ Strip \/ Emit \/ Advance

Spec == Init /\ [][Next]_vars /\ WF_vars(Next)

-----------------------------------------------------------------------------
(* What class Validator asks of an entry, besides its place in the stream.  *)

DecodesToUtf8(json) == /\ decode_byte_value(json).has
                       /\ decodes_strictly(decode_byte_value(json).value)

Accepts(entry) ==
    /\ decode_byte_value(entry.key).has /\ decode_byte_value(entry.raw).has
    /\ \A json \in {entry.normalized_raw, entry.normalized_stripped} \ {Null} : DecodesToUtf8(json)
    /\ entry.normalized_raw = Null => entry.normalized_stripped = Null
    /\ \A json \in {entry.rendered_default, entry.stripped} :
           IF entry.projections_available THEN decode_byte_value(json).has ELSE json = Null
    /\ \A i \in DOMAIN entry.annotation_segments :
           LET segment == entry.annotation_segments[i]
           IN  /\ segment.kind \in {"text", "markup", "entity"}
               /\ (segment.kind = "text") = (segment.interpretation = "not_applicable")
               /\ decode_byte_value(segment.raw).has
    /\ decode_byte_value(entry.raw).value =
           FlattenSeq([i \in DOMAIN entry.annotation_segments |->
                           decode_byte_value(entry.annotation_segments[i].raw).value])

-----------------------------------------------------------------------------
(* Properties.                                                             *)

\* The records of a type, and the diagnostics of a severity, by their places.
Places(type) == {n \in DOMAIN records : records[n].type = type}
Said(severity) == {n \in Places("diagnostic") : records[n].severity = severity}

\* The positions of the engine's own walk; an end stays an end.
Walk[i \in 1 .. MaxEntries + 2] ==
    IF i = 1 THEN engine.first
    ELSE LET before == Walk[i - 1]
         IN  IF before \in Position THEN engine.next[before] ELSE before

\* The traversal is where its control says, and one entry at most is under way.
TypeOK ==
    /\ engine \in Engine
    /\ pc \in {"top", "read", "length", "normalize", "strip", "emit", "advance", "returned"}
    /\ at \in Position \cup {"none"}
    /\ at = "none" => pc = "top" \/ engine.first = "none"
    /\ entry_count \in 0 .. MaxEntries
    /\ said \in 0 .. 2
    /\ pc \in {"top", "read", "length", "advance"} => said = 0
    /\ returned \in {"nothing", "true", "false"}
    /\ (pc = "returned") = (returned # "nothing")

\* Every key of the walk gives one entry, in the order of the walk, with its
\* own bytes and the next ordinal: nothing is skipped, doubled or mixed up,
\* however the engine's keys repeat or its texts fail to decode.
EntriesFollowWalk ==
    /\ entry_count = Cardinality(Places("entry"))
    /\ \A n \in Places("entry") :
           LET entry == records[n]
               position == Walk[entry.ordinal + 1]
               source == engine.text[position]
           IN  /\ entry.ordinal = Cardinality({m \in Places("entry") : m < n})
               /\ position \in Position
               /\ entry.key = byte_value_json(Seen(position).key)
               /\ entry.raw = byte_value_json(source.raw)
               /\ entry.normalized_raw = Nullable(Normalized(source))
    /\ pc \in {"read", "length", "normalize", "strip", "emit"} => at = Walk[entry_count + 1]

\* A traversal that answers true has either come to the end of the walk or
\* emitted what the dictionary declared (and one entry if it declared none);
\* one that answers false has just said why.
CompleteOrDiagnosed ==
    /\ returned = "true" =>
           \/ engine.first = "none"
           \/ /\ ~dictionary_entry_limit.has
              /\ Walk[entry_count + 1] = "end"
           \/ /\ dictionary_entry_limit.has
              /\ entry_count = Max({1, dictionary_entry_limit.value})
    /\ returned = "false" => /\ Last(records).type = "diagnostic"
                             /\ Last(records).severity = "error"

\* A dictionary that declares a count may have any number of records with one
\* key and index: as long as they can be read, all of them are emitted and the
\* traversal succeeds.  Anything else ends at the second of two keys that look alike.
DuplicatesAreKept ==
    pc = "returned" =>
        IF dictionary_entry_limit.has
        THEN (\A i \in 1 .. Max({1, dictionary_entry_limit.value}) :
                  Walk[i] \in Position \ engine.unreadable) => returned = "true"
        ELSE \A i \in 2 .. entry_count : Seen(Walk[i]) # Seen(Walk[i - 1])

\* The entry is one the independent validator accepts, whatever the engine's
\* bytes are; it gives these bytes back, and what is UTF-8 as text.
EntryIsAccepted ==
    \A n \in Places("entry") :
        LET entry == records[n]
            position == Walk[entry.ordinal + 1]
        IN  /\ Accepts(entry)
            /\ decode_byte_value(entry.key) = Some(Seen(position).key)
            /\ decode_byte_value(entry.raw) = Some(engine.text[position].raw)
            /\ entry.raw.utf8.has = decodes_strictly(engine.text[position].raw)

\* Without a limit, and for ever from one readable key to another that looks different.
Circles ==
    /\ ~dictionary_entry_limit.has
    /\ \A i \in 1 .. MaxEntries + 1 : Walk[i] \in Position \ engine.unreadable
    /\ \A i \in 1 .. MaxEntries : Seen(Walk[i]) # Seen(Walk[i + 1])

\* The traversal comes to an answer, unless the engine's keys go round through
\* more than one that look different, which nothing notices.
Returns == Circles \/ <>(pc = "returned")

-----------------------------------------------------------------------------
(* The traversal that Extraction leaves open.                              *)

\* Where Extraction is in its traversal; within an entry that is what has been said of it.
Place ==
    CASE pc = "returned" -> "discover"
      [] pc \in {"top", "read", "advance"} -> pc
      [] said = 0 /\ pc \notin {"top", "read", "advance", "returned"} -> "read"
      [] said = 1 /\ pc # "returned" /\ text.size = "long" -> "project"
      [] OTHER -> "projected"

\* What the consumer of Extraction gets of a record, what has been diagnosed, and the
\* writer's counts.
Line(i) ==
    IF records[i].type = "entry"
    THEN [type |-> "entry", sequence |-> i - 1, ordinal |-> records[i].ordinal]
    ELSE [type |-> "diagnostic", sequence |-> i - 1, severity |-> records[i].severity]
Lines == [i \in DOMAIN records |-> Line(i)]
Diagnosed == [error |-> Cardinality(Said("error")), warning |-> Cardinality(Said("warning")),
              info |-> 0]
RecordTypes == {"header", "module", "config_source", "config_entry", "entry",
                "artifact_begin", "artifact_chunk", "artifact_end", "diagnostic"}
Counted == [t \in RecordTypes |-> Cardinality(Places(t))]

E == INSTANCE Extraction WITH
    ChunkBlocks <- 1, FilesGrow <- FALSE, CaptureThrows <- FALSE,
    MaxModules <- 0, MaxSources <- 0, MaxConfig <- 0, MaxEntries <- MaxEntries + 1,
    MaxCandidates <- 0, MaxBlocks <- 0, MaxTrouble <- 2 * MaxEntries + 3,
    command <- "extract",
    pc <- Place, diagnostics <- Diagnosed,
    entries <- entry_count, artifacts <- 0, bytes <- 0, ordinal <- 0, limit <- 0,
    group <- [kind |-> "none", expected |-> 0, size |-> 0, chunks |-> 0,
              short |-> FALSE, grown |-> FALSE, failed |-> FALSE],
    result <- [artifacts |-> 0, bytes |-> 0, diagnostics |-> 0],
    reported <- 0, returned <- "nothing",
    trouble <- Diagnosed.error, upset <- FALSE, atRoot <- FALSE,
    stream <- Lines, torn <- FALSE, sequence <- Len(records), hashed <- Len(records),
    finished <- FALSE, counts <- Counted

\* Every step is one the extraction may take in its traversal, with the same
\* record, count and place, or none that shows.
ImplementsTraverse == [][E!Traverse]_(E!vars)
=============================================================================

------------------------------ MODULE EntryText ------------------------------
(***************************************************************************)
(* The pure functions an entry's bytes go through: UTF-8 validation, base64, *)
(* JSON escapes, annotation segments and source encodings, and what the      *)
(* validator's Python makes of their results.  A byte is a number, a text a  *)
(* sequence of them.  A base64 digit is its place in the alphabet, and a     *)
(* SHA-256 is represented by the bytes it is the digest of.                  *)
(***************************************************************************)
EXTENDS Integers, SequencesExt

Byte == 0 .. 255
Bytes == Seq(Byte)

\* std::optional
Some(x) == [has |-> TRUE, value |-> x]
None == [has |-> FALSE]
OptionalBytes == [has : {TRUE}, value : Bytes] \cup {None}

Quote == 34
Ampersand == 38
Apostrophe == 39
Semicolon == 59
Less == 60
Greater == 62
Backslash == 92
Blanks == {9, 10, 13, 32}

-----------------------------------------------------------------------------
(* byte_value.cpp: is_valid_utf8.                                          *)

\* What a lead byte announces: how many bytes continue it, the bits it
\* carries, and the least code point that needs so many.
Lead(byte) ==
    CASE byte < 128        -> [more |-> 0, bits |-> byte,      minimum |-> 0]
      [] byte \div 32 = 6  -> [more |-> 1, bits |-> byte % 32, minimum |-> 128]
      [] byte \div 16 = 14 -> [more |-> 2, bits |-> byte % 16, minimum |-> 2048]
      [] byte \div 8 = 30  -> [more |-> 3, bits |-> byte % 8,  minimum |-> 65536]
      [] OTHER             -> [more |-> 0, bits |-> -1,        minimum |-> 0]

CodePoint(bytes, i) ==
    FoldLeft(LAMBDA high, byte : high * 64 + (byte % 64), Lead(bytes[i]).bits,
             SubSeq(bytes, i + 1, i + Lead(bytes[i]).more))

\* Mutant: surrogates pass.
utf8_with_surrogates(bytes) ==
    LET valid[i \in 1 .. Len(bytes) + 1] ==
            \/ i > Len(bytes)
            \/ LET last == i + Lead(bytes[i]).more
               IN  /\ last <= Len(bytes)
                   /\ \A j \in i + 1 .. last : bytes[j] \div 64 = 2
                   /\ CodePoint(bytes, i) \in Lead(bytes[i]).minimum .. 1114111
                   /\ valid[last + 1]
    IN  valid[1]

is_valid_utf8(bytes) ==
    LET valid[i \in 1 .. Len(bytes) + 1] ==
            \/ i > Len(bytes)
            \/ LET last == i + Lead(bytes[i]).more
               IN  /\ last <= Len(bytes)
                   /\ \A j \in i + 1 .. last : bytes[j] \div 64 = 2
                   /\ CodePoint(bytes, i) \in Lead(bytes[i]).minimum .. 1114111
                   /\ CodePoint(bytes, i) \notin 55296 .. 57343
                   /\ valid[last + 1]
    IN  valid[1]

\* Python's strict decoder, by the table of RFC 3629.
Continuation == 128 .. 191
WellFormed ==
    {<<0 .. 127>>, <<194 .. 223, Continuation>>,
     <<{224}, 160 .. 191, Continuation>>, <<225 .. 236, Continuation, Continuation>>,
     <<{237}, 128 .. 159, Continuation>>, <<238 .. 239, Continuation, Continuation>>,
     <<{240}, 144 .. 191, Continuation, Continuation>>,
     <<241 .. 243, Continuation, Continuation, Continuation>>,
     <<{244}, 128 .. 143, Continuation, Continuation>>}

decodes_strictly(bytes) ==
    LET decodes[i \in 1 .. Len(bytes) + 1] ==
            \/ i > Len(bytes)
            \/ \E form \in WellFormed :
                   /\ i + Len(form) <= Len(bytes) + 1
                   /\ \A k \in DOMAIN form : bytes[i + k - 1] \in form[k]
                   /\ decodes[i + Len(form)]
    IN  decodes[1]

-----------------------------------------------------------------------------
(* json_escape, and a JSON parser's reading of a string.                   *)

Short == [byte \in {34, 92, 8, 12, 10, 13, 9} |->
              CASE byte = 8 -> 98 [] byte = 12 -> 102 [] byte = 10 -> 110
                [] byte = 13 -> 114 [] byte = 9 -> 116 [] OTHER -> byte]

Hex(digit) == IF digit < 10 THEN 48 + digit ELSE 87 + digit

json_escape(utf8) ==
    FlattenSeq([i \in DOMAIN utf8 |->
        CASE utf8[i] \in DOMAIN Short -> <<Backslash, Short[utf8[i]]>>
          [] utf8[i] \in 0 .. 31 \ DOMAIN Short ->
                 <<Backslash, 117, 48, 48, Hex(utf8[i] \div 16), Hex(utf8[i] % 16)>>
          [] OTHER -> <<utf8[i]>>])

\* What a byte's escape may look like; only the first 32 and the quote and
\* the backslash need one.
Escapes == [byte \in 0 .. 31 \cup DOMAIN Short |->
                {<<Backslash, 117, 48, 48, Hex(byte \div 16), Hex(byte % 16)>>}
                    \cup (IF byte \in DOMAIN Short THEN {<<Backslash, Short[byte]>>} ELSE {})]

json_unescape(text) ==
    LET parse[i \in 1 .. Len(text) + 1] ==
            IF i > Len(text) THEN Some(<<>>)
            ELSE LET tail == SubSeq(text, i, Len(text))
                     escaped == {byte \in DOMAIN Escapes :
                                     \E e \in Escapes[byte] : IsPrefix(e, tail)}
                     width == IF text[i] # Backslash THEN 1 ELSE IF text[i + 1] = 117 THEN 6 ELSE 2
                     byte == IF text[i] = Backslash THEN CHOOSE b \in escaped : TRUE ELSE text[i]
                     rest == parse[i + width]
                 IN  IF \/ text[i] \in DOMAIN Escapes \ {Backslash}
                        \/ text[i] = Backslash /\ escaped = {}
                        \/ ~rest.has
                     THEN None ELSE Some(<<byte>> \o rest.value)
    IN  parse[1]

-----------------------------------------------------------------------------
(* base64_encode, and Python's b64decode with its canonical form.          *)

Pad == 64

base64_encode(input) ==
    LET At(i) == IF i <= Len(input) THEN input[i] ELSE 0
        \* the group of three bytes after the first i, in four digits
        Group(i) ==
            LET value == At(i + 1) * 65536 + At(i + 2) * 256 + At(i + 3)
                digits == <<value \div 262144, (value \div 4096) % 64,
                            (value \div 64) % 64, value % 64>>
            IN  [d \in 1 .. 4 |-> IF d <= Len(input) - i + 1 THEN digits[d] ELSE Pad]
    IN  FlattenSeq([g \in 1 .. (Len(input) + 2) \div 3 |-> Group(3 * (g - 1))])

base64_decode(digits) ==
    LET used == SelectSeq(digits, LAMBDA d : d # Pad)
        pads == Len(digits) - Len(used)
        Octet(j) == LET q == (8 * j) \div 6 + 1
                        r == (8 * j) % 6
                    IN  (used[q] % 2^(6 - r)) * 2^(r + 2) + used[q + 1] \div 2^(4 - r)
    IN  IF /\ Len(digits) % 4 = 0 /\ pads \in 0 .. 2
           /\ IsPrefix(used, digits)
           /\ used # <<>> => used[Len(used)] % 4^pads = 0
        THEN Some([j \in 1 .. (6 * Len(used)) \div 8 |-> Octet(j - 1)]) ELSE None

-----------------------------------------------------------------------------
(* byte_value_json and decode_byte_value.                                  *)

byte_value_json(bytes) ==
    [base64 |-> base64_encode(bytes), sha256 |-> bytes, size |-> Len(bytes),
     utf8 |-> IF is_valid_utf8(bytes) THEN Some(json_escape(bytes)) ELSE None]

decode_byte_value(json) ==
    LET decoded == base64_decode(json.base64)
    IN  IF /\ decoded.has
           /\ json.size = Len(decoded.value) /\ json.sha256 = decoded.value
           /\ json.utf8.has => /\ decodes_strictly(decoded.value)
                               /\ json_unescape(json.utf8.value) = decoded
        THEN decoded ELSE None

-----------------------------------------------------------------------------
(* annotation.cpp.  A place is an index; an end is the place after.        *)

markup_end(raw, begin) ==
    LET scan[i \in begin + 1 .. Len(raw) + 1, quote \in {0, Quote, Apostrophe}] ==
            IF i > Len(raw) THEN begin + 1
            ELSE CASE quote # 0 -> scan[i + 1, IF raw[i] = quote THEN 0 ELSE quote]
                   [] quote = 0 /\ raw[i] \in {Quote, Apostrophe} -> scan[i + 1, raw[i]]
                   [] quote = 0 /\ raw[i] = Greater -> i + 1
                   [] OTHER -> scan[i + 1, 0]
    IN  scan[begin + 1, 0]

\* The first of some bytes after a place, or the end of the text.
FirstAfter(raw, begin, bytes) ==
    LET found == {i \in begin + 1 .. Len(raw) : raw[i] \in bytes}
    IN  Min(found \cup {Len(raw) + 1})

entity_end(raw, begin) ==
    LET stop == FirstAfter(raw, begin, {Semicolon, Less, Ampersand} \cup Blanks)
    IN  IF stop <= Len(raw) /\ raw[stop] = Semicolon THEN stop + 1 ELSE begin + 1

\* The segment that begins at a place.
SegmentAt(raw, i) ==
    CASE raw[i] = Less -> [kind |-> "markup", end |-> markup_end(raw, i)]
      [] raw[i] = Ampersand /\ entity_end(raw, i) > i + 1 ->
             [kind |-> "entity", end |-> entity_end(raw, i)]
      [] OTHER -> [kind |-> "text", end |-> FirstAfter(raw, i, {Less, Ampersand})]

segment_annotations(raw) ==
    LET from[i \in 1 .. Len(raw) + 1] ==
            IF i > Len(raw) THEN <<>>
            ELSE LET segment == SegmentAt(raw, i)
                 IN  <<[kind |-> segment.kind, raw |-> SubSeq(raw, i, segment.end - 1)]>>
                         \o from[segment.end]
    IN  from[1]

annotation_segments_json(raw) ==
    LET segments == segment_annotations(raw)
        json == [s \in Range(segments) |->
                    [interpretation |-> IF s.kind = "text" THEN "not_applicable" ELSE "uninterpreted",
                     kind |-> s.kind, raw |-> byte_value_json(s.raw)]]
    IN  [i \in DOMAIN segments |-> json[segments[i]]]

-----------------------------------------------------------------------------
(* source_encoding.cpp.                                                    *)

UnknownEncoding == "windows-1252"
Encodings == {"", "latin-1", "scsu", "utf-16", "utf-8", UnknownEncoding}

\* The code point's bytes.
Utf8Of(point) ==
    CASE point < 128             -> <<point>>
      [] point \in 128 .. 2047   -> <<192 + point \div 64, 128 + (point % 64)>>
      [] point \in 2048 .. 65535 -> <<224 + point \div 4096, 128 + ((point \div 64) % 64),
                                      128 + (point % 64)>>
      [] OTHER -> <<240 + point \div 262144, 128 + ((point \div 4096) % 64),
                    128 + ((point \div 64) % 64), 128 + (point % 64)>>

\* ICU's UTF-16 converters, told to stop at what is no text: half a unit,
\* half a surrogate pair.
Utf16ToUtf8(bytes, little) ==
    LET units == Len(bytes) \div 2
        Unit(i) == IF little THEN bytes[2 * i - 1] + 256 * bytes[2 * i]
                             ELSE 256 * bytes[2 * i - 1] + bytes[2 * i]
        High(i) == i <= units /\ Unit(i) \in 55296 .. 56319
        Low(i) == i <= units /\ Unit(i) \in 56320 .. 57343
        from[i \in 1 .. units + 1] ==
            LET width == IF High(i) THEN 2 ELSE 1
                point == IF High(i) THEN 65536 + (Unit(i) - 55296) * 1024 + Unit(i + 1) - 56320
                                    ELSE Unit(i)
                rest == from[i + width]
            IN  IF i > units THEN Some(<<>>)
                ELSE IF Low(i) \/ (High(i) /\ ~Low(i + 1)) \/ ~rest.has
                THEN None ELSE Some(Utf8Of(point) \o rest.value)
    IN  IF Len(bytes) % 2 = 0 THEN from[1] ELSE None

LittleMark == <<255, 254>>
BigMark == <<254, 255>>

\* ICU: the converter of a name, stopped at what it cannot decode.  What it
\* makes of SCSU is given with the text.
ToUtf8(converter, raw, scsu) ==
    CASE converter = "ISO-8859-1" -> Some(FlattenSeq([i \in DOMAIN raw |-> Utf8Of(raw[i])]))
      [] converter = "SCSU"       -> scsu
      [] converter = "UTF-16LE"   -> Utf16ToUtf8(raw, TRUE)
      [] converter = "UTF-16"     -> Utf16ToUtf8(SubSeq(raw, 3, Len(raw)), IsPrefix(LittleMark, raw))

\* The converter of an encoding that needs one.
Converter(raw, encoding) ==
    CASE encoding \in {"", "latin-1"} -> "ISO-8859-1"
      [] encoding = "scsu"            -> "SCSU"
      [] encoding = "utf-16"          ->
             IF IsPrefix(LittleMark, raw) \/ IsPrefix(BigMark, raw) THEN "UTF-16" ELSE "UTF-16LE"

\* `long` says that the text has more bytes than an int can count.
source_utf8(raw, long, encoding, scsu) ==
    CASE encoding = "utf-8" -> IF is_valid_utf8(raw) THEN Some(raw) ELSE None
      [] encoding = UnknownEncoding -> None
      [] encoding \notin {"utf-8", UnknownEncoding} ->
             IF raw = <<>> THEN Some(<<>>)
             ELSE IF long THEN None
             ELSE ToUtf8(Converter(raw, encoding), raw, scsu)
=============================================================================

------------------------- MODULE EntryTraversal_proofs -------------------------
(***************************************************************************)
(* What a traversal guarantees for every engine: any set of places for its    *)
(* key, any walk over them, any texts, and any number of entries; and that it  *)
(* is a traversal of Extraction.                                            *)
(***************************************************************************)
EXTENDS EntryTraversal, WellFoundedInduction, FiniteSetTheorems, SequenceTheorems, TLAPS

-----------------------------------------------------------------------------
(* The inductive invariants.                                               *)

\* Where an entry is under way.
Inner == {"length", "normalize", "strip", "emit"}

Long == text.size = "long"

\* What every variable may be, and how often the entry under way has been spoken of.
Typed ==
    /\ TypeOK
    /\ \E S : records \in Seq(S)
    /\ pc \in Inner \cup {"read", "advance"} => at \in Position
    /\ pc = "returned" => at \in Position \/ engine.first = "none"
    /\ pc \in {"top", "read", "length", "advance", "returned"} => said = 0
    /\ pc = "normalize" => said = (IF Long THEN 1 ELSE 0)
    /\ pc = "strip" => said = (IF Long THEN 1 ELSE 0) + (IF normalized.has THEN 0 ELSE 1)
    /\ pc = "emit" => (Long => said >= 1)
    /\ pc = "top" => entry_count = 0
    /\ pc = "advance" => entry_count >= 1

\* The key is where the walk is.
Walked ==
    /\ pc \in Inner \cup {"read"} => at = Walk[entry_count + 1]
    /\ pc = "advance" => at = Walk[entry_count]
    /\ \A i \in 1 .. entry_count : Walk[i] \in Position

Limited == engine.dictionary /\ engine.count >= 0

\* Of what has been emitted, only a dictionary's entries look alike; and it has not
\* had more of them than it declared.
Compared ==
    /\ ~Limited => \A i \in 2 .. entry_count : Seen(Walk[i]) # Seen(Walk[i - 1])
    /\ pc \in {"read", "advance"} /\ entry_count >= 1 => previous = Seen(Walk[entry_count])
    /\ pc \in Inner =>
           /\ previous = Seen(at)
           /\ ~Limited /\ entry_count >= 1 => Seen(at) # Seen(Walk[entry_count])
    /\ Limited /\ pc \in Inner \cup {"read"} => entry_count = 0 \/ entry_count < engine.count
    /\ Limited /\ pc = "advance" => entry_count = 1 \/ entry_count <= engine.count

\* An answer is right; and a dictionary gets a bad one only for an entry it lacks.
Answered ==
    /\ CompleteOrDiagnosed
    /\ returned = "false" /\ Limited =>
           \E i \in 1 .. entry_count + 1 :
               /\ i = 1 \/ i <= engine.count
               /\ Walk[i] \notin Position \ engine.unreadable

\* An entry holds what the engine shows at its place in the walk.
Own(entry) ==
    LET position == Walk[entry.ordinal + 1]
        source == engine.text[position]
    IN  /\ position \in Position
        /\ entry.key = byte_value_json(Seen(position).key)
        /\ entry.raw = byte_value_json(source.raw)
        /\ entry.normalized_raw = Nullable(Normalized(source))

\* The entries emitted are those of the walk so far, and the one under way is next.
Followed ==
    /\ entry_count = Cardinality(Places("entry"))
    /\ \A n \in Places("entry") :
           /\ records[n].ordinal = Cardinality({m \in Places("entry") : m < n})
           /\ Own(records[n])
    /\ pc \in {"strip", "emit"} => normalized = Normalized(text)

\* Errors have at most two records for each entry, and one for the answer.
Bounded ==
    LET errors == Cardinality(Said("error"))
    IN  IF pc = "returned" THEN errors <= 2 * entry_count + 1 ELSE errors <= 2 * entry_count + said

Severities == {"error", "warning"}

-----------------------------------------------------------------------------
(* Induction over the naturals, for sets of them.                          *)

Before == {p \in Nat \X Nat : p[1] < p[2]}

LEMMA Least ==
  ASSUME NEW T \in SUBSET Nat, T # {}
  PROVE  \E n \in T : \A m \in T : n <= m
  <1>1. IsWellFoundedOn(Before, Nat)
    BY NatLessThanWellFounded, Zenon DEF OpToRel, Before
  <1>2. \A m, n \in Nat : <<m, n>> \in Before <=> m < n
    BY DEF Before
  <1>3. PICK n \in T : \A m \in T : ~(<<m, n>> \in Before)
    BY <1>1, WFMin
  <1>4. \A m \in T : ~(m < n)
    BY <1>2, <1>3
  <1> QED
    BY <1>4

LEMMA Induct ==
  ASSUME NEW T \in SUBSET Nat, 0 \in T, \A n \in T : n + 1 \in T
  PROVE  T = Nat
  <1> DEFINE U == Nat \ T
  <1>1. SUFFICES ASSUME U # {} PROVE FALSE
    OBVIOUS
  <1>2. U \in SUBSET Nat
    OBVIOUS
  <1> HIDE DEF U
  <1>3. PICK n \in U : \A m \in U : n <= m
    BY <1>1, <1>2, Least
  <1>4. n \in Nat /\ n # 0
    BY <1>2 DEF U
  <1>5. n - 1 \in Nat /\ n - 1 \notin U
    BY <1>3, <1>4
  <1>6. n - 1 \in T /\ (n - 1) + 1 = n
    BY <1>4, <1>5 DEF U
  <1> QED
    BY <1>6 DEF U

-----------------------------------------------------------------------------
(* The walk of the engine's key.                                           *)

\* Where the key goes from a place.
Onward(place) == IF place \in Position THEN engine.next[place] ELSE place

\* A function on 1 .. n satisfies the walk's equation.
IsWalk(walk, n) ==
    walk = [i \in 1 .. n |-> IF i = 1 THEN engine.first ELSE Onward(walk[i - 1])]

LEMMA SomeWalk == \A n \in Nat : \E walk : IsWalk(walk, n)
  <1> DEFINE T == {n \in Nat : \E walk : IsWalk(walk, n)}
  <1>1. 0 \in T
    <2> DEFINE none == [i \in 1 .. 0 |-> engine.first]
    <2>1. none = [i \in 1 .. 0 |-> IF i = 1 THEN engine.first ELSE Onward(none[i - 1])]
      OBVIOUS
    <2> HIDE DEF none
    <2> QED
      BY <2>1 DEF IsWalk
  <1>2. ASSUME NEW n \in T PROVE n + 1 \in T
    <2>1. PICK walk : IsWalk(walk, n)
      OBVIOUS
    <2>2. n \in Nat
      OBVIOUS
    <2> DEFINE longer == [i \in 1 .. n + 1 |->
                             IF i = 1 THEN engine.first ELSE Onward(walk[i - 1])]
    <2>3. \A i \in 1 .. n : longer[i] = walk[i]
      BY <2>1, <2>2 DEF IsWalk
    <2>4. ASSUME NEW i \in 1 .. n + 1, i # 1 PROVE longer[i - 1] = walk[i - 1]
      <3>1. i - 1 \in 1 .. n
        BY <2>2, <2>4
      <3> HIDE DEF longer
      <3> QED
        BY <2>3, <3>1
    <2>5. longer = [i \in 1 .. n + 1 |->
                       IF i = 1 THEN engine.first ELSE Onward(longer[i - 1])]
      BY <2>4
    <2> HIDE DEF longer
    <2>6. IsWalk(longer, n + 1)
      BY <2>5 DEF IsWalk
    <2> QED
      BY <2>2, <2>6
  <1> HIDE DEF T
  <1>3. T \subseteq Nat
    BY DEF T
  <1>4. T = Nat
    BY <1>1, <1>2, <1>3, Induct
  <1> QED
    BY <1>4 DEF T

LEMMA WalkSatisfies == IsWalk(Walk, MaxEntries + 2)
  <1>1. PICK walk : IsWalk(walk, MaxEntries + 2)
    BY BoundAssumption, SomeWalk
  <1>2. walk = [i \in 1 .. MaxEntries + 2 |->
            IF i = 1 THEN engine.first
            ELSE LET before == walk[i - 1]
                 IN  IF before \in Position THEN engine.next[before] ELSE before]
    BY <1>1 DEF IsWalk, Onward
  <1>3. Walk = [i \in 1 .. MaxEntries + 2 |->
            IF i = 1 THEN engine.first
            ELSE LET before == Walk[i - 1]
                 IN  IF before \in Position THEN engine.next[before] ELSE before]
    BY <1>2, Zenon DEF Walk
  <1> QED
    BY <1>3 DEF IsWalk, Onward

\* Where the walk begins, and how it goes on.
LEMMA WalkGoesOn ==
  /\ Walk[1] = engine.first
  /\ \A i \in 1 .. MaxEntries + 1 : Walk[i + 1] = Onward(Walk[i])
  <1>1. ASSUME NEW i \in 1 .. MaxEntries + 1
        PROVE  i + 1 \in 1 .. MaxEntries + 2 /\ i + 1 # 1 /\ (i + 1) - 1 = i
    BY BoundAssumption
  <1>2. 1 \in 1 .. MaxEntries + 2
    BY BoundAssumption
  <1> QED
    BY <1>1, <1>2, WalkSatisfies DEF IsWalk

LEMMA SameWalk == engine' = engine => Walk' = Walk
  BY DEF Walk

-----------------------------------------------------------------------------
(* Records.                                                                *)

LEMMA AppendRecord ==
  ASSUME NEW s, \E S : s \in Seq(S), NEW r
  PROVE  /\ \E S : Append(s, r) \in Seq(S)
         /\ Len(s) \in Nat /\ DOMAIN s = 1 .. Len(s)
         /\ Len(Append(s, r)) = Len(s) + 1 /\ DOMAIN Append(s, r) = 1 .. Len(s) + 1
         /\ Append(s, r)[Len(s) + 1] = r
         /\ \A n \in 1 .. Len(s) : Append(s, r)[n] = s[n]
  <1>1. PICK S : s \in Seq(S)
    OBVIOUS
  <1>2. s \in Seq(S \cup {r})
    BY <1>1, SeqMonotonic, Zenon
  <1>3. Append(s, r) \in Seq(S \cup {r})
    BY <1>2, AppendProperties
  <1> QED
    BY <1>2, <1>3, AppendProperties, LenProperties

\* What a new record does to the places of a type.
LEMMA PlacesGrow ==
  ASSUME Typed, NEW r, records' = Append(records, r), NEW type
  PROVE  /\ Places(type) \subseteq 1 .. Len(records) /\ IsFiniteSet(Places(type))
         /\ Len(records) \in Nat
         /\ r.type = type => Places(type)' = Places(type) \cup {Len(records) + 1}
         /\ r.type # type => Places(type)' = Places(type)
         /\ \A n \in Places(type) : records'[n] = records[n]
         /\ records'[Len(records) + 1] = r
  <1>1. /\ Len(records) \in Nat /\ DOMAIN records = 1 .. Len(records)
        /\ DOMAIN records' = 1 .. Len(records) + 1
        /\ records'[Len(records) + 1] = r
        /\ \A n \in 1 .. Len(records) : records'[n] = records[n]
    BY AppendRecord DEF Typed
  <1>2. Places(type) \subseteq 1 .. Len(records)
    BY <1>1 DEF Places
  <1>3. IsFiniteSet(Places(type))
    <2>1. IsFiniteSet(1 .. Len(records))
      BY <1>1, FS_Interval
    <2> QED
      BY <1>2, <2>1, FS_Subset, Zenon
  <1>4. \A n \in DOMAIN records' : n \in DOMAIN records \/ n = Len(records) + 1
    BY <1>1
  <1>5. /\ r.type = type => Places(type)' = Places(type) \cup {Len(records) + 1}
        /\ r.type # type => Places(type)' = Places(type)
    BY <1>1, <1>4 DEF Places
  <1> QED
    BY <1>1, <1>2, <1>3, <1>5

-----------------------------------------------------------------------------
(* Types.                                                                  *)

LEMMA InitTyped == Init => Typed
  <1> SUFFICES ASSUME Init PROVE Typed
    OBVIOUS
  <1>1. \E S : records \in Seq(S)
    BY EmptySeq DEF Init, Start
  <1> QED
    BY <1>1, BoundAssumption DEF Init, Start, Typed, TypeOK, Inner

LEMMA DiagnoseTyped ==
  ASSUME Typed, NEW severity, NEW code, Diagnose(severity, code)
  PROVE  \E S : records' \in Seq(S)
  BY AppendRecord DEF Typed, Diagnose

LEMMA TopTyped == ASSUME Typed, Top PROVE Typed'
  <1>1. \E S : records' \in Seq(S)
    BY DiagnoseTyped DEF Top, Typed
  <1> QED
    BY <1>1 DEF Top, Typed, TypeOK, Inner, Return, Engine

LEMMA ReadTyped == ASSUME Typed, Read PROVE Typed'
  <1>1. \E S : records' \in Seq(S)
    BY DiagnoseTyped DEF Read, Typed
  <1> QED
    BY <1>1 DEF Read, Typed, TypeOK, Inner, Return

LEMMA LengthTyped == ASSUME Typed, Length PROVE Typed'
  <1>1. \E S : records' \in Seq(S)
    BY DiagnoseTyped DEF Length, Typed
  <1> QED
    BY <1>1 DEF Length, Typed, TypeOK, Inner, Long, text, locals

LEMMA NormalizeTyped == ASSUME Typed, Normalize PROVE Typed'
  <1>1. \E S : records' \in Seq(S)
    BY DiagnoseTyped DEF Normalize, Typed
  <1> QED
    BY <1>1 DEF Normalize, Typed, TypeOK, Inner, Long, text

LEMMA StripTyped == ASSUME Typed, Strip PROVE Typed'
  <1>1. \E S : records' \in Seq(S)
    BY DiagnoseTyped DEF Strip, Typed
  <1>2. StripDefect # "none" => normalized.has
    BY DEF StripDefect
  <1> QED
    BY <1>1, <1>2 DEF Strip, Typed, TypeOK, Inner, Long, text

LEMMA EmitTyped == ASSUME Typed, Emit PROVE Typed'
  <1>1. \E S : records' \in Seq(S)
    BY AppendRecord DEF Emit, Typed
  <1>2. /\ pc = "emit" /\ pc' = "advance"
        /\ entry_count < MaxEntries /\ entry_count' = entry_count + 1 /\ said' = 0
        /\ UNCHANGED <<engine, at, returned>>
    BY DEF Emit, locals
  <1>3. entry_count' \in 0 .. MaxEntries /\ entry_count' >= 1
    BY <1>2, BoundAssumption DEF Typed, TypeOK
  <1> QED
    BY <1>1, <1>2, <1>3 DEF Typed, TypeOK, Inner

LEMMA AdvanceTyped == ASSUME Typed, Advance PROVE Typed'
  <1>1. \E S : records' \in Seq(S)
    BY DiagnoseTyped DEF Advance, Typed
  <1>2. /\ pc = "advance" /\ UNCHANGED <<engine, entry_count, said>>
        /\ \/ at' \in Position /\ pc' = "read" /\ returned' = returned
           \/ at' = at /\ pc' = "returned" /\ returned' \in {"true", "false"}
    BY DEF Advance, Return
  <1>3. "none" \notin Position
    BY PositionAssumption
  <1> QED
    BY <1>1, <1>2, <1>3 DEF Typed, TypeOK, Inner

LEMMA NextTyped == Typed /\ [Next]_vars => Typed'
  <1> SUFFICES ASSUME Typed, [Next]_vars PROVE Typed'
    OBVIOUS
  <1>1. CASE UNCHANGED vars
    BY <1>1 DEF vars, locals, Typed, TypeOK, Inner, Long, text
  <1> QED
    BY <1>1, TopTyped, ReadTyped, LengthTyped, NormalizeTyped, StripTyped, EmitTyped, AdvanceTyped
    DEF Next

-----------------------------------------------------------------------------
(* The walk is followed.                                                   *)

LEMMA NextWalked == Typed /\ Walked /\ [Next]_vars => Walked'
  <1> SUFFICES ASSUME Typed, Walked, [Next]_vars PROVE Walked'
    OBVIOUS
  <1>0. /\ entry_count \in 0 .. MaxEntries /\ MaxEntries \in Nat
        /\ pc = "advance" => entry_count >= 1
    BY BoundAssumption DEF Typed, TypeOK
  <1>1. CASE Top
    <2>1. /\ pc = "top" /\ entry_count' = entry_count /\ engine' = engine
          /\ pc' = "returned" \/ (pc' = "read" /\ at' = engine.first)
      BY <1>1 DEF Top, Return
    <2>2. entry_count = 0
      BY <2>1 DEF Typed
    <2> QED
      BY <1>0, <2>1, <2>2, SameWalk, WalkGoesOn DEF Walked, Inner
  <1>2. CASE Read
    <2>1. /\ pc = "read" /\ pc' \in {"length", "returned"} /\ UNCHANGED <<engine, at, entry_count>>
      BY <1>2 DEF Read, Return
    <2> QED
      BY <2>1, SameWalk DEF Walked, Inner
  <1>3. CASE Length \/ Normalize \/ Strip
    <2>1. /\ pc \in Inner /\ pc' \in Inner /\ UNCHANGED <<engine, at, entry_count>>
      BY <1>3 DEF Length, Normalize, Strip, locals, Inner
    <2> QED
      BY <2>1, SameWalk DEF Walked, Inner
  <1>4. CASE Emit
    <2>1. /\ pc = "emit" /\ pc' = "advance" /\ UNCHANGED <<engine, at>>
          /\ entry_count' = entry_count + 1
      BY <1>4 DEF Emit, locals
    <2>2. at = Walk[entry_count + 1] /\ at \in Position
      BY <2>1 DEF Typed, Walked, Inner
    <2>3. \A i \in 1 .. entry_count + 1 : Walk[i] \in Position
      BY <1>0, <2>2 DEF Walked
    <2> QED
      BY <2>1, <2>2, <2>3, SameWalk DEF Walked, Inner
  <1>5. CASE Advance
    <2>1. /\ pc = "advance" /\ UNCHANGED <<engine, entry_count>>
          /\ \/ pc' = "returned"
             \/ pc' = "read" /\ at' = engine.next[at]
      BY <1>5 DEF Advance, Return
    <2>2. at = Walk[entry_count] /\ at \in Position /\ entry_count \in 1 .. MaxEntries + 1
      BY <1>0, <2>1 DEF Typed, Walked
    <2>3. Walk[entry_count + 1] = engine.next[at]
      BY <2>2, WalkGoesOn DEF Onward
    <2> QED
      BY <2>1, <2>3, SameWalk DEF Walked, Inner
  <1>6. CASE UNCHANGED vars
    BY <1>6, SameWalk DEF vars, locals, Walked, Inner
  <1> QED
    BY <1>1, <1>2, <1>3, <1>4, <1>5, <1>6 DEF Next

LEMMA LimitIs ==
  /\ dictionary_entry_limit.has <=> Limited
  /\ Limited => dictionary_entry_limit.value = engine.count
  BY DEF dictionary_entry_limit, Limited, Some, None

LEMMA NextCompared == Typed /\ Walked /\ Compared /\ [Next]_vars => Compared'
  <1> SUFFICES ASSUME Typed, Walked, Compared, [Next]_vars PROVE Compared'
    OBVIOUS
  <1>0. /\ entry_count \in 0 .. MaxEntries /\ MaxEntries \in Nat /\ engine.count \in Int
        /\ pc = "advance" => entry_count >= 1
    BY BoundAssumption DEF Typed, TypeOK, Engine
  <1>1. CASE Top
    <2>1. /\ pc = "top" /\ UNCHANGED <<engine, entry_count>> /\ pc' \in {"returned", "read"}
      BY <1>1 DEF Top, Return
    <2>2. entry_count = 0
      BY <2>1 DEF Typed
    <2> QED
      BY <2>1, <2>2, SameWalk DEF Compared, Inner, Limited, Seen
  <1>2. CASE Read
    <2>1. /\ pc = "read" /\ UNCHANGED <<engine, at, entry_count>> /\ previous' = Seen(at)
          /\ pc' = "returned" \/ (pc' = "length" /\ ~Stalled)
      BY <1>2 DEF Read, Return
    <2>2. ~Stalled /\ ~Limited /\ entry_count >= 1 => Seen(at) # Seen(Walk[entry_count])
      BY <1>0, <2>1, LimitIs DEF Stalled, Compared
    <2> QED
      BY <2>1, <2>2, SameWalk DEF Compared, Inner, Limited, Seen
  <1>3. CASE Length \/ Normalize \/ Strip
    <2>1. /\ pc \in Inner /\ pc' \in Inner /\ UNCHANGED <<engine, at, previous, entry_count>>
      BY <1>3 DEF Length, Normalize, Strip, locals, Inner
    <2> QED
      BY <2>1, SameWalk DEF Compared, Inner, Limited, Seen
  <1>4. CASE Emit
    <2>1. /\ pc = "emit" /\ pc' = "advance" /\ UNCHANGED <<engine, at, previous>>
          /\ entry_count' = entry_count + 1
      BY <1>4 DEF Emit, locals
    <2>2. at = Walk[entry_count + 1]
      BY <2>1 DEF Walked, Inner
    <2>3. /\ ~Limited => \A i \in 2 .. entry_count + 1 : Seen(Walk[i]) # Seen(Walk[i - 1])
          /\ previous = Seen(Walk[entry_count + 1])
      BY <1>0, <2>1, <2>2 DEF Compared, Inner
    <2>4. Limited => entry_count + 1 = 1 \/ entry_count + 1 <= engine.count
      BY <1>0, <2>1 DEF Compared, Inner
    <2> QED
      BY <2>1, <2>3, <2>4, SameWalk DEF Compared, Inner, Limited, Seen
  <1>5. CASE Advance
    <2>1. /\ pc = "advance" /\ UNCHANGED <<engine, previous, entry_count>>
          /\ pc' = "returned" \/ (pc' = "read" /\ ~Enough)
      BY <1>5 DEF Advance, Return
    <2>2. ~Enough /\ Limited => entry_count < engine.count
      BY <1>0, LimitIs DEF Enough
    <2> QED
      BY <1>0, <2>1, <2>2, SameWalk DEF Compared, Inner, Limited, Seen
  <1>6. CASE UNCHANGED vars
    BY <1>6, SameWalk DEF vars, locals, Compared, Inner, Limited, Seen
  <1> QED
    BY <1>1, <1>2, <1>3, <1>4, <1>5, <1>6 DEF Next

LEMMA MaxOfOne == ASSUME NEW n \in Int PROVE Max({1, n}) = IF n >= 1 THEN n ELSE 1
  BY DEF Max

LEMMA LastSaid ==
  ASSUME Typed, NEW severity, NEW code, Diagnose(severity, code)
  PROVE  Last(records') = [type |-> "diagnostic", severity |-> severity, code |-> code]
  BY AppendRecord DEF Typed, Diagnose, Last

\* What a step that answers knows.
Correct(answer) ==
    \/ /\ answer = "true"
       /\ \/ engine.first = "none"
          \/ ~Limited /\ Walk[entry_count + 1] = "end"
          \/ /\ Limited /\ entry_count >= 1 /\ entry_count >= engine.count
             /\ entry_count = 1 \/ entry_count <= engine.count
    \/ /\ answer = "false"
       /\ Last(records').type = "diagnostic" /\ Last(records').severity = "error"
       /\ Limited =>
              /\ entry_count = 0 \/ entry_count < engine.count
              /\ Walk[entry_count + 1] \notin Position \ engine.unreadable

LEMMA AnswerRight ==
  ASSUME Typed, returned = "nothing", engine' = engine, entry_count' = entry_count,
         NEW answer, returned' = answer, answer = "nothing" \/ Correct(answer)
  PROVE  Answered'
  <1>1. entry_count \in Nat /\ engine.count \in Int
    BY BoundAssumption DEF Typed, TypeOK, Engine
  <1>2. /\ dictionary_entry_limit'.has <=> Limited
        /\ Limited => dictionary_entry_limit'.value = engine.count
        /\ Walk' = Walk /\ Limited' = Limited
    <2>1. dictionary_entry_limit' = dictionary_entry_limit
      BY DEF dictionary_entry_limit
    <2>2. Limited' = Limited
      BY DEF Limited
    <2> QED
      BY <2>1, <2>2, LimitIs, SameWalk
  <1>3. CASE answer = "nothing"
    BY <1>3 DEF Answered, CompleteOrDiagnosed
  <1>4. CASE answer = "true" /\ Correct(answer)
    <2>1. CASE Limited /\ ~(engine.first = "none")
      <3>1. /\ entry_count >= 1 /\ entry_count >= engine.count
            /\ entry_count = 1 \/ entry_count <= engine.count
        BY <1>4, <2>1 DEF Correct
      <3>2. entry_count = Max({1, engine.count})
        BY <1>1, <3>1, MaxOfOne
      <3> QED
        BY <1>2, <1>4, <2>1, <3>2 DEF Answered, CompleteOrDiagnosed
    <2>2. CASE ~Limited \/ engine.first = "none"
      BY <1>2, <1>4, <2>2 DEF Correct, Answered, CompleteOrDiagnosed
    <2> QED
      BY <2>1, <2>2
  <1>5. CASE answer = "false" /\ Correct(answer)
    <2>1. CompleteOrDiagnosed'
      BY <1>5 DEF Correct, CompleteOrDiagnosed
    <2>2. Limited => \E i \in 1 .. entry_count + 1 :
                         /\ i = 1 \/ i <= engine.count
                         /\ Walk[i] \notin Position \ engine.unreadable
      BY <1>1, <1>5 DEF Correct
    <2> QED
      BY <1>2, <2>1, <2>2 DEF Answered
  <1> QED
    BY <1>3, <1>4, <1>5 DEF Correct

LEMMA NextAnswered == Typed /\ Walked /\ Compared /\ Answered /\ [Next]_vars => Answered'
  <1> SUFFICES ASSUME Typed, Walked, Compared, Answered, [Next]_vars PROVE Answered'
    OBVIOUS
  <1>0. /\ entry_count \in 0 .. MaxEntries /\ MaxEntries \in Nat /\ engine.count \in Int
        /\ pc = "advance" => entry_count >= 1
        /\ pc # "returned" => returned = "nothing"
    BY BoundAssumption DEF Typed, TypeOK, Engine
  <1>1. CASE Top
    <2>1. /\ pc = "top" /\ UNCHANGED <<engine, entry_count>>
          /\ returned' = returned \/ (returned' = "true" /\ engine.first = "none")
      BY <1>1 DEF Top, Return
    <2> QED
      BY <1>0, <2>1, AnswerRight DEF Correct
  <1>2. CASE Read
    <2>1. /\ pc = "read" /\ UNCHANGED <<engine, entry_count>>
          /\ \/ returned' = returned
             \/ /\ returned' = "false"
                /\ Stalled \/ at \in engine.unreadable
                /\ \E code : Diagnose("error", code)
      BY <1>2 DEF Read, Return
    <2>2. Limited => ~Stalled
      BY LimitIs DEF Stalled
    <2>3. at = Walk[entry_count + 1] /\ (Limited => entry_count = 0 \/ entry_count < engine.count)
      BY <2>1 DEF Walked, Compared
    <2>4. returned' = returned \/ Correct(returned')
      BY <2>1, <2>2, <2>3, LastSaid DEF Correct
    <2> QED
      BY <1>0, <2>1, <2>4, AnswerRight
  <1>3. CASE Length \/ Normalize \/ Strip
    <2>1. pc # "returned" /\ pc # "advance" /\ UNCHANGED <<engine, entry_count, returned>>
      BY <1>3 DEF Length, Normalize, Strip, locals
    <2> QED
      BY <1>0, <2>1, AnswerRight
  <1>4. CASE Emit
    <2>1. pc = "emit" /\ returned' = returned
      BY <1>4 DEF Emit
    <2> QED
      BY <1>0, <2>1 DEF Answered, CompleteOrDiagnosed
  <1>5. CASE Advance
    <2>1. /\ pc = "advance" /\ UNCHANGED <<engine, entry_count>>
          /\ \/ returned' = returned
             \/ returned' = "true" /\ Enough
             \/ /\ returned' = "true" /\ ~dictionary_entry_limit.has
                /\ engine.next[at] = "end"
             \/ /\ returned' = "false" /\ ~Enough /\ engine.next[at] \in {"end", "error"}
                /\ \E code : Diagnose("error", code)
      BY <1>5 DEF Advance, Return
    <2>2. Walk[entry_count + 1] = engine.next[at]
      <3>1. at = Walk[entry_count] /\ at \in Position /\ entry_count \in 1 .. MaxEntries + 1
        BY <1>0, <2>1 DEF Typed, Walked
      <3> QED
        BY <3>1, WalkGoesOn DEF Onward
    <2>3. /\ Enough => Limited /\ entry_count >= engine.count
          /\ ~Enough /\ Limited => entry_count < engine.count
          /\ Limited => entry_count = 1 \/ entry_count <= engine.count
          /\ entry_count >= 1
      BY <1>0, <2>1, LimitIs DEF Enough, Compared
    <2>4. {"end", "error"} \cap Position = {}
      BY PositionAssumption
    <2>5. returned' = returned \/ Correct(returned')
      BY <2>1, <2>2, <2>3, <2>4, LimitIs, LastSaid DEF Correct
    <2> QED
      BY <1>0, <2>1, <2>5, AnswerRight
  <1>6. CASE UNCHANGED vars
    <2>1. UNCHANGED <<engine, entry_count, records, returned>>
      BY <1>6 DEF vars
    <2>2. UNCHANGED <<Walk, Limited, dictionary_entry_limit>>
      BY <2>1, SameWalk DEF Limited, dictionary_entry_limit
    <2> QED
      BY <2>1, <2>2 DEF Answered, CompleteOrDiagnosed
  <1> QED
    BY <1>1, <1>2, <1>3, <1>4, <1>5, <1>6 DEF Next

LEMMA InitFollows == Init => Walked /\ Compared /\ Answered
  <1> SUFFICES ASSUME Init PROVE Walked /\ Compared /\ Answered
    OBVIOUS
  <1>1. pc = "top" /\ entry_count = 0 /\ returned = "nothing"
    BY DEF Init, Start
  <1> QED
    BY <1>1 DEF Walked, Compared, Answered, CompleteOrDiagnosed, Inner

LEMMA Duplicates == Typed /\ Compared /\ Answered => DuplicatesAreKept
  <1> SUFFICES ASSUME Typed, Compared, Answered, pc = "returned" PROVE DuplicatesAreKept
    BY DEF DuplicatesAreKept
  <1>1. /\ returned \in {"true", "false"} /\ engine.count \in Int
    BY DEF Typed, TypeOK, Engine
  <1>2. CASE Limited
    <2>1. ASSUME returned = "false"
          PROVE  \E i \in 1 .. Max({1, engine.count}) : Walk[i] \notin Position \ engine.unreadable
      <3>1. PICK i \in 1 .. entry_count + 1 :
                /\ i = 1 \/ i <= engine.count
                /\ Walk[i] \notin Position \ engine.unreadable
        BY <1>2, <2>1 DEF Answered
      <3>2. i \in 1 .. Max({1, engine.count})
        BY <1>1, <3>1, MaxOfOne
      <3> QED
        BY <3>1, <3>2
    <2> QED
      BY <1>1, <1>2, <2>1, LimitIs DEF DuplicatesAreKept
  <1>3. CASE ~Limited
    BY <1>3, LimitIs DEF DuplicatesAreKept, Compared
  <1> QED
    BY <1>2, <1>3

-----------------------------------------------------------------------------
(* Every entry is that of its key.                                         *)

LEMMA SameOwn == ASSUME engine' = engine, NEW entry PROVE Own(entry)' <=> Own(entry)
  BY SameWalk DEF Own, Seen, Normalized

LEMMA SameFollowed ==
  ASSUME Followed, UNCHANGED <<engine, entry_count>>,
         Places("entry")' = Places("entry"),
         \A n \in Places("entry") : records'[n] = records[n],
         pc' \in {"strip", "emit"} => normalized' = Normalized(text)'
  PROVE  Followed'
  <1>1. ASSUME NEW n \in Places("entry"), NEW entry, entry = records[n]
        PROVE  records'[n] = entry /\ Own(entry)'
    BY <1>1, SameOwn DEF Followed
  <1>2. \A n \in Places("entry")' :
            /\ records'[n].ordinal = Cardinality({m \in Places("entry")' : m < n})
            /\ Own(records[n])'
    BY <1>1 DEF Followed
  <1> QED
    BY <1>2 DEF Followed

LEMMA EmitFollowed == ASSUME Typed, Walked, Followed, Emit PROVE Followed'
  <1>1. PICK entry :
            /\ records' = Append(records, entry)
            /\ entry.type = "entry" /\ entry.ordinal = entry_count
            /\ entry.key = byte_value_json(engine.look[at].key)
            /\ entry.normalized_raw = Nullable(normalized)
            /\ entry.raw = byte_value_json(text.raw)
    BY DEF Emit
  <1>2. /\ pc = "emit" /\ pc' = "advance" /\ UNCHANGED <<engine, at>>
        /\ entry_count' = entry_count + 1
        /\ at = Walk[entry_count + 1] /\ at \in Position
        /\ normalized = Normalized(text)
    BY DEF Emit, Typed, Walked, Inner, Followed, locals
  <1>3. Own(entry)'
    <2>1. Own(entry)
      BY <1>1, <1>2 DEF Own, Seen, text
    <2> QED
      BY <1>2, <2>1, SameOwn
  <1> DEFINE last == Len(records) + 1
             all == Places("entry")
  <1>4. /\ all \subseteq 1 .. Len(records) /\ IsFiniteSet(all) /\ Len(records) \in Nat
        /\ Places("entry")' = all \cup {last}
        /\ records'[last] = entry
        /\ \A n \in all : records'[n] = records[n]
    BY <1>1, PlacesGrow
  <1>5. entry_count = Cardinality(all)
    BY DEF Followed
  <1>6. \A n \in all : /\ records[n].ordinal = Cardinality({m \in all : m < n})
                       /\ Own(records[n])
    BY DEF Followed
  <1>7. last \notin all /\ \A m \in all : m < last /\ ~(last < m)
    <2>1. \A m \in 1 .. Len(records) : m < last /\ ~(last < m) /\ m # last
      BY <1>4
    <2> QED
      BY <1>4, <2>1
  <1> HIDE DEF last, all
  <1>8. Cardinality(all \cup {last}) = entry_count + 1
    BY <1>4, <1>5, <1>7, FS_AddElement
  <1>9. ASSUME NEW n \in all
        PROVE  {m \in all \cup {last} : m < n} = {m \in all : m < n}
    BY <1>7
  <1>10. {m \in all \cup {last} : m < last} = all
    <2>1. ~(last < last)
      BY <1>4 DEF last
    <2> QED
      BY <1>7, <2>1
  <1>11. ASSUME NEW n \in all, NEW old, old = records[n]
         PROVE  records'[n] = old /\ Own(old)'
    BY <1>2, <1>4, <1>6, <1>11, SameOwn
  <1>12. \A n \in all \cup {last} :
             /\ records'[n].ordinal = Cardinality({m \in all \cup {last} : m < n})
             /\ Own(records[n])'
    BY <1>1, <1>3, <1>4, <1>5, <1>6, <1>9, <1>10, <1>11
  <1> QED
    BY <1>2, <1>4, <1>8, <1>12 DEF Followed

LEMMA DiagnoseFollowed ==
  ASSUME Typed, NEW severity, NEW code, Diagnose(severity, code)
  PROVE  /\ Places("entry")' = Places("entry")
         /\ \A n \in Places("entry") : records'[n] = records[n]
  <1>1. PICK r : r.type = "diagnostic" /\ records' = Append(records, r)
    BY DEF Diagnose
  <1> QED
    BY <1>1, PlacesGrow

LEMMA NextFollowed == Typed /\ Walked /\ Followed /\ [Next]_vars => Followed'
  <1> SUFFICES ASSUME Typed, Walked, Followed, [Next]_vars PROVE Followed'
    OBVIOUS
  <1>1. records' = records => /\ Places("entry")' = Places("entry")
                              /\ \A n \in Places("entry") : records'[n] = records[n]
    BY DEF Places
  <1>2. CASE Emit
    BY <1>2, EmitFollowed
  <1>3. CASE Top \/ Read \/ Length \/ Strip \/ Advance
    <2>1. /\ UNCHANGED <<engine, entry_count>>
          /\ records' = records \/ \E severity, code : Diagnose(severity, code)
          /\ pc' \in {"strip", "emit"} => pc = "strip" /\ UNCHANGED <<at, normalized>>
      BY <1>3 DEF Top, Read, Length, Strip, Advance, Return, locals
    <2>2. pc' \in {"strip", "emit"} => normalized' = Normalized(text)'
      BY <2>1 DEF Followed, Normalized, text
    <2> QED
      BY <1>1, <2>1, <2>2, SameFollowed, DiagnoseFollowed
  <1>4. CASE Normalize
    <2>1. /\ UNCHANGED <<engine, entry_count, at>> /\ normalized' = Normalized(text)
          /\ records' = records \/ \E severity, code : Diagnose(severity, code)
      BY <1>4 DEF Normalize
    <2>2. Normalized(text)' = Normalized(text)
      BY <2>1 DEF Normalized, text
    <2> QED
      BY <1>1, <2>1, <2>2, SameFollowed, DiagnoseFollowed
  <1>5. CASE UNCHANGED vars
    <2>1. UNCHANGED <<engine, entry_count, records, pc, at, normalized>>
      BY <1>5 DEF vars, locals
    <2>2. pc' \in {"strip", "emit"} => normalized' = Normalized(text)'
      BY <2>1 DEF Followed, Normalized, text
    <2> QED
      BY <1>1, <2>1, <2>2, SameFollowed
  <1> QED
    BY <1>2, <1>3, <1>4, <1>5 DEF Next

LEMMA InitFollowed == Init => Followed
  <1> SUFFICES ASSUME Init PROVE Followed
    OBVIOUS
  <1>1. records = <<>> /\ entry_count = 0 /\ pc = "top"
    BY DEF Init, Start
  <1>2. Places("entry") = {}
    BY <1>1, EmptySeq DEF Places
  <1> QED
    BY <1>1, <1>2, FS_EmptySet DEF Followed

-----------------------------------------------------------------------------
(* Every step is one of Extraction's traversal.                            *)

LEMMA SaidGrows ==
  ASSUME Typed, NEW severity, NEW code, Diagnose(severity, code), NEW other
  PROVE  /\ Cardinality(Said(other)) \in Nat
         /\ other = severity => Cardinality(Said(other))' = Cardinality(Said(other)) + 1
         /\ other # severity => Cardinality(Said(other))' = Cardinality(Said(other))
  <1> DEFINE last == Len(records) + 1
             r == [type |-> "diagnostic", severity |-> severity, code |-> code]
             all == Places("diagnostic")
  <1>1. r.type = "diagnostic" /\ r.severity = severity /\ records' = Append(records, r)
    BY DEF Diagnose
  <1> HIDE DEF r
  <1>2. /\ all \subseteq 1 .. Len(records) /\ IsFiniteSet(all) /\ Len(records) \in Nat
        /\ all' = all \cup {last}
        /\ \A n \in all : records'[n] = records[n]
        /\ records'[last] = r
    BY <1>1, PlacesGrow
  <1>3. last \notin all
    BY <1>2
  <1>4. Said(other) \subseteq all
    BY DEF Said
  <1> HIDE DEF last, all
  <1>5. IsFiniteSet(Said(other)) /\ last \notin Said(other)
    <2>1. IsFiniteSet(Said(other))
      BY <1>2, <1>4, FS_Subset, Zenon
    <2> QED
      BY <1>3, <1>4, <2>1
  <1>6. /\ other = severity => Said(other)' = Said(other) \cup {last}
        /\ other # severity => Said(other)' = Said(other)
    <2>1. Said(other) = {n \in all : records[n].severity = other}
      BY DEF Said, all
    <2>2. Said(other)' = {n \in all' : records'[n].severity = other}
      BY DEF Said, all
    <2>3. records'[last].severity = severity
      BY <1>1, <1>2
    <2> QED
      BY <1>2, <2>1, <2>2, <2>3
  <1>7. Cardinality(Said(other)) \in Nat
    BY <1>5, FS_CardinalityType
  <1>8. Cardinality(Said(other) \cup {last}) = Cardinality(Said(other)) + 1
    BY <1>5, FS_AddElement
  <1> QED
    BY <1>6, <1>7, <1>8

LEMMA ErrorsCounted == ASSUME Typed PROVE Cardinality(Said("error")) \in Nat
  <1>1. PICK S : records \in Seq(S)
    BY DEF Typed
  <1>2. Len(records) \in Nat /\ DOMAIN records = 1 .. Len(records)
    BY <1>1, LenProperties
  <1>3. Said("error") \subseteq 1 .. Len(records)
    BY <1>2 DEF Said, Places
  <1>4. IsFiniteSet(1 .. Len(records))
    BY <1>2, FS_Interval
  <1>5. IsFiniteSet(Said("error"))
    BY <1>3, <1>4, FS_Subset, Zenon
  <1> QED
    BY <1>5, FS_CardinalityType

\* An entry is no diagnostic.
LEMMA EmitSaysNothing == ASSUME Typed, Emit PROVE \A severity : Said(severity)' = Said(severity)
  <1>1. PICK r : r.type = "entry" /\ records' = Append(records, r)
    BY DEF Emit
  <1>2. /\ Places("diagnostic")' = Places("diagnostic")
        /\ \A n \in Places("diagnostic") : records'[n] = records[n]
    BY <1>1, PlacesGrow
  <1> QED
    BY <1>2 DEF Said

LEMMA NextBounded == Typed /\ Bounded /\ [Next]_vars => Bounded'
  <1> SUFFICES ASSUME Typed, Bounded, [Next]_vars PROVE Bounded'
    OBVIOUS
  <1>0. /\ entry_count \in Nat /\ said \in Nat /\ Cardinality(Said("error")) \in Nat
        /\ pc \in {"top", "read", "length", "advance", "returned"} => said = 0
    BY ErrorsCounted, BoundAssumption DEF Typed, TypeOK
  <1>1. CASE Emit
    <2>1. /\ pc = "emit" /\ pc' = "advance" /\ entry_count' = entry_count + 1 /\ said' = 0
          /\ Said("error")' = Said("error")
      BY <1>1, EmitSaysNothing DEF Emit
    <2>2. said <= 2
      BY DEF Typed, TypeOK
    <2> QED
      BY <1>0, <2>1, <2>2 DEF Bounded
  <1>2. CASE Top \/ Read \/ Length \/ Normalize \/ Strip \/ Advance
    <2>1. /\ entry_count' = entry_count
          /\ \/ records' = records /\ said' = said /\ pc # "returned"
             \/ /\ \E severity, code : Diagnose(severity, code)
                /\ \/ said' = said + 1 /\ pc' # "returned" /\ pc # "returned"
                   \/ said' = said /\ pc' = "returned" /\ pc # "returned"
      BY <1>2 DEF Top, Read, Length, Normalize, Strip, Advance, Return
    <2>2. records' = records => Said("error")' = Said("error")
      BY DEF Said, Places
    <2>3. \A severity, code : Diagnose(severity, code) =>
              Cardinality(Said("error"))' \in {Cardinality(Said("error")),
                                               Cardinality(Said("error")) + 1}
      BY SaidGrows
    <2>4. pc' = "returned" => said = 0
      BY <1>0, <1>2 DEF Top, Read, Length, Normalize, Strip, Advance
    <2>5. Cardinality(Said("error"))' \in {Cardinality(Said("error")),
                                           Cardinality(Said("error")) + 1}
      BY <2>1, <2>2, <2>3
    <2> QED
      BY <1>0, <2>1, <2>2, <2>4, <2>5 DEF Bounded
  <1>3. CASE UNCHANGED vars
    <2>1. UNCHANGED <<pc, entry_count, said, records>>
      BY <1>3 DEF vars
    <2> QED
      BY <2>1 DEF Bounded, Said, Places
  <1> QED
    BY <1>1, <1>2, <1>3 DEF Next

LEMMA InitBounded == Init => Bounded
  <1> SUFFICES ASSUME Init PROVE Bounded
    OBVIOUS
  <1>1. records = <<>> /\ entry_count = 0 /\ pc = "top" /\ said = 0
    BY DEF Init, Start
  <1>2. Said("error") = {}
    BY <1>1, EmptySeq DEF Said, Places
  <1>3. Cardinality(Said("error")) = 0
    BY <1>2, FS_EmptySet
  <1> QED
    BY <1>1, <1>3 DEF Bounded

-----------------------------------------------------------------------------
\* A record of either module's is Extraction's next line.
LEMMA NextLine ==
  ASSUME Typed, NEW r, records' = Append(records, r),
         NEW line,
         line = IF r.type = "entry"
                THEN [type |-> "entry", sequence |-> Len(records), ordinal |-> r.ordinal]
                ELSE [type |-> "diagnostic", sequence |-> Len(records), severity |-> r.severity]
  PROVE  Lines' = Append(Lines, line) /\ Len(records)' = Len(records) + 1
  <1>1. PICK last : last = Len(records) + 1
    OBVIOUS
  <1>2. /\ Len(records) \in Nat /\ DOMAIN records = 1 .. Len(records)
        /\ Len(records') = last /\ DOMAIN records' = 1 .. last
        /\ \A n \in 1 .. Len(records) : records'[n] = records[n]
        /\ records'[last] = r /\ last - 1 = Len(records)
    BY <1>1, AppendRecord DEF Typed
  <1>3. ASSUME NEW n \in 1 .. Len(records) PROVE Line(n)' = Lines[n]
    BY <1>2 DEF Line, Lines
  <1> DEFINE S == {Lines[n] : n \in 1 .. Len(records)}
  <1>4. Lines \in [1 .. Len(records) -> S]
    BY <1>2 DEF Lines
  <1>5. Lines \in Seq(S) /\ Len(Lines) = Len(records)
    <2>1. Lines \in Seq(S)
      BY <1>2, <1>4, SeqDef
    <2> QED
      BY <1>2, <1>4, <2>1, LenProperties
  <1>6. /\ DOMAIN Append(Lines, line) = 1 .. last
        /\ Append(Lines, line)[last] = line
        /\ \A n \in 1 .. Len(records) : Append(Lines, line)[n] = Lines[n]
    BY <1>1, <1>2, <1>5, AppendRecord
  <1>7. Lines' = [n \in 1 .. last |-> Line(n)']
    BY <1>2 DEF Lines
  <1>8. ASSUME NEW n \in 1 .. last PROVE Line(n)' = Append(Lines, line)[n]
    <2>1. n = last \/ n \in 1 .. Len(records)
      BY <1>1, <1>2
    <2>2. Line(last)' = line
      BY <1>2 DEF Line
    <2> QED
      BY <1>3, <1>6, <2>1, <2>2
  <1>9. PICK T : Append(Lines, line) \in Seq(T)
    BY <1>5, AppendRecord
  <1>10. Append(Lines, line) = [n \in 1 .. last |-> Append(Lines, line)[n]]
    <2>1. Append(Lines, line) \in [1 .. Len(Append(Lines, line)) -> T]
      BY <1>9, LenProperties
    <2> QED
      BY <1>6, <2>1
  <1> QED
    BY <1>1, <1>2, <1>7, <1>8, <1>10

LEMMA NextCounted ==
  ASSUME Typed, NEW r, records' = Append(records, r), r.type \in RecordTypes
  PROVE  Counted' = [Counted EXCEPT ![r.type] = @ + 1]
  <1>1. ASSUME NEW type
        PROVE  Cardinality(Places(type))' = IF type = r.type THEN Cardinality(Places(type)) + 1
                                            ELSE Cardinality(Places(type))
    <2>1. /\ Places(type) \subseteq 1 .. Len(records) /\ IsFiniteSet(Places(type))
          /\ Len(records) \in Nat
          /\ r.type = type => Places(type)' = Places(type) \cup {Len(records) + 1}
          /\ r.type # type => Places(type)' = Places(type)
      BY PlacesGrow
    <2>2. Len(records) + 1 \notin Places(type)
      BY <2>1
    <2>3. Cardinality(Places(type) \cup {Len(records) + 1}) = Cardinality(Places(type)) + 1
      BY <2>1, <2>2, FS_AddElement
    <2> QED
      BY <2>1, <2>3
  <1> QED
    BY <1>1 DEF Counted, RecordTypes

-----------------------------------------------------------------------------
(* The writer and the diagnostics are those of Extraction.                 *)

LEMMA JoinedLine ==
  /\ \A severity : E!Line("diagnostic", [severity |-> severity]) =
         [type |-> "diagnostic", sequence |-> Len(records), severity |-> severity]
  /\ \A ordinal : E!Line("entry", [ordinal |-> ordinal]) =
         [type |-> "entry", sequence |-> Len(records), ordinal |-> ordinal]
  BY DEF E!Line, E!Joined

LEMMA DiagnoseEmits ==
  ASSUME Typed, NEW severity \in Severities, NEW code, Diagnose(severity, code)
  PROVE  E!Emit("diagnostic", [severity |-> severity])
  <1> DEFINE r == [type |-> "diagnostic", severity |-> severity, code |-> code]
             line == [type |-> "diagnostic", sequence |-> Len(records), severity |-> severity]
  <1>1. records' = Append(records, r)
    BY DEF Diagnose
  <1>2. /\ r.type = "diagnostic" /\ r.type # "entry" /\ r.type \in RecordTypes
        /\ r.severity = severity
    BY DEF RecordTypes
  <1> HIDE DEF r
  <1>3. line = IF r.type = "entry"
               THEN [type |-> "entry", sequence |-> Len(records), ordinal |-> r.ordinal]
               ELSE [type |-> "diagnostic", sequence |-> Len(records), severity |-> r.severity]
    BY <1>2
  <1> HIDE DEF line
  <1>4. Lines' = Append(Lines, line) /\ Len(records)' = Len(records) + 1
    BY <1>1, <1>3, NextLine
  <1>5. Counted' = [Counted EXCEPT !["diagnostic"] = @ + 1]
    BY <1>1, <1>2, NextCounted
  <1>6. E!Line("diagnostic", [severity |-> severity]) = line
    BY JoinedLine DEF line
  <1> QED
    BY <1>4, <1>5, <1>6 DEF E!Emit

LEMMA EntryEmits ==
  ASSUME Typed, Emit
  PROVE  E!Emit("entry", [ordinal |-> entry_count])
  <1> DEFINE line == [type |-> "entry", sequence |-> Len(records), ordinal |-> entry_count]
  <1>1. PICK r : records' = Append(records, r) /\ r.type = "entry" /\ r.ordinal = entry_count
    BY DEF Emit
  <1>2. r.type \in RecordTypes
    BY <1>1 DEF RecordTypes
  <1>3. line = IF r.type = "entry"
               THEN [type |-> "entry", sequence |-> Len(records), ordinal |-> r.ordinal]
               ELSE [type |-> "diagnostic", sequence |-> Len(records), severity |-> r.severity]
    BY <1>1
  <1> HIDE DEF line
  <1>4. Lines' = Append(Lines, line) /\ Len(records)' = Len(records) + 1
    BY <1>1, <1>3, NextLine
  <1>5. Counted' = [Counted EXCEPT !["entry"] = @ + 1]
    BY <1>1, <1>2, NextCounted
  <1>6. E!Line("entry", [ordinal |-> entry_count]) = line
    BY JoinedLine DEF line
  <1> QED
    BY <1>4, <1>5, <1>6 DEF E!Emit

LEMMA DiagnoseDiagnoses ==
  ASSUME Typed, NEW severity \in Severities, NEW code, Diagnose(severity, code)
  PROVE  /\ E!Diagnose(severity)
         /\ severity = "warning" => Diagnosed.error' = Diagnosed.error
         /\ severity = "error" => Diagnosed.error' = Diagnosed.error + 1
  <1>1. E!Emit("diagnostic", [severity |-> severity])
    BY DiagnoseEmits
  <1>2. \A other : /\ other = severity =>
                          Cardinality(Said(other))' = Cardinality(Said(other)) + 1
                   /\ other # severity => Cardinality(Said(other))' = Cardinality(Said(other))
    BY SaidGrows
  <1>3. Diagnosed' = [Diagnosed EXCEPT ![severity] = @ + 1]
    BY <1>2 DEF Diagnosed, Severities
  <1> QED
    BY <1>1, <1>2, <1>3 DEF E!Diagnose, Diagnosed

LEMMA WarnMaps ==
  ASSUME Typed, NEW code, Diagnose("warning", code), NEW next, Place' = next,
         entry_count' = entry_count
  PROVE  E!Warn(next)
  <1>1. E!Diagnose("warning") /\ Diagnosed.error' = Diagnosed.error
    BY DiagnoseDiagnoses DEF Severities
  <1> QED
    BY <1>1 DEF E!Warn, E!totals, E!capture, E!history

LEMMA ComplainMaps ==
  ASSUME Typed, NEW code, Diagnose("error", code), NEW next, Place' = next,
         entry_count' = entry_count, Diagnosed.error <= 2 * MaxEntries + 2
  PROVE  E!Complain(next)
  <1>1. E!Diagnose("error") /\ Diagnosed.error' = Diagnosed.error + 1
    BY DiagnoseDiagnoses DEF Severities
  <1>2. Diagnosed.error \in Nat
    BY ErrorsCounted DEF Diagnosed
  <1>3. E!Trouble(1)
    BY <1>1, <1>2, BoundAssumption DEF E!Trouble
  <1> QED
    BY <1>1, <1>3 DEF E!Complain, E!totals, E!capture

LEMMA ProceedMaps ==
  ASSUME NEW next, Place' = next, UNCHANGED <<records, entry_count>>
  PROVE  E!Proceed(next)
  <1>1. UNCHANGED <<Lines, Counted, Diagnosed>>
    BY DEF Lines, Line, Counted, Diagnosed, Said, Places
  <1> QED
    BY <1>1 DEF E!Proceed, E!writer, E!totals, E!capture, E!history

LEMMA StutterMaps ==
  ASSUME Place' = Place, UNCHANGED <<records, entry_count>>
  PROVE  UNCHANGED E!vars
  <1>1. UNCHANGED <<Lines, Counted, Diagnosed>>
    BY DEF Lines, Line, Counted, Diagnosed, Said, Places
  <1> QED
    BY <1>1 DEF E!vars, E!writer, E!totals, E!loop, E!capture, E!history

-----------------------------------------------------------------------------
(* The steps.                                                              *)

\* What an error must leave room for.
LEMMA Room ==
  ASSUME Typed, Bounded, pc # "returned", pc \in {"length", "normalize", "strip"} => said <= 1
  PROVE  pc # "emit" => Diagnosed.error <= 2 * MaxEntries + 2
  <1>1. /\ entry_count \in 0 .. MaxEntries /\ said \in Nat /\ MaxEntries \in Nat
        /\ pc # "emit" => said <= 1
    BY BoundAssumption DEF Typed, TypeOK
  <1>2. Diagnosed.error \in Nat /\ Diagnosed.error <= 2 * entry_count + said
    BY ErrorsCounted DEF Diagnosed, Bounded
  <1> QED
    BY <1>1, <1>2

\* The two ways of a traversal to end with its last record.
LEMMA EndMaps ==
  ASSUME Typed, Bounded, pc \in {"read", "advance"}, NEW code, Diagnose("error", code),
         pc' = "returned", entry_count' = entry_count
  PROVE  E!Complain("discover")
  <1>1. Diagnosed.error <= 2 * MaxEntries + 2
    BY Room
  <1>2. Place' = "discover"
    BY DEF Place
  <1> QED
    BY <1>1, <1>2, ComplainMaps

LEMMA TopMaps == ASSUME Typed, Top PROVE E!Traverse
  <1>1. /\ pc = "top" /\ Place = "top" /\ entry_count' = entry_count
        /\ said = 0 /\ said' = said
    BY DEF Top, Place, Typed
  <1>2. CASE engine.first = "none"
    <2>1. Diagnose("warning", "module.empty") /\ Place' = "discover"
      BY <1>2 DEF Top, Return, Place
    <2> QED
      BY <1>1, <2>1, WarnMaps DEF E!Traverse, E!Empty, E!loop
  <1>3. CASE engine.first # "none"
    <2>1. records' = records /\ Place' = "read"
      BY <1>1, <1>3 DEF Top, Place
    <2> QED
      BY <1>1, <2>1, ProceedMaps DEF E!Traverse, E!Positioned, E!loop
  <1> QED
    BY <1>2, <1>3

LEMMA ReadMaps == ASSUME Typed, Bounded, Read PROVE E!Traverse \/ UNCHANGED E!vars
  <1>1. pc = "read" /\ Place = "read" /\ entry_count' = entry_count /\ said' = said /\ said = 0
    BY DEF Read, Place, Typed
  <1>2. CASE Stalled \/ at \in engine.unreadable
    <2>1. PICK code : Diagnose("error", code) /\ pc' = "returned"
      BY <1>2 DEF Read, Return
    <2> QED
      BY <1>1, <2>1, EndMaps DEF E!Traverse, E!Unreadable, E!loop
  <1>3. CASE ~Stalled /\ at \notin engine.unreadable
    <2>1. records' = records /\ pc' = "length"
      BY <1>3 DEF Read
    <2>2. Place' = "read"
      BY <1>1, <2>1 DEF Place
    <2> QED
      BY <1>1, <2>1, <2>2, StutterMaps
  <1> QED
    BY <1>2, <1>3

\* Within an entry Extraction's place depends on what has been said, and on the length.
LEMMA InnerPlace ==
  /\ pc \in Inner => Place = IF said = 0 THEN "read"
                             ELSE IF said = 1 /\ Long THEN "project" ELSE "projected"
  /\ (pc \in Inner => Place = IF said = 0 THEN "read"
                              ELSE IF said = 1 /\ Long THEN "project" ELSE "projected")'
  BY DEF Place, Inner, Long

LEMMA LengthMaps == ASSUME Typed, Bounded, Length PROVE E!Traverse \/ UNCHANGED E!vars
  <1>1. /\ pc = "length" /\ pc' = "normalize" /\ UNCHANGED <<entry_count, text>> /\ said = 0
        /\ Long' = Long
    BY DEF Length, locals, text, Typed, Long
  <1>2. Place = "read"
    BY <1>1, InnerPlace DEF Inner
  <1>3. CASE Long
    <2>1. Diagnose("error", "entry.length.unsupported") /\ said' = said + 1
      BY <1>3 DEF Length, Long
    <2>2. Place' = "project"
      BY <1>1, <1>3, <2>1, InnerPlace DEF Inner
    <2>3. Diagnosed.error <= 2 * MaxEntries + 2
      BY <1>1, Room
    <2>4. E!Complain("project")
      BY <1>1, <2>1, <2>2, <2>3, ComplainMaps
    <2> QED
      BY <1>2, <2>4 DEF E!Traverse, E!TooLong, E!loop
  <1>4. CASE ~Long
    <2>1. records' = records /\ said' = said
      BY <1>4 DEF Length, Long
    <2>2. Place' = Place
      BY <1>1, <1>2, <2>1, InnerPlace DEF Inner
    <2> QED
      BY <1>1, <2>1, <2>2, StutterMaps
  <1> QED
    BY <1>3, <1>4

\* A remark of normalisation or stripping.
LEMMA RemarkMaps ==
  ASSUME Typed, Bounded, pc \in {"normalize", "strip"}, pc' \in {"strip", "emit"},
         said = (IF Long THEN 1 ELSE 0), said' = said + 1, Long' = Long,
         entry_count' = entry_count,
         NEW severity \in Severities, NEW code, Diagnose(severity, code)
  PROVE  E!Traverse
  <1>1. Place \in {"read", "project"} /\ Place' = "projected"
    BY InnerPlace DEF Inner
  <1>2. Diagnosed.error <= 2 * MaxEntries + 2
    BY Room
  <1>3. E!Warn("projected") \/ E!Complain("projected")
    <2>1. CASE severity = "warning"
      BY <1>1, <2>1, WarnMaps
    <2>2. CASE severity = "error"
      BY <1>1, <1>2, <2>2, ComplainMaps
    <2> QED
      BY <2>1, <2>2 DEF Severities
  <1> QED
    BY <1>1, <1>3 DEF E!Traverse, E!Remark, E!loop

LEMMA NormalizeMaps == ASSUME Typed, Bounded, Normalize PROVE E!Traverse \/ UNCHANGED E!vars
  <1>1. /\ pc = "normalize" /\ pc' = "strip" /\ UNCHANGED <<entry_count, text>>
        /\ said = (IF Long THEN 1 ELSE 0) /\ Long' = Long
    BY DEF Normalize, text, Typed, Long
  <1>2. CASE normalized'.has
    <2>1. records' = records /\ said' = said
      BY <1>2 DEF Normalize
    <2>2. Place' = Place
      BY <1>1, <2>1, InnerPlace DEF Inner
    <2> QED
      BY <1>1, <2>1, <2>2, StutterMaps
  <1>3. CASE ~normalized'.has
    <2>1. Diagnose("warning", "entry.encoding.unavailable") /\ said' = said + 1
      BY <1>3 DEF Normalize
    <2> QED
      BY <1>1, <2>1, RemarkMaps DEF Severities
  <1> QED
    BY <1>2, <1>3

LEMMA StripMaps == ASSUME Typed, Bounded, Strip PROVE E!Traverse \/ UNCHANGED E!vars
  <1>1. /\ pc = "strip" /\ pc' = "emit" /\ UNCHANGED <<entry_count, text>>
        /\ normalized.has => said = (IF Long THEN 1 ELSE 0)
        /\ Long' = Long
    BY DEF Strip, text, Typed, Long
  <1>2. CASE StripDefect = "none"
    <2>1. records' = records /\ said' = said
      BY <1>2 DEF Strip
    <2>2. Place' = Place
      BY <1>1, <2>1, InnerPlace DEF Inner
    <2> QED
      BY <1>1, <2>1, <2>2, StutterMaps
  <1>3. CASE StripDefect # "none"
    <2>1. PICK severity \in Severities : Diagnose(severity, StripDefect)
      BY <1>3 DEF Strip, Severities
    <2>2. said' = said + 1
      BY <1>3 DEF Strip
    <2>3. normalized.has
      BY <1>3 DEF StripDefect
    <2> QED
      BY <1>1, <2>1, <2>2, <2>3, RemarkMaps
  <1> QED
    BY <1>2, <1>3

LEMMA EmitMaps == ASSUME Typed, Emit PROVE E!Traverse
  <1>1. /\ pc = "emit" /\ pc' = "advance" /\ entry_count' = entry_count + 1 /\ said' = 0
        /\ entry_count \in Nat /\ MaxEntries \in Nat /\ entry_count < MaxEntries
    BY BoundAssumption DEF Emit, Typed, TypeOK
  <1>2. Place \in {"read", "project", "projected"} /\ Place' = "advance"
    BY <1>1, InnerPlace DEF Inner, Place
  <1>3. E!Emit("entry", [ordinal |-> entry_count])
    BY EntryEmits
  <1>4. Diagnosed' = Diagnosed
    BY EmitSaysNothing DEF Diagnosed
  <1>5. entry_count < MaxEntries + 1
    BY <1>1
  <1> QED
    BY <1>1, <1>2, <1>3, <1>4, <1>5
    DEF E!Traverse, E!Entry, E!Put, E!capture, E!history, E!loop

LEMMA AdvanceMaps == ASSUME Typed, Bounded, Advance PROVE E!Traverse
  <1>1. /\ pc = "advance" /\ Place = "advance" /\ entry_count' = entry_count
        /\ said = 0 /\ said' = said
    BY DEF Advance, Place, Typed
  <1>2. CASE \E code : Diagnose("error", code) /\ pc' = "returned"
    BY <1>1, <1>2, EndMaps DEF E!Traverse, E!Increment, E!loop
  <1>3. CASE records' = records /\ pc' = "returned"
    <2>1. Place' = "discover"
      BY <1>3 DEF Place
    <2> QED
      BY <1>1, <1>3, <2>1, ProceedMaps DEF E!Traverse, E!Increment, E!loop
  <1>4. CASE records' = records /\ pc' = "read"
    <2>1. Place' = "read"
      BY <1>1, <1>4 DEF Place
    <2>2. entry_count < MaxEntries + 1
      BY BoundAssumption DEF Typed, TypeOK
    <2> QED
      BY <1>1, <1>4, <2>1, <2>2, ProceedMaps DEF E!Traverse, E!Increment, E!loop
  <1> QED
    BY <1>2, <1>3, <1>4 DEF Advance, Return

LEMMA NextMaps == Typed /\ Bounded /\ [Next]_vars => [E!Traverse]_(E!vars)
  <1> SUFFICES ASSUME Typed, Bounded, [Next]_vars PROVE E!Traverse \/ UNCHANGED E!vars
    OBVIOUS
  <1>1. CASE UNCHANGED vars
    <2>1. UNCHANGED <<engine, pc, at, said, records, entry_count>>
      BY <1>1 DEF vars, locals
    <2>2. Place' = Place
      BY <2>1 DEF Place, text
    <2> QED
      BY <2>1, <2>2, StutterMaps
  <1> QED
    BY <1>1, TopMaps, ReadMaps, LengthMaps, NormalizeMaps, StripMaps, EmitMaps, AdvanceMaps
    DEF Next

-----------------------------------------------------------------------------
(* What a traversal guarantees.                                            *)

\* The traversal is where its control says, with at most two diagnostics for an entry.
THEOREM TraversalTypeOK == Spec => []TypeOK
  <1>1. Typed => TypeOK
    BY DEF Typed
  <1> QED
    BY <1>1, InitTyped, NextTyped, PTL DEF Spec

\* An answer of true means the whole walk, or as many entries as the dictionary declares;
\* with one of false the last record is the error that explains it.
THEOREM TraversalIsCompleteOrDiagnosed == Spec => []CompleteOrDiagnosed
  <1>1. Init => Typed /\ Walked /\ Compared /\ Answered
    BY InitTyped, InitFollows
  <1>2. Answered => CompleteOrDiagnosed
    BY DEF Answered
  <1> QED
    BY <1>1, <1>2, NextTyped, NextWalked, NextCompared, NextAnswered, PTL DEF Spec

\* A dictionary that counts its entries keeps all of them, however alike they look; any
\* other module ends before the second of two that do.
THEOREM DuplicatesAreAlwaysKept == Spec => []DuplicatesAreKept
  <1>1. Init => Typed /\ Walked /\ Compared /\ Answered
    BY InitTyped, InitFollows
  <1> QED
    BY <1>1, Duplicates, NextTyped, NextWalked, NextCompared, NextAnswered, PTL DEF Spec

\* Entries come in the order of the walk, one for each of its places, with the next
\* ordinal, and with the bytes the engine shows there and no other's.
THEOREM EntriesAlwaysFollowWalk == Spec => []EntriesFollowWalk
  <1>1. Init => Typed /\ Walked /\ Followed
    BY InitTyped, InitFollows, InitFollowed
  <1>2. Walked /\ Followed => EntriesFollowWalk
    BY DEF Walked, Followed, EntriesFollowWalk, Own, Inner
  <1> QED
    BY <1>1, <1>2, NextTyped, NextWalked, NextFollowed, PTL DEF Spec

\* With any engine, every step is one that Extraction may take in its traversal, so that
\* what is shown of its records, counts and errors holds for these too.
THEOREM Implementation == Spec => ImplementsTraverse
  <1>1. Typed /\ Bounded /\ [Next]_vars => [E!Traverse]_(E!vars)
    BY NextMaps
  <1> QED
    BY <1>1, InitTyped, InitBounded, NextTyped, NextBounded, PTL DEF Spec, ImplementsTraverse
=============================================================================

------------------------- MODULE ArtifactCapture_proofs -------------------------
(***************************************************************************)
(* What a capture guarantees for any number of candidates, files of any       *)
(* length and any number of changes to them: TypeOK, FailureIsDiagnosed and    *)
(* QuietTreeIsCaptured, and StableIsSnapshot when no two changes share a        *)
(* timestamp.                                                              *)
(***************************************************************************)
EXTENDS ArtifactCapture, SequenceTheorems, FiniteSetTheorems, TLAPS

-----------------------------------------------------------------------------
(* The inductive invariants.                                               *)

Inodes == [kind : Kinds, content : Seq(Nat), time : Nat]
Stats == [kind : Kinds \cup {"none"}, ino : Nat, size : Nat, time : Nat]
Groups == [kind : Kinds \cup {"none"}, id : Nat, data : Seq(Nat), expected : Nat,
           chunks : Seq(Nat), stable : BOOLEAN]
Diagnostics == [candidate : Index, code : Codes]

\* What a regular file goes through after lstat.
Regular == {"open", "waiting", "fstat", "read", "end"}

\* What every variable may be, and what is known of the candidate's inode.
Typed ==
    /\ TypeOK
    /\ inode \in Seq(Inodes) /\ object \in [Index -> Nat]
    /\ changes \in Nat /\ clock \in Nat
    /\ metadata \in Stats /\ opened \in Stats
    /\ captured \in Seq(Nat) /\ chunks \in Seq(Nat)
    /\ outcome \in [Index -> Groups]
    /\ diagnostics \in Seq(Diagnostics)
    /\ truth \in [Index -> Seq(Nat)]
    /\ artifacts < current
    /\ pc \in {"lstat", "readlink"} \cup Regular => current \in Index
    /\ pc \in {"report", "returned"} => current = Candidates + 1
    /\ pc \in Regular => metadata.ino \in 1 .. Len(inode)
    /\ pc \in Regular \ {"open"} => file \in 1 .. Len(inode)
    /\ pc \in {"read", "end"} => opened = metadata /\ file = metadata.ino

\* A candidate has a diagnostic before it is left only for a failed read.
HasDiagnostic(c) == \E n \in 1 .. Len(diagnostics) : diagnostics[n].candidate = c

Faithful(c) ==
    outcome[c].kind # "none" /\ (outcome[c].kind = "regular" => outcome[c].stable)

Beginning(c) ==
    outcome[c].kind = "symlink" =>
        /\ Len(outcome[c].data) <= Len(truth[c])
        /\ \A k \in 1 .. Len(outcome[c].data) : outcome[c].data[k] = truth[c][k]

Diagnosed ==
    /\ \A c \in Index : IF c < current THEN (HasDiagnostic(c) <=> ~Faithful(c)) /\ Beginning(c)
                        ELSE /\ outcome[c].kind = "none"
                             /\ HasDiagnostic(c) => c = current /\ readFailed
    /\ readFailed => pc = "end" /\ HasDiagnostic(current)
    /\ success <=> diagnostics = <<>>
    /\ pc = "returned" => reported = Len(diagnostics)

\* While nothing has changed, everything is as lstat saw it, and what has been read of a
\* file is a beginning of it.
AsItIs(c) ==
    LET there == inode[object[c]]
    IN  IF there.kind \in Supported
        THEN /\ outcome[c].kind = there.kind
             /\ outcome[c].data = there.content
             /\ there.kind = "regular" => outcome[c].stable
        ELSE outcome[c].kind = "none"

LookedAt ==
    /\ object[current] \in 1 .. Len(inode) /\ metadata = Stat(object[current])
    /\ inode[object[current]].kind = IF pc = "readlink" THEN "symlink" ELSE "regular"
    /\ pc \in {"fstat", "read", "end"} => file = object[current]

BeingRead ==
    LET there == inode[object[current]].content
    IN  /\ Len(captured) <= Len(there)
        /\ \A k \in 1 .. Len(captured) : captured[k] = there[k]
        /\ pc = "end" /\ current \notin failed => ~readFailed /\ Len(captured) = Len(there)

Quiet ==
    changes = 0 =>
        /\ QuietTreeIsCaptured
        /\ \A i \in 1 .. Len(inode) : inode[i].kind = "directory" => inode[i].content = <<>>
        /\ pc # "waiting"
        /\ pc \in {"readlink"} \cup Regular => LookedAt
        /\ pc \in {"read", "end"} => BeingRead
        /\ pc \notin {"read", "end"} => captured = <<>>

\* A file whose timestamp is still that of lstat has the content it had then, and
\* what has been captured of it is a beginning of that, all of it at the end.
SameTime == inode[metadata.ino].time = metadata.time

Snapshot ==
    /\ \A i \in 1 .. Len(inode) : inode[i].time <= clock
    /\ pc \in Regular => /\ metadata.time <= clock
                         /\ metadata.size = Len(truth[current])
                         /\ SameTime => inode[metadata.ino].content = truth[current]
    /\ pc \notin {"read", "end"} => captured = <<>>
    /\ pc \in {"read", "end"} /\ SameTime =>
           /\ Len(captured) <= Len(truth[current])
           /\ \A k \in 1 .. Len(captured) : captured[k] = truth[current][k]
           /\ pc = "end" /\ ~readFailed => Len(captured) = Len(truth[current])
    /\ StableIsSnapshot
    /\ \A c \in Index : c >= current => ~outcome[c].stable

\* The candidates that have a group, and the blocks in the groups.
Grouped(out) == {c \in Index : out[c].kind # "none"}
Blocks(out) == UNION {{c} \X DOMAIN out[c].data : c \in Index}

\* Candidates have no group, and so nothing emitted, before their turn.
Counted ==
    /\ \A c \in Index : c >= current => outcome[c] = NoGroup
    /\ IsFiniteSet(Blocks(outcome))
    /\ GroupsAreCounted

\* The group of a regular file, as artifact_end leaves it.
EndGroup(stable) ==
    [kind |-> "regular", id |-> artifacts, data |-> captured, expected |-> metadata.size,
     chunks |-> chunks, stable |-> stable /\ ~readFailed]

USE CandidatesAssumption, ChunkAssumption, BoundsAssumption, ClockAssumption DEF Supported

-----------------------------------------------------------------------------
(* The initial states.                                                     *)

LEMMA InitInodes == Init => inode \in Seq(Inodes) /\ Len(inode) = Candidates
                            /\ \A i \in 1 .. Len(inode) : inode[i].time = 0
<1> SUFFICES ASSUME Init PROVE inode \in Seq(Inodes) /\ Len(inode) = Candidates
                               /\ \A i \in 1 .. Len(inode) : inode[i].time = 0
  OBVIOUS
<1>1. ASSUME NEW k \in Kinds, NEW s \in Contents(k, 0) PROVE s \in Seq(Nat)
  <2>1. \A n \in Nat : [1 .. n -> {0}] \subseteq Seq({0})
    BY SeqDef
  <2>2. Seq({0}) \subseteq Seq(Nat)
    BY SeqMonotonic
  <2>3. <<>> \in Seq(Nat)
    BY EmptySeq
  <2> QED
    BY <2>1, <2>2, <2>3 DEF Contents, Kinds
<1>2. inode \in [Index -> {i \in Inodes : i.time = 0}]
  BY <1>1 DEF Init, Inodes
<1>3. inode \in [1 .. Candidates -> Inodes]
  BY <1>2 DEF Index
<1>4. inode \in Seq(Inodes) /\ Len(inode) = Candidates
  BY <1>3, SeqDef, LenProperties
<1> QED
  BY <1>2, <1>4 DEF Index

LEMMA InitAll == Init => Typed /\ Diagnosed /\ Quiet /\ Snapshot
<1> SUFFICES ASSUME Init PROVE Typed /\ Diagnosed /\ Quiet /\ Snapshot
  OBVIOUS
<1>1. <<>> \in Seq(Nat) /\ <<>> \in Seq(Diagnostics) /\ Len(<<>>) = 0
  BY EmptySeq
<1>2. /\ inode \in Seq(Inodes) /\ Len(inode) = Candidates
      /\ \A i \in 1 .. Len(inode) : inode[i] \in Inodes /\ inode[i].time = 0
  BY InitInodes, ElementOfSeq
<1>3. TypeOK
  <2>1. /\ pc \in Places /\ current \in 1 .. Candidates + 1
        /\ file \in 0 .. Len(inode) /\ artifacts \in 0 .. Candidates
        /\ metadata.kind \in Kinds \cup {"none"}
    BY <1>2 DEF Init, Places, Blank
  <2>0. success \in BOOLEAN /\ readFailed \in BOOLEAN /\ failed \subseteq Index
    BY Zenon DEF Init
  <2>2. \A c \in Index : object[c] \in 0 .. Len(inode)
    BY <1>2 DEF Init, Index
  <2>3. \A i \in 1 .. Len(inode) : inode[i].kind \in Kinds
    BY <1>2 DEF Inodes
  <2>4. reported = 0 /\ Len(diagnostics) = 0
    BY <1>1 DEF Init
  <2> QED
    BY <2>0, <2>1, <2>2, <2>3, <2>4 DEF TypeOK
<1>4. Typed
  <2>1. Blank \in Stats /\ NoGroup \in Groups
    BY <1>1 DEF Blank, NoGroup, Stats, Groups
  <2> QED
    BY <1>1, <1>2, <1>3, <2>1 DEF Init, Typed, Index, Regular
<1>5. Diagnosed
  BY <1>1 DEF Init, Diagnosed, HasDiagnostic, Faithful, Beginning, NoGroup, Index
<1>6. Quiet
  <2>1. ASSUME NEW i \in Index, inode[i].kind = "directory" PROVE inode[i].content = <<>>
    <3>1. \E k \in Kinds : \E t \in Contents(k, 0) :
              inode[i] = [kind |-> k, content |-> t, time |-> 0]
      BY DEF Init
    <3>a. PICK k \in Kinds : \E t \in Contents(k, 0) :
              inode[i] = [kind |-> k, content |-> t, time |-> 0]
      BY <3>1
    <3>2. PICK t \in Contents(k, 0) : inode[i] = [kind |-> k, content |-> t, time |-> 0]
      BY <3>a
    <3>3. inode[i].kind = k /\ inode[i].content = t
      BY <3>2
    <3> QED
      BY <2>1, <3>3 DEF Contents
  <2> QED
    BY <1>1, <1>2, <2>1 DEF Init, Quiet, QuietTreeIsCaptured, Regular, Index
<1>7. Snapshot
  BY <1>1, <1>2 DEF Init, Snapshot, StableIsSnapshot, NoGroup, Regular
<1> QED
  BY <1>4, <1>5, <1>6, <1>7

-----------------------------------------------------------------------------
(* What the parts of a step do.                                            *)

\* On to the next candidate.
LEMMA AdvanceEffect ==
    ASSUME Typed, current \in Index, Advance
    PROVE  /\ current' = current + 1 /\ current' \in 1 .. Candidates + 1
           /\ pc' \in {"lstat", "report"}
           /\ pc' = "lstat" => current' \in Index
           /\ pc' = "report" => current' = Candidates + 1
           /\ metadata' = Blank /\ file' = 0 /\ opened' = Blank
           /\ captured' = <<>> /\ chunks' = <<>> /\ readFailed' = FALSE
BY DEF Typed, TypeOK, Advance, Index

\* A diagnostic more, about the current candidate.
LEMMA CollectEffect ==
    ASSUME Typed, current \in Index, NEW code \in Codes, Collect(code)
    PROVE  /\ diagnostics' \in Seq(Diagnostics)
           /\ Len(diagnostics') = Len(diagnostics) + 1
           /\ \A n \in 1 .. Len(diagnostics) : diagnostics'[n] = diagnostics[n]
           /\ diagnostics'[Len(diagnostics) + 1] = [candidate |-> current, code |-> code]
           /\ diagnostics' # <<>>
<1> DEFINE d == [candidate |-> current, code |-> code]
<1>1. d \in Diagnostics /\ diagnostics \in Seq(Diagnostics) /\ diagnostics' = Append(diagnostics, d)
  BY DEF Diagnostics, Typed, Collect
<1> HIDE DEF d
<1>2. /\ diagnostics' \in Seq(Diagnostics)
      /\ Len(diagnostics') = Len(diagnostics) + 1
      /\ \A n \in 1 .. Len(diagnostics) : diagnostics'[n] = diagnostics[n]
      /\ diagnostics'[Len(diagnostics) + 1] = d
  BY <1>1, AppendProperties
<1>3. diagnostics' # <<>>
  BY <1>1, <1>2, EmptySeq, LenProperties
<1> QED
  BY <1>2, <1>3 DEF d

\* What a change of the tree may do to what there is.
LEMMA TickEffect ==
    ASSUME Typed, Tick
    PROVE  /\ changes' = changes + 1 /\ changes' \in Nat
           /\ clock' \in Nat /\ clock' >= clock
           /\ ~CoarseClock => clock' = clock + 1
BY DEF Typed, Tick

LEMMA RewriteEffect ==
    ASSUME Typed, Tick, Rewrite(current), current \in Index
    PROVE  /\ inode' \in Seq(Inodes) /\ Len(inode') = Len(inode)
           /\ \A i \in 1 .. Len(inode) : inode'[i] = inode[i] \/ inode'[i].time = clock'
           /\ object' = object
<1> DEFINE i == object[current]
           old == inode[i].content
<1>0. i \in 1 .. Len(inode) /\ inode \in Seq(Inodes)
  <2>1. inode \in Seq(Inodes) /\ i \in 0 .. Len(inode)
    BY DEF Typed, TypeOK
  <2>2. i # 0
    BY DEF Rewrite, Kind
  <2>3. Len(inode) \in Nat
    BY <2>1, LenProperties
  <2> QED
    BY <2>1, <2>2, <2>3
<1>1. i \in 1 .. Len(inode) /\ inode[i] \in Inodes /\ old \in Seq(Nat)
  <2> HIDE DEF i
  <2>1. inode[i] \in Inodes
    BY <1>0, ElementOfSeq
  <2> QED
    BY <1>0, <2>1 DEF Inodes
<1>2. PICK s : /\ \/ \E k \in DOMAIN old : s = [old EXCEPT ![k] = changes']
                  \/ s = Append(old, changes')
                  \/ \E n \in 0 .. Len(old) - 1 : s = SubSeq(old, 1, n)
               /\ inode' = [inode EXCEPT ![i].content = s, ![i].time = clock']
  BY DEF Rewrite
<1>3. s \in Seq(Nat)
  <2>1. changes' \in Nat
    BY TickEffect
  <2>2. CASE \E k \in DOMAIN old : s = [old EXCEPT ![k] = changes']
    BY <1>1, <2>1, <2>2, ExceptSeq
  <2>3. CASE s = Append(old, changes')
    BY <1>1, <2>1, <2>3, AppendProperties
  <2>4. CASE \E n \in 0 .. Len(old) - 1 : s = SubSeq(old, 1, n)
    <3>1. PICK n \in 0 .. Len(old) - 1 : s = SubSeq(old, 1, n)
      BY <2>4
    <3>2. n \in Int /\ \A k \in 1 .. n : old[k] \in Nat
      <4>1. Len(old) \in Nat
        BY <1>1, LenProperties
      <4>2. \A k \in 1 .. Len(old) : old[k] \in Nat
        BY <1>1, ElementOfSeq
      <4> HIDE DEF old
      <4> QED
        BY <3>1, <4>1, <4>2
    <3>3. SubSeq(old, 1, n) \in Seq(Nat)
      BY <3>2, SubSeqProperties
    <3> QED
      BY <3>1, <3>3
  <2> QED
    BY <1>2, <2>2, <2>3, <2>4
<1> DEFINE e == [inode[i] EXCEPT !.content = s, !.time = clock']
<1>4. e \in Inodes /\ e.time = clock' /\ inode' = [inode EXCEPT ![i] = e]
  BY <1>1, <1>2, <1>3, TickEffect DEF Inodes
<1> HIDE DEF e
<1>6. inode' \in Seq(Inodes) /\ Len(inode') = Len(inode)
      /\ \A j \in 1 .. Len(inode) : inode'[j] = IF j = i THEN e ELSE inode[j]
  BY <1>0, <1>4, ExceptSeq
<1> QED
  BY <1>4, <1>6 DEF Rewrite

LEMMA UnlinkedEffect ==
    ASSUME Typed, clock' \in Nat, current \in Index
    PROVE  /\ Unlinked(current) \in Seq(Inodes) /\ Len(Unlinked(current)) = Len(inode)
           /\ \A i \in 1 .. Len(inode) :
                  Unlinked(current)[i] = inode[i] \/ Unlinked(current)[i].time = clock'
<1> DEFINE i == object[current]
           e == [inode[i] EXCEPT !.time = clock']
<1>1. inode \in Seq(Inodes) /\ i \in 0 .. Len(inode)
  BY DEF Typed, TypeOK
<1>2. Len(inode) \in Nat
  BY <1>1, LenProperties
<1>3. CASE i = 0
  BY <1>1, <1>3 DEF Unlinked
<1>4. CASE i # 0
  <2>1. i \in 1 .. Len(inode) /\ Unlinked(current) = [inode EXCEPT ![i] = e]
    BY <1>1, <1>2, <1>4 DEF Unlinked
  <2> HIDE DEF i
  <2>2. inode[i] \in Inodes
    BY <1>1, <2>1, ElementOfSeq
  <2>3. e \in Inodes /\ e.time = clock'
    BY <2>2 DEF Inodes
  <2> HIDE DEF e
  <2>4. /\ [inode EXCEPT ![i] = e] \in Seq(Inodes) /\ Len([inode EXCEPT ![i] = e]) = Len(inode)
        /\ \A j \in 1 .. Len(inode) :
               [inode EXCEPT ![i] = e][j] = IF j = i THEN e ELSE inode[j]
    BY <1>1, <2>1, <2>3, ExceptSeq
  <2> QED
    BY <2>1, <2>3, <2>4
<1> QED
  BY <1>3, <1>4

\* Whatever is done to the tree, an inode that is not as it was has the new time, and
\* so has one that was not there.
LEMMA ChangeEffect ==
    ASSUME Typed, Change
    PROVE  /\ changes' = changes + 1 /\ changes' \in Nat /\ current \in Index
           /\ clock' \in Nat /\ clock' >= clock /\ (~CoarseClock => clock' = clock + 1)
           /\ inode' \in Seq(Inodes) /\ Len(inode) \in Nat /\ Len(inode') \in Nat
           /\ Len(inode') >= Len(inode)
           /\ \A i \in 1 .. Len(inode) : inode'[i] = inode[i] \/ inode'[i].time = clock'
           /\ \A i \in 1 .. Len(inode') : i > Len(inode) => inode'[i].time = clock'
           /\ object' \in [Index -> Nat]
           /\ \A c \in Index : object'[c] \in 0 .. Len(inode')
           /\ UNCHANGED <<pc, current, metadata, file, opened, captured, chunks, readFailed,
                          outcome, artifacts, success, diagnostics, reported, truth, failed>>
<1>1. UNCHANGED <<pc, current, metadata, file, opened, captured, chunks, readFailed,
                  outcome, artifacts, success, diagnostics, reported, truth, failed>>
  BY DEF Change, locals, result, history
<1>2. Tick /\ current \in Index /\ (Rewrite(current) \/ Replace(current) \/ Remove(current))
  BY DEF Change, Rewrite, Replace, Remove
<1>3. /\ changes' = changes + 1 /\ changes' \in Nat
      /\ clock' \in Nat /\ clock' >= clock /\ (~CoarseClock => clock' = clock + 1)
  BY <1>2, TickEffect
<1>4. inode \in Seq(Inodes) /\ Len(inode) \in Nat /\ object \in [Index -> Nat]
      /\ \A c \in Index : object[c] \in 0 .. Len(inode)
  BY LenProperties DEF Typed, TypeOK
<1>5. CASE Rewrite(current)
  <2>1. /\ inode' \in Seq(Inodes) /\ Len(inode') = Len(inode) /\ object' = object
        /\ \A i \in 1 .. Len(inode) : inode'[i] = inode[i] \/ inode'[i].time = clock'
    BY <1>2, <1>5, RewriteEffect
  <2> QED
    BY <1>1, <1>2, <1>3, <1>4, <2>1
<1>6. CASE Remove(current)
  <2>1. inode' = Unlinked(current) /\ object' = [object EXCEPT ![current] = 0]
    BY <1>6 DEF Remove
  <2>2. /\ inode' \in Seq(Inodes) /\ Len(inode') = Len(inode)
        /\ \A i \in 1 .. Len(inode) : inode'[i] = inode[i] \/ inode'[i].time = clock'
    BY <1>2, <1>3, <2>1, UnlinkedEffect
  <2> QED
    BY <1>1, <1>2, <1>3, <1>4, <2>1, <2>2
<1>7. CASE Replace(current)
  <2>0. PICK kind \in Kinds :
           \E n \in CASE kind = "regular" -> 1 .. MaxBlocks
                  [] kind = "symlink" -> {1, MaxBlocks + 1}
                  [] OTHER            -> {0} :
               inode' = Append(Unlinked(current), [kind |-> kind, time |-> clock',
                                                  content |-> [k \in 1 .. n |-> changes']])
    BY <1>7, Zenon DEF Replace
  <2>1. PICK n \in Nat :
           inode' = Append(Unlinked(current), [kind |-> kind, time |-> clock',
                                               content |-> [k \in 1 .. n |-> changes']])
    <3>1. (CASE kind = "regular" -> 1 .. MaxBlocks
             [] kind = "symlink" -> {1, MaxBlocks + 1}
             [] OTHER            -> {0}) \subseteq Nat
      OBVIOUS
    <3> QED
      BY <2>0, <3>1, Zenon
  <2> DEFINE new == [kind |-> kind, time |-> clock', content |-> [k \in 1 .. n |-> changes']]
             rest == Unlinked(current)
  <2>2. [k \in 1 .. n |-> changes'] \in Seq(Nat)
    <3>1. n \in Nat
      OBVIOUS
    <3> QED
      BY <1>3, <3>1, SeqDef
  <2>3. new \in Inodes /\ new.time = clock'
    BY <1>3, <2>2 DEF Inodes
  <2>4. /\ rest \in Seq(Inodes) /\ Len(rest) = Len(inode)
        /\ \A i \in 1 .. Len(inode) : rest[i] = inode[i] \/ rest[i].time = clock'
    BY <1>2, <1>3, UnlinkedEffect
  <2>5. inode' = Append(rest, new)
    BY <2>1
  <2> HIDE DEF new, rest
  <2>6. /\ inode' \in Seq(Inodes) /\ Len(inode') = Len(inode) + 1
        /\ \A i \in 1 .. Len(inode) : inode'[i] = rest[i]
        /\ inode'[Len(inode) + 1] = new
    BY <2>3, <2>4, <2>5, AppendProperties
  <2>7. object' = [object EXCEPT ![current] = Len(inode')]
    BY <1>7 DEF Replace
  <2>8. \A i \in 1 .. Len(inode) : inode'[i] = inode[i] \/ inode'[i].time = clock'
    BY <2>4, <2>6
  <2>9. \A i \in 1 .. Len(inode') : i > Len(inode) => inode'[i].time = clock'
    BY <1>4, <2>3, <2>6
  <2>10. object' \in [Index -> Nat] /\ \A c \in Index : object'[c] \in 0 .. Len(inode')
    <3> DEFINE m == Len(inode')
    <3>1. m \in Nat /\ object' = [object EXCEPT ![current] = m]
      BY <1>4, <2>6, <2>7
    <3>2. \A c \in Index : object[c] \in 0 .. m
      BY <1>4, <2>6
    <3> HIDE DEF m
    <3>3. object' \in [Index -> Nat]
      BY <1>4, <3>1
    <3>4. \A c \in Index : object'[c] = IF c = current THEN m ELSE object[c]
      BY <1>4, <3>1
    <3>5. \A c \in Index : object'[c] \in 0 .. m
      BY <3>1, <3>2, <3>4
    <3> QED
      BY <3>3, <3>5 DEF m
  <2> QED
    BY <1>1, <1>2, <1>3, <1>4, <2>6, <2>8, <2>9, <2>10
<1> QED
  BY <1>2, <1>5, <1>6, <1>7

-----------------------------------------------------------------------------
(* Types.                                                                  *)

LEMMA DiagnosticsTyped ==
    ASSUME NEW list \in Seq(Diagnostics)
    PROVE  \A n \in 1 .. Len(list) : list[n].candidate \in Index /\ list[n].code \in Codes
<1>1. \A n \in 1 .. Len(list) : list[n] \in Diagnostics
  BY ElementOfSeq
<1> QED
  BY <1>1 DEF Diagnostics

LEMMA InodesTyped ==
    ASSUME NEW list \in Seq(Inodes)
    PROVE  /\ Len(list) \in Nat
           /\ \A i \in 1 .. Len(list) :
                  /\ list[i] \in Inodes /\ list[i].kind \in Kinds
                  /\ list[i].content \in Seq(Nat) /\ Len(list[i].content) \in Nat
                  /\ list[i].time \in Nat
<1>1. Len(list) \in Nat /\ \A i \in 1 .. Len(list) : list[i] \in Inodes
  BY ElementOfSeq, LenProperties
<1>2. \A x \in Inodes : x.kind \in Kinds /\ x.content \in Seq(Nat) /\ x.time \in Nat
  BY DEF Inodes
<1> QED
  BY <1>1, <1>2, LenProperties

LEMMA StatTyped ==
    ASSUME Typed, NEW i \in 1 .. Len(inode)
    PROVE  /\ Stat(i) \in Stats /\ Stat(i).kind = inode[i].kind /\ Stat(i).ino = i
           /\ Stat(i).size = Len(inode[i].content) /\ Stat(i).time = inode[i].time
<1>1. inode \in Seq(Inodes)
  BY DEF Typed
<1>2. /\ i \in Nat /\ inode[i].kind \in Kinds /\ Len(inode[i].content) \in Nat
      /\ inode[i].time \in Nat
  BY <1>1, InodesTyped
<1> QED
  BY <1>2 DEF Stat, Stats

\* History.
LEMMA CallTyped ==
    ASSUME Typed, current \in Index, NEW answer, Call(answer)
    PROVE  /\ failed' \subseteq Index /\ failed \subseteq failed'
           /\ failed' \subseteq failed \cup {current}
           /\ ~answer /\ ~(changes > 0) => current \in failed'
BY Zenon DEF Call, Typed, TypeOK

LEMMA CallFailed == changes = 0 /\ Call(FALSE) => current \in failed'
BY DEF Call

\* A candidate is left.
LEMMA LeftTyped ==
    ASSUME Typed, current \in Index, Advance, UNCHANGED fs,
           outcome' \in [Index -> Groups], artifacts' \in {artifacts, artifacts + 1},
           diagnostics' \in Seq(Diagnostics), Len(diagnostics') >= Len(diagnostics),
           success' \in BOOLEAN, reported' = reported, truth' \in [Index -> Seq(Nat)],
           failed' \subseteq Index
    PROVE  Typed'
<1>1. UNCHANGED <<object, inode, changes, clock>>
  BY DEF fs
<1>2. /\ current' = current + 1 /\ current' \in 1 .. Candidates + 1
      /\ pc' \in {"lstat", "report"}
      /\ pc' = "lstat" => current' \in Index
      /\ pc' = "report" => current' = Candidates + 1
      /\ metadata' = Blank /\ file' = 0 /\ opened' = Blank
      /\ captured' = <<>> /\ chunks' = <<>> /\ readFailed' = FALSE
  BY AdvanceEffect
<1>3. <<>> \in Seq(Nat) /\ Blank \in Stats /\ Blank.kind = "none"
  BY EmptySeq DEF Blank, Stats
<1>4. artifacts' \in 0 .. Candidates /\ artifacts' < current'
  <2>1. artifacts \in Nat /\ artifacts < current /\ current \in 1 .. Candidates
    BY DEF Typed, TypeOK, Index
  <2> QED
    BY <1>2, <2>1
<1>5. /\ reported' \in 0 .. Len(diagnostics')
      /\ \A n \in 1 .. Len(diagnostics') :
             diagnostics'[n].candidate \in Index /\ diagnostics'[n].code \in Codes
  BY DiagnosticsTyped, LenProperties DEF Typed, TypeOK
<1>6. readFailed' \in BOOLEAN
  BY <1>2, Zenon
<1>7. file' \in 0 .. Len(inode')
  BY <1>1, <1>2, InodesTyped DEF Typed
<1>8. TypeOK'
  BY <1>1, <1>2, <1>3, <1>4, <1>5, <1>6, <1>7 DEF Typed, TypeOK, Places
<1> QED
  BY <1>1, <1>2, <1>3, <1>4, <1>8 DEF Typed, Regular

LEMMA SkipTyped ==
    ASSUME Typed, current \in Index, NEW code \in Codes, Skip(code), UNCHANGED fs,
           truth' \in [Index -> Seq(Nat)], failed' \subseteq Index
    PROVE  Typed'
<1>1. diagnostics' \in Seq(Diagnostics) /\ Len(diagnostics') = Len(diagnostics) + 1
  BY CollectEffect DEF Skip
<1>2. Len(diagnostics) \in Nat /\ outcome \in [Index -> Groups]
  BY LenProperties DEF Typed
<1>3. success' \in BOOLEAN
  BY Zenon DEF Skip
<1> QED
  BY <1>1, <1>2, <1>3, LeftTyped DEF Skip

LEMMA EmitWholeTyped ==
    ASSUME Typed, current \in Index, NEW kind \in Kinds, NEW data \in Seq(Nat),
           EmitWhole(kind, data), UNCHANGED fs, truth' \in [Index -> Seq(Nat)],
           failed' \subseteq Index
    PROVE  Typed'
<1> DEFINE group == [NoGroup EXCEPT !.kind = kind, !.id = artifacts, !.data = data]
<1>1. group \in Groups
  <2>1. <<>> \in Seq(Nat) /\ artifacts \in Nat
    BY EmptySeq DEF Typed, TypeOK
  <2> QED
    BY <2>1 DEF NoGroup, Groups
<1>2. outcome' = [outcome EXCEPT ![current] = group] /\ outcome \in [Index -> Groups]
  BY DEF EmitWhole, Typed
<1> HIDE DEF group
<1>3. outcome' \in [Index -> Groups]
  BY <1>1, <1>2
<1>4. /\ Advance /\ artifacts' = artifacts + 1
      /\ diagnostics' \in Seq(Diagnostics) /\ Len(diagnostics') >= Len(diagnostics)
      /\ reported' = reported
  BY LenProperties DEF EmitWhole, Typed
<1>5. success' \in BOOLEAN
  BY Zenon DEF EmitWhole, Typed, TypeOK
<1> QED
  BY <1>3, <1>4, <1>5, LeftTyped

\* What lstat may lead to.
LEMMA LstatCases ==
    ASSUME Typed, Lstat
    PROVE  LET i == object[current]
               content == inode[i].content
           IN  /\ pc = "lstat" /\ current \in Index /\ UNCHANGED fs
               /\ failed' \subseteq Index
               /\ \/ Skip("stat.failed") /\ Call(FALSE) /\ UNCHANGED truth
                  \/ /\ i \in 1 .. Len(inode) /\ content \in Seq(Nat)
                     /\ Stat(i) \in Stats /\ Stat(i).kind = inode[i].kind /\ Stat(i).ino = i
                     /\ Stat(i).size = Len(content) /\ Stat(i).time = inode[i].time
                     /\ truth' = [truth EXCEPT ![current] = content]
                     /\ truth' \in [Index -> Seq(Nat)]
                     /\ failed' = failed
                     /\ \/ EmitWhole("directory", <<>>) /\ inode[i].kind = "directory"
                        \/ Skip("type.unsupported") /\ inode[i].kind = "special"
                        \/ /\ metadata' = Stat(i)
                           /\ \/ pc' = "readlink" /\ Stat(i).kind = "symlink"
                              \/ pc' = "open" /\ Stat(i).kind = "regular"
                           /\ UNCHANGED <<current, file, opened, captured, chunks, readFailed,
                                          result>>
<1> DEFINE i == object[current]
           seen == Stat(i)
<1>1. pc = "lstat" /\ current \in Index /\ UNCHANGED fs
  BY DEF Lstat, Typed
<1>0. Call(TRUE) => failed' = failed
  BY DEF Call
<1>01. failed' \subseteq Index
  BY <1>1, CallTyped DEF Lstat
<1>2. CASE Skip("stat.failed") /\ Call(FALSE) /\ UNCHANGED truth
  BY <1>01, <1>1, <1>2
<1>3. CASE ~(Skip("stat.failed") /\ Call(FALSE) /\ UNCHANGED truth)
  <2>1. /\ i # 0 /\ failed' = failed
        /\ truth' = [truth EXCEPT ![current] = inode[i].content]
        /\ CASE seen.kind = "directory" -> EmitWhole("directory", <<>>)
             [] seen.kind = "special" -> Skip("type.unsupported")
             [] seen.kind \in {"symlink", "regular"} ->
                    /\ metadata' = seen
                    /\ pc' = IF seen.kind = "symlink" THEN "readlink" ELSE "open"
                    /\ UNCHANGED <<current, file, opened, captured, chunks, readFailed, result>>
    BY <1>0, <1>3 DEF Lstat
  <2>2. i \in 1 .. Len(inode)
    <3>1. Len(inode) \in Nat
      BY InodesTyped DEF Typed
    <3>2. i \in 0 .. Len(inode)
      BY <1>1 DEF Typed, TypeOK
    <3> QED
      BY <2>1, <3>1, <3>2
  <2>3. /\ inode[i].content \in Seq(Nat) /\ inode[i].kind \in Kinds
        /\ seen \in Stats /\ seen.kind = inode[i].kind /\ seen.ino = i
        /\ seen.size = Len(inode[i].content) /\ seen.time = inode[i].time
    BY <2>2, StatTyped, InodesTyped DEF Typed
  <2> HIDE DEF seen, i
  <2>4. truth' \in [Index -> Seq(Nat)]
    BY <2>1, <2>3 DEF Typed
  <2>5. CASE seen.kind = "directory"
    BY <1>01, <1>1, <2>1, <2>2, <2>3, <2>4, <2>5 DEF i, seen
  <2>6. CASE seen.kind = "special"
    BY <1>01, <1>1, <2>1, <2>2, <2>3, <2>4, <2>6 DEF i, seen
  <2>7. CASE seen.kind \in {"symlink", "regular"}
    BY <1>01, <1>1, <2>1, <2>2, <2>3, <2>4, <2>7 DEF i, seen
  <2> QED
    BY <2>3, <2>5, <2>6, <2>7 DEF Kinds
<1> QED
  BY <1>2, <1>3

LEMMA LstatTyped == ASSUME Typed, Lstat PROVE Typed'
<1> DEFINE i == object[current]
           seen == Stat(i)
<1>1. pc = "lstat" /\ current \in Index /\ UNCHANGED fs /\ failed' \subseteq Index
  BY LstatCases
<1>2. CASE Skip("stat.failed") /\ UNCHANGED truth
  BY <1>1, <1>2, SkipTyped DEF Typed, Codes
<1>3. CASE EmitWhole("directory", <<>>) /\ truth' \in [Index -> Seq(Nat)]
  BY <1>1, <1>3, EmitWholeTyped, EmptySeq DEF Kinds
<1>4. CASE Skip("type.unsupported") /\ truth' \in [Index -> Seq(Nat)]
  BY <1>1, <1>4, SkipTyped DEF Codes
<1>5. CASE /\ i \in 1 .. Len(inode) /\ seen \in Stats /\ seen.ino = i
           /\ truth' \in [Index -> Seq(Nat)] /\ metadata' = seen
           /\ \/ pc' = "readlink" /\ seen.kind = "symlink"
              \/ pc' = "open" /\ seen.kind = "regular"
           /\ UNCHANGED <<current, file, opened, captured, chunks, readFailed, result>>
  <2>1. UNCHANGED <<object, inode, changes, clock, outcome, artifacts, success, diagnostics,
                    reported>>
    BY <1>1, <1>5 DEF fs, result
  <2> HIDE DEF seen, i
  <2>2. TypeOK'
    BY <1>1, <1>5, <2>1 DEF Typed, TypeOK, Places, Kinds
  <2> QED
    BY <1>1, <1>5, <2>1, <2>2 DEF Typed, Regular
<1> QED
  BY <1>2, <1>3, <1>4, <1>5, LstatCases

\* What readlink may lead to.
LEMMA ReadlinkCases ==
    ASSUME Typed, Readlink
    PROVE  /\ failed' \subseteq Index
           /\ \/ Skip("symlink.read_failed") /\ Call(FALSE) /\ UNCHANGED truth
              \/ LET there == inode[object[current]].content
                 IN  /\ Kind(current) = "symlink" /\ object[current] \in 1 .. Len(inode)
                     /\ there \in Seq(Nat)
                     /\ truth' = [truth EXCEPT ![current] = there]
                     /\ truth' \in [Index -> Seq(Nat)]
                     /\ \E data \in Seq(Nat) :
                            /\ EmitWhole("symlink", data)
                            /\ Len(data) <= Len(there)
                            /\ \A k \in 1 .. Len(data) : data[k] = there[k]
                            /\ Len(there) <= metadata.size + 1 => data = there
<1>1. pc = "readlink" /\ current \in Index /\ UNCHANGED fs
  BY DEF Readlink, Typed
<1>0. failed' \subseteq Index
  BY <1>1, CallTyped DEF Readlink
<1>2. CASE Skip("symlink.read_failed") /\ Call(FALSE) /\ UNCHANGED truth
  BY <1>0, <1>2
<1>3. CASE ~(Skip("symlink.read_failed") /\ Call(FALSE) /\ UNCHANGED truth)
  <2> DEFINE i == object[current]
             there == inode[i].content
             room == metadata.size + 1
  <2>1. /\ Kind(current) = "symlink"
        /\ EmitWhole("symlink", IF Len(there) <= room THEN there ELSE SubSeq(there, 1, room))
        /\ truth' = [truth EXCEPT ![current] = there]
    BY <1>3 DEF Readlink
  <2>2. i \in 1 .. Len(inode)
    BY <1>1, <2>1, InodesTyped DEF Typed, TypeOK, Kind
  <2>3. there \in Seq(Nat) /\ room \in Nat
    <3>1. there \in Seq(Nat)
      BY <2>2, InodesTyped DEF Typed
    <3>2. metadata.size \in Nat
      BY DEF Typed, Stats
    <3> QED
      BY <3>1, <3>2
  <2>a. Len(there) \in Nat /\ \A k \in 1 .. Len(there) : there[k] \in Nat
    BY <2>3, ElementOfSeq, LenProperties
  <2> DEFINE data == IF Len(there) <= room THEN there ELSE SubSeq(there, 1, room)
  <2> HIDE DEF there, room, i
  <2>4. Len(there) > room => /\ SubSeq(there, 1, room) \in Seq(Nat)
                             /\ Len(SubSeq(there, 1, room)) = room
                             /\ \A k \in 1 .. room : SubSeq(there, 1, room)[k] = there[k]
    <3> SUFFICES ASSUME Len(there) > room
                 PROVE  /\ SubSeq(there, 1, room) \in Seq(Nat)
                        /\ Len(SubSeq(there, 1, room)) = room
                        /\ \A k \in 1 .. room : SubSeq(there, 1, room)[k] = there[k]
      OBVIOUS
    <3>1. \A k \in 1 .. room : there[k] \in Nat
      BY <2>a, <2>3
    <3>2. /\ SubSeq(there, 1, room) \in Seq(Nat)
          /\ Len(SubSeq(there, 1, room)) = IF 1 <= room THEN room - 1 + 1 ELSE 0
          /\ \A k \in 1 .. room - 1 + 1 : SubSeq(there, 1, room)[k] = there[1 + k - 1]
      BY <2>3, <3>1, SubSeqProperties
    <3> QED
      BY <2>3, <3>2
  <2>5. /\ data \in Seq(Nat) /\ Len(data) <= Len(there)
        /\ \A k \in 1 .. Len(data) : data[k] = there[k]
        /\ Len(there) <= room => data = there
    <3>1. CASE Len(there) <= room
      BY <2>a, <2>3, <3>1
    <3>2. CASE Len(there) > room
      BY <2>a, <2>3, <2>4, <3>2
    <3> QED
      BY <2>a, <2>3, <3>1, <3>2
  <2>6. truth' \in [Index -> Seq(Nat)]
    BY <2>1, <2>3 DEF Typed
  <2>7. EmitWhole("symlink", data)
    BY <2>1 DEF there, room, i
  <2> HIDE DEF data
  <2> QED
    BY <1>0, <2>1, <2>2, <2>3, <2>5, <2>6, <2>7 DEF there, room, i
<1> QED
  BY <1>2, <1>3

LEMMA ReadlinkTyped == ASSUME Typed, Readlink PROVE Typed'
<1>1. current \in Index /\ UNCHANGED fs
  BY DEF Readlink, Typed
<1> QED
  BY <1>1, ReadlinkCases, SkipTyped, EmitWholeTyped DEF Typed, Codes, Kinds

\* What open, a FIFO's writer and the first fstat may lead to.
LEMMA LookingCases ==
    ASSUME Typed, Open \/ Awaken \/ Fstat
    PROVE  /\ pc \in {"open", "waiting", "fstat"} /\ current \in Index
           /\ UNCHANGED fs /\ UNCHANGED truth /\ failed' \subseteq Index
           /\ \/ /\ Skip("open.failed") \/ Skip("changed_before_read")
                 /\ changes = 0 /\ (pc = "fstat" => Stat(file) = metadata)
                       => current \in failed'
              \/ /\ UNCHANGED <<current, metadata, captured, chunks, readFailed, result, failed>>
                 /\ \/ /\ pc = "open" /\ pc' \in {"waiting", "fstat"}
                       /\ pc' = "waiting" => Kind(current) = "special"
                       /\ file' = object[current] /\ file' \in 1 .. Len(inode)
                       /\ opened' = opened
                    \/ /\ pc = "waiting" /\ pc' = "fstat"
                       /\ UNCHANGED <<file, opened>>
                    \/ /\ pc = "fstat" /\ pc' = "read" /\ Stat(file) = metadata
                       /\ opened' = metadata /\ file' = file /\ file = metadata.ino
<1>1. /\ pc \in {"open", "waiting", "fstat"} /\ current \in Index
      /\ UNCHANGED fs /\ UNCHANGED truth
      /\ pc \in {"waiting", "fstat"} => file \in 1 .. Len(inode)
  BY DEF Open, Awaken, Fstat, Typed, Regular
<1>2. failed' = failed \/ \E answer \in BOOLEAN : Call(answer)
  BY DEF Open, Awaken, Fstat
<1>3. failed' \subseteq Index
  BY <1>1, <1>2, CallTyped DEF Typed, TypeOK
<1>4. CASE Skip("open.failed") /\ Call(FALSE) /\ pc # "fstat"
  <2>1. changes = 0 => current \in failed'
    BY <1>4, CallFailed
  <2> QED
    BY <1>1, <1>3, <1>4, <2>1
<1>5. CASE Open /\ ~(Skip("open.failed") /\ Call(FALSE))
  <2>1. /\ Kind(current) # "none" /\ file' = object[current] /\ pc = "open"
        /\ pc' \in {"fstat"} \cup (IF Kind(current) = "special" THEN {"waiting"} ELSE {})
        /\ UNCHANGED <<current, metadata, opened, captured, chunks, readFailed, result, failed>>
    BY <1>5 DEF Open
  <2>2. file' \in 1 .. Len(inode)
    BY <1>1, <2>1, InodesTyped DEF Typed, TypeOK, Kind
  <2> QED
    BY <1>1, <1>3, <2>1, <2>2
<1>6. CASE Awaken /\ ~(Skip("open.failed") /\ Call(FALSE))
  BY <1>1, <1>3, <1>6 DEF Awaken, locals
<1>7. CASE Fstat
  <2>1. PICK answered \in BOOLEAN :
           /\ Call(answered)
           /\ IF answered /\ Stat(file) = metadata
              THEN /\ opened' = Stat(file)
                   /\ pc' = "read"
                   /\ UNCHANGED <<current, metadata, file, captured, chunks, readFailed,
                                  result>>
              ELSE Skip("changed_before_read")
    BY <1>7 DEF Fstat
  <2>2. CASE answered /\ Stat(file) = metadata
    <3>1. file = metadata.ino /\ pc = "fstat"
      BY <1>1, <1>7, <2>2, StatTyped DEF Fstat
    <3>2. failed' = failed
      BY <2>1, <2>2 DEF Call
    <3> QED
      BY <1>1, <1>3, <2>1, <2>2, <3>1, <3>2
  <2>3. CASE ~(answered /\ Stat(file) = metadata)
    <3>1. pc = "fstat" /\ Skip("changed_before_read")
      BY <1>7, <2>1, <2>3 DEF Fstat
    <3>2. changes = 0 /\ Stat(file) = metadata => current \in failed'
      BY <1>1, <2>1, <2>3, CallTyped
    <3> QED
      BY <1>1, <1>3, <3>1, <3>2
  <2> QED
    BY <2>2, <2>3
<1> QED
  BY <1>4, <1>5, <1>6, <1>7 DEF Open, Awaken

LEMMA LookingTyped == ASSUME Typed, Open \/ Awaken \/ Fstat PROVE Typed'
<1>1. pc \in {"open", "waiting", "fstat"} /\ current \in Index /\ UNCHANGED fs /\ UNCHANGED truth
      /\ failed' \subseteq Index
  BY LookingCases
<1>2. CASE Skip("open.failed") \/ Skip("changed_before_read")
  BY <1>1, <1>2, SkipTyped DEF Typed, Codes
<1>3. CASE ~(Skip("open.failed") \/ Skip("changed_before_read"))
  <2>1. UNCHANGED <<current, metadata, captured, chunks, readFailed, result, failed>>
    BY <1>3, LookingCases
  <2>2. \/ /\ pc = "open" /\ pc' \in {"waiting", "fstat"}
           /\ file' \in 1 .. Len(inode) /\ opened' = opened
        \/ /\ pc = "waiting" /\ pc' = "fstat" /\ UNCHANGED <<file, opened>>
        \/ /\ pc = "fstat" /\ pc' = "read" /\ opened' = metadata /\ file' = file
           /\ file = metadata.ino
    BY <1>3, LookingCases
  <2>3. UNCHANGED <<object, inode, changes, clock, outcome, artifacts, success, diagnostics,
                    reported>>
    BY <1>1, <2>1 DEF fs, result
  <2>4. TypeOK'
    BY <1>1, <2>1, <2>2, <2>3 DEF Typed, TypeOK, Places
  <2> QED
    BY <1>1, <2>1, <2>2, <2>3, <2>4 DEF Typed, Regular
<1> QED
  BY <1>2, <1>3

\* read() hands out the next blocks of the file.
LEMMA ReadChunkEffect ==
    ASSUME Typed, ReadChunk
    PROVE  \E count \in 1 .. ChunkBlocks :
               LET there == inode[file].content
               IN  /\ captured' \in Seq(Nat) /\ chunks' \in Seq(Nat)
                   /\ Len(captured') = Len(captured) + count
                   /\ Len(captured) \in Nat /\ Len(captured') <= Len(there)
                   /\ \A k \in 1 .. Len(captured) : captured'[k] = captured[k]
                   /\ \A k \in Len(captured) + 1 .. Len(captured') : captured'[k] = there[k]
<1> DEFINE there == inode[file].content
           from == Len(captured) + 1
<1>1. PICK count \in 1 .. ChunkBlocks :
         /\ Len(captured) + count <= Len(there)
         /\ captured' = captured \o SubSeq(there, from, Len(captured) + count)
         /\ chunks' = Append(chunks, count)
  BY DEF ReadChunk
<1>2. file \in 1 .. Len(inode) /\ captured \in Seq(Nat) /\ chunks \in Seq(Nat)
  BY DEF ReadChunk, Typed, Regular
<1>3. there \in Seq(Nat) /\ Len(there) \in Nat
  BY <1>2, InodesTyped DEF Typed
<1> HIDE DEF there
<1>4. Len(captured) \in Nat /\ \A k \in 1 .. Len(there) : there[k] \in Nat
  BY <1>2, <1>3, LenProperties, ElementOfSeq
<1> DEFINE part == SubSeq(there, from, Len(captured) + count)
<1>5. /\ part \in Seq(Nat) /\ Len(part) = count
      /\ \A k \in 1 .. count : part[k] = there[Len(captured) + k]
  <2>1. \A k \in from .. Len(captured) + count : there[k] \in Nat
    BY <1>1, <1>3, <1>4
  <2>2. /\ part \in Seq(Nat)
        /\ Len(part) = IF from <= Len(captured) + count THEN Len(captured) + count - from + 1 ELSE 0
        /\ \A k \in 1 .. Len(captured) + count - from + 1 : part[k] = there[from + k - 1]
    BY <1>4, <2>1, SubSeqProperties
  <2> QED
    BY <1>4, <2>2
<1>6. captured' = captured \o part
  BY <1>1
<1> HIDE DEF part
<1>7. /\ captured' \in Seq(Nat) /\ Len(captured') = Len(captured) + count
      /\ \A k \in 1 .. Len(captured) + count :
             captured'[k] = IF k <= Len(captured) THEN captured[k] ELSE part[k - Len(captured)]
  <2>1. /\ captured \o part \in Seq(Nat) /\ Len(captured \o part) = Len(captured) + Len(part)
        /\ \A k \in 1 .. Len(captured) + Len(part) :
               (captured \o part)[k] =
                   IF k <= Len(captured) THEN captured[k] ELSE part[k - Len(captured)]
    BY <1>2, <1>5, ConcatProperties
  <2> QED
    BY <1>5, <1>6, <2>1
<1>8. \A k \in Len(captured) + 1 .. Len(captured') : captured'[k] = there[k]
  <2> SUFFICES ASSUME NEW k \in Len(captured) + 1 .. Len(captured')
               PROVE  captured'[k] = there[k]
    OBVIOUS
  <2>1. k - Len(captured) \in 1 .. count /\ k \in 1 .. Len(captured) + count /\ ~(k <= Len(captured))
    BY <1>4, <1>7
  <2>2. part[k - Len(captured)] = there[Len(captured) + (k - Len(captured))]
    BY <1>5, <2>1
  <2>3. Len(captured) + (k - Len(captured)) = k
    BY <1>4
  <2> QED
    BY <1>7, <2>1, <2>2, <2>3
<1>9. chunks' \in Seq(Nat)
  BY <1>1, <1>2, AppendProperties
<1>10. /\ Len(captured') <= Len(there)
       /\ \A k \in 1 .. Len(captured) : captured'[k] = captured[k]
  BY <1>1, <1>4, <1>7
<1> WITNESS count \in 1 .. ChunkBlocks
<1> QED
  BY <1>4, <1>7, <1>8, <1>9, <1>10 DEF there

LEMMA ReadingTyped == ASSUME Typed, ReadChunk \/ EndOfFile \/ ReadError PROVE Typed'
<1>1. /\ pc = "read" /\ pc' \in {"read", "end"}
      /\ UNCHANGED <<fs, current, metadata, file, opened, outcome, artifacts, reported, truth>>
  BY DEF ReadChunk, EndOfFile, ReadError, result, locals, history
<1>0. failed' \subseteq Index
  <2>1. current \in Index
    BY <1>1 DEF Typed, Regular
  <2> QED
    BY <2>1, CallTyped DEF ReadChunk, EndOfFile, ReadError, history, Typed, TypeOK
<1>2. UNCHANGED <<object, inode, changes, clock>>
  BY <1>1 DEF fs
<1>3. captured' \in Seq(Nat) /\ chunks' \in Seq(Nat)
  BY ReadChunkEffect DEF EndOfFile, ReadError, locals, Typed
<1>4. /\ diagnostics' \in Seq(Diagnostics) /\ Len(diagnostics) \in Nat
      /\ Len(diagnostics') \in Nat /\ Len(diagnostics') >= Len(diagnostics)
  <2>1. diagnostics \in Seq(Diagnostics) /\ Len(diagnostics) \in Nat
    BY LenProperties DEF Typed
  <2>2. CASE ReadError
    <3>1. current \in Index /\ Collect("read.failed") /\ "read.failed" \in Codes
      BY <2>2 DEF ReadError, Typed, Regular, Codes
    <3>2. diagnostics' \in Seq(Diagnostics) /\ Len(diagnostics') = Len(diagnostics) + 1
      BY <3>1, CollectEffect
    <3> QED
      BY <2>1, <3>2
  <2>3. CASE ReadChunk \/ EndOfFile
    BY <2>1, <2>3 DEF ReadChunk, EndOfFile, result
  <2> QED
    BY <2>2, <2>3
<1>5. success' \in BOOLEAN /\ readFailed' \in BOOLEAN
  BY Zenon DEF ReadChunk, EndOfFile, ReadError, result, locals, Typed, TypeOK
<1>6. TypeOK'
  <2>1. \A n \in 1 .. Len(diagnostics') :
            diagnostics'[n].candidate \in Index /\ diagnostics'[n].code \in Codes
    BY <1>4, DiagnosticsTyped
  <2> QED
    BY <1>0, <1>1, <1>2, <1>4, <1>5, <2>1 DEF Typed, TypeOK, Places
<1> QED
  BY <1>1, <1>2, <1>3, <1>4, <1>6 DEF Typed, Regular

\* artifact_end: the group of a regular file.
LEMMA EndEffect ==
    ASSUME Typed, End
    PROVE  /\ failed' \subseteq Index
           /\ \E stable \in BOOLEAN :
                  /\ stable => Unchanged
                  /\ changes = 0 /\ Unchanged /\ ~stable => current \in failed'
                  /\ changes = 0 /\ stable => failed' = failed
                  /\ EndGroup(stable) \in Groups
                  /\ outcome' = [outcome EXCEPT ![current] = EndGroup(stable)]
                  /\ outcome' \in [Index -> Groups]
                  /\ success' = (success /\ stable)
                  /\ IF stable THEN UNCHANGED diagnostics ELSE Collect("changed_during_read")
<1>0. current \in Index
  BY DEF End, Typed, Regular
<1>1. PICK answered \in BOOLEAN :
         LET stable == answered /\ Unchanged
         IN  /\ Call(answered)
             /\ outcome' = [outcome EXCEPT ![current] = EndGroup(stable)]
             /\ success' = (success /\ stable)
             /\ IF stable THEN UNCHANGED diagnostics ELSE Collect("changed_during_read")
  BY Zenon DEF End, EndGroup
<1> DEFINE stable == answered /\ Unchanged
<1>2. stable \in BOOLEAN /\ (stable /\ ~readFailed) \in BOOLEAN
  BY Zenon
<1>3. artifacts \in Nat /\ captured \in Seq(Nat) /\ metadata.size \in Nat /\ chunks \in Seq(Nat)
  BY DEF Typed, TypeOK, Stats
<1>4. EndGroup(stable) \in Groups
  BY <1>2, <1>3, Zenon DEF Groups, Kinds, EndGroup
<1>5. outcome' = [outcome EXCEPT ![current] = EndGroup(stable)] /\ outcome \in [Index -> Groups]
  BY <1>1 DEF Typed
<1>6. outcome' \in [Index -> Groups]
  <2> DEFINE group == EndGroup(stable)
  <2> HIDE DEF group
  <2> QED
    BY <1>4, <1>5 DEF group
<1>7. failed' \subseteq Index
  BY <1>0, <1>1, CallTyped
<1>8. changes = 0 /\ Unchanged /\ ~stable => current \in failed'
  BY <1>0, <1>1, CallTyped
<1>9. stable => failed' = failed
  BY <1>1 DEF Call
<1> HIDE DEF stable
<1>10. /\ success' = (success /\ stable)
       /\ IF stable THEN UNCHANGED diagnostics ELSE Collect("changed_during_read")
  BY <1>1, Zenon DEF stable
<1>11. stable => Unchanged
  BY DEF stable
<1> QED
  BY <1>2, <1>4, <1>5, <1>6, <1>7, <1>8, <1>9, <1>10, <1>11

LEMMA EndTyped == ASSUME Typed, End PROVE Typed'
<1>1. pc = "end" /\ current \in Index
  BY DEF End, Typed, Regular
<1>2. /\ failed' \subseteq Index /\ outcome' \in [Index -> Groups]
      /\ diagnostics' = diagnostics \/ Collect("changed_during_read")
  BY EndEffect
<1>3. diagnostics' \in Seq(Diagnostics) /\ Len(diagnostics') >= Len(diagnostics)
  <2>1. diagnostics \in Seq(Diagnostics) /\ Len(diagnostics) \in Nat
    BY LenProperties DEF Typed
  <2>2. "changed_during_read" \in Codes
    BY DEF Codes
  <2>3. CASE diagnostics' = diagnostics
    BY <2>1, <2>3
  <2>4. CASE Collect("changed_during_read")
    <3>1. diagnostics' \in Seq(Diagnostics) /\ Len(diagnostics') = Len(diagnostics) + 1
      BY <1>1, <2>2, <2>4, CollectEffect
    <3> QED
      BY <2>1, <3>1
  <2> QED
    BY <1>2, <2>3, <2>4
<1>4. success' \in BOOLEAN
  BY Zenon DEF End
<1>5. /\ Advance /\ artifacts' = artifacts + 1
      /\ UNCHANGED fs /\ reported' = reported /\ truth' \in [Index -> Seq(Nat)]
  BY DEF End, Typed
<1> QED
  BY <1>1, <1>2, <1>3, <1>4, <1>5, LeftTyped

LEMMA ReportTyped == ASSUME Typed, Report PROVE Typed'
<1>1. /\ pc = "report" /\ pc' = "returned"
      /\ UNCHANGED <<object, inode, changes, clock, current, metadata, file, opened, captured,
                     chunks, readFailed, outcome, artifacts, success, diagnostics, truth, failed>>
  BY DEF Report, fs, locals, history
<1>2. reported' \in 0 .. Len(diagnostics)
  BY LenProperties DEF Report, Typed
<1>3. TypeOK'
  BY <1>1, <1>2 DEF Typed, TypeOK, Places
<1> QED
  BY <1>1, <1>3 DEF Typed, Regular

LEMMA ChangeTyped == ASSUME Typed, Change PROVE Typed'
<1>1. /\ changes' \in Nat /\ clock' \in Nat
      /\ inode' \in Seq(Inodes) /\ Len(inode) \in Nat /\ Len(inode') \in Nat
      /\ Len(inode') >= Len(inode)
      /\ object' \in [Index -> Nat]
      /\ \A c \in Index : object'[c] \in 0 .. Len(inode')
      /\ UNCHANGED <<pc, current, metadata, file, opened, captured, chunks, readFailed,
                     outcome, artifacts, success, diagnostics, reported, truth, failed>>
  BY ChangeEffect
<1>2. \A i \in 1 .. Len(inode') : inode'[i].kind \in Kinds
  BY <1>1, InodesTyped
<1>3. TypeOK'
  BY <1>1, <1>2 DEF Typed, TypeOK
<1> QED
  BY <1>1, <1>3 DEF Typed, Regular

LEMMA NextTyped == Typed /\ [Next]_vars => Typed'
<1> SUFFICES ASSUME Typed, [Next]_vars PROVE Typed'
  OBVIOUS
<1>1. CASE Next
  BY <1>1, LstatTyped, ReadlinkTyped, LookingTyped, ReadingTyped, EndTyped, ReportTyped,
     ChangeTyped DEF Next, Capture
<1>2. CASE UNCHANGED vars
  BY <1>2 DEF vars, Typed, TypeOK, Regular
<1> QED
  BY <1>1, <1>2

-----------------------------------------------------------------------------
(* Failures and their diagnostics.                                         *)

LEMMA CollectMarks ==
    ASSUME Typed, current \in Index, NEW code \in Codes, Collect(code)
    PROVE  /\ \A c : HasDiagnostic(c)' <=> (HasDiagnostic(c) \/ c = current)
           /\ diagnostics' # <<>>
<1>1. /\ Len(diagnostics) \in Nat /\ Len(diagnostics') = Len(diagnostics) + 1
      /\ \A n \in 1 .. Len(diagnostics) : diagnostics'[n] = diagnostics[n]
      /\ diagnostics'[Len(diagnostics) + 1] = [candidate |-> current, code |-> code]
      /\ diagnostics' # <<>>
  BY CollectEffect, LenProperties DEF Typed
<1>2. \A n : n \in 1 .. Len(diagnostics) + 1 <=>
             n \in 1 .. Len(diagnostics) \/ n = Len(diagnostics) + 1
  BY <1>1
<1> QED
  BY <1>1, <1>2 DEF HasDiagnostic

LEMMA SameDiagnostics ==
    ASSUME diagnostics' = diagnostics PROVE \A c : HasDiagnostic(c)' <=> HasDiagnostic(c)
BY DEF HasDiagnostic

\* A candidate is left with a diagnostic exactly if it has no faithful group.
LEMMA LeftDiagnosed ==
    ASSUME Typed, Diagnosed, NEW left \in Index, left = current, Advance,
           \A c \in Index : c # left => outcome'[c] = outcome[c],
           \A c \in Index : c # left => truth'[c] = truth[c],
           \A c : c # left => (HasDiagnostic(c)' <=> HasDiagnostic(c)),
           HasDiagnostic(left)' <=> ~Faithful(left)', Beginning(left)',
           success' <=> diagnostics' = <<>>
    PROVE  Diagnosed'
<1>1. /\ current' = current + 1 /\ left \in 1 .. Candidates
      /\ pc' \in {"lstat", "report"} /\ readFailed' = FALSE
  BY AdvanceEffect DEF Index
<1>2. ASSUME NEW c \in Index
      PROVE  IF c < current' THEN (HasDiagnostic(c)' <=> ~Faithful(c)') /\ Beginning(c)'
             ELSE outcome'[c].kind = "none" /\ ~HasDiagnostic(c)'
  <2>0. c \in Int /\ left \in Int
    BY DEF Index
  <2>1. CASE c < left
    <3>1. outcome'[c] = outcome[c] /\ (HasDiagnostic(c)' <=> HasDiagnostic(c)) /\ c < current'
          /\ truth'[c] = truth[c]
      BY <1>1, <2>0, <2>1
    <3>2. (HasDiagnostic(c) <=> ~Faithful(c)) /\ Beginning(c)
      BY <2>1 DEF Diagnosed
    <3> QED
      BY <3>1, <3>2 DEF Faithful, Beginning
  <2>2. CASE c = left
    BY <1>1, <2>0, <2>2
  <2>3. CASE c > left
    <3>1. outcome'[c] = outcome[c] /\ (HasDiagnostic(c)' <=> HasDiagnostic(c))
          /\ ~(c < current') /\ ~(c < current) /\ c # current
      BY <1>1, <2>0, <2>3
    <3> QED
      BY <3>1 DEF Diagnosed
  <2> QED
    BY <2>0, <2>1, <2>2, <2>3
<1> QED
  BY <1>1, <1>2 DEF Diagnosed

LEMMA SkipDiagnosed ==
    ASSUME Typed, Diagnosed, current \in Index, NEW code \in Codes, Skip(code),
           \A c \in Index : c # current => truth'[c] = truth[c]
    PROVE  Diagnosed'
<1> PICK left \in Index : left = current
  OBVIOUS
<1>1. /\ Collect(code) /\ ~success' /\ Advance /\ outcome' = outcome
  BY DEF Skip
<1>2. /\ \A c : HasDiagnostic(c)' <=> (HasDiagnostic(c) \/ c = left)
      /\ diagnostics' # <<>>
  BY <1>1, CollectMarks
<1>3. outcome'[left].kind = "none"
  BY <1>1 DEF Diagnosed, Index
<1>4. ~Faithful(left)' /\ Beginning(left)'
  BY <1>3 DEF Faithful, Beginning
<1> QED
  BY <1>1, <1>2, <1>4, LeftDiagnosed

LEMMA EmitWholeDiagnosed ==
    ASSUME Typed, Diagnosed, current \in Index, pc # "end",
           NEW kind \in {"directory", "symlink"}, NEW data, EmitWhole(kind, data),
           \A c \in Index : c # current => truth'[c] = truth[c],
           kind = "symlink" => /\ Len(data) <= Len(truth'[current])
                               /\ \A k \in 1 .. Len(data) : data[k] = truth'[current][k]
    PROVE  Diagnosed'
<1> PICK left \in Index : left = current
  OBVIOUS
<1> DEFINE group == [NoGroup EXCEPT !.kind = kind, !.id = artifacts, !.data = data]
<1>1. /\ Advance /\ UNCHANGED <<success, diagnostics>>
      /\ outcome' = [outcome EXCEPT ![left] = group] /\ group.kind = kind /\ group.data = data
  BY DEF EmitWhole, NoGroup
<1>2. outcome \in [Index -> Groups]
  BY DEF Typed
<1> HIDE DEF group
<1>3. \A c \in Index : outcome'[c] = IF c = left THEN group ELSE outcome[c]
  BY <1>1, <1>2
<1>4. Faithful(left)' /\ Beginning(left)'
  BY <1>1, <1>3 DEF Faithful, Beginning
<1>5. ~HasDiagnostic(left)
  BY DEF Diagnosed, Index
<1>6. \A c : HasDiagnostic(c)' <=> HasDiagnostic(c)
  BY <1>1, SameDiagnostics
<1>7. success' <=> diagnostics' = <<>>
  BY <1>1 DEF Diagnosed
<1> QED
  BY <1>1, <1>3, <1>4, <1>5, <1>6, <1>7, LeftDiagnosed

LEMMA EndDiagnosed == ASSUME Typed, Diagnosed, End PROVE Diagnosed'
<1>0. current \in Index /\ Advance /\ UNCHANGED truth
  BY DEF End, Typed, Regular
<1> PICK left \in Index : left = current
  BY <1>0
<1>1. PICK stable \in BOOLEAN :
         /\ outcome' = [outcome EXCEPT ![left] = EndGroup(stable)]
         /\ success' = (success /\ stable)
         /\ IF stable THEN UNCHANGED diagnostics ELSE Collect("changed_during_read")
  BY EndEffect
<1>2. outcome \in [Index -> Groups]
  BY DEF Typed
<1>3. \A c \in Index : outcome'[c] = IF c = left THEN EndGroup(stable) ELSE outcome[c]
  BY <1>1, <1>2
<1>4. (Faithful(left)' <=> stable /\ ~readFailed) /\ Beginning(left)'
  <2>0. outcome'[left] = EndGroup(stable)
    BY <1>3
  <2>a. EndGroup(stable).kind = "regular" /\ (EndGroup(stable).stable <=> stable /\ ~readFailed)
    BY DEF EndGroup
  <2>1. outcome'[left].kind = "regular" /\ (outcome'[left].stable <=> stable /\ ~readFailed)
    BY <2>0, <2>a
  <2> QED
    BY <2>1 DEF Faithful, Beginning
<1>5. readFailed <=> HasDiagnostic(left)
  BY DEF Diagnosed, Index
<1>6. CASE stable
  <2>1. diagnostics' = diagnostics /\ (success' <=> success)
    BY <1>1, <1>6
  <2>2. \A c : HasDiagnostic(c)' <=> HasDiagnostic(c)
    BY <2>1, SameDiagnostics
  <2>3. success' <=> diagnostics' = <<>>
    BY <2>1 DEF Diagnosed
  <2> QED
    BY <1>0, <1>3, <1>4, <1>5, <1>6, <2>2, <2>3, LeftDiagnosed
<1>7. CASE ~stable
  <2>1. Collect("changed_during_read") /\ ~success' /\ "changed_during_read" \in Codes
    BY <1>1, <1>7 DEF Codes
  <2>2. /\ \A c : HasDiagnostic(c)' <=> (HasDiagnostic(c) \/ c = left)
        /\ diagnostics' # <<>>
    BY <1>0, <2>1, CollectMarks
  <2> QED
    BY <1>0, <1>3, <1>4, <1>7, <2>1, <2>2, LeftDiagnosed
<1> QED
  BY <1>6, <1>7

\* A step within a candidate without a diagnostic.
LEMMA QuietlyDiagnosed ==
    ASSUME Diagnosed, pc # "end", pc' # "returned",
           UNCHANGED <<current, readFailed, outcome, success, diagnostics>>,
           \A c \in Index : c < current => truth'[c] = truth[c]
    PROVE  Diagnosed'
BY SameDiagnostics DEF Diagnosed, Faithful, Beginning

LEMMA ReadErrorDiagnosed == ASSUME Typed, Diagnosed, ReadError PROVE Diagnosed'
<1>1. /\ pc' = "end" /\ readFailed' = TRUE /\ ~success' /\ Collect("read.failed")
      /\ UNCHANGED <<current, outcome, truth>>
  BY DEF ReadError
<1>2. current \in Index /\ "read.failed" \in Codes
  BY DEF ReadError, Typed, Regular, Codes
<1>3. /\ \A c : HasDiagnostic(c)' <=> (HasDiagnostic(c) \/ c = current)
      /\ diagnostics' # <<>>
  BY <1>1, <1>2, CollectMarks
<1>4. \A c \in Index : c < current => c # current
  BY DEF Index, Typed, TypeOK
<1> QED
  BY <1>1, <1>2, <1>3, <1>4 DEF Diagnosed, Faithful, Beginning

LEMMA NextDiagnosed == Typed /\ Diagnosed /\ [Next]_vars => Diagnosed'
<1> SUFFICES ASSUME Typed, Diagnosed, [Next]_vars PROVE Diagnosed'
  OBVIOUS
<1>0. pc \in {"lstat", "readlink"} \cup Regular => current \in Index
  BY DEF Typed
<1> USE DEF Regular
<1>1. CASE Lstat
  <2>1. pc = "lstat" /\ current \in Index
    BY <1>1, LstatCases
  <2>0. \A c \in Index : c # current => truth'[c] = truth[c]
    <3>1. truth \in [Index -> Seq(Nat)]
      BY DEF Typed
    <3> QED
      BY <1>1, <2>1, <3>1, LstatCases
  <2>2. CASE Skip("stat.failed") \/ Skip("type.unsupported")
    BY <2>0, <2>1, <2>2, SkipDiagnosed DEF Codes
  <2>3. CASE EmitWhole("directory", <<>>)
    BY <2>0, <2>1, <2>3, EmitWholeDiagnosed
  <2>4. CASE pc' \in {"readlink", "open"} /\ UNCHANGED <<current, readFailed, result>>
    <3>1. \A c \in Index : c < current => truth'[c] = truth[c]
      BY <2>0, <2>1 DEF Index
    <3> QED
      BY <2>1, <2>4, <3>1, QuietlyDiagnosed DEF result
  <2> QED
    BY <1>1, <2>2, <2>3, <2>4, LstatCases
<1>2. CASE Readlink
  <2>1. pc = "readlink" /\ current \in Index
    BY <1>0, <1>2 DEF Readlink
  <2>2. CASE Skip("symlink.read_failed") /\ UNCHANGED truth
    BY <2>1, <2>2, SkipDiagnosed DEF Codes
  <2>3. CASE \E there \in Seq(Nat) :
                 /\ truth' = [truth EXCEPT ![current] = there]
                 /\ \E data \in Seq(Nat) : /\ EmitWhole("symlink", data)
                                           /\ Len(data) <= Len(there)
                                           /\ \A k \in 1 .. Len(data) : data[k] = there[k]
    <3>1. truth \in [Index -> Seq(Nat)]
      BY DEF Typed
    <3>2. PICK there \in Seq(Nat), data \in Seq(Nat) :
              /\ truth' = [truth EXCEPT ![current] = there]
              /\ EmitWhole("symlink", data)
              /\ Len(data) <= Len(there)
              /\ \A k \in 1 .. Len(data) : data[k] = there[k]
      BY <2>3
    <3>3. truth'[current] = there /\ \A c \in Index : c # current => truth'[c] = truth[c]
      BY <2>1, <3>1, <3>2
    <3> QED
      BY <2>1, <3>2, <3>3, EmitWholeDiagnosed
  <2> QED
    BY <1>2, <2>2, <2>3, ReadlinkCases
<1>3. CASE Open \/ Awaken \/ Fstat
  <2>1. /\ pc \in {"open", "waiting", "fstat"} /\ current \in Index
        /\ \/ Skip("open.failed") \/ Skip("changed_before_read")
           \/ pc' # "returned" /\ UNCHANGED <<current, readFailed, result>>
        /\ UNCHANGED truth
    BY <1>3, LookingCases
  <2> QED
    BY <2>1, SkipDiagnosed, QuietlyDiagnosed DEF Codes, result
<1>5. CASE ReadChunk \/ EndOfFile
  BY <1>5, QuietlyDiagnosed DEF ReadChunk, EndOfFile, result, locals, history
<1>6. CASE End
  BY <1>6, EndDiagnosed
<1>7. CASE Report
  <2>1. /\ pc = "report" /\ UNCHANGED <<current, readFailed, outcome, success, diagnostics, truth>>
        /\ reported' = Len(diagnostics)
    BY <1>7 DEF Report, locals, history
  <2> QED
    BY <2>1, SameDiagnostics DEF Diagnosed, Faithful, Beginning
<1>8. CASE ReadError
  BY <1>8, ReadErrorDiagnosed
<1>9. CASE Change \/ UNCHANGED vars
  <2>1. UNCHANGED <<pc, current, readFailed, outcome, success, diagnostics, reported, truth>>
    BY <1>9 DEF Change, vars, locals, result, history
  <2> QED
    BY <2>1, SameDiagnostics DEF Diagnosed, Faithful, Beginning
<1> QED
  BY <1>1, <1>2, <1>3, <1>5, <1>6, <1>7, <1>8, <1>9 DEF Next, Capture

LEMMA DiagnosedFailure == Typed /\ Diagnosed => FailureIsDiagnosed
<1> SUFFICES ASSUME Typed, Diagnosed PROVE FailureIsDiagnosed
  OBVIOUS
<1>1. \A c \in 1 .. current - 1 : c \in Index /\ c < current
  BY DEF Typed, TypeOK, Index
<1> QED
  BY <1>1 DEF Diagnosed, FailureIsDiagnosed, HasDiagnostic, Faithful, Beginning

-----------------------------------------------------------------------------
(* A quiet tree is captured as it is.                                      *)

\* A candidate is left as it is, or a call has failed for it.
LEMMA LeftQuiet ==
    ASSUME Typed, Quiet, changes = 0, NEW left \in Index, left = current, Advance, UNCHANGED fs,
           \A c \in Index : c # left => outcome'[c] = outcome[c],
           failed \subseteq failed', left \in failed' \/ AsItIs(left)'
    PROVE  Quiet'
<1>1. UNCHANGED <<object, inode, changes, clock>>
  BY DEF fs
<1>2. /\ current' = current + 1 /\ current \in Int /\ pc' \in {"lstat", "report"}
      /\ captured' = <<>>
  BY AdvanceEffect DEF Index
<1>3. QuietTreeIsCaptured'
  <2> SUFFICES ASSUME NEW c \in (1 .. current' - 1) \ failed' PROVE AsItIs(c)'
    BY DEF QuietTreeIsCaptured, AsItIs
  <2>1. c \in Index /\ c \notin failed
    BY <1>2 DEF Index
  <2>2. CASE c = left
    BY <2>2
  <2>3. CASE c # left
    <3>1. c \in (1 .. current - 1) \ failed
      BY <1>2, <2>1, <2>3
    <3>2. AsItIs(c)
      BY <3>1 DEF Quiet, QuietTreeIsCaptured, AsItIs
    <3> QED
      BY <1>1, <2>1, <2>3, <3>2 DEF AsItIs
  <2> QED
    BY <2>2, <2>3
<1> QED
  BY <1>1, <1>2, <1>3 DEF Quiet, Regular

\* A step within a candidate, or after the last one.
LEMMA StayQuiet ==
    ASSUME Quiet, changes = 0, UNCHANGED <<object, inode, changes, current, outcome>>,
           failed \subseteq failed', pc' # "waiting",
           pc' \in {"readlink"} \cup Regular => LookedAt',
           pc' \in {"read", "end"} => BeingRead',
           pc' \notin {"read", "end"} => captured' = <<>>
    PROVE  Quiet'
BY DEF Quiet, QuietTreeIsCaptured

LEMMA LstatQuiet == ASSUME Typed, Diagnosed, Quiet, changes = 0, Lstat PROVE Quiet'
<1> DEFINE i == object[current]
<1>1. /\ pc = "lstat" /\ current \in Index /\ UNCHANGED fs
      /\ UNCHANGED <<object, inode, changes>> /\ outcome \in [Index -> Groups]
      /\ outcome[current].kind = "none"
  <2>1. pc = "lstat" /\ current \in Index /\ UNCHANGED fs
    BY LstatCases
  <2>2. outcome[current].kind = "none"
    BY <2>1 DEF Diagnosed, Index
  <2> QED
    BY <2>1, <2>2 DEF fs, Typed
<1>2. CASE Skip("stat.failed") /\ Call(FALSE)
  <2>1. current \in failed' /\ failed \subseteq failed'
    BY <1>1, <1>2, CallFailed, CallTyped
  <2> QED
    BY <1>1, <1>2, <2>1, LeftQuiet DEF Skip
<1>3. CASE EmitWhole("directory", <<>>) /\ inode[i].kind = "directory" /\ failed' = failed
           /\ i \in 1 .. Len(inode)
  <2>1. inode[i].content = <<>>
    BY <1>3 DEF Quiet
  <2> DEFINE group == [NoGroup EXCEPT !.kind = "directory", !.id = artifacts, !.data = <<>>]
  <2>2. outcome' = [outcome EXCEPT ![current] = group] /\ Advance
    BY <1>3 DEF EmitWhole
  <2>3. group.kind = "directory" /\ group.data = <<>>
    BY DEF NoGroup
  <2> HIDE DEF group
  <2>4. outcome'[current] = group /\ \A c \in Index : c # current => outcome'[c] = outcome[c]
    BY <1>1, <2>2
  <2> PICK left \in Index : left = current
    BY <1>1
  <2>5. AsItIs(left)'
    BY <1>1, <1>3, <2>1, <2>3, <2>4 DEF AsItIs
  <2> QED
    BY <1>1, <1>3, <2>2, <2>4, <2>5, LeftQuiet
<1>4. CASE Skip("type.unsupported") /\ inode[i].kind = "special" /\ failed' = failed
  BY <1>1, <1>4, LeftQuiet DEF Skip, AsItIs
<1>5. CASE /\ i \in 1 .. Len(inode) /\ metadata' = Stat(i) /\ Stat(i).kind = inode[i].kind
           /\ failed' = failed
           /\ \/ pc' = "readlink" /\ Stat(i).kind = "symlink"
              \/ pc' = "open" /\ Stat(i).kind = "regular"
           /\ UNCHANGED <<current, file, opened, captured, chunks, readFailed, result>>
  <2>1. LookedAt' /\ captured' = <<>> /\ outcome' = outcome
    BY <1>1, <1>5 DEF LookedAt, Stat, Quiet, result
  <2> QED
    BY <1>1, <1>5, <2>1, StayQuiet
<1> QED
  BY <1>2, <1>3, <1>4, <1>5, LstatCases

LEMMA ReadlinkQuiet == ASSUME Typed, Quiet, changes = 0, Readlink PROVE Quiet'
<1>1. /\ pc = "readlink" /\ current \in Index /\ UNCHANGED fs
      /\ UNCHANGED <<object, inode, changes>> /\ outcome \in [Index -> Groups]
      /\ LookedAt /\ failed \subseteq failed'
  <2>1. pc = "readlink" /\ current \in Index /\ UNCHANGED fs
    BY DEF Readlink, Typed
  <2> QED
    BY <2>1, CallTyped DEF Readlink, Typed, Quiet, fs
<1>2. CASE Skip("symlink.read_failed") /\ Call(FALSE)
  BY <1>1, <1>2, CallFailed, LeftQuiet DEF Skip
<1>3. CASE ~(Skip("symlink.read_failed") /\ Call(FALSE))
  <2> DEFINE there == inode[object[current]].content
  <2>1. PICK data \in Seq(Nat) :
           /\ EmitWhole("symlink", data) /\ object[current] \in 1 .. Len(inode)
           /\ Len(there) <= metadata.size + 1 => data = there
    BY <1>3, ReadlinkCases
  <2>2. metadata.size = Len(there) /\ Len(there) \in Nat
    BY <1>1, <2>1, StatTyped, InodesTyped DEF LookedAt, Typed
  <2>3. data = there
    BY <2>1, <2>2
  <2> DEFINE group == [NoGroup EXCEPT !.kind = "symlink", !.id = artifacts, !.data = data]
  <2>4. outcome' = [outcome EXCEPT ![current] = group] /\ Advance
    BY <2>1 DEF EmitWhole
  <2>5. group.kind = "symlink" /\ group.data = data
    BY DEF NoGroup
  <2> HIDE DEF group
  <2>6. outcome'[current] = group /\ \A c \in Index : c # current => outcome'[c] = outcome[c]
    BY <1>1, <2>4
  <2> PICK left \in Index : left = current
    BY <1>1
  <2>7. AsItIs(left)'
    BY <1>1, <2>3, <2>5, <2>6 DEF AsItIs, LookedAt
  <2> QED
    BY <1>1, <2>4, <2>6, <2>7, LeftQuiet
<1> QED
  BY <1>2, <1>3

LEMMA LookingQuiet ==
    ASSUME Typed, Quiet, changes = 0, Open \/ Awaken \/ Fstat PROVE Quiet'
<1>1. /\ pc \in {"open", "fstat"} /\ current \in Index /\ UNCHANGED fs
      /\ UNCHANGED <<object, inode, changes>> /\ LookedAt /\ captured = <<>>
      /\ failed \subseteq failed' /\ inode[object[current]].kind = "regular"
  <2>1. /\ pc \in {"open", "waiting", "fstat"} /\ current \in Index /\ UNCHANGED fs
    BY LookingCases
  <2>2. failed \subseteq failed'
    BY <2>1, CallTyped DEF Open, Awaken, Fstat
  <2> QED
    BY <2>1, <2>2 DEF fs, Quiet, Regular, LookedAt
<1>2. CASE Skip("open.failed") \/ Skip("changed_before_read")
  <2>1. pc = "fstat" => Stat(file) = metadata
    BY <1>1 DEF LookedAt
  <2>2. current \in failed'
    BY <1>2, <2>1, LookingCases, AdvanceEffect, <1>1 DEF Skip
  <2> QED
    BY <1>1, <1>2, <2>2, LeftQuiet DEF Skip
<1>3. CASE ~(Skip("open.failed") \/ Skip("changed_before_read"))
  <2>1. /\ UNCHANGED <<current, metadata, captured, result, failed>>
        /\ \/ pc = "open" /\ pc' = "fstat" /\ file' = object[current]
           \/ pc = "fstat" /\ pc' = "read" /\ file' = file
    BY <1>1, <1>3, LookingCases DEF Kind
  <2>2. LookedAt'
    BY <1>1, <2>1 DEF LookedAt, Stat
  <2>3. BeingRead' \/ pc' # "read"
    <3>1. inode[object[current]].content \in Seq(Nat)
      BY <1>1, InodesTyped DEF LookedAt, Typed
    <3>2. Len(captured) = 0 /\ Len(inode[object[current]].content) \in Nat
      BY <1>1, <3>1, EmptySeq, LenProperties
    <3> QED
      BY <1>1, <2>1, <3>2 DEF BeingRead
  <2> QED
    BY <1>1, <2>1, <2>2, <2>3, StayQuiet DEF result
<1> QED
  BY <1>2, <1>3

LEMMA ReadingQuiet ==
    ASSUME Typed, Diagnosed, Quiet, changes = 0, ReadChunk \/ EndOfFile \/ ReadError PROVE Quiet'
<1> DEFINE there == inode[object[current]].content
<1>1. /\ pc = "read" /\ pc' \in {"read", "end"} /\ current \in Index
      /\ UNCHANGED <<object, inode, changes, current, metadata, file, outcome>>
      /\ file = object[current] /\ LookedAt /\ BeingRead /\ ~readFailed
  BY DEF ReadChunk, EndOfFile, ReadError, result, locals, fs, history, Typed, Quiet, LookedAt,
         Regular, Diagnosed
<1>2. LookedAt'
  BY <1>1 DEF LookedAt, Stat
<1>3. Len(captured) \in Nat /\ Len(there) \in Nat
  BY <1>1, InodesTyped, LenProperties DEF LookedAt, Typed
<1>4. failed \subseteq failed' /\ BeingRead'
  <2>1. CASE ReadChunk
    <3>1. PICK count \in 1 .. ChunkBlocks :
             /\ Len(captured') = Len(captured) + count
             /\ Len(captured') <= Len(inode[file].content)
             /\ \A k \in 1 .. Len(captured) : captured'[k] = captured[k]
             /\ \A k \in Len(captured) + 1 .. Len(captured') : captured'[k] = inode[file].content[k]
      BY <2>1, ReadChunkEffect
    <3>2. ASSUME NEW k \in 1 .. Len(captured') PROVE captured'[k] = there[k]
      <4>1. k \in 1 .. Len(captured) \/ k \in Len(captured) + 1 .. Len(captured')
        BY <1>3, <3>1
      <4> QED
        BY <1>1, <3>1, <4>1 DEF BeingRead
    <3>3. pc' = "read" /\ UNCHANGED failed
      BY <1>1, <2>1 DEF ReadChunk, history
    <3> QED
      BY <1>1, <3>1, <3>2, <3>3 DEF BeingRead
  <2>2. CASE EndOfFile
    <3>1. Len(captured) >= Len(there) /\ UNCHANGED <<captured, readFailed, failed>>
      BY <1>1, <2>2 DEF EndOfFile, locals, history
    <3> QED
      BY <1>1, <1>3, <3>1 DEF BeingRead
  <2>3. CASE ReadError
    <3>1. captured' = captured /\ Call(FALSE)
      BY <2>3 DEF ReadError
    <3>2. current \in failed' /\ failed \subseteq failed'
      BY <1>1, <3>1, CallFailed, CallTyped
    <3> QED
      BY <1>1, <3>1, <3>2 DEF BeingRead
  <2> QED
    BY <2>1, <2>2, <2>3
<1> QED
  BY <1>1, <1>2, <1>4, StayQuiet

LEMMA EndQuiet == ASSUME Typed, Quiet, changes = 0, End PROVE Quiet'
<1> DEFINE there == inode[object[current]].content
<1>1. /\ pc = "end" /\ current \in Index /\ Advance /\ UNCHANGED fs
      /\ UNCHANGED <<object, inode, changes>> /\ LookedAt /\ BeingRead
      /\ file = object[current] /\ opened = metadata /\ outcome \in [Index -> Groups]
      /\ captured \in Seq(Nat)
  BY DEF End, Typed, Quiet, LookedAt, Regular, fs
<1>2. Unchanged
  BY <1>1 DEF Unchanged, LookedAt
<1>3. PICK stable \in BOOLEAN :
         /\ ~stable => current \in failed'
         /\ stable => failed' = failed
         /\ outcome' = [outcome EXCEPT ![current] = EndGroup(stable)]
  BY <1>2, EndEffect
<1>4. failed \subseteq failed'
  BY <1>1, CallTyped DEF End
<1>5. /\ outcome'[current] = EndGroup(stable)
      /\ \A c \in Index : c # current => outcome'[c] = outcome[c]
  BY <1>1, <1>3
<1> PICK left \in Index : left = current
  BY <1>1
<1>6. left \in failed' \/ AsItIs(left)'
  <2> SUFFICES ASSUME left \notin failed' PROVE AsItIs(left)'
    OBVIOUS
  <2>1. stable /\ current \notin failed
    BY <1>3, <1>4
  <2>2. /\ ~readFailed /\ Len(captured) = Len(there)
        /\ \A k \in 1 .. Len(captured) : captured[k] = there[k]
    BY <1>1, <2>1 DEF BeingRead
  <2>3. there \in Seq(Nat)
    BY <1>1, InodesTyped DEF LookedAt, Typed
  <2>4. captured = there
    BY <1>1, <2>2, <2>3, SeqEqual
  <2>5. /\ EndGroup(stable).kind = "regular" /\ EndGroup(stable).data = captured
        /\ EndGroup(stable).stable
    BY <2>1, <2>2 DEF EndGroup
  <2>6. inode[object[current]].kind = "regular"
    BY <1>1 DEF LookedAt
  <2> QED
    BY <1>1, <1>5, <2>4, <2>5, <2>6 DEF AsItIs
<1> QED
  BY <1>1, <1>4, <1>5, <1>6, LeftQuiet

LEMMA NextQuiet == Typed /\ Diagnosed /\ Quiet /\ [Next]_vars => Quiet'
<1> SUFFICES ASSUME Typed, Diagnosed, Quiet, [Next]_vars PROVE Quiet'
  OBVIOUS
<1>1. CASE Change
  <2>1. changes' # 0
    BY <1>1, ChangeEffect DEF Typed
  <2> QED
    BY <2>1 DEF Quiet
<1>2. CASE changes # 0 /\ ~Change
  <2>1. UNCHANGED fs
    BY <1>2 DEF Next, Capture, Lstat, Readlink, Open, Awaken, Fstat, ReadChunk, EndOfFile, End,
                Report, ReadError, vars, fs
  <2> QED
    BY <1>2, <2>1 DEF Quiet, fs
<1>3. CASE changes = 0 /\ (Report \/ UNCHANGED vars)
  <2>1. CASE Report
    <3>1. /\ pc = "report" /\ pc' = "returned"
          /\ UNCHANGED <<object, inode, changes, current, outcome, captured, failed>>
      BY <2>1 DEF Report, fs, locals, history
    <3> QED
      BY <1>3, <3>1, StayQuiet DEF Regular, Quiet
  <2>2. CASE UNCHANGED vars
    BY <2>2 DEF vars, Quiet, QuietTreeIsCaptured, LookedAt, BeingRead, Stat
  <2> QED
    BY <1>3, <2>1, <2>2
<1> QED
  BY <1>1, <1>2, <1>3, LstatQuiet, ReadlinkQuiet, LookingQuiet, ReadingQuiet, EndQuiet
     DEF Next, Capture

-----------------------------------------------------------------------------
(* A stable group is a snapshot.                                           *)

\* A candidate is left with a group that is not stable, or is a snapshot.
LEMMA LeftSnapshot ==
    ASSUME Typed, Snapshot, NEW left \in Index, left = current, Advance, UNCHANGED fs,
           \A c \in Index : c # left => outcome'[c] = outcome[c] /\ truth'[c] = truth[c],
           outcome'[left].stable => /\ outcome'[left].data = truth'[left]
                                    /\ Len(outcome'[left].data) = outcome'[left].expected
    PROVE  Snapshot'
<1>1. /\ current' = current + 1 /\ pc' \in {"lstat", "report"} /\ captured' = <<>>
      /\ left \in Int /\ left = current /\ UNCHANGED <<inode, clock>>
  BY AdvanceEffect DEF Index, fs
<1>2. \A c \in Index : c # left => outcome'[c] = outcome[c] /\ truth'[c] = truth[c]
  OBVIOUS
<1>3. StableIsSnapshot'
  BY <1>2 DEF StableIsSnapshot, Snapshot
<1>4. ASSUME NEW c \in Index, c >= current' PROVE ~outcome'[c].stable
  <2>1. c \in Int /\ c >= current /\ c # left
    BY <1>1, <1>4 DEF Index
  <2> QED
    BY <1>2, <2>1 DEF Snapshot
<1> QED
  BY <1>1, <1>3, <1>4 DEF Snapshot, Regular

LEMMA SkipSnapshot ==
    ASSUME Typed, Snapshot, current \in Index, NEW code, Skip(code), UNCHANGED fs,
           \A c \in Index : c # current => truth'[c] = truth[c]
    PROVE  Snapshot'
<1>1. Advance /\ outcome' = outcome /\ ~outcome[current].stable
  BY DEF Skip, Snapshot, Index
<1> QED
  BY <1>1, LeftSnapshot

LEMMA EmitWholeSnapshot ==
    ASSUME Typed, Snapshot, current \in Index, NEW kind, NEW data, EmitWhole(kind, data),
           UNCHANGED fs, \A c \in Index : c # current => truth'[c] = truth[c]
    PROVE  Snapshot'
<1> DEFINE group == [NoGroup EXCEPT !.kind = kind, !.id = artifacts, !.data = data]
<1>1. /\ Advance /\ outcome' = [outcome EXCEPT ![current] = group] /\ ~group.stable
      /\ outcome \in [Index -> Groups]
  BY DEF EmitWhole, NoGroup, Typed
<1> HIDE DEF group
<1>2. /\ \A c \in Index : c # current => outcome'[c] = outcome[c]
      /\ ~outcome'[current].stable
  BY <1>1
<1> QED
  BY <1>1, <1>2, LeftSnapshot

LEMMA LstatSnapshot == ASSUME Typed, Snapshot, Lstat PROVE Snapshot'
<1> DEFINE i == object[current]
           content == inode[i].content
<1>1. /\ pc = "lstat" /\ current \in Index /\ UNCHANGED fs
      /\ truth \in [Index -> Seq(Nat)]
  BY LstatCases DEF Typed
<1>2. \A c \in Index : c # current => truth'[c] = truth[c]
  BY <1>1, LstatCases
<1>3. CASE Skip("stat.failed") \/ Skip("type.unsupported")
  BY <1>1, <1>2, <1>3, SkipSnapshot
<1>4. CASE EmitWhole("directory", <<>>)
  BY <1>1, <1>2, <1>4, EmitWholeSnapshot
<1>5. CASE /\ i \in 1 .. Len(inode)
           /\ Stat(i).ino = i /\ Stat(i).size = Len(content) /\ Stat(i).time = inode[i].time
           /\ truth' = [truth EXCEPT ![current] = content]
           /\ metadata' = Stat(i) /\ pc' \in {"readlink", "open"}
           /\ UNCHANGED <<current, captured, result>>
  <2>1. /\ truth'[current] = content
        /\ UNCHANGED <<inode, clock, outcome>> /\ inode[i].time <= clock
        /\ captured' = <<>>
    BY <1>1, <1>5 DEF fs, result, Snapshot
  <2>2. /\ metadata'.time <= clock /\ metadata'.size = Len(truth'[current])
        /\ inode[metadata'.ino].content = truth'[current]
    BY <1>5, <2>1
  <2>3. StableIsSnapshot'
    <3> SUFFICES ASSUME NEW c \in Index, outcome[c].stable
                 PROVE  outcome[c].data = truth'[c] /\ Len(outcome[c].data) = outcome[c].expected
      BY <2>1 DEF StableIsSnapshot
    <3>1. c # current
      BY DEF Snapshot, Index
    <3> QED
      BY <1>2, <3>1 DEF Snapshot, StableIsSnapshot
  <2> HIDE DEF i, content
  <2> QED
    BY <1>5, <2>1, <2>2, <2>3 DEF Snapshot, SameTime, Regular
<1> QED
  BY <1>3, <1>4, <1>5, LstatCases

LEMMA ReadlinkSnapshot == ASSUME Typed, Snapshot, Readlink PROVE Snapshot'
<1>1. current \in Index /\ UNCHANGED fs /\ truth \in [Index -> Seq(Nat)]
  BY DEF Readlink, Typed
<1>2. \A c \in Index : c # current => truth'[c] = truth[c]
  BY <1>1 DEF Readlink
<1> QED
  BY <1>1, <1>2, SkipSnapshot, EmitWholeSnapshot DEF Readlink

\* open and fstat only look.
LEMMA LookingSnapshot == ASSUME Typed, Snapshot, Open \/ Awaken \/ Fstat PROVE Snapshot'
<1>1. /\ pc \in {"open", "waiting", "fstat"} /\ current \in Index
      /\ UNCHANGED fs /\ UNCHANGED truth
  BY LookingCases
<1>2. CASE Skip("open.failed") \/ Skip("changed_before_read")
  BY <1>1, <1>2, SkipSnapshot
<1>3. CASE ~(Skip("open.failed") \/ Skip("changed_before_read"))
  <2>0. /\ pc' \in {"waiting", "fstat", "read"}
        /\ UNCHANGED <<current, metadata, captured, chunks, readFailed, result>>
    BY <1>3, LookingCases
  <2>1. /\ pc' \in {"waiting", "fstat", "read"}
        /\ UNCHANGED <<inode, clock, current, metadata, captured, readFailed, outcome, truth>>
    BY <1>1, <2>0 DEF fs, result
  <2>2. captured = <<>> /\ truth[current] \in Seq(Nat)
    BY <1>1 DEF Snapshot, Typed
  <2>3. Len(captured) = 0 /\ Len(captured) <= Len(truth[current])
    BY <2>2, EmptySeq, LenProperties
  <2> QED
    BY <1>1, <2>1, <2>2, <2>3 DEF Snapshot, SameTime, StableIsSnapshot, Regular
<1> QED
  BY <1>2, <1>3

LEMMA ReadingSnapshot ==
    ASSUME Typed, Snapshot, ReadChunk \/ EndOfFile \/ ReadError PROVE Snapshot'
<1> DEFINE whole == truth[current]
<1>1. /\ pc = "read" /\ pc' \in {"read", "end"}
      /\ UNCHANGED <<inode, clock, current, metadata, file, truth>>
      /\ \A c \in Index : outcome'[c] = outcome[c]
      /\ file = metadata.ino /\ captured \in Seq(Nat) /\ Len(captured) \in Nat
      /\ current \in Index /\ whole \in Seq(Nat) /\ Len(whole) \in Nat
  BY LenProperties DEF ReadChunk, EndOfFile, ReadError, result, locals, fs, history, Typed, Regular
<1>2. SameTime' <=> SameTime
  BY <1>1 DEF SameTime
<1>3. SameTime => /\ inode[file].content = whole /\ Len(captured) <= Len(whole)
                  /\ \A k \in 1 .. Len(captured) : captured[k] = whole[k]
  BY <1>1 DEF Snapshot, SameTime, Regular
<1>4. SameTime => /\ Len(captured') <= Len(whole)
                  /\ \A k \in 1 .. Len(captured') : captured'[k] = whole[k]
  <2>1. CASE ReadChunk
    <3>1. PICK count \in 1 .. ChunkBlocks :
             /\ Len(captured') = Len(captured) + count
             /\ Len(captured') <= Len(inode[file].content)
             /\ \A k \in 1 .. Len(captured) : captured'[k] = captured[k]
             /\ \A k \in Len(captured) + 1 .. Len(captured') : captured'[k] = inode[file].content[k]
      BY <2>1, ReadChunkEffect
    <3> SUFFICES ASSUME SameTime, NEW k \in 1 .. Len(captured') PROVE captured'[k] = whole[k]
      BY <1>3, <3>1
    <3>2. k \in 1 .. Len(captured) \/ k \in Len(captured) + 1 .. Len(captured')
      BY <1>1, <3>1
    <3> QED
      BY <1>3, <3>1, <3>2
  <2>2. CASE EndOfFile \/ ReadError
    BY <1>3, <2>2 DEF EndOfFile, ReadError, locals
  <2> QED
    BY <2>1, <2>2
<1>5. SameTime /\ pc' = "end" /\ ~readFailed' => Len(captured') = Len(whole)
  <2>1. CASE EndOfFile
    <3>1. Len(captured) >= Len(inode[file].content) /\ captured' = captured
      BY <2>1 DEF EndOfFile, locals
    <3> QED
      BY <1>1, <1>3, <3>1
  <2>2. CASE ReadChunk \/ ReadError
    BY <1>1, <2>2 DEF ReadChunk, ReadError
  <2> QED
    BY <2>1, <2>2
<1>6. StableIsSnapshot'
  BY <1>1 DEF Snapshot, StableIsSnapshot
<1> HIDE DEF whole
<1> QED
  BY <1>1, <1>2, <1>4, <1>5, <1>6 DEF Snapshot, Regular, SameTime, whole

LEMMA EndSnapshot == ASSUME Typed, Snapshot, End PROVE Snapshot'
<1>0. PICK stable \in BOOLEAN :
         /\ stable => Unchanged
         /\ outcome' = [outcome EXCEPT ![current] = EndGroup(stable)]
  BY EndEffect
<1> DEFINE group == EndGroup(stable)
<1>1. /\ pc = "end" /\ current \in Index /\ Advance /\ UNCHANGED <<fs, truth>>
      /\ outcome' = [outcome EXCEPT ![current] = group] /\ outcome \in [Index -> Groups]
      /\ opened = metadata /\ file = metadata.ino /\ file \in 1 .. Len(inode)
      /\ captured \in Seq(Nat) /\ truth[current] \in Seq(Nat)
  BY <1>0 DEF End, Typed, Regular
<1>2. group.stable => Unchanged /\ ~readFailed
  BY <1>0 DEF EndGroup
<1>3. Unchanged => SameTime
  BY <1>1, StatTyped DEF Unchanged, SameTime
<1>4. group.stable => captured = truth[current] /\ metadata.size = Len(truth[current])
  <2> SUFFICES ASSUME group.stable
               PROVE  captured = truth[current] /\ metadata.size = Len(truth[current])
    OBVIOUS
  <2>1. SameTime /\ ~readFailed
    BY <1>2, <1>3
  <2>2. /\ Len(captured) = Len(truth[current])
        /\ \A k \in 1 .. Len(captured) : captured[k] = truth[current][k]
        /\ metadata.size = Len(truth[current])
    BY <1>1, <2>1 DEF Snapshot, Regular
  <2> QED
    BY <1>1, <2>2, SeqEqual
<1>5. group.data = captured /\ group.expected = metadata.size
  BY DEF EndGroup
<1> HIDE DEF group
<1>6. /\ \A c \in Index : c # current => outcome'[c] = outcome[c]
      /\ outcome'[current] = group
  BY <1>1
<1> QED
  BY <1>1, <1>4, <1>5, <1>6, LeftSnapshot

\* An inode that is changed gets a time lstat has not seen.
LEMMA ChangeSnapshot == ASSUME Typed, Snapshot, ~CoarseClock, Change PROVE Snapshot'
<1>1. /\ clock' = clock + 1 /\ clock \in Nat
      /\ inode \in Seq(Inodes) /\ Len(inode) \in Nat
      /\ \A i \in 1 .. Len(inode) : inode'[i] = inode[i] \/ inode'[i].time = clock'
      /\ \A i \in 1 .. Len(inode') : i > Len(inode) => inode'[i].time = clock'
      /\ Len(inode') \in Nat
      /\ UNCHANGED <<pc, current, metadata, captured, readFailed, outcome, truth>>
  BY ChangeEffect DEF Typed
<1>2. \A i \in 1 .. Len(inode') : inode'[i].time <= clock'
  <2> SUFFICES ASSUME NEW i \in 1 .. Len(inode') PROVE inode'[i].time <= clock'
    OBVIOUS
  <2>1. CASE i \in 1 .. Len(inode)
    <3>1. inode[i].time \in Nat /\ inode[i].time <= clock
      BY <1>1, <2>1, InodesTyped DEF Snapshot
    <3> QED
      BY <1>1, <2>1, <3>1
  <2>2. CASE i > Len(inode)
    BY <1>1, <2>2
  <2> QED
    BY <1>1, <2>1, <2>2
<1>3. ASSUME pc \in Regular
      PROVE  /\ metadata.time <= clock'
             /\ SameTime' => SameTime /\ inode'[metadata.ino] = inode[metadata.ino]
  <2>1. metadata.ino \in 1 .. Len(inode) /\ metadata.time \in Nat /\ metadata.time <= clock
    BY <1>3 DEF Typed, Snapshot, Stats
  <2> DEFINE m == metadata.ino
  <2>0. m \in 1 .. Len(inode)
    BY <2>1
  <2> HIDE DEF m
  <2>a. inode'[m] = inode[m] \/ inode'[m].time = clock'
    BY <1>1, <2>0
  <2>2. inode'[m] = inode[m] \/ inode'[m].time # metadata.time
    BY <1>1, <2>1, <2>a
  <2> QED
    BY <1>1, <2>1, <2>2 DEF SameTime, m
<1>4. StableIsSnapshot'
  BY <1>1 DEF Snapshot, StableIsSnapshot
<1> QED
  BY <1>1, <1>2, <1>3, <1>4 DEF Snapshot, Regular

LEMMA NextSnapshot == Typed /\ Snapshot /\ ~CoarseClock /\ [Next]_vars => Snapshot'
<1> SUFFICES ASSUME Typed, Snapshot, ~CoarseClock, [Next]_vars PROVE Snapshot'
  OBVIOUS
<1>1. CASE Report \/ UNCHANGED vars
  <2>1. /\ UNCHANGED <<inode, clock, current, metadata, captured, readFailed, outcome, truth>>
        /\ pc' = pc \/ (pc = "report" /\ pc' = "returned")
    BY <1>1 DEF Report, vars, fs, locals, history
  <2> QED
    BY <2>1 DEF Snapshot, SameTime, StableIsSnapshot, Regular
<1> QED
  BY <1>1, LstatSnapshot, ReadlinkSnapshot, LookingSnapshot, ReadingSnapshot, EndSnapshot,
     ChangeSnapshot DEF Next, Capture

-----------------------------------------------------------------------------
(* Groups and their totals.                                                *)

LEMMA IndexFinite == IsFiniteSet(Index) /\ \A T : T \subseteq Index => IsFiniteSet(T)
<1>1. IsFiniteSet(Index)
  BY FS_Interval DEF Index
<1> QED
  BY <1>1, FS_Subset

LEMMA InitCounted == Init => Counted
<1> SUFFICES ASSUME Init PROVE Counted
  OBVIOUS
<1>1. /\ \A c \in Index : outcome[c] = NoGroup
      /\ artifacts = 0 /\ bytes = 0
  BY DEF Init
<1>2. \A c \in Index : outcome[c].kind = "none" /\ outcome[c].data = <<>>
  BY <1>1 DEF NoGroup
<1>3. Grouped(outcome) = {}
  BY <1>2 DEF Grouped
<1>4. Blocks(outcome) = {}
  <2>1. DOMAIN <<>> = {}
    OBVIOUS
  <2>2. \A c \in Index : {c} \X DOMAIN outcome[c].data = {}
    BY <1>2, <2>1
  <2> QED
    BY <2>2 DEF Blocks
<1>5. GroupsAreCounted
  BY <1>1, <1>2, <1>3, <1>4, FS_EmptySet DEF GroupsAreCounted, Grouped, Blocks
<1> QED
  BY <1>1, <1>4, <1>5, FS_EmptySet DEF Counted

\* A new group for the current candidate gets the next id.
LEMMA GroupCounted ==
    ASSUME Typed, Counted, current \in Index, current' = current + 1,
           NEW group \in Groups, group.kind # "none", group.id = artifacts,
           outcome' = [outcome EXCEPT ![current] = group],
           artifacts' = artifacts + 1, bytes' = bytes + Len(group.data)
    PROVE  Counted'
<1>1. /\ outcome \in [Index -> Groups] /\ artifacts \in Nat
      /\ group.data \in Seq(Nat) /\ Len(group.data) \in Nat
      /\ DOMAIN group.data = 1 .. Len(group.data)
      /\ current \in Nat
  <2>1. group.data \in Seq(Nat)
    BY DEF Groups
  <2>2. Len(group.data) \in Nat /\ DOMAIN group.data = 1 .. Len(group.data)
    BY <2>1, LenProperties
  <2>3. outcome \in [Index -> Groups] /\ artifacts \in 0 .. Candidates /\ current \in 1 .. Candidates
    BY DEF Typed, TypeOK, Index
  <2> QED
    BY <2>1, <2>2, <2>3
<1>2. /\ outcome'[current] = group
      /\ \A c \in Index : c # current => outcome'[c] = outcome[c]
  BY <1>1
<1>3. /\ outcome[current].kind = "none" /\ outcome[current].data = <<>>
      /\ \A c \in Index : c >= current => outcome[c].kind = "none"
  BY <1>1 DEF Counted, NoGroup, Index
<1>4. Cardinality(Grouped(outcome')) = artifacts + 1
  <2>1. Grouped(outcome') = Grouped(outcome) \cup {current}
    BY <1>2 DEF Grouped
  <2>2. current \notin Grouped(outcome) /\ IsFiniteSet(Grouped(outcome))
    BY <1>3, IndexFinite DEF Grouped
  <2>3. Cardinality(Grouped(outcome)) = artifacts
    BY DEF Grouped, Counted, GroupsAreCounted
  <2>4. Cardinality(Grouped(outcome) \cup {current}) = Cardinality(Grouped(outcome)) + 1
    BY <2>2, FS_AddElement, Zenon
  <2> QED
    BY <2>1, <2>3, <2>4, Zenon
<1>5. ASSUME NEW c \in Index, outcome'[c].kind # "none"
      PROVE  outcome'[c].id = Cardinality({d \in 1 .. c - 1 : outcome'[d].kind # "none"})
  <2>1. CASE c = current
    <3>1. {d \in 1 .. c - 1 : outcome'[d].kind # "none"} = Grouped(outcome)
      BY <1>1, <1>2, <1>3, <2>1 DEF Grouped, Index
    <3> QED
      BY <1>2, <2>1, <3>1 DEF Grouped, Counted, GroupsAreCounted
  <2>2. CASE c # current
    <3>1. c < current /\ outcome[c].kind # "none" /\ outcome'[c] = outcome[c]
      BY <1>1, <1>2, <1>3, <1>5, <2>2 DEF Index
    <3>2. {d \in 1 .. c - 1 : outcome'[d].kind # "none"}
              = {d \in 1 .. c - 1 : outcome[d].kind # "none"}
      BY <1>1, <1>2, <3>1 DEF Index
    <3> QED
      BY <3>1, <3>2 DEF Counted, GroupsAreCounted
  <2> QED
    BY <2>1, <2>2
<1>6. IsFiniteSet(Blocks(outcome')) /\ Cardinality(Blocks(outcome')) = bytes'
  <2> DEFINE new == {current} \X DOMAIN group.data
  <2>1. DOMAIN <<>> = {}
    OBVIOUS
  <2>2. {current} \X DOMAIN outcome[current].data = {}
    BY <1>3, <2>1
  <2>3. Blocks(outcome') = Blocks(outcome) \cup new
    BY <1>2, <2>2 DEF Blocks
  <2>4. IsFiniteSet(new) /\ Cardinality(new) = Len(group.data)
    <3>1. IsFiniteSet({current}) /\ Cardinality({current}) = 1
      BY FS_Singleton
    <3>2. IsFiniteSet(DOMAIN group.data) /\ Cardinality(DOMAIN group.data) = Len(group.data)
      BY <1>1, FS_Interval
    <3>3. /\ IsFiniteSet(new)
          /\ Cardinality(new) = Cardinality({current}) * Cardinality(DOMAIN group.data)
      BY <3>1, <3>2, FS_Product, Zenon
    <3> HIDE DEF new
    <3> QED
      BY <1>1, <3>1, <3>2, <3>3
  <2>5. Blocks(outcome) \cap new = {}
    BY <2>2 DEF Blocks
  <2>6. IsFiniteSet(Blocks(outcome)) /\ Cardinality(Blocks(outcome)) = bytes
    BY DEF Counted, GroupsAreCounted, Blocks
  <2> HIDE DEF new
  <2>7. Cardinality(Blocks(outcome) \cap new) = 0
    BY <2>5, FS_EmptySet
  <2>8. bytes \in Nat
    BY <2>6, FS_CardinalityType
  <2>9. /\ IsFiniteSet(Blocks(outcome) \cup new)
        /\ Cardinality(Blocks(outcome) \cup new)
               = Cardinality(Blocks(outcome)) + Cardinality(new)
                 - Cardinality(Blocks(outcome) \cap new)
    BY <2>4, <2>6, FS_Union, Zenon
  <2>10. Cardinality(Blocks(outcome) \cup new) = bytes'
    <3> DEFINE total == Cardinality(Blocks(outcome) \cup new)
    <3>1. total = bytes + Len(group.data) - 0
      BY <2>4, <2>6, <2>7, <2>9
    <3> HIDE DEF total
    <3> QED
      BY <1>1, <2>8, <3>1 DEF total
  <2> QED
    BY <2>3, <2>9, <2>10, Zenon
<1>7. \A c \in Index : c >= current' => outcome'[c] = NoGroup
  BY <1>1, <1>2 DEF Counted, Index
<1>8. GroupsAreCounted'
  BY <1>4, <1>5, <1>6 DEF GroupsAreCounted, Grouped, Blocks
<1> QED
  BY <1>6, <1>7, <1>8 DEF Counted

LEMMA SameCounted ==
    ASSUME Typed, Counted, current' \in {current, current + 1},
           UNCHANGED <<outcome, artifacts, bytes>>
    PROVE  Counted'
<1>1. current \in Nat
  BY DEF Typed, TypeOK
<1>2. \A c \in Index : c >= current' => outcome'[c] = NoGroup
  BY <1>1 DEF Counted, Index
<1> QED
  BY <1>2 DEF Counted, GroupsAreCounted, Blocks

LEMMA SkipKeepsCount ==
    ASSUME Typed, Counted, NEW code, Skip(code)
    PROVE  Counted'
BY SameCounted DEF Skip, Advance

LEMMA EmitWholeCounted ==
    ASSUME Typed, Counted, current \in Index, NEW kind \in Kinds, NEW data \in Seq(Nat),
           EmitWhole(kind, data)
    PROVE  Counted'
<1> DEFINE group == [NoGroup EXCEPT !.kind = kind, !.id = artifacts, !.data = data]
<1>1. group \in Groups /\ group.kind = kind /\ group.id = artifacts /\ group.data = data
  <2>1. <<>> \in Seq(Nat) /\ artifacts \in Nat
    BY EmptySeq DEF Typed, TypeOK
  <2> QED
    BY <2>1 DEF NoGroup, Groups
<1>2. kind # "none"
  BY DEF Kinds
<1>3. /\ outcome' = [outcome EXCEPT ![current] = group]
      /\ artifacts' = artifacts + 1 /\ bytes' = bytes + Len(data) /\ current' = current + 1
  BY DEF EmitWhole, Advance
<1> HIDE DEF group
<1> QED
  BY <1>1, <1>2, <1>3, GroupCounted

LEMMA NextCounted == Typed /\ Counted /\ [Next]_vars => Counted'
<1> SUFFICES ASSUME Typed, Counted, [Next]_vars PROVE Counted'
  OBVIOUS
<1>1. CASE Lstat
  <2>1. current \in Index
    BY <1>1, LstatCases
  <2>2. CASE EmitWhole("directory", <<>>)
    BY <2>1, <2>2, EmitWholeCounted, EmptySeq DEF Kinds
  <2>3. CASE UNCHANGED <<current, result>>
    BY <2>3, SameCounted DEF result
  <2> QED
    BY <1>1, <2>2, <2>3, LstatCases, SkipKeepsCount
<1>2. CASE Readlink
  <2>1. current \in Index
    BY <1>2 DEF Readlink, Typed
  <2>2. CASE \E data \in Seq(Nat) : EmitWhole("symlink", data)
    BY <2>1, <2>2, EmitWholeCounted DEF Kinds
  <2> QED
    BY <1>2, <2>2, ReadlinkCases, SkipKeepsCount
<1>3. CASE Open \/ Awaken \/ Fstat
  BY <1>3, LookingCases, SkipKeepsCount, SameCounted DEF result
<1>4. CASE ReadChunk \/ EndOfFile \/ ReadError \/ Report \/ Change \/ UNCHANGED vars
  <2>1. UNCHANGED <<current, outcome, artifacts, bytes>>
    BY <1>4 DEF ReadChunk, EndOfFile, ReadError, Report, Change, vars, locals, result
  <2> QED
    BY <2>1, SameCounted
<1>5. CASE End
  <2>0. PICK stable \in BOOLEAN :
           /\ EndGroup(stable) \in Groups
           /\ outcome' = [outcome EXCEPT ![current] = EndGroup(stable)]
    BY <1>5, EndEffect
  <2> DEFINE group == EndGroup(stable)
  <2>1. /\ group \in Groups /\ outcome' = [outcome EXCEPT ![current] = group]
        /\ current \in Index
    BY <1>5, <2>0 DEF End, Typed, Regular
  <2>2. group.kind # "none" /\ group.id = artifacts /\ group.data = captured
    BY DEF EndGroup
  <2>3. artifacts' = artifacts + 1 /\ bytes' = bytes + Len(captured) /\ current' = current + 1
    BY <1>5 DEF End, Advance
  <2> HIDE DEF group
  <2> QED
    BY <2>1, <2>2, <2>3, GroupCounted
<1> QED
  BY <1>1, <1>2, <1>3, <1>4, <1>5 DEF Next, Capture

-----------------------------------------------------------------------------
(* What a capture guarantees.                                              *)

\* The variables of a capture are of their types.
THEOREM CaptureTypeOK == Spec => []TypeOK
<1>1. Init => Typed
  BY InitAll
<1>2. Typed => TypeOK
  BY DEF Typed
<1> QED
  BY <1>1, <1>2, NextTyped, PTL DEF Spec

\* A candidate has a diagnostic exactly if it has no group or a file's group that is not
\* stable, a diagnostic fails the result, and a link's group, which never has one, holds
\* a beginning of the target readlink met (a cut target is not diagnosed).
THEOREM CaptureFailureIsDiagnosed == Spec => []FailureIsDiagnosed
<1>1. Init => Typed /\ Diagnosed
  BY InitAll
<1> QED
  BY <1>1, NextTyped, NextDiagnosed, DiagnosedFailure, PTL DEF Spec

\* Of a tree that nobody changes, every candidate of a supported type for which no system
\* call has failed is captured completely and called stable.
THEOREM QuietTreeIsAlwaysCaptured == Spec => []QuietTreeIsCaptured
<1>1. Init => Typed /\ Diagnosed /\ Quiet
  BY InitAll
<1>2. Typed /\ Quiet => QuietTreeIsCaptured
  BY DEF Quiet, QuietTreeIsCaptured
<1> QED
  BY <1>1, <1>2, NextTyped, NextDiagnosed, NextQuiet, PTL DEF Spec

\* Artifact ids are 0, 1, 2, ... in the order of the candidates that have a group, and the
\* totals of the footer are the numbers of groups and of the blocks in them.
THEOREM GroupsAreAlwaysCounted == Spec => []GroupsAreCounted
<1>1. Init => Typed /\ Counted
  BY InitAll, InitCounted
<1>2. Counted => GroupsAreCounted
  BY DEF Counted
<1> QED
  BY <1>1, <1>2, NextTyped, NextCounted, PTL DEF Spec

\* When no two changes share a timestamp, a group that says it is stable is what the
\* file was at lstat, whoever changes the tree at whatever moment.
THEOREM StableIsAlwaysSnapshot == ~CoarseClock => (Spec => []StableIsSnapshot)
<1> SUFFICES ASSUME ~CoarseClock PROVE Spec => []StableIsSnapshot
  OBVIOUS
<1>1. Init => Typed /\ Snapshot
  BY InitAll
<1>2. Typed /\ Snapshot /\ [Next]_vars => Typed' /\ Snapshot'
  BY NextTyped, NextSnapshot
<1>3. Snapshot => StableIsSnapshot
  BY DEF Snapshot
<1> QED
  BY <1>1, <1>2, <1>3, PTL DEF Spec
=============================================================================

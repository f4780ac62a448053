--------------------------- MODULE ArtifactCapture ---------------------------
(***************************************************************************)
(* emit_artifacts: the module's files are captured one after the other      *)
(* while somebody else may change, replace or remove them.  A regular file  *)
(* is looked at with lstat, opened without following links, looked at again,*)
(* read to its end in as many read() calls as the kernel makes of it, and    *)
(* looked at a last time; its artifact group says whether it stayed the same.*)
(*                                                                          *)
(* A file is a sequence of blocks (of bytes that change together); a block  *)
(* is the number of the change that wrote it.  The target of a symbolic     *)
(* link is such a sequence too.  What emit_artifacts keeps per candidate is  *)
(* reset when it goes on to the next one.                                   *)
(***************************************************************************)
EXTENDS Integers, Sequences, FiniteSets

CONSTANTS
    Candidates,     \* how many candidates there are
    ChunkBlocks,    \* the chunk size, in blocks
    MaxBlocks,      \* bound: the longest file (a link's target may be a block longer)
    MaxChanges,     \* bound: how often the tree is changed meanwhile
    CoarseClock     \* may two changes share a timestamp?

ASSUME CandidatesAssumption == Candidates \in Nat \ {0}
ASSUME ChunkAssumption == ChunkBlocks \in Nat \ {0}
ASSUME BoundsAssumption == MaxBlocks \in Nat /\ MaxChanges \in Nat
ASSUME ClockAssumption == CoarseClock \in BOOLEAN

VARIABLES
    \* the file system
    object,     \* the inode each candidate's path leads to, 0 if to none
    inode,      \* kind, content and timestamp of every inode there has been
    changes,    \* how many changes there have been
    clock,      \* the file system's time
    \* emit_artifacts
    pc,
    current,    \* the candidate being captured
    metadata,   \* what lstat said of it
    file,       \* the inode that is open, or that open() waits for, 0 if none
    opened,     \* what fstat said of it
    captured,   \* the blocks emitted in chunks
    chunks,     \* the size of each chunk
    readFailed,
    outcome,    \* the artifact group of each candidate, if it has one
    artifacts,  \* groups so far, and the next artifact_id
    bytes,      \* result.bytes
    success,    \* result.success
    diagnostics,    \* collected: candidate and code
    reported,       \* how many of them have been emitted
    truth,      \* history: the content lstat or readlink met for each candidate
    failed      \* history: the candidates a system call failed for before
                \* anything had changed

fs == <<object, inode, changes, clock>>
locals == <<metadata, file, opened, captured, chunks, readFailed>>
result == <<outcome, artifacts, bytes, success, diagnostics, reported>>
history == <<truth, failed>>
vars == <<object, inode, changes, clock, pc, current, metadata, file, opened,
          captured, chunks, readFailed, outcome, artifacts, bytes, success,
          diagnostics, reported, truth, failed>>

Index == 1 .. Candidates
Supported == {"regular", "directory", "symlink"}
\* A FIFO, a socket or a device is "special".
Kinds == Supported \cup {"special"}
Blank == [kind |-> "none", ino |-> 0, size |-> 0, time |-> 0]
NoGroup == [kind |-> "none", id |-> 0, data |-> <<>>, expected |-> 0,
            chunks |-> <<>>, stable |-> FALSE]

\* The members of struct stat that same_file_state compares: device and
\* inode number, mode, size, and the two timestamps.
Stat(i) == [kind |-> inode[i].kind, ino |-> i,
            size |-> Len(inode[i].content), time |-> inode[i].time]

\* The kind of object a candidate's path leads to now.
Kind(c) == IF object[c] = 0 THEN "none" ELSE inode[object[c]].kind

Places == {"lstat", "readlink", "open", "waiting", "fstat", "read", "end",
           "report", "returned"}

Codes == {"stat.failed", "symlink.read_failed", "open.failed",
          "changed_before_read", "read.failed", "changed_during_read",
          "type.unsupported"}

TypeOK ==
    /\ pc \in Places
    /\ current \in 1 .. Candidates + 1
    /\ \A c \in Index : object[c] \in 0 .. Len(inode)
    /\ \A i \in 1 .. Len(inode) : inode[i].kind \in Kinds
    /\ file \in 0 .. Len(inode)
    /\ metadata.kind \in Kinds \cup {"none"}
    /\ artifacts \in 0 .. Candidates
    /\ reported \in 0 .. Len(diagnostics)
    /\ \A n \in 1 .. Len(diagnostics) :
           diagnostics[n].candidate \in Index /\ diagnostics[n].code \in Codes
    /\ success \in BOOLEAN /\ readFailed \in BOOLEAN
    /\ failed \subseteq Index

Contents(kind, stamp) ==
    CASE kind = "regular" -> [1 .. MaxBlocks -> {stamp}] \cup {<<>>}
      [] kind = "symlink" -> [1 .. 1 -> {stamp}]
      [] OTHER            -> {<<>>}

Init ==
    /\ object = [c \in Index |-> c]
    /\ inode \in [Index -> UNION {{[kind |-> k, content |-> s, time |-> 0] :
                                       s \in Contents(k, 0)} : k \in Kinds}]
    /\ changes = 0 /\ clock = 0
    /\ pc = "lstat" /\ current = 1
    /\ metadata = Blank
    /\ file = 0 /\ opened = Blank
    /\ captured = <<>> /\ chunks = <<>> /\ readFailed = FALSE
    /\ outcome = [c \in Index |-> NoGroup]
    /\ artifacts = 0 /\ bytes = 0 /\ success = TRUE
    /\ diagnostics = <<>> /\ reported = 0
    /\ truth = [c \in Index |-> <<>>] /\ failed = {}

-----------------------------------------------------------------------------
(* Somebody else changes the tree (external).                              *)

\* A change gets a timestamp of its own, unless the clock is coarse.
Tick ==
    /\ changes < MaxChanges
    /\ changes' = changes + 1
    /\ clock' \in IF CoarseClock THEN {clock, clock + 1} ELSE {clock + 1}

\* Writing, appending and truncating keep the inode.
Rewrite(c) ==
    /\ Kind(c) = "regular"
    /\ Tick
    /\ LET old == inode[object[c]].content
           new == {[old EXCEPT ![k] = changes'] : k \in DOMAIN old}
                  \cup {Append(old, changes')}
                  \cup {SubSeq(old, 1, n) : n \in 0 .. Len(old) - 1}
       IN  \E s \in new :
               /\ Len(s) <= MaxBlocks
               /\ inode' = [inode EXCEPT ![object[c]].content = s,
                                         ![object[c]].time = clock']
    /\ UNCHANGED object

\* The inode a path no longer leads to has one link less: its ctime tells.
Unlinked(c) ==
    IF object[c] = 0 THEN inode ELSE [inode EXCEPT ![object[c]].time = clock']

\* A new object is renamed to the path.
Replace(c) ==
    /\ Tick
    /\ \E kind \in Kinds :
           \E n \in CASE kind = "regular" -> 1 .. MaxBlocks
                      [] kind = "symlink" -> {1, MaxBlocks + 1}
                      [] OTHER            -> {0} :
               inode' = Append(Unlinked(c), [kind |-> kind, time |-> clock',
                                            content |-> [k \in 1 .. n |-> changes']])
    /\ object' = [object EXCEPT ![c] = Len(inode')]

Remove(c) ==
    /\ object[c] # 0
    /\ Tick
    /\ inode' = Unlinked(c)
    /\ object' = [object EXCEPT ![c] = 0]

\* Only changes to the candidate being captured matter: one captured already
\* is not looked at again, and a later one is then found changed.
Change ==
    /\ current \in Index
    /\ Rewrite(current) \/ Replace(current) \/ Remove(current)
    /\ UNCHANGED <<pc, current, locals, result, history>>

-----------------------------------------------------------------------------
(* emit_artifacts, one system call a step.                                 *)

\* On to the next candidate, or to the diagnostics after the last one; the
\* descriptor is closed on every path.
Advance ==
    /\ current' = current + 1
    /\ pc' = IF current < Candidates THEN "lstat" ELSE "report"
    /\ metadata' = Blank /\ file' = 0 /\ opened' = Blank
    /\ captured' = <<>> /\ chunks' = <<>> /\ readFailed' = FALSE

\* History: the system call for the current candidate succeeded, or failed.
Call(succeeded) ==
    failed' = IF succeeded \/ changes > 0 THEN failed ELSE failed \cup {current}

Collect(code) ==
    diagnostics' = Append(diagnostics, [candidate |-> current, code |-> code])

\* Mutant: without `continue`, the artifact counts.
SkipCounted(code) ==
    /\ Collect(code)
    /\ success' = FALSE
    /\ Advance
    /\ artifacts' = artifacts + 1
    /\ UNCHANGED <<outcome, bytes, reported>>

\* `continue` with a diagnostic: the candidate gets no group and no id.
Skip(code) ==
    /\ Collect(code)
    /\ success' = FALSE
    /\ Advance
    /\ UNCHANGED <<outcome, artifacts, bytes, reported>>

\* A complete group, begin and end, for what has no chunks.
EmitWhole(kind, data) ==
    /\ outcome' = [outcome EXCEPT ![current] =
                      [NoGroup EXCEPT !.kind = kind, !.id = artifacts, !.data = data]]
    /\ artifacts' = artifacts + 1
    /\ bytes' = bytes + Len(data)
    /\ Advance
    /\ UNCHANGED <<success, diagnostics, reported>>

Lstat ==
    /\ pc = "lstat"
    /\ \/ Skip("stat.failed") /\ Call(FALSE) /\ UNCHANGED truth
       \/ /\ object[current] # 0
          /\ LET seen == Stat(object[current])
                 content == inode[object[current]].content
             IN  /\ truth' = [truth EXCEPT ![current] = content]
                 /\ CASE seen.kind = "directory" -> EmitWhole("directory", <<>>)
                      [] seen.kind = "special" -> Skip("type.unsupported")
                      [] seen.kind \in {"symlink", "regular"} ->
                             /\ metadata' = seen
                             /\ pc' = IF seen.kind = "symlink" THEN "readlink" ELSE "open"
                             /\ UNCHANGED <<current, file, opened, captured, chunks,
                                            readFailed, result>>
          /\ Call(TRUE)
    /\ UNCHANGED fs

\* The buffer has one byte more than the size lstat gave; a longer target
\* is cut without an error.
Readlink ==
    /\ pc = "readlink"
    /\ \/ /\ Kind(current) = "symlink"
          /\ LET target == inode[object[current]].content
                 room == metadata.size + 1
             IN  /\ EmitWhole("symlink", IF Len(target) <= room THEN target
                                         ELSE SubSeq(target, 1, room))
                 /\ truth' = [truth EXCEPT ![current] = target]
          /\ Call(TRUE)
       \/ Skip("symlink.read_failed") /\ Call(FALSE) /\ UNCHANGED truth
    /\ UNCHANGED fs

\* O_NOFOLLOW refuses a link.  The call opens what the path leads to at this
\* moment; a FIFO without a writer keeps it waiting, whatever becomes of the path.
Open ==
    /\ pc = "open"
    /\ \/ /\ Kind(current) \notin {"none", "symlink"}
          /\ file' = object[current]
          /\ pc' \in {"fstat"} \cup (IF Kind(current) = "special" THEN {"waiting"} ELSE {})
          /\ UNCHANGED <<current, metadata, opened, captured, chunks, readFailed, result,
                         failed>>
       \/ Skip("open.failed") /\ Call(FALSE)
    /\ UNCHANGED <<fs, truth>>

\* Somebody opens the FIFO for writing, or a signal ends the waiting
\* (external: nobody need do either).
Awaken ==
    /\ pc = "waiting"
    /\ \/ /\ pc' = "fstat"
          /\ UNCHANGED <<current, locals, result, failed>>
       \/ Skip("open.failed") /\ Call(FALSE)
    /\ UNCHANGED <<fs, truth>>

\* The descriptor must be what lstat saw, and fstat must say so;
\* artifact_begin follows.
Fstat ==
    /\ pc = "fstat"
    /\ \E answered \in BOOLEAN :
           /\ Call(answered)
           /\ IF answered /\ Stat(file) = metadata
              THEN /\ opened' = Stat(file)
                   /\ pc' = "read"
                   /\ UNCHANGED <<current, metadata, file, captured, chunks, readFailed,
                                  result>>
              ELSE Skip("changed_before_read")
    /\ UNCHANGED <<fs, truth>>

\* read() gives up to a chunk of what is there now, and may give less.
ReadChunk ==
    /\ pc = "read"
    /\ \E count \in 1 .. ChunkBlocks :
           LET there == inode[file].content
               next == Len(captured) + count
           IN  /\ next <= Len(there)
               /\ captured' = captured \o SubSeq(there, Len(captured) + 1, next)
               /\ chunks' = Append(chunks, count)
    /\ UNCHANGED <<fs, pc, current, metadata, file, opened, readFailed, result, history>>

\* Mutant: reads until it has what lstat announced.
EndOfExpected ==
    /\ pc = "read"
    /\ Len(captured) = metadata.size
    /\ pc' = "end"
    /\ UNCHANGED <<fs, current, locals, result, history>>

\* Mutant: a read of less than a chunk counts as the last one.
EndOfShort ==
    /\ pc = "read"
    /\ \/ Len(captured) >= Len(inode[file].content)
       \/ chunks # <<>> /\ chunks[Len(chunks)] < ChunkBlocks
    /\ pc' = "end"
    /\ UNCHANGED <<fs, current, locals, result, history>>

EndOfFile ==
    /\ pc = "read"
    /\ Len(captured) >= Len(inode[file].content)
    /\ pc' = "end"
    /\ UNCHANGED <<fs, current, locals, result, history>>

\* Mutant: a failed read only shows in the group.
ReadErrorUnreported ==
    /\ pc = "read"
    /\ readFailed' = TRUE
    /\ pc' = "end"
    /\ Call(FALSE)
    /\ UNCHANGED <<fs, current, metadata, file, opened, captured, chunks, result, truth>>

ReadError ==
    /\ pc = "read"
    /\ readFailed' = TRUE
    /\ success' = FALSE
    /\ Collect("read.failed")
    /\ Call(FALSE)
    /\ pc' = "end"
    /\ UNCHANGED <<fs, current, metadata, file, opened, captured, chunks, outcome,
                   artifacts, bytes, reported, truth>>

\* Mutant: a file of the old size counts as unchanged.
UnchangedSize == Stat(file).size = opened.size

\* same_file_state of the fstats before and after reading.
Unchanged == Stat(file) = opened

\* The last fstat, and artifact_end: the file is stable when fstat says so.
End ==
    /\ pc = "end"
    /\ \E answered \in BOOLEAN :
           LET stable == answered /\ Unchanged
           IN  /\ Call(answered)
               /\ outcome' = [outcome EXCEPT ![current] =
                                 [kind |-> "regular", id |-> artifacts, data |-> captured,
                                  expected |-> metadata.size, chunks |-> chunks,
                                  stable |-> stable /\ ~readFailed]]
               /\ success' = (success /\ stable)
               /\ IF stable THEN UNCHANGED diagnostics ELSE Collect("changed_during_read")
    /\ artifacts' = artifacts + 1
    /\ bytes' = bytes + Len(captured)
    /\ Advance
    /\ UNCHANGED <<fs, reported, truth>>

\* Mutant: one diagnostic too many.
ReportPastEnd ==
    /\ pc = "report"
    /\ reported' = Len(diagnostics) + 1
    /\ pc' = "returned"
    /\ UNCHANGED <<fs, current, locals, outcome, artifacts, bytes, success,
                   diagnostics, history>>

\* After all groups, the diagnostics, one after the other: nothing looks at the
\* tree any more.
Report ==
    /\ pc = "report"
    /\ reported' = Len(diagnostics)
    /\ pc' = "returned"
    /\ UNCHANGED <<fs, current, locals, outcome, artifacts, bytes, success,
                   diagnostics, history>>

Capture == Lstat \/ Readlink \/ Open \/ Fstat \/ ReadChunk \/ EndOfFile
           \/ End \/ Report

Next == Capture \/ ReadError \/ Awaken \/ Change

\* System calls other than the opening of a FIFO return; that one of them fails, or
\* that the FIFO gets a writer, is not counted on.
Spec == Init /\ [][Next]_vars /\ WF_vars(Capture)
-----------------------------------------------------------------------------
(* Properties.                                                             *)

\* A group that says it is stable holds what the file was when it was first
\* looked at, all of it and of one version, and of the announced size.
StableIsSnapshot ==
    \A c \in Index :
        outcome[c].stable =>
            /\ outcome[c].data = truth[c]
            /\ Len(outcome[c].data) = outcome[c].expected

\* A candidate has a diagnostic exactly if it has no group or a regular file's
\* group that does not say it is stable, and any diagnostic fails the result.
\* What has no diagnostic is faithful as far as StableIsSnapshot says, and a
\* link's group holds a beginning of the target readlink met: a cut target is
\* not diagnosed (TargetIsReal, below, is what the code does not keep).
FailureIsDiagnosed ==
    /\ \A c \in 1 .. current - 1 :
           /\ (\E n \in 1 .. Len(diagnostics) : diagnostics[n].candidate = c) <=>
              \/ outcome[c].kind = "none"
              \/ outcome[c].kind = "regular" /\ ~outcome[c].stable
           /\ outcome[c].kind = "symlink" =>
                  /\ Len(outcome[c].data) <= Len(truth[c])
                  /\ \A k \in 1 .. Len(outcome[c].data) : outcome[c].data[k] = truth[c][k]
    /\ success <=> diagnostics = <<>>
    /\ pc = "returned" => reported = Len(diagnostics)

\* There are no false alarms but those of a failed system call (a failed fstat is
\* reported as a change): of a tree nobody changes, every candidate no call
\* failed for has a group, of its object's type and with all of its content,
\* stable if it is a file's, unless the type is one that is not supported.
QuietTreeIsCaptured ==
    changes = 0 =>
        \A c \in (1 .. current - 1) \ failed :
            LET there == inode[object[c]]
            IN  IF there.kind \in Supported
                THEN /\ outcome[c].kind = there.kind
                     /\ outcome[c].data = there.content
                     /\ there.kind = "regular" => outcome[c].stable
                ELSE outcome[c].kind = "none"

\* Artifact ids count the groups in candidate order, the totals are those of the
\* groups and of the blocks in them.
GroupsAreCounted ==
    /\ \A c \in Index : outcome[c].kind # "none" =>
           outcome[c].id = Cardinality({d \in 1 .. c - 1 : outcome[d].kind # "none"})
    /\ artifacts = Cardinality({c \in Index : outcome[c].kind # "none"})
    /\ bytes = Cardinality(UNION {{c} \X DOMAIN outcome[c].data : c \in Index})

\* The capture ends, unless a FIFO has taken the place of a regular file between
\* lstat and open: then it may wait for ever, even if the path leads elsewhere by
\* then.
Returns == <>(pc = "returned") \/ <>[](pc = "waiting")

(* What the documentation says and the code does not.                      *)

\* A symbolic link's group holds a target the link has had.
TargetIsReal ==
    \A c \in Index : outcome[c].kind = "symlink" => outcome[c].data = truth[c]
=============================================================================

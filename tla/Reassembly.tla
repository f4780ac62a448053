------------------------------- MODULE Reassembly ------------------------------
(***************************************************************************)
(* reassemble(): a validated extraction is written out as a tree.  The input  *)
(* is read a second time, into a staging directory beside the destination;    *)
(* modes of directories come last, then the staging directory is renamed to   *)
(* the destination and its parent synchronised.  Every system call may fail,  *)
(* the process may be killed, the power may go, somebody else may use the      *)
(* destination's name, and the input may be another stream by the second time. *)
(*                                                                         *)
(* An artifact is                                                          *)
(*   [path, type, closed, target, data]                                     *)
(* with the path and the target of a link as in Discovery, its contents as    *)
(* one block for each chunk, and of its mode only whether it keeps the owner   *)
(* out of a directory: that is what decides whether the next call succeeds.   *)
(***************************************************************************)
EXTENDS Discovery

CONSTANT OtherStreams   \* artifacts of valid streams the input may be rewritten to

IsList(s) == s \in Seq(Range(s))

ASSUME StreamsAssumption ==
    \A stream \in OtherStreams :
        IsList(stream) /\ \A i \in DOMAIN stream : IsList(stream[i].data)

VARIABLES
    first,      \* what the first pass has validated: [success, artifacts]
    allowed,    \* --allow-symlinks
    second,     \* the artifacts met in the second pass
    pc,
    index,      \* the artifact being written
    written,    \* how many of its chunks have been
    opened,     \* the path of file_descriptor, or NoFile
    stage,      \* the tree in the staging directory, and then at the destination
    pending,    \* directory_modes: directories whose mode is still to be set
    target,     \* what the destination's name leads to
    durable,    \* is the rename on the disk?
    outcome,
    theirs,     \* history: somebody else has put something there
    disturbed   \* history: something outside the program has gone wrong

input == <<first, allowed>>
reading == <<second, index, written, opened>>
staging == <<stage, pending>>
destination == <<target, durable>>
vars == <<first, allowed, second, pc, index, written, opened, stage, pending,
          target, durable, outcome, theirs, disturbed>>

NoFile == <<>>
NoTarget == [absolute |-> FALSE, names |-> <<>>]
EmptyTree == [path \in {} |-> NoTarget]

Places == {"validate", "check", "mkdtemp", "open", "begin", "write", "chmod",
           "sync", "cleanup", "done", "killed"}
Outcomes == {"none", "invalid", "oversize", "refused", "failed", "done"}
Targets == {"absent", "empty", "foreign", "ours"}

TypeOK ==
    /\ pc \in Places /\ outcome \in Outcomes /\ target \in Targets
    /\ index \in 1 .. Len(second) + 1
    /\ written \in 0 .. (IF index <= Len(second) THEN Len(second[index].data) ELSE 0)
    /\ opened # NoFile => /\ pc \in {"write", "chmod", "sync", "cleanup", "done", "killed"}
                          /\ opened \in DOMAIN stage /\ stage[opened].type = "regular"
    /\ pending \subseteq DOMAIN stage

\* With nothing done yet.
Start ==
    /\ allowed \in BOOLEAN
    /\ second = <<>> /\ pc = "validate" /\ index = 1 /\ written = 0
    /\ opened = NoFile
    /\ stage = EmptyTree /\ pending = {}
    /\ target \in {"absent", "empty", "foreign"} /\ durable = FALSE
    /\ outcome = "none"
    /\ theirs = (target = "foreign") /\ disturbed = FALSE

-----------------------------------------------------------------------------
(* How an attempt ends.                                                    *)

Conclude(how) == pc' = "done" /\ outcome' = how

\* A system call fails: into the handler.
Disturb ==
    /\ pc' = "cleanup"
    /\ disturbed' = TRUE
    /\ UNCHANGED <<input, reading, staging, destination, outcome, theirs>>

\* A call fails for what the program has done itself.
Stumble ==
    /\ pc' = "cleanup"
    /\ UNCHANGED <<input, reading, staging, destination, outcome, theirs, disturbed>>

\* The handler removes the staging directory as far as it can: not what is in a
\* directory that keeps its owner out.  It has no such name after the rename.
Cleanup ==
    /\ pc = "cleanup"
    /\ Conclude("failed")
    /\ opened' = NoFile
    /\ \/ /\ target # "ours"
          /\ \A d \in DOMAIN stage : ~stage[d].closed
          /\ stage' = EmptyTree /\ pending' = {}
       \/ UNCHANGED staging
    /\ UNCHANGED <<input, second, index, written, destination, theirs, disturbed>>

-----------------------------------------------------------------------------
(* The first pass, as far as paths and the size of records go, and the        *)
(* refusals.                                                               *)

\* validate_relative_path; a directory's may end with "/".
components(artifact) ==
    IF artifact.type = "directory" /\ Len(artifact.path) > 1 /\ Last(artifact.path) = EmptyName
    THEN Front(artifact.path) ELSE artifact.path

PathRules(artifacts) ==
    /\ \A i \in DOMAIN artifacts :
           /\ artifacts[i].path # <<>>
           /\ Range(components(artifacts[i])) \cap {EmptyName, Dot, DotDot} = {}
    /\ \A i, j \in DOMAIN artifacts :
           components(artifacts[i]) = components(artifacts[j]) => i = j

Validate ==
    /\ pc = "validate"
    /\ \/ PathRules(first.artifacts) /\ pc' = "check" /\ UNCHANGED outcome
       \/ ~PathRules(first.artifacts) /\ Conclude("invalid")
       \/ Conclude("oversize")
    /\ UNCHANGED <<input, reading, staging, destination, theirs, disturbed>>

\* How deep below the root a target has led after each of its names.
safe_symlink_target(artifact) ==
    LET Follow(depth, name) == CASE depth < 0 \/ name \in {EmptyName, Dot} -> depth
                                 [] name = DotDot -> depth - 1
                                 [] OTHER -> depth + 1
    IN  /\ ~artifact.target.absolute /\ artifact.target.names # <<>>
        /\ FoldLeft(Follow, Len(components(artifact)) - 1, artifact.target.names) >= 0

LinksArePermitted ==
    \A i \in DOMAIN first.artifacts :
        first.artifacts[i].type = "symlink" =>
            allowed /\ safe_symlink_target(first.artifacts[i])

Check ==
    /\ pc = "check"
    /\ IF first.success /\ target = "absent" /\ LinksArePermitted
       THEN pc' = "mkdtemp" /\ UNCHANGED outcome
       ELSE Conclude("refused")
    /\ UNCHANGED <<input, reading, staging, destination, theirs, disturbed>>

\* The destination's parent, and the staging directory: outside the handler.
MakeStage ==
    /\ pc = "mkdtemp"
    /\ \/ pc' = "open" /\ UNCHANGED <<outcome, disturbed>>
       \/ Conclude("failed") /\ disturbed' = TRUE
    /\ UNCHANGED <<input, reading, staging, destination, theirs>>

-----------------------------------------------------------------------------
(* The second pass.                                                        *)

\* From standard input it is the same stream; a file may have been rewritten.
Reopen ==
    /\ pc = "open"
    /\ \/ /\ pc' = "begin"
          /\ second' \in {first.artifacts} \cup OtherStreams
          /\ disturbed' = (disturbed \/ second' # first.artifacts)
          /\ UNCHANGED <<input, index, written, opened, staging, destination, outcome, theirs>>
       \/ Disturb

Object(type, link) == [type |-> type, closed |-> FALSE, target |-> link, data |-> <<>>,
                       synced |-> FALSE]

Ancestors(path) == {SubSeq(path, 1, n) : n \in 1 .. Len(path) - 1}

\* ensure_parent, and what is created below it: open for now.
Created(artifact, path) ==
    [p \in DOMAIN stage \cup Ancestors(path) \cup {path} |->
        IF p \in DOMAIN stage THEN stage[p]
        ELSE IF p = path THEN Object(artifact.type, artifact.target)
        ELSE Object("directory", NoTarget)]

Creatable(path) ==
    /\ path \notin DOMAIN stage
    /\ \A p \in Ancestors(path) \cap DOMAIN stage : stage[p].type = "directory"

\* artifact_begin: its id is looked up among what the first pass has validated.
Begin ==
    /\ pc = "begin" /\ index <= Len(second)
    /\ \/ /\ index \in DOMAIN first.artifacts
          /\ LET artifact == first.artifacts[index]
                 path == components(artifact)
             IN  /\ Creatable(path)
                 /\ stage' = Created(artifact, path)
                 /\ pending' = IF artifact.type = "directory" THEN pending \cup {path} ELSE pending
                 /\ opened' = IF artifact.type = "regular" THEN path ELSE opened
          /\ pc' = "write"
          /\ UNCHANGED <<input, second, index, written, destination, outcome, theirs, disturbed>>
       \/ Stumble /\ (index \in DOMAIN first.artifacts => ~Creatable(components(first.artifacts[index])))
       \/ Disturb

\* artifact_chunk
Write ==
    /\ pc = "write" /\ written < Len(second[index].data)
    /\ \/ /\ opened # NoFile
          /\ stage' = [stage EXCEPT ![opened].data = Append(@, second[index].data[written + 1])]
          /\ written' = written + 1
          /\ UNCHANGED <<input, second, pc, index, opened, pending, destination, outcome,
                         theirs, disturbed>>
       \/ Stumble /\ opened = NoFile
       \/ Disturb

\* Mutant: the file is closed without fsync.
EndUnsynced ==
    /\ pc = "write" /\ written = Len(second[index].data)
    /\ pc' = "begin" /\ index' = index + 1 /\ written' = 0 /\ opened' = NoFile
    /\ UNCHANGED <<input, second, staging, destination, outcome, theirs, disturbed>>

\* Mutant: file_descriptor is not set to None.
EndStillOpen ==
    /\ pc = "write" /\ written = Len(second[index].data)
    /\ pc' = "begin" /\ index' = index + 1 /\ written' = 0
    /\ stage' = IF opened = NoFile THEN stage ELSE [stage EXCEPT ![opened].synced = TRUE]
    /\ UNCHANGED <<input, second, opened, pending, destination, outcome, theirs, disturbed>>

\* artifact_end: fsync, fchmod and close.  When close fails the handler closes
\* again, and that failure keeps it from removing anything.
End ==
    /\ pc = "write" /\ written = Len(second[index].data)
    /\ \/ /\ pc' = "begin" /\ index' = index + 1 /\ written' = 0
          /\ opened' = NoFile
          /\ stage' = IF opened = NoFile THEN stage ELSE [stage EXCEPT ![opened].synced = TRUE]
          /\ UNCHANGED <<input, second, pending, destination, outcome, theirs, disturbed>>
       \/ opened # NoFile /\ Disturb
       \/ /\ opened # NoFile
          /\ Conclude("failed") /\ disturbed' = TRUE
          /\ opened' = NoFile
          /\ UNCHANGED <<input, second, index, written, staging, destination, theirs>>

\* The input has no more lines: it has been read, or somebody has cut it short since
\* the first pass.  Nothing looks for the footer or for what is still open.
LastRecord ==
    /\ \/ pc = "begin" /\ index > Len(second) /\ UNCHANGED disturbed
       \/ pc \in {"begin", "write"} /\ index <= Len(second) /\ disturbed' = TRUE
    /\ pc' = "chmod"
    /\ UNCHANGED <<input, reading, staging, destination, outcome, theirs>>

-----------------------------------------------------------------------------
(* Publication.                                                            *)

\* Mutant: a directory before those below it.
Shallowest(directories) ==
    {d \in directories : \A e \in directories : Len(d) <= Len(e)}

\* Directories by the number of "/", from the most; any of those with as many.
Deepest(directories) ==
    {d \in directories : \A e \in directories : Len(e) <= Len(d)}

ModeOf(path) ==
    \E i \in DOMAIN first.artifacts :
        components(first.artifacts[i]) = path /\ first.artifacts[i].closed

Chmod ==
    /\ pc = "chmod" /\ pending # {}
    /\ \/ \E path \in Deepest(pending) :
              LET shut == \E p \in Ancestors(path) : stage[p].closed
              IN  \/ /\ ~shut
                     /\ stage' = [stage EXCEPT ![path].closed = ModeOf(path)]
                     /\ pending' = pending \ {path}
                     /\ UNCHANGED <<input, reading, pc, destination, outcome, theirs, disturbed>>
                  \/ Stumble /\ shut
       \/ Disturb

\* os.replace puts a directory in the place of nothing or of an empty one.
Replace ==
    /\ pc = "chmod" /\ pending = {}
    /\ \/ /\ target \in {"absent", "empty"}
          /\ target' = "ours" /\ pc' = "sync"
          /\ UNCHANGED <<input, reading, staging, durable, outcome, theirs, disturbed>>
       \/ Disturb

\* The parent directory is synchronised; if that fails, or the close after it, the
\* destination stays.
SyncParent ==
    /\ pc = "sync"
    /\ \/ durable' = TRUE /\ Conclude("done") /\ UNCHANGED disturbed
       \/ durable' \in {durable, TRUE} /\ pc' = "cleanup" /\ disturbed' = TRUE /\ UNCHANGED outcome
    /\ UNCHANGED <<input, reading, staging, target, theirs>>

-----------------------------------------------------------------------------
(* Everybody else (external).                                              *)

\* Somebody puts something under the destination's name.
Interfere ==
    /\ pc \in Places \ {"validate", "done", "killed"}
    /\ \/ target = "absent" /\ target' \in {"empty", "foreign"}
       \/ target = "empty" /\ target' = "foreign"
    /\ theirs' = (target' = "foreign")
    /\ disturbed' = TRUE
    /\ UNCHANGED <<input, reading, pc, staging, durable, outcome>>

Kill ==
    /\ pc \notin {"validate", "check", "done", "killed"}
    /\ pc' = "killed" /\ disturbed' = TRUE
    /\ UNCHANGED <<input, reading, staging, destination, outcome, theirs>>

\* What had not been synchronised may be gone: the contents of files, and the
\* rename.  Names and modes reach the disk in the order in which they were made.
PowerLoss ==
    /\ pc \notin {"validate", "check"}
    /\ pc' = IF pc = "done" THEN "done" ELSE "killed"
    /\ disturbed' = TRUE
    /\ stage' = [p \in DOMAIN stage |->
                    IF stage[p].type = "regular" /\ ~stage[p].synced
                    THEN [stage[p] EXCEPT !.data = <<>>] ELSE stage[p]]
    /\ IF target = "ours" /\ ~durable
       THEN \/ target' = "ours" /\ durable' = TRUE
            \/ target' \in {"absent", "empty"} /\ UNCHANGED durable
       ELSE UNCHANGED destination
    /\ UNCHANGED <<input, reading, pending, outcome, theirs>>

reassemble ==
    \/ Validate \/ Check \/ MakeStage \/ Reopen
    \/ Begin \/ Write \/ End \/ LastRecord
    \/ Chmod \/ Replace \/ SyncParent \/ Cleanup

Next == reassemble \/ Interfere \/ Kill \/ PowerLoss
-----------------------------------------------------------------------------
(* Properties.                                                             *)

\* The second pass has read what the first has validated, to its end.
ReadTwice == second = first.artifacts /\ index > Len(second)

\* The file of the artifact it was cut in.
CutIn(path) ==
    /\ index <= Len(second) /\ index \in DOMAIN first.artifacts
    /\ path = components(first.artifacts[index])

\* Whatever fails and whoever else uses the name: if the input was the same both times
\* the destination is never seen without all it is to have, with its contents, each
\* of its files on the disk.  Even an input that was replaced or cut in between gives
\* it no path, type or mode of a directory that the first pass has not validated,
\* and no file but the one it was cut in that is not on the disk.  What somebody
\* else has put there stays, and a success is not taken back by a power loss.
DestinationIsWhole ==
    /\ target = "ours" =>
           /\ pending = {}
           /\ \A p \in DOMAIN stage :
                  stage[p].type = "regular" => stage[p].synced \/ CutIn(p)
           /\ \A i \in 1 .. index - 1 : components(first.artifacts[i]) \in DOMAIN stage
           /\ ReadTwice =>
                  \A i \in DOMAIN second : stage[components(second[i])].data = second[i].data
           /\ \A p \in DOMAIN stage :
                  \/ \E i \in DOMAIN first.artifacts :
                         /\ components(first.artifacts[i]) = p
                         /\ stage[p].type = first.artifacts[i].type
                         /\ stage[p].target = first.artifacts[i].target
                         /\ stage[p].type = "directory" =>
                                (stage[p].closed <=> first.artifacts[i].closed)
                  \/ /\ stage[p].type = "directory" /\ ~stage[p].closed
                     /\ \E i \in DOMAIN first.artifacts :
                            p \in Ancestors(components(first.artifacts[i]))
    /\ theirs => target = "foreign"
    /\ outcome = "done" => target = "ours" /\ durable

(* What the documentation says and the code does not.                      *)

\* A tree that is published with success has every artifact of the stream that was
\* validated, with the contents its size and digest were checked against.
PublishedIsValidated ==
    outcome = "done" =>
        \A i \in DOMAIN first.artifacts :
            LET path == components(first.artifacts[i])
            IN  path \in DOMAIN stage /\ stage[path].data = first.artifacts[i].data
=============================================================================

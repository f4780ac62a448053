---------------------------- MODULE RoundTrip_proofs ----------------------------
(***************************************************************************)
(* What a reassembly guarantees of its destination for any tree, any         *)
(* extraction and any other input in its second pass (DestinationIsWhole,      *)
(* contents included, and the types of its variables); what an extraction of a *)
(* tree that stands still captures of it (CapturesTheTree); and that what it   *)
(* has captured is restored (Restored).                                      *)
(***************************************************************************)
EXTENDS RoundTrip, Discovery_proofs

-----------------------------------------------------------------------------
(* The inductive invariant.                                                *)

\* Before the destination there is a staging directory; it is filled in these places.
Filling == {"begin", "write"}
Filled == pc \in {"chmod", "sync"} \/ target = "ours"

Record(object) == DOMAIN object = {"type", "closed", "target", "data", "synced"}

\* What is staged under p is the artifact of that path, its mode set or still to be
\* set, or a parent of one.
IsArtifact(p, i) ==
    /\ components(first.artifacts[i]) = p
    /\ stage[p].type = first.artifacts[i].type
    /\ stage[p].target = first.artifacts[i].target

Shaped(p) ==
    \/ /\ \E i \in DOMAIN first.artifacts : IsArtifact(p, i)
       /\ stage[p].type = "directory" => p \in pending \/ (stage[p].closed <=> ModeOf(p))
    \/ /\ stage[p].type = "directory" /\ ~stage[p].closed /\ p \notin pending
       /\ \E i \in DOMAIN first.artifacts : p \in Ancestors(components(first.artifacts[i]))

\* A file that may not be on the disk: the open one, or the one the input was cut in.
Loose(p) == IF pc = "write" THEN p = opened ELSE Filled /\ CutIn(p)

\* Everything staged has the shape the first pass has validated, and only the file
\* that is open, or was when the input ended, is not synchronised.
Staged ==
    pc \in Filling \/ Filled =>
        /\ pending \subseteq DOMAIN stage
        /\ \A p \in DOMAIN stage :
               /\ Record(stage[p])
               /\ Shaped(p)
               /\ stage[p].type = "regular" => p # NoFile /\ (stage[p].synced \/ Loose(p))

\* All artifacts before the current one are staged, and it too while it is written.
Progressed ==
    /\ index \in Nat
    /\ pc \in Filling \/ Filled =>
           \A i \in 1 .. index - 1 : components(first.artifacts[i]) \in DOMAIN stage
    /\ pc = "write" =>
           /\ index \in DOMAIN first.artifacts /\ index <= Len(second)
           /\ components(first.artifacts[index]) \in DOMAIN stage
           /\ opened # NoFile => opened = components(first.artifacts[index])

\* The destination is reached with all modes set; after that there is only the end.
Published ==
    /\ target = "ours" => pending = {} /\ pc \in {"sync", "cleanup", "done", "killed"}
    /\ pc = "sync" => target = "ours"
    /\ theirs => target = "foreign"
    /\ outcome = "done" => pc = "done" /\ target = "ours" /\ durable

Validated ==
    /\ pc \notin {"validate", "done"} \/ target = "ours" => PathRules(first.artifacts)
    /\ pc \in {"validate", "check", "mkdtemp", "open"} =>
           stage = EmptyTree /\ pending = {} /\ opened = NoFile /\ index = 1
    /\ pc = "begin" => opened = NoFile

IInv == Staged /\ Progressed /\ Published /\ Validated

Listed(artifacts) ==
    /\ \E S : artifacts \in Seq(S)
    /\ \A i \in DOMAIN artifacts : \E S : artifacts[i].data \in Seq(S)

\* Both passes read lists, and a chunk is written of an artifact there is.
Typed ==
    /\ TypeOK
    /\ Listed(first.artifacts) /\ Listed(second)
    /\ pc = "write" => index <= Len(second)
    /\ pc \in {"validate", "check", "mkdtemp", "open", "begin"} => written = 0
    /\ \A p \in DOMAIN stage : Record(stage[p])

\* As long as the input is the same, what has been staged of an artifact is what has
\* been read of it: all, or what there is of the current one.
Kept ==
    (pc \in Filling \/ Filled) /\ second = first.artifacts =>
        /\ \A i \in DOMAIN second :
               i < index => stage[components(second[i])].data = second[i].data
        /\ pc = "write" =>
               /\ stage[components(second[index])].data = SubSeq(second[index].data, 1, written)
               /\ opened # NoFile => opened = components(second[index])

-----------------------------------------------------------------------------
(* It is an invariant.                                                     *)

LEMMA InitIInv == Init => IInv
<1> SUFFICES ASSUME Init PROVE IInv
  OBVIOUS
<1>1. /\ pc = "validate" /\ index = 1 /\ opened = NoFile /\ stage = EmptyTree /\ pending = {}
      /\ target \in {"absent", "empty", "foreign"} /\ outcome = "none"
      /\ theirs = (target = "foreign")
  BY DEF Init, Start
<1> QED
  BY <1>1 DEF IInv, Staged, Progressed, Published, Validated, Filling, Filled

\* What has been staged is as it was while nothing of it changes.
LEMMA StagedUnchanged ==
    ASSUME UNCHANGED <<first, stage, pending>>
    PROVE  /\ \A p : Shaped(p)' <=> Shaped(p)
           /\ PathRules(first.artifacts)' <=> PathRules(first.artifacts)
           /\ UNCHANGED <<second, index>> => \A p : CutIn(p)' <=> CutIn(p)
BY DEF Shaped, IsArtifact, ModeOf, CutIn

\* Giving up keeps what is staged, and a destination that is whole.
LEMMA GivingUp ==
    ASSUME IInv, pc \notin {"validate", "done"}, pc' \in {"cleanup", "killed"},
           UNCHANGED <<first, second, index, opened, stage, pending, target, durable,
                       outcome, theirs>>
    PROVE  IInv'
<1>1. Staged'
  BY StagedUnchanged DEF IInv, Staged, Published, Filling, Filled, Loose
<1>2. Progressed'
  BY DEF IInv, Progressed, Filling, Filled
<1>3. Published' /\ Validated'
  BY StagedUnchanged DEF IInv, Published, Validated
<1> QED
  BY <1>1, <1>2, <1>3 DEF IInv

\* The steps before anything is staged.
LEMMA PreparingIInv ==
    ASSUME IInv, Validate \/ Check \/ MakeStage \/ Reopen
    PROVE  IInv'
<1>1. CASE Disturb /\ pc = "open"
  BY <1>1, GivingUp DEF Disturb, input, reading, staging, destination
<1>2. CASE Validate \/ Check \/ MakeStage \/ (Reopen /\ pc' = "begin")
  <2>1. /\ pc \in {"validate", "check", "mkdtemp", "open"}
        /\ pc' \in {"check", "mkdtemp", "open", "begin", "done"}
        /\ pc' \in {"check", "mkdtemp", "open", "begin"} => PathRules(first.artifacts)
        /\ pc' = "done" => outcome' \in {"invalid", "oversize", "refused", "failed"}
        /\ pc' # "done" => outcome' = outcome
        /\ UNCHANGED <<first, index, opened, stage, pending, target, durable, theirs>>
    BY <1>2 DEF IInv, Validated, Validate, Check, MakeStage, Reopen, Conclude, Disturb, input,
                reading, staging, destination
  <2>2. target # "ours" /\ index = 1 /\ stage = EmptyTree /\ pending = {} /\ opened = NoFile
    BY <2>1 DEF IInv, Published, Validated
  <2>3. Staged' /\ Progressed'
    BY <2>1, <2>2 DEF Staged, Progressed, Filling, Filled, EmptyTree
  <2>4. Published' /\ Validated'
    BY <2>1, <2>2, StagedUnchanged DEF IInv, Published, Validated, EmptyTree, NoFile, NoTarget
  <2> QED
    BY <2>3, <2>4 DEF IInv
<1> QED
  BY <1>1, <1>2 DEF Reopen

-----------------------------------------------------------------------------
(* The second pass.                                                        *)

\* What is created is what the first pass has validated, and nothing that is there
\* changes.
LEMMA CreatedIsShaped ==
    ASSUME IInv, pc = "begin", NEW artifact, NEW path, index \in DOMAIN first.artifacts,
           artifact = first.artifacts[index], path = components(artifact),
           stage' = Created(artifact, path), Creatable(path),
           pending' = IF artifact.type = "directory" THEN pending \cup {path} ELSE pending,
           opened' = IF artifact.type = "regular" THEN path ELSE opened,
           first' = first, pc' = "write"
    PROVE  Staged' /\ DOMAIN stage \subseteq DOMAIN stage' /\ path \in DOMAIN stage'
<1>0. ~Filled
  BY DEF IInv, Published, Filled
<1>1. /\ DOMAIN stage' = DOMAIN stage \cup Ancestors(path) \cup {path}
      /\ path \notin DOMAIN stage
      /\ \A p \in DOMAIN stage : stage'[p] = stage[p]
      /\ stage'[path] = Object(artifact.type, artifact.target)
      /\ \A p \in DOMAIN stage' :
            p \notin DOMAIN stage /\ p # path =>
                p \in Ancestors(path) /\ stage'[p] = Object("directory", NoTarget)
  BY DEF Created, Creatable
<1>2. pending' \subseteq DOMAIN stage'
  BY <1>1 DEF IInv, Staged, Filling
<1> SUFFICES ASSUME NEW p \in DOMAIN stage'
             PROVE  /\ Record(stage[p])'
                    /\ Shaped(p)'
                    /\ stage'[p].type = "regular" =>
                           p # NoFile /\ (stage'[p].synced \/ p = opened')
  BY <1>1, <1>2 DEF Staged, Loose
<1>3. CASE p \in DOMAIN stage
  <2>1. /\ Record(stage[p]) /\ Shaped(p)
        /\ stage[p].type = "regular" => p # NoFile /\ stage[p].synced
    BY <1>0, <1>3 DEF IInv, Staged, Filling, Loose
  <2>2. Shaped(p)'
    BY <1>1, <1>3, <2>1 DEF Shaped, IsArtifact, ModeOf
  <2> QED
    BY <1>1, <1>3, <2>1, <2>2 DEF Record
<1>4. CASE p = path
  <2>1. Record(stage[p])' /\ stage'[p].type = artifact.type /\ stage'[p].target = artifact.target
    BY <1>1, <1>4 DEF Record, Object
  <2>2. Shaped(p)'
    BY <1>4, <2>1 DEF Shaped, IsArtifact
  <2>3. artifact.type = "regular" => path # NoFile
    BY DEF IInv, Validated, PathRules, components, NoFile
  <2> QED
    BY <1>4, <2>1, <2>2, <2>3
<1>5. CASE p \notin DOMAIN stage /\ p # path
  <2>1. /\ Record(stage[p])' /\ stage'[p].type = "directory" /\ ~stage'[p].closed
        /\ p \in Ancestors(path)
    BY <1>1, <1>5 DEF Record, Object
  <2>2. p \notin pending'
    BY <1>1, <1>5 DEF IInv, Staged, Filling
  <2>3. Shaped(p)'
    BY <2>1, <2>2 DEF Shaped
  <2> QED
    BY <2>1, <2>3
<1> QED
  BY <1>3, <1>4, <1>5

LEMMA BeginIInv == ASSUME IInv, Begin PROVE IInv'
<1>1. CASE pc' = "cleanup"
  BY <1>1, GivingUp DEF Begin, Stumble, Disturb, input, reading, staging, destination
<1>2. CASE pc' # "cleanup"
  <2> DEFINE artifact == first.artifacts[index]
             path == components(artifact)
  <2>1. /\ pc = "begin" /\ pc' = "write" /\ index \in DOMAIN first.artifacts
        /\ Creatable(path) /\ stage' = Created(artifact, path)
        /\ pending' = IF artifact.type = "directory" THEN pending \cup {path} ELSE pending
        /\ opened' = IF artifact.type = "regular" THEN path ELSE opened
        /\ index <= Len(second)
        /\ UNCHANGED <<first, second, index, target, durable, outcome, theirs>>
    BY <1>2 DEF Begin, Stumble, Disturb, input, destination
  <2>2. Staged' /\ DOMAIN stage \subseteq DOMAIN stage' /\ path \in DOMAIN stage'
    BY <2>1, CreatedIsShaped
  <2>3. target # "ours"
    BY <2>1 DEF IInv, Published
  <2>4. Progressed'
    <3>1. opened = NoFile
      BY <2>1 DEF IInv, Validated
    <3> QED
      BY <2>1, <2>2, <2>3, <3>1 DEF IInv, Progressed, Filling, Filled
  <2>5. PathRules(first.artifacts)'
    BY <2>1 DEF IInv, Validated
  <2>6. Published' /\ Validated'
    BY <2>1, <2>3, <2>5 DEF IInv, Published, Validated
  <2> QED
    BY <2>2, <2>4, <2>6 DEF IInv
<1> QED
  BY <1>1, <1>2

LEMMA WriteIInv == ASSUME IInv, Write PROVE IInv'
<1>1. CASE pc' = "cleanup"
  BY <1>1, GivingUp DEF Write, Stumble, Disturb, input, reading, staging, destination
<1>2. CASE pc' # "cleanup"
  <2>1. /\ pc = "write" /\ opened # NoFile
        /\ stage' = [stage EXCEPT ![opened].data = Append(@, second[index].data[written + 1])]
        /\ UNCHANGED <<first, second, pc, index, opened, pending, target, durable, outcome, theirs>>
    BY <1>2 DEF Write, Stumble, Disturb, input, destination
  <2>2. Staged'
    <3>1. DOMAIN stage' = DOMAIN stage
      BY <2>1
    <3>2. SUFFICES ASSUME NEW p \in DOMAIN stage
                   PROVE  /\ Record(stage[p])'
                          /\ Shaped(p)'
                          /\ stage'[p].type = "regular" =>
                                 p # NoFile /\ (stage'[p].synced \/ p = opened')
      BY <2>1, <3>1 DEF IInv, Staged, Filling, Loose
    <3>3. /\ Record(stage[p]) /\ Shaped(p)
          /\ stage[p].type = "regular" => p # NoFile /\ (stage[p].synced \/ p = opened)
      BY <2>1 DEF IInv, Staged, Filling, Loose
    <3>4. /\ Record(stage[p])' /\ stage'[p].type = stage[p].type
          /\ stage'[p].target = stage[p].target /\ stage'[p].closed = stage[p].closed
          /\ stage'[p].synced = stage[p].synced
      BY <2>1, <3>3 DEF Record
    <3>5. Shaped(p)'
      BY <2>1, <3>3, <3>4 DEF Shaped, IsArtifact, ModeOf
    <3> QED
      BY <2>1, <3>3, <3>4, <3>5
  <2>3. Progressed'
    BY <2>1 DEF IInv, Progressed, Filling, Filled
  <2>4. Published' /\ Validated'
    BY <2>1 DEF IInv, Published, Validated
  <2> QED
    BY <2>2, <2>3, <2>4 DEF IInv
<1> QED
  BY <1>1, <1>2

LEMMA EndIInv == ASSUME IInv, End PROVE IInv'
<1>1. CASE pc' = "cleanup"
  BY <1>1, GivingUp DEF End, Disturb, Conclude, input, reading, staging, destination
<1>2. CASE pc' = "done"
  <2>1. /\ pc = "write" /\ outcome' = "failed"
        /\ UNCHANGED <<first, second, index, stage, pending, target, durable, theirs>>
    BY <1>2 DEF End, Disturb, Conclude, input, staging, destination
  <2>2. target # "ours"
    BY <2>1 DEF IInv, Published
  <2>3. pc' \notin Filling /\ ~Filled'
    BY <1>2, <2>1, <2>2 DEF Filling, Filled
  <2>4. Staged' /\ Progressed'
    BY <1>2, <2>1, <2>3 DEF IInv, Staged, Progressed, Filling, Filled
  <2> QED
    BY <1>2, <2>1, <2>2, <2>4 DEF IInv, Published, Validated
<1>3. CASE pc' \notin {"cleanup", "done"}
  <2>1. /\ pc = "write" /\ pc' = "begin" /\ index' = index + 1 /\ opened' = NoFile
        /\ stage' = IF opened = NoFile THEN stage ELSE [stage EXCEPT ![opened].synced = TRUE]
        /\ UNCHANGED <<first, second, pending, target, durable, outcome, theirs>>
    BY <1>3 DEF End, Disturb, Conclude, input, destination
  <2>2. DOMAIN stage' = DOMAIN stage
    BY <2>1
  <2>3. Staged'
    <3>1. SUFFICES ASSUME NEW p \in DOMAIN stage
                   PROVE  /\ Record(stage[p])'
                          /\ Shaped(p)'
                          /\ stage'[p].type = "regular" => p # NoFile /\ stage'[p].synced
      BY <2>1, <2>2 DEF IInv, Staged, Filling
    <3>2. /\ Record(stage[p]) /\ Shaped(p)
          /\ stage[p].type = "regular" => p # NoFile /\ (stage[p].synced \/ p = opened)
      BY <2>1 DEF IInv, Staged, Filling, Loose
    <3>3. /\ Record(stage[p])' /\ stage'[p].type = stage[p].type
          /\ stage'[p].target = stage[p].target /\ stage'[p].closed = stage[p].closed
          /\ stage'[p].synced = IF p = opened /\ opened # NoFile THEN TRUE ELSE stage[p].synced
      BY <2>1, <3>2 DEF Record
    <3>4. Shaped(p)'
      BY <2>1, <3>2, <3>3 DEF Shaped, IsArtifact, ModeOf
    <3> QED
      BY <2>1, <3>2, <3>3, <3>4
  <2>4. Progressed'
    <3>1. target # "ours"
      BY <2>1 DEF IInv, Published
    <3>2. \A i \in 1 .. index : components(first.artifacts[i]) \in DOMAIN stage
      BY <2>1 DEF IInv, Progressed, Filling
    <3> QED
      BY <2>1, <2>2, <3>1, <3>2 DEF IInv, Progressed, Filling, Filled
  <2>5. Published' /\ Validated'
    BY <2>1 DEF IInv, Published, Validated
  <2> QED
    BY <2>3, <2>4, <2>5 DEF IInv
<1> QED
  BY <1>1, <1>2, <1>3

-----------------------------------------------------------------------------
(* Publication.                                                            *)

LEMMA ChmodIInv == ASSUME IInv, Chmod PROVE IInv'
<1>1. CASE pc' = "cleanup"
  BY <1>1, GivingUp DEF Chmod, Stumble, Disturb, input, reading, staging, destination
<1>2. CASE pc' # "cleanup"
  <2>1. PICK path \in pending :
           /\ pc = "chmod"
           /\ stage' = [stage EXCEPT ![path].closed = ModeOf(path)]
           /\ pending' = pending \ {path}
           /\ UNCHANGED <<first, second, pc, index, opened, target, durable, outcome, theirs>>
    BY <1>2 DEF Chmod, Stumble, Disturb, Deepest, input, reading, destination
  <2>2. DOMAIN stage' = DOMAIN stage
    BY <2>1
  <2>3. Staged'
    <3>1. pending' \subseteq DOMAIN stage'
      BY <2>1, <2>2 DEF IInv, Staged, Filled
    <3>2. SUFFICES ASSUME NEW p \in DOMAIN stage
                   PROVE  /\ Record(stage[p])'
                          /\ Shaped(p)'
                          /\ stage'[p].type = "regular" =>
                                 p # NoFile /\ (stage'[p].synced \/ CutIn(p))
      BY <2>1, <2>2, <3>1 DEF IInv, Staged, Filled, Loose, CutIn
    <3>3. /\ Record(stage[p]) /\ Shaped(p)
          /\ stage[p].type = "regular" => p # NoFile /\ (stage[p].synced \/ CutIn(p))
      BY <2>1 DEF IInv, Staged, Filled, Loose
    <3>4. /\ Record(stage[p])' /\ stage'[p].type = stage[p].type
          /\ stage'[p].target = stage[p].target /\ stage'[p].synced = stage[p].synced
          /\ stage'[p].closed = IF p = path THEN ModeOf(path) ELSE stage[p].closed
      BY <2>1, <3>3 DEF Record
    <3>5. Shaped(p)'
      <4>1. ModeOf(p)' <=> ModeOf(p)
        BY <2>1 DEF ModeOf
      <4>2. \A i : IsArtifact(p, i)' <=> IsArtifact(p, i)
        BY <2>1, <3>4 DEF IsArtifact
      <4> QED
        BY <2>1, <3>3, <3>4, <4>1, <4>2 DEF Shaped
    <3> QED
      BY <2>1, <3>3, <3>4, <3>5
  <2>4. Progressed'
    BY <2>1, <2>2 DEF IInv, Progressed, Filling, Filled
  <2>5. Published' /\ Validated'
    BY <2>1 DEF IInv, Published, Validated
  <2> QED
    BY <2>3, <2>4, <2>5 DEF IInv
<1> QED
  BY <1>1, <1>2

LEMMA ReplaceIInv == ASSUME IInv, Replace PROVE IInv'
<1>1. CASE pc' = "cleanup"
  BY <1>1, GivingUp DEF Replace, Disturb, input, reading, staging, destination
<1>2. CASE pc' # "cleanup"
  <2>1. /\ pc = "chmod" /\ pending = {} /\ target \in {"absent", "empty"}
        /\ target' = "ours" /\ pc' = "sync"
        /\ UNCHANGED <<first, second, index, opened, stage, pending, durable, outcome, theirs>>
    BY <1>2 DEF Replace, Disturb, input, reading, staging
  <2>2. Staged' /\ Progressed'
    BY <2>1, StagedUnchanged DEF IInv, Staged, Progressed, Filling, Filled, Loose
  <2>3. Published' /\ Validated'
    BY <2>1, StagedUnchanged DEF IInv, Published, Validated
  <2> QED
    BY <2>2, <2>3 DEF IInv
<1> QED
  BY <1>1, <1>2

LEMMA CleanupIInv == ASSUME IInv, Cleanup PROVE IInv'
<1>1. /\ pc = "cleanup" /\ pc' = "done" /\ outcome' = "failed"
      /\ target = "ours" => UNCHANGED <<stage, pending>>
      /\ UNCHANGED <<first, second, index, target, durable, theirs>>
  BY DEF Cleanup, Conclude, input, staging, destination
<1>2. Staged' /\ Progressed'
  BY <1>1, StagedUnchanged DEF IInv, Staged, Progressed, Published, Filling, Filled, Loose
<1>3. Published' /\ Validated'
  BY <1>1, StagedUnchanged DEF IInv, Published, Validated
<1> QED
  BY <1>2, <1>3 DEF IInv

\* Going on without touching what is staged.
LEMMA GoingOnIInv == ASSUME IInv, LastRecord \/ SyncParent \/ Interfere PROVE IInv'
<1>1. CASE LastRecord
  <2>1. /\ pc \in {"begin", "write"} /\ pc' = "chmod"
        /\ UNCHANGED <<first, second, index, opened, stage, pending, target, durable, outcome,
                       theirs>>
    BY <1>1 DEF LastRecord, input, reading, staging, destination
  <2>2. target # "ours"
    BY <2>1 DEF IInv, Published
  <2>3. ASSUME NEW p \in DOMAIN stage, stage[p].type = "regular"
        PROVE  p # NoFile /\ (stage[p].synced \/ CutIn(p))
    <3>1. p # NoFile /\ (stage[p].synced \/ (pc = "write" /\ p = opened))
      BY <2>1, <2>2, <2>3 DEF IInv, Staged, Filling, Filled, Loose
    <3> QED
      BY <3>1 DEF IInv, Progressed, CutIn
  <2>4. Staged'
    BY <2>1, <2>3, StagedUnchanged DEF IInv, Staged, Filling, Filled, Loose
  <2>5. Progressed'
    BY <2>1 DEF IInv, Progressed, Filling, Filled
  <2> QED
    BY <2>1, <2>2, <2>4, <2>5, StagedUnchanged DEF IInv, Published, Validated
<1>2. CASE SyncParent
  <2>1. /\ pc = "sync" /\ pc' \in {"done", "cleanup"}
        /\ pc' = "done" => outcome' = "done" /\ durable' = TRUE
        /\ pc' = "cleanup" => outcome' = outcome
        /\ UNCHANGED <<first, second, index, opened, stage, pending, target, theirs>>
    BY <1>2 DEF SyncParent, Conclude, input, reading, staging
  <2>2. Staged' /\ Progressed'
    BY <2>1, StagedUnchanged DEF IInv, Staged, Progressed, Published, Filling, Filled, Loose
  <2> QED
    BY <2>1, <2>2, StagedUnchanged DEF IInv, Published, Validated
<1>3. CASE Interfere
  <2>1. /\ pc \notin {"validate", "done", "killed"} /\ target \in {"absent", "empty"}
        /\ target' \in {"empty", "foreign"} /\ theirs' = (target' = "foreign")
        /\ UNCHANGED <<first, second, pc, index, opened, stage, pending, durable, outcome>>
    BY <1>3 DEF Interfere, Places, input, reading, staging
  <2>2. Staged' /\ Progressed'
    BY <2>1, StagedUnchanged DEF IInv, Staged, Progressed, Filling, Filled, Loose
  <2> QED
    BY <2>1, <2>2, StagedUnchanged DEF IInv, Published, Validated
<1> QED
  BY <1>1, <1>2, <1>3

LEMMA PowerLossIInv == ASSUME IInv, PowerLoss PROVE IInv'
<1>1. /\ pc \notin {"validate", "check"} /\ pc' = IF pc = "done" THEN "done" ELSE "killed"
      /\ stage' = [p \in DOMAIN stage |->
                      IF stage[p].type = "regular" /\ ~stage[p].synced
                      THEN [stage[p] EXCEPT !.data = <<>>] ELSE stage[p]]
      /\ target' # target => target = "ours" /\ ~durable /\ target' \in {"absent", "empty"}
      /\ durable => durable'
      /\ UNCHANGED <<first, second, index, opened, pending, outcome, theirs>>
  BY DEF PowerLoss, input, reading, destination
<1>2. target' = "ours" => target = "ours"
  BY <1>1
<1>3. DOMAIN stage' = DOMAIN stage
  BY <1>1
<1>4. pc' \notin Filling /\ (Filled' <=> target' = "ours") /\ pc' \notin {"write", "sync", "chmod"}
  BY <1>1 DEF Filling, Filled
<1>5. Staged'
  <2> SUFFICES ASSUME target' = "ours"
               PROVE  /\ pending' \subseteq DOMAIN stage'
                      /\ \A p \in DOMAIN stage :
                             /\ Record(stage[p])'
                             /\ Shaped(p)'
                             /\ stage'[p].type = "regular" =>
                                    p # NoFile /\ (stage'[p].synced \/ CutIn(p))
    BY <1>1, <1>3, <1>4 DEF Staged, Loose, CutIn
  <2>0. pending' \subseteq DOMAIN stage'
    BY <1>1, <1>2, <1>3 DEF IInv, Staged, Filled
  <2> SUFFICES ASSUME NEW p \in DOMAIN stage
               PROVE  /\ Record(stage[p])'
                      /\ Shaped(p)'
                      /\ stage'[p].type = "regular" =>
                             p # NoFile /\ (stage'[p].synced \/ CutIn(p))
    BY <2>0
  <2>1. /\ pending \subseteq DOMAIN stage /\ Record(stage[p]) /\ Shaped(p)
        /\ stage[p].type = "regular" => p # NoFile /\ (stage[p].synced \/ CutIn(p))
    BY <1>2 DEF IInv, Staged, Published, Filled, Loose
  <2>2. /\ Record(stage[p])' /\ stage'[p].type = stage[p].type
        /\ stage'[p].target = stage[p].target /\ stage'[p].closed = stage[p].closed
        /\ stage'[p].synced = stage[p].synced
    BY <1>1, <2>1 DEF Record
  <2>3. Shaped(p)'
    BY <1>1, <2>1, <2>2 DEF Shaped, IsArtifact, ModeOf
  <2> QED
    BY <2>1, <2>2, <2>3
<1>6. Progressed'
  BY <1>1, <1>2, <1>3, <1>4 DEF IInv, Progressed, Filled
<1>7. Published' /\ Validated'
  BY <1>1, <1>2, StagedUnchanged DEF IInv, Published, Validated
<1> QED
  BY <1>5, <1>6, <1>7 DEF IInv

LEMMA NextIInv == IInv /\ [Advance]_allvars => IInv'
<1> SUFFICES ASSUME IInv, [Advance]_allvars PROVE IInv'
  OBVIOUS
<1>1. CASE reassemble
  BY <1>1, PreparingIInv, BeginIInv, WriteIInv, EndIInv, GoingOnIInv, ChmodIInv, ReplaceIInv,
     CleanupIInv DEF reassemble
<1>2. CASE Interfere
  BY <1>2, GoingOnIInv
<1>3. CASE Kill
  BY <1>3, GivingUp DEF Kill, input, reading, staging, destination
<1>4. CASE PowerLoss
  BY <1>4, PowerLossIInv
<1>5. CASE UNCHANGED allvars
  <2>1. UNCHANGED <<first, second, pc, index, opened, stage, pending, target, durable, outcome,
                    theirs>>
    BY <1>5 DEF allvars, vars
  <2> QED
    BY <2>1, StagedUnchanged DEF IInv, Staged, Progressed, Published, Validated, Filling, Filled,
                                 Loose
<1> QED
  BY <1>1, <1>2, <1>3, <1>4, <1>5 DEF Advance, Next

-----------------------------------------------------------------------------
(* What discovery finds is a list.                                         *)

LEMMA FiniteRange ==
    ASSUME NEW f, IsFiniteSet(DOMAIN f), f = [x \in DOMAIN f |-> f[x]]
    PROVE  IsFiniteSet(Range(f))
<1>1. Range(f) = {f[x] : x \in DOMAIN f}
  BY DEF Range
<1>2. f \in Surjection(DOMAIN f, Range(f))
  BY <1>1 DEF Surjection
<1> QED
  BY <1>2, FS_Surjection, Zenon

\* The objects below a path, and beside it.
LEMMA FiniteDescendants ==
    ASSUME NEW t, IsFiniteSet(DOMAIN t), NEW path
    PROVE  IsFiniteSet(Descendants(t, path)) /\ IsFiniteSet(Children(t, path))
<1> DEFINE place == Resolve(t, IF Last(path) = EmptyName THEN Front(path) ELSE path)
           below == {p \in DOMAIN t : IsStrictPrefix(place, p)}
           front == IF Last(path) = EmptyName THEN Front(path) ELSE path
           f == [p \in below |-> front \o SubSeq(p, Len(place) + 1, Len(p))]
<1>1. IsFiniteSet(below)
  <2>1. below \subseteq DOMAIN t
    OBVIOUS
  <2> QED
    BY <2>1, FS_Subset, Zenon
<1>2. Descendants(t, path) = Range(f)
  BY DEF Descendants, Range
<1>3. DOMAIN f = below /\ f = [p \in below |-> f[p]]
  OBVIOUS
<1> HIDE DEF f, below
<1>4. IsFiniteSet(Range(f))
  BY <1>1, <1>3, FiniteRange
<1>5. Children(t, path) \subseteq Descendants(t, path)
  BY DEF Children
<1> QED
  BY <1>2, <1>4, <1>5, FS_Subset, Zenon

LEMMA SortedIsList ==
    ASSUME NEW paths, IsFiniteSet(paths), NEW root
    PROVE  \E n \in Nat : \E f : SortedByPath(root, paths) = [i \in 1 .. n |-> f[i]]
<1>1. Cardinality(paths) \in Nat
  BY FS_CardinalityType
<1> DEFINE bytes == [p \in paths |-> Native(lexically_relative(p, root))]
           rank == [p \in paths |-> Cardinality({q \in paths : Before(bytes[q], bytes[p])})]
           f == [i \in 1 .. Cardinality(paths) |-> CHOOSE p \in paths : rank[p] = i - 1]
<1>2. SortedByPath(root, paths) = f
  BY DEF SortedByPath
<1> HIDE DEF bytes, rank
<1>3. f = [i \in 1 .. Cardinality(paths) |-> f[i]]
  OBVIOUS
<1> HIDE DEF f
<1> QED
  BY <1>1, <1>2, <1>3

\* A walk gives some of what is below a directory, and all of it unless it fails.
LEMMA WalksGive ==
    ASSUME NEW t, NEW path, NEW walk \in Walks(t, path)
    PROVE  /\ walk.found \subseteq Descendants(t, path)
           /\ walk.failed \in BOOLEAN
           /\ ~walk.failed => walk.found = Descendants(t, path)
<1> DEFINE place == Resolve(t, IF Last(path) = EmptyName THEN Front(path) ELSE path)
           all == Descendants(t, path)
           shut == {p \in all : ObjectAt(t, p).type = "directory" /\ ObjectAt(t, p).unreadable}
           some == {s \in SUBSET all : \E stop \in shut : GivenBefore(t, all, stop, s)}
<1>1. walk \in IF ~IsDirectory(t, place) \/ t[place].unreadable
               THEN {[found |-> {}, failed |-> TRUE]}
               ELSE IF shut = {} THEN {[found |-> all, failed |-> FALSE]}
               ELSE {[found |-> given_, failed |-> TRUE] : given_ \in some}
  BY Zenon DEF Walks
<1>2. some \subseteq SUBSET all
  OBVIOUS
<1> HIDE DEF place, all, shut, some
<1>3. walk \in {[found |-> {}, failed |-> TRUE], [found |-> all, failed |-> FALSE]}
         \cup {[found |-> given_, failed |-> TRUE] : given_ \in some}
  BY <1>1
<1>4. walk.found \subseteq all /\ walk.failed \in BOOLEAN /\ (~walk.failed => walk.found = all)
  <2>1. CASE walk = [found |-> {}, failed |-> TRUE] \/ walk = [found |-> all, failed |-> FALSE]
    <3>1. CASE walk = [found |-> {}, failed |-> TRUE]
      BY <3>1
    <3>2. CASE walk = [found |-> all, failed |-> FALSE]
      BY <3>2
    <3> QED
      BY <2>1, <3>1, <3>2
  <2>2. CASE walk \in {[found |-> given_, failed |-> TRUE] : given_ \in some}
    <3>1. PICK given_ \in some : walk = [found |-> given_, failed |-> TRUE]
      BY <2>2
    <3>2. given_ \subseteq all
      BY <1>2
    <3> QED
      BY <3>1, <3>2
  <2> QED
    BY <1>3, <2>1, <2>2
<1> QED
  BY <1>4 DEF all

LEMMA FilesAreFinite ==
    ASSUME NEW t, IsFiniteSet(DOMAIN t), NEW root,
           NEW configuration \in find_configuration_files(t, root)
    PROVE  IsFiniteSet(Range(configuration.files))
<1> DEFINE master == Append(root, ModsConf)
           directory == Append(root, ModsD)
<1>1. PICK walk \in {[found |-> {master}, failed |-> FALSE]} \cup Walks(t, directory) :
          configuration.files = SortedByPath(root, Defining(t, walk.found))
  BY DEF find_configuration_files
<1>2. walk.found = {master} \/ walk.found \subseteq Descendants(t, directory)
  BY WalksGive
<1> HIDE DEF master, directory
<1>3. IsFiniteSet(walk.found)
  BY <1>2, FiniteDescendants, FS_Singleton, FS_Subset
<1>4. Defining(t, walk.found) \subseteq walk.found
  BY DEF Defining
<1>5. IsFiniteSet(Defining(t, walk.found))
  BY <1>3, <1>4, FS_Subset, Zenon
<1> DEFINE paths == Defining(t, walk.found)
<1>0. configuration.files = SortedByPath(root, paths) /\ IsFiniteSet(paths)
  BY <1>1, <1>5
<1> HIDE DEF paths
<1>6. PICK n \in Nat : \E f : configuration.files = [i \in 1 .. n |-> f[i]]
  BY <1>0, SortedIsList
<1>7. IsFiniteSet(1 .. n)
  BY FS_Interval
<1> QED
  BY <1>6, <1>7, FiniteRange

LEMMA FoundIsFinite ==
    ASSUME NEW t, IsFiniteSet(DOMAIN t), NEW path, NEW data \in DataCandidates(t, path)
    PROVE  IsFiniteSet(data.found)
<1>1. IsFiniteSet({path})
  BY FS_Singleton
<1>2. IsFiniteSet(Descendants(t, path)) /\ IsFiniteSet(Children(t, Front(path)))
  BY FiniteDescendants
<1>3. IsFiniteSet(Prefixed(t, path))
  <2>1. Prefixed(t, path) \subseteq Children(t, Front(path))
    BY DEF Prefixed
  <2> QED
    BY <1>2, <2>1, FS_Subset, Zenon
<1>4. CASE data.found \in {Prefixed(t, path), {path}}
  BY <1>1, <1>3, <1>4
<1>5. CASE \E walk \in Walks(t, path) : data.found = {path} \cup walk.found
  <2>1. PICK walk \in Walks(t, path) : data.found = {path} \cup walk.found
    BY <1>5
  <2>2. IsFiniteSet(walk.found)
    BY <1>2, WalksGive, FS_Subset
  <2> QED
    BY <1>1, <2>1, <2>2, FS_Union
<1> QED
  BY <1>4, <1>5 DEF DataCandidates

\* The candidates of discovery are a list without repetition of a finite set.
LEMMA DiscoveredAre ==
    ASSUME NEW t, IsFiniteSet(DOMAIN t), NEW d,
           NEW configuration \in find_configuration_files(t, Root),
           NEW artifacts \in discover_artifacts(t, Root, d, configuration.files)
    PROVE  \E data :
               /\ data \in IF d.names # <<>> /\ ~Escapes(Root, d)
                           THEN DataCandidates(t, Normalized(Root, d))
                           ELSE {[found |-> {}, failed |-> TRUE]}
               /\ IsFiniteSet(Range(configuration.files) \cup data.found)
               /\ artifacts.candidates =
                      SortedByPath(Root, Range(configuration.files) \cup data.found)
               /\ artifacts.failed = data.failed
               /\ IsFiniteSet(Range(artifacts.candidates))
<1>1. PICK data \in IF d.names # <<>> /\ ~Escapes(Root, d)
                    THEN DataCandidates(t, Normalized(Root, d))
                    ELSE {[found |-> {}, failed |-> TRUE]} :
          /\ artifacts.candidates = SortedByPath(Root, Range(configuration.files) \cup data.found)
          /\ artifacts.failed = data.failed
  BY DEF discover_artifacts
<1>2. IsFiniteSet(data.found)
  <2>1. CASE d.names # <<>> /\ ~Escapes(Root, d)
    BY <1>1, <2>1, FoundIsFinite
  <2>2. CASE ~(d.names # <<>> /\ ~Escapes(Root, d))
    BY <1>1, <2>2, FS_EmptySet
  <2> QED
    BY <2>1, <2>2
<1>3. IsFiniteSet(Range(configuration.files) \cup data.found)
  BY <1>2, FilesAreFinite, FS_Union
<1> DEFINE paths == Range(configuration.files) \cup data.found
<1>0. artifacts.candidates = SortedByPath(Root, paths) /\ IsFiniteSet(paths)
  BY <1>1, <1>3
<1> HIDE DEF paths
<1>4. PICK n \in Nat : \E f : artifacts.candidates = [i \in 1 .. n |-> f[i]]
  BY <1>0, SortedIsList
<1> USE DEF paths
<1>5. IsFiniteSet(Range(artifacts.candidates))
  BY <1>4, FS_Interval, FiniteRange
<1> QED
  BY <1>1, <1>3, <1>5

\* The artifacts of an extraction, and the chunks of each, are lists.
LEMMA ExtractedIsList ==
    ASSUME Init
    PROVE  /\ \E S : first.artifacts \in Seq(S)
           /\ \A i \in DOMAIN first.artifacts : \E S : first.artifacts[i].data \in Seq(S)
<1>1. IsFiniteSet(DOMAIN tree)
  BY TreesAssumption DEF Init
<1>2. PICK configuration \in find_configuration_files(tree, Root) :
          \E artifacts \in discover_artifacts(tree, Root, given, configuration.files) :
              first = Extracted(configuration, artifacts)
  BY DEF Init
<1>3. PICK artifacts \in discover_artifacts(tree, Root, given, configuration.files) :
          first = Extracted(configuration, artifacts)
  BY <1>2
<1> DEFINE paths == {c \in Range(artifacts.candidates) : Capturable(ObjectAt(tree, c))}
           groups == SortedByPath(Root, paths)
<1>4. IsFiniteSet(Range(artifacts.candidates))
  BY <1>1, DiscoveredAre
<1>5. IsFiniteSet(paths)
  <2>1. paths \subseteq Range(artifacts.candidates)
    OBVIOUS
  <2> QED
    BY <1>4, <2>1, FS_Subset, Zenon
<1>6. first.artifacts = [i \in DOMAIN groups |->
            LET object == ObjectAt(tree, groups[i])
            IN  [path |-> lexically_relative(groups[i], Root),
                 type |-> object.type, closed |-> object.closed, target |-> object.target,
                 data |-> Contents(object, Located(tree, groups[i]))]]
  BY <1>3 DEF Extracted, Captured
<1> HIDE DEF paths
<1>7. PICK n \in Nat : \E f : groups = [i \in 1 .. n |-> f[i]]
  BY <1>5, SortedIsList
<1> HIDE DEF groups
<1>8. /\ DOMAIN first.artifacts = 1 .. n
      /\ first.artifacts = [i \in 1 .. n |-> first.artifacts[i]]
      /\ \A i \in 1 .. n : \E object, place : first.artifacts[i].data = Contents(object, place)
  BY <1>6, <1>7
<1>9. first.artifacts \in Seq(Range(first.artifacts))
  BY <1>8 DEF Range
<1>10. \A object, place : \E S : Contents(object, place) \in Seq(S)
  <2> TAKE object, place
  <2>1. Contents(object, place) \in {<<>>, <<place>>, <<place, place>>}
    BY DEF Contents
  <2>2. <<>> \in Seq({place}) /\ <<place>> \in Seq({place}) /\ <<place, place>> \in Seq({place})
    OBVIOUS
  <2> QED
    BY <2>1, <2>2
<1>11. ASSUME NEW i \in DOMAIN first.artifacts PROVE \E S : first.artifacts[i].data \in Seq(S)
  <2>1. PICK object, place : first.artifacts[i].data = Contents(object, place)
    BY <1>8
  <2> QED
    BY <1>10, <2>1
<1> QED
  BY <1>9, <1>11

-----------------------------------------------------------------------------
(* Types.                                                                  *)

LEMMA ListIs ==
    ASSUME NEW artifacts, Listed(artifacts)
    PROVE  /\ Len(artifacts) \in Nat /\ DOMAIN artifacts = 1 .. Len(artifacts)
           /\ \A i \in 1 .. Len(artifacts) : Len(artifacts[i].data) \in Nat
<1>1. Len(artifacts) \in Nat /\ DOMAIN artifacts = 1 .. Len(artifacts)
  BY LenProperties DEF Listed
<1> QED
  BY <1>1, LenProperties DEF Listed

LEMMA StreamsAreLists == ASSUME NEW stream \in OtherStreams PROVE Listed(stream)
BY StreamsAssumption DEF Listed, IsList

LEMMA InitTyped == Init => Typed
<1> SUFFICES ASSUME Init PROVE Typed
  OBVIOUS
<1>1. /\ second = <<>> /\ pc = "validate" /\ index = 1 /\ written = 0 /\ opened = NoFile
      /\ stage = EmptyTree /\ pending = {} /\ outcome = "none"
      /\ target \in {"absent", "empty", "foreign"}
  BY DEF Init, Start
<1>2. Listed(second) /\ Len(second) = 0
  <2>1. \A S : second \in Seq(S)
    BY <1>1, EmptySeq
  <2>2. Len(second) = 0 /\ DOMAIN second = {}
    BY <1>1, EmptySeq
  <2> QED
    BY <2>1, <2>2 DEF Listed
<1>3. Listed(first.artifacts)
  BY ExtractedIsList DEF Listed
<1>4. TypeOK
  BY <1>1, <1>2 DEF TypeOK, Places, Outcomes, Targets, EmptyTree
<1> QED
  BY <1>1, <1>3, <1>2, <1>4 DEF Typed, EmptyTree

\* Nothing read, written or staged changes.
LEMMA ElsewhereTyped ==
    ASSUME Typed, UNCHANGED <<first, second, index, written, opened, stage, pending>>,
           pc' \in Places, outcome' \in Outcomes, target' \in Targets,
           pc' = "write" => pc = "write",
           opened # NoFile =>
               pc' \in {"write", "chmod", "sync", "cleanup", "done", "killed"},
           pc' \in {"validate", "check", "mkdtemp", "open", "begin"} => written = 0
    PROVE  Typed'
<1>1. TypeOK'
  BY DEF Typed, TypeOK
<1> QED
  BY <1>1 DEF Typed, Listed, Record

LEMMA OrdinaryTyped ==
    ASSUME Typed, \/ Validate \/ Check \/ MakeStage \/ LastRecord \/ Replace \/ SyncParent
                  \/ Interfere \/ Kill \/ Disturb \/ Stumble \/ UNCHANGED allvars
    PROVE  Typed'
<1>1. /\ UNCHANGED <<first, second, index, written, opened, stage, pending>>
      /\ pc' \in Places /\ outcome' \in Outcomes /\ target' \in Targets
      /\ \/ pc' = pc
         \/ pc \in {"validate", "check", "mkdtemp", "open"} /\ pc' # "write"
         \/ pc' \in {"chmod", "sync", "cleanup", "killed"}
         \/ pc = "sync" /\ pc' = "done"
  BY DEF Validate, Check, MakeStage, LastRecord, Replace, SyncParent, Interfere, Kill, Disturb,
         Stumble, Conclude, input, reading, staging, destination, allvars, vars,
         Places, Outcomes, Targets, Typed, TypeOK
<1> QED
  BY <1>1, ElsewhereTyped DEF Typed, TypeOK

LEMMA ReopenTyped == ASSUME Typed, IInv, Reopen PROVE Typed'
<1>1. CASE Disturb
  BY <1>1, OrdinaryTyped
<1>2. CASE ~Disturb
  <2>1. /\ pc = "open" /\ pc' = "begin" /\ second' \in {first.artifacts} \cup OtherStreams
        /\ UNCHANGED <<first, index, written, opened, stage, pending, outcome, target>>
    BY <1>2 DEF Reopen, input, staging, destination
  <2>2. Listed(second') /\ index = 1 /\ opened = NoFile /\ written = 0
    BY <2>1, StreamsAreLists DEF Typed, IInv, Validated
  <2>3. Len(second') \in Nat /\ \A i \in 1 .. Len(second') : Len(second'[i].data) \in Nat
    BY <2>2, ListIs
  <2>4. /\ index' \in 1 .. Len(second') + 1
        /\ written' \in 0 .. (IF index' <= Len(second') THEN Len(second'[index'].data) ELSE 0)
    BY <2>1, <2>2, <2>3
  <2>5. TypeOK'
    BY <2>1, <2>2, <2>4 DEF Typed, TypeOK, Places
  <2> QED
    BY <2>1, <2>2, <2>5 DEF Typed, Listed, Record
<1> QED
  BY <1>1, <1>2

LEMMA BeginTyped == ASSUME Typed, IInv, Begin PROVE Typed'
<1>1. CASE Disturb \/ Stumble
  BY <1>1, OrdinaryTyped
<1>2. CASE ~Disturb /\ ~Stumble
  <2> DEFINE artifact == first.artifacts[index]
             path == components(artifact)
  <2>1. /\ pc = "begin" /\ pc' = "write" /\ index <= Len(second)
        /\ stage' = Created(artifact, path)
        /\ pending' = IF artifact.type = "directory" THEN pending \cup {path} ELSE pending
        /\ opened' = IF artifact.type = "regular" THEN path ELSE opened
        /\ UNCHANGED <<first, second, index, written, outcome, target>>
    BY <1>2 DEF Begin, input, destination
  <2>2. opened = NoFile /\ written = 0
    BY <2>1 DEF IInv, Validated, Typed
  <2> HIDE DEF path, artifact
  <2>3. /\ DOMAIN stage' = DOMAIN stage \cup Ancestors(path) \cup {path}
        /\ \A p \in DOMAIN stage' : Record(stage'[p])
        /\ path \notin DOMAIN stage => stage'[path].type = artifact.type
    BY <2>1 DEF Created, Typed, Record, Object
  <2>4. path \notin DOMAIN stage
    BY <1>2 DEF Begin, Creatable, path, artifact
  <2>5. /\ pending' \subseteq DOMAIN stage'
        /\ opened' # NoFile => opened' \in DOMAIN stage' /\ stage'[opened'].type = "regular"
    BY <2>1, <2>2, <2>3, <2>4 DEF Typed, TypeOK
  <2>6. TypeOK'
    BY <2>1, <2>5 DEF Typed, TypeOK, Places
  <2> QED
    BY <2>1, <2>3, <2>6 DEF Typed, Listed, Record
<1> QED
  BY <1>1, <1>2

LEMMA WriteTyped == ASSUME Typed, Write PROVE Typed'
<1>1. CASE Disturb \/ Stumble
  BY <1>1, OrdinaryTyped
<1>2. CASE ~Disturb /\ ~Stumble
  <2>1. /\ pc = "write" /\ opened # NoFile /\ written < Len(second[index].data)
        /\ stage' = [stage EXCEPT ![opened].data = Append(@, second[index].data[written + 1])]
        /\ written' = written + 1
        /\ UNCHANGED <<first, second, pc, index, opened, pending, outcome, target>>
    BY <1>2 DEF Write, input, destination
  <2>2. /\ index \in 1 .. Len(second) /\ Len(second[index].data) \in Nat
        /\ written \in 0 .. Len(second[index].data)
    BY <2>1, ListIs DEF Typed, TypeOK
  <2>3. written' \in 0 .. Len(second[index].data)
    BY <2>1, <2>2
  <2>4. DOMAIN stage' = DOMAIN stage
    BY <2>1
  <2>5. ASSUME NEW p \in DOMAIN stage PROVE Record(stage'[p]) /\ stage'[p].type = stage[p].type
    BY <2>1 DEF Typed, Record
  <2>6. TypeOK'
    BY <2>1, <2>2, <2>3, <2>4, <2>5 DEF Typed, TypeOK
  <2> QED
    BY <2>1, <2>4, <2>5, <2>6 DEF Typed, Listed, Record
<1> QED
  BY <1>1, <1>2

LEMMA EndTyped == ASSUME Typed, End PROVE Typed'
<1>0. pc = "write" /\ index \in 1 .. Len(second) /\ Len(second) \in Nat
  BY ListIs DEF End, Typed, TypeOK
<1>1. CASE Disturb
  BY <1>1, OrdinaryTyped
<1>2. CASE pc' = "begin"
  <2>1. /\ index' = index + 1 /\ written' = 0 /\ opened' = NoFile
        /\ stage' = IF opened = NoFile THEN stage ELSE [stage EXCEPT ![opened].synced = TRUE]
        /\ UNCHANGED <<first, second, pending, outcome, target>>
    BY <1>2 DEF End, Disturb, Conclude, input, destination
  <2>2. DOMAIN stage' = DOMAIN stage
    BY <2>1
  <2>3. ASSUME NEW p \in DOMAIN stage PROVE Record(stage'[p])
    BY <2>1 DEF Typed, Record
  <2>4. index' \in 1 .. Len(second) + 1
    BY <1>0, <2>1
  <2>5. index' <= Len(second) => Len(second[index'].data) \in Nat
    BY <1>0, <2>4, ListIs DEF Typed
  <2>6. written' \in 0 .. (IF index' <= Len(second) THEN Len(second[index'].data) ELSE 0)
    BY <2>1, <2>5
  <2>7. TypeOK'
    BY <1>2, <2>1, <2>2, <2>4, <2>6 DEF Typed, TypeOK, Places
  <2> QED
    BY <1>2, <2>1, <2>2, <2>3, <2>7 DEF Typed, Listed, Record
<1>3. CASE pc' = "done"
  <2>1. /\ outcome' = "failed" /\ opened' = NoFile
        /\ UNCHANGED <<first, second, index, written, stage, pending, target>>
    BY <1>3 DEF End, Disturb, Conclude, input, staging, destination
  <2>2. TypeOK'
    BY <1>3, <2>1 DEF Typed, TypeOK, Places, Outcomes
  <2> QED
    BY <1>3, <2>1, <2>2 DEF Typed, Listed, Record
<1> QED
  BY <1>1, <1>2, <1>3 DEF End, Conclude

LEMMA ChmodTyped == ASSUME Typed, Chmod PROVE Typed'
<1>1. CASE Disturb \/ Stumble
  BY <1>1, OrdinaryTyped
<1>2. CASE ~Disturb /\ ~Stumble
  <2>1. PICK path \in pending :
           /\ pc = "chmod"
           /\ stage' = [stage EXCEPT ![path].closed = ModeOf(path)]
           /\ pending' = pending \ {path}
           /\ UNCHANGED <<first, second, pc, index, written, opened, target, outcome>>
    BY <1>2 DEF Chmod, Deepest, input, reading, destination
  <2>2. DOMAIN stage' = DOMAIN stage
    BY <2>1
  <2>3. ASSUME NEW p \in DOMAIN stage PROVE Record(stage'[p]) /\ stage'[p].type = stage[p].type
    BY <2>1 DEF Typed, Record
  <2>4. TypeOK'
    BY <2>1, <2>2, <2>3 DEF Typed, TypeOK
  <2> QED
    BY <2>1, <2>2, <2>3, <2>4 DEF Typed, Listed, Record
<1> QED
  BY <1>1, <1>2

LEMMA CleanupTyped == ASSUME Typed, Cleanup PROVE Typed'
<1>1. /\ pc' = "done" /\ outcome' = "failed" /\ opened' = NoFile
      /\ UNCHANGED <<first, second, index, written, target>>
      /\ \/ stage' = EmptyTree /\ pending' = {}
         \/ UNCHANGED <<stage, pending>>
  BY DEF Cleanup, Conclude, input, staging, destination
<1>2. TypeOK'
  BY <1>1 DEF Typed, TypeOK, Places, Outcomes
<1>3. \A p \in DOMAIN stage' : Record(stage'[p])
  BY <1>1 DEF Typed, EmptyTree
<1> QED
  BY <1>1, <1>2, <1>3 DEF Typed, Listed, Record

LEMMA PowerLossTyped == ASSUME Typed, PowerLoss PROVE Typed'
<1>1. /\ pc' = IF pc = "done" THEN "done" ELSE "killed"
      /\ stage' = [p \in DOMAIN stage |->
                      IF stage[p].type = "regular" /\ ~stage[p].synced
                      THEN [stage[p] EXCEPT !.data = <<>>] ELSE stage[p]]
      /\ target' = target \/ target' \in {"ours", "absent", "empty"}
      /\ UNCHANGED <<first, second, index, written, opened, pending, outcome>>
  BY DEF PowerLoss, input, reading, destination
<1>2. DOMAIN stage' = DOMAIN stage
  BY <1>1
<1>3. ASSUME NEW p \in DOMAIN stage PROVE Record(stage'[p]) /\ stage'[p].type = stage[p].type
  BY <1>1 DEF Typed, Record
<1>4. TypeOK'
  BY <1>1, <1>2, <1>3 DEF Typed, TypeOK, Places, Targets
<1> QED
  BY <1>1, <1>2, <1>3, <1>4 DEF Typed, Listed, Record

LEMMA NextTyped == Typed /\ IInv /\ [Advance]_allvars => Typed'
<1> SUFFICES ASSUME Typed, IInv, [Advance]_allvars PROVE Typed'
  OBVIOUS
<1> QED
  BY OrdinaryTyped, ReopenTyped, BeginTyped, WriteTyped, EndTyped, ChmodTyped, CleanupTyped,
     PowerLossTyped DEF Advance, Next, reassemble

-----------------------------------------------------------------------------
(* Contents.                                                               *)

LEMMA Beginnings ==
    ASSUME NEW s, \E S : s \in Seq(S)
    PROVE  /\ SubSeq(s, 1, 0) = <<>> /\ SubSeq(s, 1, Len(s)) = s
           /\ \A n \in 0 .. Len(s) - 1 : Append(SubSeq(s, 1, n), s[n + 1]) = SubSeq(s, 1, n + 1)
<1>1. PICK S : s \in Seq(S)
  OBVIOUS
<1> QED
  BY <1>1

\* The paths of an extraction that has been validated differ, and no file's is empty.
LEMMA PathsDiffer ==
    ASSUME PathRules(first.artifacts), second = first.artifacts,
           NEW i \in DOMAIN second, NEW j \in DOMAIN second, i # j
    PROVE  components(second[i]) # components(second[j])
BY DEF PathRules

\* A step that stages nothing and reads nothing.
LEMMA ElsewhereKept ==
    ASSUME Kept, UNCHANGED <<first, second, index, written, opened>>,
           pc' = "write" => pc = "write",
           (pc \in Filling \/ Filled)' => (pc \in Filling \/ Filled),
           \A p \in DOMAIN stage : stage'[p].data = stage[p].data,
           (pc \in Filling \/ Filled) /\ second = first.artifacts =>
               /\ \A i \in DOMAIN second : i < index => components(second[i]) \in DOMAIN stage
               /\ pc = "write" => components(second[index]) \in DOMAIN stage
    PROVE  Kept'
BY DEF Kept

\* What Progressed says of the paths, in terms of the second pass.
LEMMA StagedPaths ==
    ASSUME Typed, IInv
    PROVE  /\ \A i \in DOMAIN second : i \in Nat \ {0}
           /\ (pc \in Filling \/ Filled) /\ second = first.artifacts =>
                  /\ \A i \in DOMAIN second : i < index => components(second[i]) \in DOMAIN stage
                  /\ pc = "write" => components(second[index]) \in DOMAIN stage
<1>1. /\ \A i \in DOMAIN second : i \in Nat \ {0}
      /\ index \in Nat
  BY ListIs DEF Typed, IInv, Progressed
<1>2. ASSUME NEW i \in DOMAIN second, i < index PROVE i \in 1 .. index - 1
  BY <1>1, <1>2
<1> QED
  BY <1>1, <1>2 DEF IInv, Progressed

LEMMA QuietKept ==
    ASSUME Typed, IInv, Kept,
           \/ Validate \/ Check \/ MakeStage \/ LastRecord \/ Replace \/ SyncParent
           \/ Interfere \/ Kill \/ Disturb \/ Stumble \/ UNCHANGED allvars
    PROVE  Kept'
<1>1. /\ UNCHANGED <<first, second, index, written, opened, stage>>
      /\ pc' = "write" => pc = "write"
      /\ (pc \in Filling \/ Filled)' => (pc \in Filling \/ Filled)
  BY DEF Validate, Check, MakeStage, LastRecord, Replace, SyncParent, Interfere, Kill, Disturb,
         Stumble, Conclude, input, reading, staging, destination, allvars, vars, Filling, Filled
<1> QED
  BY <1>1, StagedPaths, ElsewhereKept

LEMMA ReopenKept == ASSUME Typed, IInv, Kept, Reopen PROVE Kept'
<1>1. CASE Disturb
  BY <1>1, QuietKept
<1>2. CASE ~Disturb
  <2>1. pc = "open" /\ pc' = "begin" /\ index' = index /\ Listed(second') /\ index = 1
    BY <1>2, StreamsAreLists DEF Reopen, Typed, IInv, Validated
  <2>2. \A i \in DOMAIN second' : i \in Nat \ {0}
    BY <2>1, ListIs
  <2>3. \A i \in DOMAIN second' : ~(i < index')
    BY <2>1, <2>2
  <2> QED
    BY <2>1, <2>3 DEF Kept
<1> QED
  BY <1>1, <1>2

LEMMA BeginKept == ASSUME Typed, IInv, Kept, Begin PROVE Kept'
<1>1. CASE Disturb \/ Stumble
  BY <1>1, QuietKept
<1>2. CASE ~Disturb /\ ~Stumble
  <2> SUFFICES ASSUME second' = first'.artifacts PROVE Kept'
    BY DEF Kept
  <2> DEFINE artifact == first.artifacts[index]
             path == components(artifact)
  <2>1. /\ pc = "begin" /\ pc' = "write" /\ index \in DOMAIN first.artifacts
        /\ stage' = Created(artifact, path) /\ path \notin DOMAIN stage
        /\ opened' = IF artifact.type = "regular" THEN path ELSE opened
        /\ UNCHANGED <<first, second, index, written>>
    BY <1>2 DEF Begin, Creatable, input, destination
  <2>2. /\ opened = NoFile /\ written = 0 /\ second = first.artifacts
    BY <2>1 DEF IInv, Validated, Typed
  <2>3. \A S : second[index].data \in Seq(S) => SubSeq(second[index].data, 1, 0) = <<>>
    BY Beginnings
  <2>4. SubSeq(second[index].data, 1, 0) = <<>>
    BY <2>1, <2>2, <2>3 DEF Typed, Listed
  <2>5. /\ \A p \in DOMAIN stage : stage'[p] = stage[p]
        /\ stage'[path].data = <<>>
    BY <2>1 DEF Created, Object
  <2>6. ASSUME NEW i \in DOMAIN second, i < index
        PROVE  stage'[components(second[i])].data = second[i].data
    <3>1. components(second[i]) \in DOMAIN stage
      BY <2>1, <2>2, <2>6, StagedPaths DEF Filling
    <3> QED
      BY <2>1, <2>2, <2>5, <2>6, <3>1 DEF Kept, Filling
  <2> QED
    BY <2>1, <2>2, <2>4, <2>5, <2>6 DEF Kept
<1> QED
  BY <1>1, <1>2

LEMMA WriteKept == ASSUME Typed, IInv, Kept, Write PROVE Kept'
<1>1. CASE Disturb \/ Stumble
  BY <1>1, QuietKept
<1>2. CASE ~Disturb /\ ~Stumble
  <2> SUFFICES ASSUME second' = first'.artifacts PROVE Kept'
    BY DEF Kept
  <2> DEFINE data == second[index].data
             path == components(second[index])
  <2>1. /\ pc = "write" /\ opened # NoFile /\ written < Len(data)
        /\ stage' = [stage EXCEPT ![opened].data = Append(@, data[written + 1])]
        /\ written' = written + 1
        /\ UNCHANGED <<first, second, pc, index, opened>>
    BY <1>2 DEF Write, input, destination
  <2>2. /\ index \in DOMAIN second /\ Len(data) \in Nat /\ written \in 0 .. Len(data) - 1
        /\ \E S : data \in Seq(S)
    <3>1. index \in 1 .. Len(second) /\ written \in 0 .. Len(data)
      BY <2>1, ListIs DEF Typed, TypeOK
    <3>2. index \in DOMAIN second /\ Len(data) \in Nat
      BY <3>1, ListIs DEF Typed
    <3> QED
      BY <2>1, <3>1, <3>2 DEF Typed, Listed
  <2>3. /\ stage[path].data = SubSeq(data, 1, written) /\ opened = path /\ path \in DOMAIN stage
        /\ second = first.artifacts
        /\ \A i \in DOMAIN second :
               i < index => /\ components(second[i]) \in DOMAIN stage
                            /\ stage[components(second[i])].data = second[i].data
    BY <2>1, StagedPaths DEF Kept, Filling
  <2>4. SubSeq(data, 1, written') = Append(SubSeq(data, 1, written), data[written + 1])
    BY <2>1, <2>2, Beginnings
  <2> HIDE DEF data, path
  <2>5. /\ stage'[path].data = Append(stage[path].data, data[written + 1])
        /\ \A p \in DOMAIN stage : p # path => stage'[p] = stage[p]
    BY <2>1, <2>3 DEF Typed, Record
  <2>6. PathRules(first.artifacts)
    BY <2>1 DEF IInv, Validated
  <2>7. ASSUME NEW i \in DOMAIN second, i < index
        PROVE  stage'[components(second[i])].data = second[i].data
    <3>1. i # index
      BY <2>2, <2>7, StagedPaths
    <3>2. components(second[i]) # path
      BY <2>2, <2>3, <2>6, <3>1, PathsDiffer DEF path
    <3> QED
      BY <2>3, <2>5, <2>7, <3>2
  <2>8. stage'[path].data = SubSeq(data, 1, written')
    BY <2>3, <2>4, <2>5
  <2> QED
    BY <2>1, <2>3, <2>7, <2>8 DEF Kept, path, data
<1> QED
  BY <1>1, <1>2

LEMMA EndKept == ASSUME Typed, IInv, Kept, End PROVE Kept'
<1>1. CASE Disturb
  BY <1>1, QuietKept
<1>2. CASE pc' = "done"
  <2>1. target' # "ours"
    BY <1>2 DEF End, Disturb, Conclude, destination, IInv, Published
  <2> QED
    BY <1>2, <2>1 DEF Kept, Filling, Filled
<1>3. CASE pc' = "begin"
  <2> SUFFICES ASSUME second' = first'.artifacts PROVE Kept'
    BY DEF Kept
  <2> DEFINE data == second[index].data
             path == components(second[index])
  <2>1. /\ pc = "write" /\ written = Len(data) /\ index' = index + 1
        /\ stage' = IF opened = NoFile THEN stage ELSE [stage EXCEPT ![opened].synced = TRUE]
        /\ UNCHANGED <<first, second>>
    BY <1>3 DEF End, Disturb, Conclude, input, destination
  <2>2. index \in DOMAIN second /\ \E S : data \in Seq(S)
    <3>1. index \in 1 .. Len(second)
      BY <2>1, ListIs DEF Typed, TypeOK
    <3>2. index \in DOMAIN second
      BY <3>1, ListIs DEF Typed
    <3> QED
      BY <3>2 DEF Typed, Listed
  <2>3. /\ stage[path].data = SubSeq(data, 1, written) /\ path \in DOMAIN stage
        /\ \A i \in DOMAIN second :
               i < index => /\ components(second[i]) \in DOMAIN stage
                            /\ stage[components(second[i])].data = second[i].data
    BY <2>1, StagedPaths DEF Kept, Filling
  <2>4. stage[path].data = data
    BY <2>1, <2>2, <2>3, Beginnings
  <2>5. \A p \in DOMAIN stage : stage'[p].data = stage[p].data
    BY <2>1 DEF Typed, Record
  <2>6. ASSUME NEW i \in DOMAIN second, i < index + 1
        PROVE  stage'[components(second[i])].data = second[i].data
    <3>1. i < index \/ i = index
      BY <2>2, <2>6, StagedPaths
    <3> QED
      BY <2>3, <2>4, <2>5, <3>1
  <2> QED
    BY <1>3, <2>1, <2>6 DEF Kept
<1> QED
  BY <1>1, <1>2, <1>3 DEF End, Conclude

LEMMA ChmodKept == ASSUME Typed, IInv, Kept, Chmod PROVE Kept'
<1>1. CASE Disturb \/ Stumble
  BY <1>1, QuietKept
<1>2. CASE ~Disturb /\ ~Stumble
  <2>1. PICK path \in pending :
           /\ pc = "chmod"
           /\ stage' = [stage EXCEPT ![path].closed = ModeOf(path)]
           /\ UNCHANGED <<first, second, pc, index, written, opened, target>>
    BY <1>2 DEF Chmod, Deepest, input, reading, destination
  <2>2. \A p \in DOMAIN stage : stage'[p].data = stage[p].data
    BY <2>1 DEF Typed, Record
  <2>3. (pc \in Filling \/ Filled)' => (pc \in Filling \/ Filled)
    BY <2>1 DEF Filled
  <2> QED
    BY <2>1, <2>2, <2>3, StagedPaths, ElsewhereKept
<1> QED
  BY <1>1, <1>2

LEMMA CleanupKept == ASSUME Typed, IInv, Kept, Cleanup PROVE Kept'
<1>1. /\ pc = "cleanup" /\ pc' = "done"
      /\ target = "ours" => stage' = stage
      /\ UNCHANGED <<first, second, index, target>>
  BY DEF Cleanup, Conclude, input, staging, destination
<1> QED
  BY <1>1 DEF Kept, Filling, Filled

LEMMA PowerLossKept == ASSUME Typed, IInv, Kept, PowerLoss PROVE Kept'
<1>1. /\ pc' \notin {"begin", "write", "chmod", "sync"}
      /\ stage' = [p \in DOMAIN stage |->
                      IF stage[p].type = "regular" /\ ~stage[p].synced
                      THEN [stage[p] EXCEPT !.data = <<>>] ELSE stage[p]]
      /\ target' = "ours" => target = "ours"
      /\ UNCHANGED <<first, second, index, written, opened>>
  BY DEF PowerLoss, input, reading, destination
<1>2. CASE target' = "ours"
  <2> SUFFICES ASSUME second = first.artifacts, NEW i \in DOMAIN second, i < index
               PROVE  stage'[components(second[i])].data = second[i].data
    BY <1>1 DEF Kept
  <2>1. /\ \A p \in DOMAIN stage : stage[p].type = "regular" => stage[p].synced \/ CutIn(p)
        /\ PathRules(first.artifacts)
    BY <1>1, <1>2 DEF IInv, Staged, Published, Validated, Filled, Loose
  <2>2. /\ components(second[i]) \in DOMAIN stage
        /\ stage[components(second[i])].data = second[i].data
    BY <1>1, <1>2, StagedPaths DEF Filled, Kept
  <2>3. ~CutIn(components(second[i]))
    <3>1. index # i
      BY ListIs DEF Typed, IInv, Progressed
    <3> QED
      BY <2>1, <3>1, PathsDiffer DEF CutIn
  <2> QED
    BY <1>1, <2>1, <2>2, <2>3
<1>3. CASE target' # "ours"
  BY <1>1, <1>3 DEF Kept, Filling, Filled
<1> QED
  BY <1>2, <1>3

LEMMA NextKept == Typed /\ IInv /\ Kept /\ [Advance]_allvars => Kept'
<1> SUFFICES ASSUME Typed, IInv, Kept, [Advance]_allvars PROVE Kept'
  OBVIOUS
<1> QED
  BY QuietKept, ReopenKept, BeginKept, WriteKept, EndKept, ChmodKept, CleanupKept, PowerLossKept
  DEF Advance, Next, reassemble

LEMMA InitKept == Init => Kept
BY DEF Init, Start, Kept, Filling, Filled

-----------------------------------------------------------------------------
(* What follows.                                                           *)

\* Paths of artifacts that differ are the paths of different places.
LEMMA ModeOfArtifact ==
    ASSUME PathRules(first.artifacts), NEW i \in DOMAIN first.artifacts
    PROVE  ModeOf(components(first.artifacts[i])) <=> first.artifacts[i].closed
BY DEF PathRules, ModeOf

LEMMA IInvDestination == Typed /\ IInv /\ Kept => DestinationIsWhole
<1> SUFFICES ASSUME Typed, IInv, Kept PROVE DestinationIsWhole
  OBVIOUS
<1>1. CASE target = "ours"
  <2>1. /\ pending = {} /\ PathRules(first.artifacts) /\ pc # "write"
        /\ \A i \in 1 .. index - 1 : components(first.artifacts[i]) \in DOMAIN stage
        /\ \A p \in DOMAIN stage :
               Shaped(p) /\ (stage[p].type = "regular" => stage[p].synced \/ CutIn(p))
    BY <1>1 DEF IInv, Staged, Progressed, Published, Validated, Filled, Loose
  <2>2. ASSUME NEW p \in DOMAIN stage
        PROVE  \/ \E i \in DOMAIN first.artifacts :
                      /\ components(first.artifacts[i]) = p
                      /\ stage[p].type = first.artifacts[i].type
                      /\ stage[p].target = first.artifacts[i].target
                      /\ stage[p].type = "directory" =>
                             (stage[p].closed <=> first.artifacts[i].closed)
               \/ /\ stage[p].type = "directory" /\ ~stage[p].closed
                  /\ \E i \in DOMAIN first.artifacts :
                         p \in Ancestors(components(first.artifacts[i]))
    BY <2>1, ModeOfArtifact DEF Shaped, IsArtifact
  <2>3. ASSUME ReadTwice, NEW i \in DOMAIN second
        PROVE  stage[components(second[i])].data = second[i].data
    <3>1. i < index
      BY <2>3, ListIs DEF Typed, TypeOK, ReadTwice
    <3> QED
      BY <1>1, <2>3, <3>1 DEF Kept, Filled, ReadTwice
  <2> QED
    BY <1>1, <2>1, <2>2, <2>3 DEF DestinationIsWhole, IInv, Published
<1>2. CASE target # "ours"
  BY <1>2 DEF DestinationIsWhole, IInv, Published
<1> QED
  BY <1>1, <1>2

\* The variables of a reassembly keep their types, whatever it reads: what is open is a file
\* in the staging directory, from its first record on.
THEOREM ReassemblyTypeOK == Spec => []TypeOK
<1>1. Typed => TypeOK
  BY DEF Typed
<1> QED
  BY <1>1, InitTyped, InitIInv, NextTyped, NextIInv, PTL DEF Spec

\* A destination has the shape that was validated and what has been read for it, with
\* every file on the disk but the one the input may have been cut in, whatever the tree,
\* the extraction and the second pass are (any of OtherStreams in place of the first, and
\* each of them cut after any record), whichever calls fail and whoever else uses the
\* name; and if both passes have read the same, it is whole, with the contents that were
\* validated.
THEOREM DestinationIsAlwaysWhole == Spec => []DestinationIsWhole
<1>1. Init => Typed /\ IInv /\ Kept
  BY InitTyped, InitIInv, InitKept
<1>2. IInv /\ [Advance]_allvars => IInv'
  BY NextIInv
<1>3. Typed /\ IInv /\ Kept => DestinationIsWhole
  BY IInvDestination
<1> QED
  BY <1>1, <1>2, <1>3, NextTyped, NextKept, PTL DEF Spec

-----------------------------------------------------------------------------
(* What an extraction captures.                                            *)

\* A tree is finite, made of places, and what something lies in is a directory in it.
LEMMA TreeIs ==
  ASSUME NEW t \in Trees
  PROVE  /\ IsFiniteSet(DOMAIN t) /\ Linked(t)
         /\ Root \in Path /\ Root \in Seq(Proper) /\ Root \in DOMAIN t /\ t[Root].type = "directory"
         /\ ~t[Root].unseen
         /\ \A p \in DOMAIN t :
                /\ p \in Path /\ p \in Seq(Proper) /\ Last(p) # EmptyName
                /\ t[p].unseen => t[p].unreadable
                /\ \A q \in Path :
                       IsStrictPrefix(q, p) =>
                           /\ ~IsLink(t, q)
                           /\ q \in DOMAIN t \/ IsPrefix(Root, q) => IsDirectory(t, q)
  <1>1. /\ IsFiniteSet(DOMAIN t) /\ Root \in DOMAIN t /\ t[Root].type = "directory"
        /\ ~t[Root].unseen
        /\ \A p \in DOMAIN t :
               /\ p \in NormalPath
               /\ t[p].unseen => t[p].unreadable
               /\ t[p].target.names \in Seq(Name)
               /\ \A q \in Ancestors(p) :
                      IF q \in DOMAIN t THEN t[q].type = "directory" ELSE ~IsPrefix(Root, q)
    BY TreesAssumption
  <1>2. Linked(t)
    BY <1>1 DEF Linked
  <1>3. ASSUME NEW p \in DOMAIN t
        PROVE  p \in Path /\ p \in Seq(Proper) /\ Last(p) # EmptyName
    <2>1. p \in NormalPath
      BY <1>1
    <2> QED
      BY <2>1, ProperIs
  <1>4. ASSUME NEW p \in DOMAIN t, NEW q \in Path, IsStrictPrefix(q, p) PROVE q \in Ancestors(p)
    <2>1. p \in Seq(Name) /\ q \in Seq(Name) /\ Len(q) \in Nat \ {0}
      BY <1>3, PathIs
    <2>2. Len(q) < Len(p) /\ IsPrefix(q, p)
      BY <1>4, <2>1, PrefixOrder DEF IsStrictPrefix
    <2>3. q = SubSeq(p, 1, Len(q))
      <3>1. SubSeq(q, 1, Len(q)) = q
        BY <2>1
      <3> QED
        BY <2>2, <3>1 DEF IsPrefix
    <2>4. Len(p) \in Nat /\ Len(q) \in 1 .. Len(p) - 1
      BY <2>1, <2>2
    <2> QED
      BY <2>3, <2>4 DEF Ancestors
  <1>5. ASSUME NEW p \in DOMAIN t, NEW q \in Path, IsStrictPrefix(q, p)
        PROVE  ~IsLink(t, q) /\ (q \in DOMAIN t \/ IsPrefix(Root, q) => IsDirectory(t, q))
    BY <1>1, <1>4, <1>5 DEF IsLink, IsDirectory
  <1>6. Root \in Path /\ Root \in Seq(Proper)
    BY RootAssumption, ProperIs
  <1> QED
    BY <1>1, <1>2, <1>3, <1>5, <1>6

\* A path with no link on its way or at its end leads where it says.
LEMMA StraightOn ==
  ASSUME NEW t \in Trees, NEW d \in Path,
         \A q \in Path : IsPrefix(q, d) => ~IsLink(t, q)
  PROVE  Resolve(t, d) = d
  <1>1. Linked(t) /\ d \in Seq(Name)
    BY TreeIs, PathIs
  <1> QED
    BY <1>1, ResolveSame

\* What is in the tree is found under its own path.
LEMMA LocatedInTree ==
  ASSUME NEW t \in Trees, NEW p \in Path, Last(p) # EmptyName,
         \A q \in Path : IsStrictPrefix(q, p) => ~IsLink(t, q)
  PROVE  Located(t, p) = p
  <1>1. Linked(t) /\ Front(p) \in Seq(Name) /\ Last(p) \in Name /\ p = Append(Front(p), Last(p))
    BY TreeIs, PathIs
  <1>2. ASSUME NEW q \in Path, IsPrefix(q, Front(p)) PROVE ~IsLink(t, q)
    <2>1. q \in Seq(Name) /\ p \in Seq(Name)
      BY PathIs
    <2>2. IsPrefix(q, p)
      BY <1>1, <1>2, <2>1, PrefixAppend
    <2>3. Len(q) <= Len(Front(p)) /\ Len(p) = Len(Front(p)) + 1 /\ Len(Front(p)) \in Nat
      BY <1>1, <1>2, <2>1, PrefixOrder, PathIs
    <2>4. q # p
      BY <2>3
    <2> QED
      BY <2>2, <2>4 DEF IsStrictPrefix
  <1>3. Resolve(t, Front(p)) = Front(p)
    BY <1>1, <1>2, ResolveSame
  <1> QED
    BY <1>1, <1>3 DEF Located

LEMMA TreeObject ==
  ASSUME NEW t \in Trees, NEW p \in DOMAIN t
  PROVE  Located(t, p) = p /\ ObjectAt(t, p) = t[p]
  <1>1. Located(t, p) = p
    BY TreeIs, LocatedInTree
  <1> QED
    BY <1>1 DEF ObjectAt

\* Below a path, by one name or more.
LEMMA BelowIs ==
  ASSUME NEW p \in Seq(Name), NEW x \in Name
  PROVE  /\ IsStrictPrefix(p, Append(p, x))
         /\ \A q \in Seq(Name) : IsPrefix(Append(p, x), q) => IsStrictPrefix(p, q)
  <1> DEFINE d == Append(p, x)
  <1>1. d \in Seq(Name) /\ Len(d) = Len(p) + 1 /\ Len(p) \in Nat
    BY AppendIsPath, PathIs
  <1>2. IsPrefix(p, d)
    BY PrefixAppend, PrefixOrder
  <1> HIDE DEF d
  <1>3. IsStrictPrefix(p, d)
    BY <1>1, <1>2 DEF IsStrictPrefix
  <1>4. ASSUME NEW q \in Seq(Name), IsPrefix(d, q) PROVE IsStrictPrefix(p, q)
    <2>1. IsPrefix(p, q) /\ Len(d) <= Len(q) /\ Len(q) \in Nat
      BY <1>1, <1>2, <1>4, PrefixOrder
    <2> QED
      BY <1>1, <2>1 DEF IsStrictPrefix
  <1> QED
    BY <1>3, <1>4 DEF d

\* What is below a directory, with or without a "/" at the end of its path.
LEMMA DescendantsAre ==
  ASSUME NEW t \in Trees, NEW d \in Path, Last(d) # EmptyName, Resolve(t, d) = d
  PROVE  /\ Descendants(t, d) = {p \in DOMAIN t : IsStrictPrefix(d, p)}
         /\ Descendants(t, Append(d, EmptyName)) = {p \in DOMAIN t : IsStrictPrefix(d, p)}
  <1> DEFINE below == {p \in DOMAIN t : IsStrictPrefix(d, p)}
             e == Append(d, EmptyName)
             named(p) == d \o SubSeq(p, Len(d) + 1, Len(p))
  <1>1. d \in Seq(Name) /\ EmptyName \in Name
    BY PathIs, EmptyNameIs
  <1>2. Front(e) = d /\ Last(e) = EmptyName
    BY <1>1, AppendIsPath
  <1>3. ASSUME NEW p \in below PROVE named(p) = p
    <2>1. p \in Seq(Name) /\ IsPrefix(d, p)
      BY TreeIs, PathIs DEF IsStrictPrefix
    <2> QED
      BY <1>1, <2>1, PrefixRest
  <1>4. Descendants(t, d) = {named(p) : p \in below}
    BY DEF Descendants
  <1>5. Descendants(t, e) = {named(p) : p \in below}
    <2> HIDE DEF e
    <2> QED
      BY <1>2 DEF Descendants
  <1>6. {named(p) : p \in below} = below
    <2> HIDE DEF below, named
    <2> QED
      BY <1>3
  <1> QED
    BY <1>4, <1>5, <1>6

LEMMA PrefixUnder ==
  ASSUME NEW S, NEW r \in Seq(S), NEW u \in Seq(S), NEW s \in Seq(S)
  PROVE  /\ IsPrefix(r \o u, r \o s) <=> IsPrefix(u, s)
         /\ IsStrictPrefix(r \o u, r \o s) <=> IsStrictPrefix(u, s)
         /\ r \o u = r \o s <=> u = s
  <1> DEFINE ru == r \o u
             rs == r \o s
  <1>1. ru \in Seq(S) /\ rs \in Seq(S)
    BY ConcatProperties
  <1>2. ru = rs <=> u = s
    BY ConcatSimplifications
  <1>3. ASSUME IsPrefix(u, s) PROVE IsPrefix(ru, rs)
    <2> DEFINE w == SubSeq(s, Len(u) + 1, Len(s))
    <2>1. w \in Seq(S) /\ s = u \o w
      BY <1>3, PrefixRest
    <2> HIDE DEF w
    <2>2. r \o (u \o w) = ru \o w
      BY <2>1, ConcatAssociative
    <2>3. rs = ru \o w
      BY <2>1, <2>2
    <2> HIDE DEF ru, rs
    <2>4. IsPrefix(ru, ru \o w)
      BY <1>1, <2>1, PrefixConcat
    <2> QED
      BY <2>3, <2>4
  <1>4. ASSUME IsPrefix(ru, rs) PROVE IsPrefix(u, s)
    <2> DEFINE w == SubSeq(rs, Len(ru) + 1, Len(rs))
    <2>1. w \in Seq(S) /\ rs = ru \o w
      <3> HIDE DEF ru, rs
      <3> QED
        BY <1>1, <1>4, PrefixRest
    <2> HIDE DEF w
    <2> DEFINE uw == u \o w
    <2>2. uw \in Seq(S) /\ ru \o w = r \o uw
      <3>1. uw \in Seq(S)
        BY <2>1, ConcatProperties
      <3>2. (r \o u) \o w = r \o (u \o w)
        <4> HIDE DEF ru, rs, uw
        <4>1. w \in Seq(S)
          BY <2>1
        <4> QED
          BY <4>1, ConcatAssociative
      <3> QED
        BY <3>1, <3>2
    <2>3. r \o s = r \o uw
      BY <2>1, <2>2
    <2>4. IsPrefix(u, uw)
      BY <2>1, PrefixConcat
    <2> HIDE DEF uw
    <2>5. s = uw
      BY <2>2, <2>3, ConcatSimplifications
    <2> QED
      BY <2>4, <2>5
  <1> QED
    BY <1>2, <1>3, <1>4 DEF IsStrictPrefix

\* What is below a directory, wherever that is, is found under its path.
LEMMA LocatedUnder ==
  ASSUME NEW t \in Trees, NEW d \in Path, NEW s \in NormalPath, Resolve(t, d) \o s \in DOMAIN t
  PROVE  Located(t, d \o s) = Resolve(t, d) \o s
  <1> DEFINE R == Resolve(t, d)
             p == R \o s
             f == Front(s)
             x == Last(s)
  <1>1. Linked(t) /\ d \in Seq(Name) /\ R \in Seq(Name)
    BY TreeIs, PathIs, ResolveIs
  <1>2. /\ s \in Seq(Name) /\ s \in Path /\ f \in Seq(Name) /\ x \in Name /\ x # EmptyName
        /\ s = Append(f, x)
    BY ProperIs, PathIs
  <1>3. IsStrictPrefix(f, s)
    BY <1>2, BelowIs
  <1> HIDE DEF R, f, x
  <1>4. Clear(t, R, f)
    <2> SUFFICES ASSUME NEW u \in Path, IsPrefix(u, f) PROVE ~IsLink(t, R \o u)
      BY DEF Clear
    <2>1. u \in Seq(Name) /\ Len(u) \in Nat \ {0} /\ u # <<>>
      BY PathIs
    <2>2. IsPrefix(u, s) /\ Len(u) <= Len(f) /\ Len(f) < Len(s) /\ Len(s) \in Nat /\ Len(f) \in Nat
      BY <1>2, <1>3, <2>1, PrefixAppend, PrefixOrder
    <2>3. IsStrictPrefix(u, s)
      BY <2>1, <2>2 DEF IsStrictPrefix
    <2>4. IsStrictPrefix(R \o u, R \o s)
      BY <1>1, <1>2, <2>1, <2>3, PrefixUnder
    <2>5. R \o u \in Path
      BY <1>1, <2>1, ConcatProperties, ConcatEqualIffEmpty DEF Path
    <2> QED
      BY <2>4, <2>5, TreeIs DEF R
  <1>5. Resolve(t, d \o f) = R \o f
    BY <1>1, <1>2, <1>4, ResolveClear DEF R
  <1>6. d \o f \in Seq(Name) /\ d \o s = Append(d \o f, x) /\ R \o s = Append(R \o f, x)
    BY <1>1, <1>2, ConcatAppend
  <1> DEFINE df == d \o f
  <1>7. df \in Seq(Name) /\ d \o s = Append(df, x) /\ Resolve(t, df) = R \o f
    BY <1>5, <1>6
  <1> HIDE DEF df
  <1>8. Front(Append(df, x)) = df /\ Last(Append(df, x)) = x
    BY <1>2, <1>7, AppendIsPath
  <1>9. Located(t, Append(df, x)) = Append(R \o f, x)
    BY <1>2, <1>7, <1>8 DEF Located
  <1> QED
    BY <1>6, <1>7, <1>9 DEF R

\* k is below base, wherever that is.
Under(base, k) ==
  \E s \in NormalPath : /\ k = base \o s /\ Resolve(tree, base) \o s \in DOMAIN tree
                        /\ Located(tree, k) = Resolve(tree, base) \o s

LEMMA DescendantIs ==
  ASSUME tree \in Trees, NEW d \in Path, Last(d) # EmptyName,
         NEW k \in Descendants(tree, d) \cup Descendants(tree, Append(d, EmptyName))
  PROVE  Under(d, k)
  <1> DEFINE R == Resolve(tree, d)
             e == Append(d, EmptyName)
  <1>1. d \in Seq(Name) /\ R \in Seq(Name) /\ Front(e) = d /\ Last(e) = EmptyName
    BY TreeIs, PathIs, ResolveIs, AppendIsPath, EmptyNameIs
  <1>2. \E p \in DOMAIN tree : IsStrictPrefix(R, p) /\ k = d \o SubSeq(p, Len(R) + 1, Len(p))
    <2>1. ASSUME k \in Descendants(tree, d)
          PROVE  \E p \in DOMAIN tree : IsStrictPrefix(R, p) /\ k = d \o SubSeq(p, Len(R) + 1, Len(p))
      BY <2>1 DEF Descendants
    <2>2. ASSUME k \in Descendants(tree, e)
          PROVE  \E p \in DOMAIN tree : IsStrictPrefix(R, p) /\ k = d \o SubSeq(p, Len(R) + 1, Len(p))
      <3> HIDE DEF e
      <3> QED
        BY <1>1, <2>2 DEF Descendants
    <2> QED
      BY <2>1, <2>2
  <1> HIDE DEF R
  <1>3. PICK p \in DOMAIN tree : IsStrictPrefix(R, p) /\ k = d \o SubSeq(p, Len(R) + 1, Len(p))
    BY <1>2
  <1> DEFINE s == SubSeq(p, Len(R) + 1, Len(p))
  <1>4. p \in Seq(Proper) /\ p \in Seq(Name) /\ IsPrefix(R, p) /\ R # p
    BY <1>3, TreeIs, PathIs DEF IsStrictPrefix
  <1>5. s \in Seq(Name) /\ p = R \o s /\ s # <<>>
    BY <1>1, <1>4, PrefixRest
  <1>6. R \in Seq(Proper)
    <2>1. Len(R) <= Len(p) /\ \A i \in 1 .. Len(R) : R[i] = p[i]
      BY <1>1, <1>4, PrefixIs
    <2>2. Len(R) \in Nat /\ Len(p) \in Nat /\ \A i \in 1 .. Len(p) : p[i] \in Proper
      BY <1>1, <1>4
    <2>3. \A i \in 1 .. Len(R) : i \in 1 .. Len(p)
      BY <2>1, <2>2
    <2>4. \A i \in 1 .. Len(R) : R[i] \in Proper
      BY <2>1, <2>2, <2>3
    <2>5. R = [i \in 1 .. Len(R) |-> R[i]]
      BY <1>1
    <2> QED
      BY <2>2, <2>4, <2>5
  <1>7. s \in Seq(Proper)
    BY <1>4, <1>6, PrefixRest
  <1>8. k = d \o s /\ s \in NormalPath
    BY <1>3, <1>5, <1>7 DEF NormalPath
  <1> HIDE DEF s
  <1>9. R \o s \in DOMAIN tree
    BY <1>5
  <1>10. Located(tree, d \o s) = R \o s
    BY <1>8, <1>9, LocatedUnder DEF R
  <1> QED
    BY <1>8, <1>9, <1>10 DEF R, Under

LEMMA ModsAreNames == ModsConf \in Name /\ ModsD \in Name /\ ModsConf # EmptyName /\ ModsD # EmptyName
  <1>1. /\ <<109, 99>> \in Seq(0 .. 255) /\ Range(<<109, 99>>) = {109, 99}
        /\ <<109, 100>> \in Seq(0 .. 255) /\ Range(<<109, 100>>) = {109, 100}
    BY DEF Range
  <1> QED
    BY <1>1 DEF ModsConf, ModsD, Name, EmptyName

ConfigurationCandidates ==
  LET master == Append(Root, ModsConf)
      directory == Append(Root, ModsD)
  IN  IF master \in DOMAIN tree /\ ~tree[master].unseen /\ tree[master].type \in {"regular", "symlink"}
      THEN {master} ELSE Descendants(tree, directory)
Configured == Defining(tree, ConfigurationCandidates)

LEMMA ConfiguredAre ==
  ASSUME tree \in Trees
  PROVE  /\ IsFiniteSet(Configured)
         /\ \A k \in Configured :
                /\ k \in NormalPath /\ IsStrictPrefix(Root, k)
                /\ Located(tree, k) \in DOMAIN tree /\ ObjectAt(tree, k).type = "regular"
  <1> DEFINE master == Append(Root, ModsConf)
             directory == Append(Root, ModsD)
             candidates == ConfigurationCandidates
  <1>2. IsFiniteSet(candidates)
    <2>1. IsFiniteSet(DOMAIN tree)
      BY TreeIs
    <2>2. IsFiniteSet(Descendants(tree, directory)) /\ IsFiniteSet({master})
      BY <2>1, FiniteDescendants, FS_Singleton
    <2> QED
      BY <2>2 DEF ConfigurationCandidates
  <1>3. /\ Root \in Seq(Name) /\ Root \in Seq(Proper) /\ ModsD \in Name /\ ModsD \in Proper
        /\ directory \in Path /\ directory \in Seq(Name) /\ directory \in Seq(Proper)
        /\ Last(directory) # EmptyName
    <2>1. Root \in Seq(Name) /\ Root \in Seq(Proper) /\ ModsD \in Name /\ ModsD # EmptyName
      BY TreeIs, PathIs, ModsAreNames
    <2>2. ModsD \in Proper
      BY <2>1 DEF ModsD, Dot, DotDot, Proper
    <2>3. directory \in Path /\ Last(directory) # EmptyName
      BY <2>1, AppendIsPath
    <2>4. directory \in Seq(Proper)
      BY <2>1, <2>2
    <2> QED
      BY <2>1, <2>2, <2>3, <2>4, PathIs
  <1> HIDE DEF directory, master
  <1>4. ASSUME NEW k \in candidates
        PROVE  Located(tree, k) \in DOMAIN tree /\ k \in NormalPath /\ IsStrictPrefix(Root, k)
    <2>1. CASE k = master /\ master \in DOMAIN tree
      <3>1. Located(tree, k) \in DOMAIN tree
        BY <2>1, TreeObject
      <3>2. IsStrictPrefix(Root, k)
        BY <1>3, <2>1, ModsAreNames, BelowIs DEF master
      <3>3. k \in Seq(Proper) /\ k # <<>>
        BY <2>1, TreeIs, PathIs
      <3> QED
        BY <3>1, <3>2, <3>3 DEF NormalPath
    <2>2. CASE k \in Descendants(tree, directory)
      <3>0. PICK s \in NormalPath : /\ k = directory \o s
                                    /\ Resolve(tree, directory) \o s \in DOMAIN tree
                                    /\ Located(tree, k) = Resolve(tree, directory) \o s
        <4>1. Under(directory, k)
          BY <1>3, <2>2, DescendantIs
        <4> QED
          BY <4>1 DEF Under
      <3>1. k = directory \o s /\ Located(tree, k) \in DOMAIN tree
        BY <3>0
      <3>2. s \in Seq(Proper) /\ s \in Seq(Name) /\ s # <<>>
        BY ProperIs
      <3>3. k \in Seq(Proper) /\ k # <<>>
        BY <1>3, <3>1, <3>2, ConcatProperties, ConcatEqualIffEmpty
      <3>4. IsPrefix(directory, k) /\ k \in Seq(Name)
        BY <1>3, <3>1, <3>2, PrefixConcat
      <3>5. IsStrictPrefix(Root, k)
        BY <1>3, <3>4, BelowIs DEF directory
      <3> QED
        BY <3>1, <3>3, <3>5 DEF NormalPath
    <2> QED
      BY <2>1, <2>2 DEF ConfigurationCandidates, master, directory
  <1> HIDE DEF candidates
  <1>7. Configured \subseteq candidates /\ \A k \in Configured : ObjectAt(tree, k).type = "regular"
    BY DEF Configured, Defining, candidates
  <1>8. IsFiniteSet(Configured)
    BY <1>2, <1>7, FS_Subset
  <1> QED
    BY <1>4, <1>7, <1>8

\* The configuration files there are to be found are those that define the module.
LEMMA ConfigurationIs ==
  ASSUME tree \in Trees, ~ModsDIsLink
  PROVE  /\ Configured = Defined /\ ConfigurationCandidates = Configuration
         /\ Configuration \subseteq DOMAIN tree
         /\ Resolve(tree, Append(Root, ModsD)) = Append(Root, ModsD)
         /\ Descendants(tree, Append(Root, ModsD))
                = {p \in DOMAIN tree : IsStrictPrefix(Append(Root, ModsD), p)}
         /\ Defined \subseteq DOMAIN tree
         /\ \A p \in Defined : /\ tree[p].type = "regular" /\ IsStrictPrefix(Root, p)
                                /\ Capturable(tree[p])
  <1> DEFINE master == Append(Root, ModsConf)
             directory == Append(Root, ModsD)
             alone == /\ master \in DOMAIN tree /\ ~tree[master].unseen
                      /\ tree[master].type \in {"regular", "symlink"}
             candidates == ConfigurationCandidates
             files == IF alone THEN {master}
                      ELSE {p \in DOMAIN tree : IsStrictPrefix(directory, p)}
  <1>0. Root \in Path /\ Root \in Seq(Name) /\ ModsConf \in Name /\ ModsD \in Name
    BY TreeIs, PathIs, ModsAreNames
  <1>2. directory \in Path /\ Last(directory) # EmptyName
    BY <1>0, AppendIsPath, ModsAreNames
  <1>3. Resolve(tree, directory) = directory
    <2>1. ASSUME NEW q \in Path, IsPrefix(q, directory) PROVE ~IsLink(tree, q)
      <3>1. q \in Seq(Name)
        BY PathIs
      <3>2. CASE q = directory
        BY <3>2 DEF ModsDIsLink
      <3>3. CASE q = Root
        BY <3>3, TreeIs DEF IsLink
      <3>4. CASE q # directory /\ q # Root
        <4>1. IsStrictPrefix(q, Root)
          BY <1>0, <2>1, <3>1, <3>4, PrefixAppend DEF IsStrictPrefix
        <4> QED
          BY <4>1, TreeIs
      <3> QED
        BY <3>2, <3>3, <3>4
    <2> HIDE DEF directory
    <2> QED
      BY <1>2, <2>1, StraightOn
  <1>4. Descendants(tree, directory) = {p \in DOMAIN tree : IsStrictPrefix(directory, p)}
    <2> HIDE DEF directory
    <2> QED
      BY <1>2, <1>3, DescendantsAre
  <1>5. candidates = files /\ files \subseteq DOMAIN tree
    BY <1>4 DEF ConfigurationCandidates
  <1>6. /\ Defined = {p \in files : tree[p].type = "regular" /\ tree[p].defines /\ ~tree[p].unreadable}
        /\ Configuration = files
    BY DEF Defined, Configuration
  <1>7. ASSUME NEW p \in files PROVE IsStrictPrefix(Root, p)
    <2>1. p \in Seq(Name)
      BY <1>5, TreeIs, PathIs
    <2>2. p = master \/ IsPrefix(directory, p)
      BY DEF IsStrictPrefix
    <2> QED
      BY <1>0, <2>1, <2>2, BelowIs
  <1> HIDE DEF candidates, files
  <1>8. Configured = Defined
    <2>1. \A p \in files : ObjectAt(tree, p) = tree[p]
      BY <1>5, TreeObject
    <2> QED
      BY <1>5, <1>6, <2>1 DEF Defining, Configured, candidates
  <1>9. \A p \in Defined : Capturable(tree[p])
    BY <1>5, <1>6, TreeIs DEF Capturable
  <1> QED
    BY <1>3, <1>4, <1>5, <1>6, <1>7, <1>8, <1>9 DEF candidates

-----------------------------------------------------------------------------
(* What a DataPath means.                                                  *)

Data == Normalized(Root, given)
Usable == given.names # <<>> /\ ~Escapes(Root, given)

LEMMA WithinRoot ==
  ASSUME RootAssumption, NEW d \in Normal
  PROVE  is_within_root(Root, d) <=> IsPrefix(Root, Bare(d))
  <1>1. /\ Root \in Path /\ Root \in Seq(Name) /\ d \in Seq(Name) /\ Bare(d) \in Seq(Proper)
        /\ Bare(d) \in Seq(Name) /\ (d = Bare(d) \/ d = Append(Bare(d), EmptyName))
        /\ Len(Root) \in Nat \ {0} /\ Last(Root) # EmptyName
    BY BareIs, ProperIs, PathIs
  <1> DEFINE rest == SubSeq(d, Len(Root) + 1, Len(d))
  <1>2. ASSUME ~IsPrefix(Root, d) PROVE ~is_within_root(Root, d)
    BY <1>1, <1>2, RelativeIs DEF is_within_root
  <1>3. ASSUME IsPrefix(Root, d) PROVE is_within_root(Root, d)
    <2>1. rest \in Seq(Name) /\ d = Root \o rest /\ lexically_relative(d, Root) =
              IF rest \in {<<>>, <<EmptyName>>} THEN <<Dot>> ELSE rest
      <3>1. rest \in Seq(Name) /\ d = Root \o rest
        BY <1>1, <1>3, PrefixRest
      <3>2. lexically_relative(d, Root) = IF rest \in {<<>>, <<EmptyName>>} THEN <<Dot>> ELSE rest
        BY <1>1, <1>3, RelativeIs
      <3> QED
        BY <3>1, <3>2
    <2>2. Head(<<Dot>>) # DotDot
      BY DEF Dot, DotDot
    <2>3. ASSUME rest # <<>> PROVE Head(rest) # DotDot
      <3> HIDE DEF rest
      <3>1. Len(rest) \in Nat \ {0} /\ Head(rest) = rest[1]
        BY <2>1, <2>3, EmptySeq
      <3> DEFINE k == Len(Root) + 1
      <3>2. k \in 1 .. Len(d) /\ d[k] = rest[1]
        <4>1. /\ Len(d) = Len(Root) + Len(rest)
              /\ \A i \in 1 .. Len(Root) + Len(rest) :
                     d[i] = IF i <= Len(Root) THEN Root[i] ELSE rest[i - Len(Root)]
          BY <1>1, <2>1, ConcatProperties
        <4>2. k \in 1 .. Len(Root) + Len(rest) /\ ~(k <= Len(Root)) /\ k - Len(Root) = 1
          BY <1>1, <3>1
        <4> QED
          BY <4>1, <4>2
      <3> HIDE DEF k
      <3>3. d[k] \in Proper \cup {EmptyName}
        <4>1. CASE d = Bare(d)
          BY <1>1, <3>2, <4>1
        <4>2. CASE d = Append(Bare(d), EmptyName)
          BY <1>1, <3>2, <4>2
        <4> QED
          BY <1>1, <4>1, <4>2
      <3>4. DotDot \notin Proper /\ DotDot # EmptyName
        BY DEF Proper, EmptyName, DotDot
      <3> QED
        BY <3>1, <3>2, <3>3, <3>4
    <2> HIDE DEF rest
    <2> QED
      BY <2>1, <2>2, <2>3 DEF is_within_root
  <1>4. IsPrefix(Root, d) <=> IsPrefix(Root, Bare(d))
    <2>1. CASE d = Bare(d)
      BY <2>1
    <2>2. CASE d = Append(Bare(d), EmptyName)
      <3>1. Root # d
        BY <1>1, <2>2, AppendIsPath, EmptyNameIs
      <3> QED
        BY <1>1, <2>2, <3>1, PrefixAppend, EmptyNameIs
    <2> QED
      BY <1>1, <2>1, <2>2
  <1> QED
    BY <1>2, <1>3, <1>4

LEMMA GivenIs ==
  ASSUME given \in DataPaths
  PROVE  /\ Data \in Seq(Name)
         /\ Usable <=> given.place # <<>>
         /\ given.place # <<>> =>
                /\ given.place \in Path /\ given.place \in Seq(Proper)
                /\ Last(given.place) # EmptyName /\ IsPrefix(Root, given.place)
                /\ given.slash \in BOOLEAN
                /\ Data = IF given.slash THEN Append(given.place, EmptyName) ELSE given.place
  <1> DEFINE bare == Bare(Data)
  <1>1. /\ given.names \in Seq(Name)
        /\ given.place = IF given.names # <<>> /\ IsPrefix(Root, bare) THEN bare ELSE <<>>
        /\ given.slash = (Data # bare)
    BY DataPathsAssumption DEF Data, Bare
  <1>2. Data \in Normal
    <2>1. Root \in Seq(Name)
      BY RootAssumption, ProperIs
    <2>2. Root \o given.names \in Seq(Name)
      BY <1>1, <2>1, ConcatProperties
    <2> QED
      BY <1>1, <2>2, NormalIs DEF Data, Normalized
  <1>3. Usable <=> given.names # <<>> /\ IsPrefix(Root, bare)
    BY <1>2, RootAssumption, WithinRoot DEF Usable, Escapes, Data
  <1>4. IsPrefix(Root, <<>>) => FALSE
    <2>1. Root \in Seq(Name) /\ Len(Root) \in Nat \ {0}
      BY RootAssumption, ProperIs, PathIs
    <2> QED
      BY <2>1 DEF IsPrefix
  <1>5. /\ Data \in Seq(Name) /\ bare \in Seq(Proper)
        /\ Data = <<>> \/ bare \in NormalPath
        /\ Data = bare \/ Data = Append(bare, EmptyName)
        /\ Data # bare <=> (Data # <<>> /\ Last(Data) = EmptyName)
    BY <1>2, BareIs
  <1>6. bare = <<>> => Data = <<>> \/ bare \in NormalPath
    BY <1>5
  <1> HIDE DEF bare
  <1>7. given.place # <<>> => given.place = bare /\ IsPrefix(Root, bare) /\ bare # <<>>
    BY <1>1, <1>4
  <1>8. given.place # <<>> => bare \in NormalPath
    BY <1>5, <1>7 DEF NormalPath
  <1> QED
    BY <1>1, <1>3, <1>4, <1>5, <1>7, <1>8, ProperIs

Present ==
  /\ given.place \in DOMAIN tree /\ ~tree[given.place].unseen
  /\ given.slash => tree[given.place].type = "directory"

\* Without a link on the way the place is where the DataPath leads.
LEMMA DataLeads ==
  ASSUME tree \in Trees, given \in DataPaths, NoLinkOnTheWay, given.place # <<>>
  PROVE  /\ Located(tree, Data) = given.place
         /\ Exists(tree, Data) <=> Present
         /\ given.slash => Resolve(tree, given.place) = given.place
         /\ IsDirectory(tree, given.place) => Resolve(tree, given.place) = given.place
         /\ Resolve(tree, Front(given.place)) = Front(given.place)
  <1> DEFINE d == given.place
  <1>1. /\ d \in Path /\ d \in Seq(Name) /\ Last(d) # EmptyName
        /\ Data = IF given.slash THEN Append(d, EmptyName) ELSE d
        /\ given.slash \in BOOLEAN
        /\ Front(d) \in Seq(Name) /\ Last(d) \in Name /\ d = Append(Front(d), Last(d))
        /\ Len(Front(d)) = Len(d) - 1 /\ Len(d) \in Nat
    BY GivenIs, PathIs
  <1>2. ASSUME NEW q \in Path, IsPrefix(q, d), q # d \/ given.slash PROVE ~IsLink(tree, q)
    BY <1>2 DEF NoLinkOnTheWay, IsLink
  <1>3. Resolve(tree, Front(d)) = Front(d)
    <2>1. ASSUME NEW q \in Path, IsPrefix(q, Front(d)) PROVE ~IsLink(tree, q)
      <3>1. q \in Seq(Name)
        BY PathIs
      <3> DEFINE f == Front(d)
                 x == Last(d)
      <3>a. f \in Seq(Name) /\ x \in Name /\ d = Append(f, x) /\ IsPrefix(q, f)
        BY <1>1, <2>1
      <3> HIDE DEF f, x, d
      <3>b. IsPrefix(q, Append(f, x))
        BY <3>1, <3>a, PrefixAppend
      <3>c. Len(q) <= Len(f) /\ Len(q) \in Nat
        BY <3>1, <3>a, PrefixOrder
      <3>2. IsPrefix(q, d) /\ Len(q) <= Len(Front(d)) /\ Len(q) \in Nat
        BY <3>a, <3>b, <3>c DEF f
      <3>3. q # d
        BY <1>1, <3>2
      <3> QED
        BY <1>2, <3>2, <3>3
    <2> QED
      BY <1>1, <2>1, ResolveSame, TreeIs
  <1>4. ASSUME ~IsLink(tree, d) PROVE Resolve(tree, d) = d
    <2>1. \A q \in Path : IsPrefix(q, d) => ~IsLink(tree, q)
      BY <1>2, <1>4
    <2> HIDE DEF d
    <2> QED
      BY <1>1, <2>1, StraightOn
  <1>5. given.slash => ~IsLink(tree, d)
    BY <1>1, <1>2, PrefixOrder
  <1>6. IsDirectory(tree, d) => ~IsLink(tree, d)
    BY DEF IsDirectory, IsLink
  <1>7. Located(tree, Data) = d /\ (Last(Data) = EmptyName <=> given.slash)
    <2>1. CASE given.slash
      <3>1. Front(Data) = d /\ Last(Data) = EmptyName
        BY <1>1, <2>1, AppendIsPath, EmptyNameIs
      <3> QED
        BY <1>4, <1>5, <2>1, <3>1 DEF Located
    <2>2. CASE ~given.slash
      <3>1. Data = d
        BY <1>1, <2>2
      <3> QED
        BY <1>1, <1>3, <2>2, <3>1 DEF Located
    <2> QED
      BY <1>1, <2>1, <2>2
  <1>8. Exists(tree, Data) <=> Present
    BY <1>7 DEF Exists, Present
  <1> QED
    BY <1>3, <1>4, <1>5, <1>6, <1>7, <1>8

LEMMA BesideIs ==
  ASSUME tree \in Trees, given \in DataPaths, given.place # <<>>, ~Present
  PROVE  LET front == Front(given.place)
         IN  /\ given.place # Root /\ front \in Path /\ Last(front) # EmptyName
             /\ IsPrefix(Root, front)
             /\ \A p \in DOMAIN tree :
                    (Len(p) = Len(given.place) /\ Front(p) = front) <=>
                    (IsStrictPrefix(front, p) /\ Len(p) = Len(front) + 1)
  <1> DEFINE d == given.place
             front == Front(d)
  <1>1. /\ d \in Path /\ d \in Seq(Name) /\ d \in Seq(Proper) /\ IsPrefix(Root, d)
        /\ front \in Seq(Name) /\ Last(d) \in Name /\ d = Append(front, Last(d))
        /\ Len(front) = Len(d) - 1 /\ Len(d) \in Nat \ {0}
    BY GivenIs, PathIs
  <1>2. Root \in Path /\ Root \in Seq(Name) /\ Root \in DOMAIN tree /\ tree[Root].type = "directory"
        /\ ~tree[Root].unseen
    BY TreeIs, PathIs
  <1>3. d # Root
    BY <1>2 DEF Present
  <1> HIDE DEF front
  <1>4. IsPrefix(Root, front)
    BY <1>1, <1>2, <1>3, PrefixAppend
  <1>5. front \in Path
    <2>1. Len(Root) \in Nat \ {0} /\ Len(Root) <= Len(front)
      BY <1>1, <1>2, <1>4, PathIs, PrefixOrder
    <2>2. front \in Seq(Name) /\ Len(front) # 0
      BY <1>1, <2>1
    <2>3. front # <<>>
      BY <2>2
    <2> QED
      BY <2>2, <2>3 DEF Path
  <1>6. Last(front) # EmptyName
    <2>1. front \in Seq(Proper)
      <3>1. d # <<>>
        BY <1>1, PathIs
      <3> QED
        BY <1>1, <3>1, FrontIs DEF front
    <2>2. Len(front) \in 1 .. Len(front)
      BY <1>5, PathIs
    <2>3. Last(front) \in Proper
      BY <2>1, <2>2 DEF Last
    <2> QED
      BY <2>3, ProperIs
  <1>7. ASSUME NEW p \in DOMAIN tree
        PROVE  (Len(p) = Len(d) /\ Front(p) = front) <=>
               (IsStrictPrefix(front, p) /\ Len(p) = Len(front) + 1)
    <2>1. /\ p \in Path /\ p \in Seq(Name) /\ p = Append(Front(p), Last(p)) /\ Len(p) \in Nat \ {0}
          /\ Front(p) \in Seq(Name) /\ Last(p) \in Name /\ Len(Front(p)) = Len(p) - 1
      BY TreeIs, PathIs
    <2>2. ASSUME Len(p) = Len(d), Front(p) = front
          PROVE  IsStrictPrefix(front, p) /\ Len(p) = Len(front) + 1
      <3> DEFINE x == Last(p)
      <3>1. p = Append(front, x) /\ x \in Name /\ front \in Seq(Name)
        BY <1>1, <2>1, <2>2
      <3> HIDE DEF x
      <3>2. IsStrictPrefix(front, Append(front, x))
        BY <3>1, BelowIs
      <3>3. Len(p) = Len(front) + 1
        BY <1>1, <2>2
      <3> QED
        BY <3>1, <3>2, <3>3
    <2>3. ASSUME IsStrictPrefix(front, p), Len(p) = Len(front) + 1
          PROVE  Len(p) = Len(d) /\ Front(p) = front
      <3>1. IsPrefix(front, p) /\ front # p
        BY <2>3 DEF IsStrictPrefix
      <3>2. IsPrefix(front, Front(p))
        BY <1>1, <2>1, <3>1, PrefixAppend
      <3>3. Len(front) = Len(Front(p)) /\ Len(p) = Len(d)
        BY <1>1, <2>1, <2>3
      <3> QED
        BY <1>1, <2>1, <3>2, <3>3, PrefixOrder
    <2> QED
      BY <2>2, <2>3
  <1> QED
    BY <1>3, <1>4, <1>5, <1>6, <1>7 DEF front

LEMMA MeantIs ==
  ASSUME tree \in Trees, given \in DataPaths
  PROVE  /\ Meant \subseteq DOMAIN tree
         /\ given.place = <<>> => Meant = {}
         /\ given.place # <<>> => /\ Present => given.place \in Meant
                                  /\ given.place \in Meant => Present \/ ~given.slash
         /\ given.place # Root => \A p \in Meant : IsStrictPrefix(Root, p)
  <1> DEFINE d == given.place
  <1>1. Meant \subseteq DOMAIN tree /\ (d = <<>> => Meant = {})
    BY DEF Meant
  <1>2. Root \in Path /\ Root \in Seq(Name)
    BY TreeIs, PathIs
  <1>3. ASSUME d # <<>> PROVE (Present => d \in Meant) /\ (d \in Meant => Present \/ ~given.slash)
    <2>1. d \in Seq(Name)
      BY <1>3, GivenIs, PathIs
    <2>2. IsPrefix(d, d)
      BY <2>1, PrefixOrder
    <2> QED
      BY <1>3, <2>2 DEF Meant, Present
  <1>4. ASSUME d # Root, NEW p \in Meant PROVE IsStrictPrefix(Root, p)
    <2>1. d # <<>> /\ p \in DOMAIN tree /\ p \in Path /\ p \in Seq(Name)
      BY <1>1, TreeIs, PathIs
    <2>2. d \in Seq(Name) /\ IsPrefix(Root, d)
      BY <2>1, GivenIs, PathIs
    <2>3. CASE Present
      <3>1. IsPrefix(d, p)
        BY <2>1, <2>3 DEF Meant, Present
      <3>2. IsPrefix(Root, p) /\ Len(Root) < Len(d) /\ Len(d) <= Len(p)
        BY <1>2, <1>4, <2>1, <2>2, <3>1, PrefixOrder DEF IsStrictPrefix
      <3>3. Len(Root) \in Nat /\ Len(d) \in Nat /\ Len(p) \in Nat
        BY <1>2, <2>1, <2>2
      <3>4. Root # p
        BY <3>2, <3>3
      <3> QED
        BY <3>2, <3>4 DEF IsStrictPrefix
    <2>4. CASE ~Present
      <3>1. Len(p) = Len(d) /\ Front(p) = Front(d)
        BY <2>1, <2>4 DEF Meant, Present
      <3>2. IsPrefix(Root, Front(p))
        BY <2>1, <2>4, <3>1, BesideIs
      <3>3. Front(p) \in Seq(Name) /\ Last(p) \in Name /\ p = Append(Front(p), Last(p))
        BY <2>1, PathIs
      <3> DEFINE f == Front(p)
                 x == Last(p)
      <3>4. f \in Seq(Name) /\ x \in Name /\ p = Append(f, x) /\ IsPrefix(Root, f)
        BY <3>2, <3>3
      <3> HIDE DEF f, x
      <3>5. IsPrefix(Root, Append(f, x)) /\ Len(Root) <= Len(f) /\ Len(Append(f, x)) = Len(f) + 1
        BY <1>2, <3>4, PrefixAppend, PrefixOrder, AppendIsPath
      <3>6. Len(Root) \in Nat /\ Len(f) \in Nat
        BY <1>2, <3>4
      <3>7. Root # Append(f, x)
        BY <3>5, <3>6
      <3> QED
        BY <3>4, <3>5, <3>7 DEF IsStrictPrefix
    <2> QED
      BY <2>3, <2>4
  <1> QED
    BY <1>1, <1>3, <1>4

\* All there is to be found, whether or not it can be.
Beside(data) ==
  LET parent == Resolve(tree, Front(data))
  IN  IF Last(data) # EmptyName /\ IsDirectory(tree, parent)
      THEN {p \in Children(tree, Front(data)) : IsPrefix(Last(data), Last(p))} ELSE {}
There(data) ==
  IF ~Exists(tree, data) THEN Beside(data)
  ELSE {data} \cup IF ObjectAt(tree, data).type = "directory" THEN Descendants(tree, data) ELSE {}

\* It is what is meant, the one at the place under the path that was given.
LEMMA FoundIs ==
  ASSUME tree \in Trees, given \in DataPaths, NoLinkOnTheWay, given.place # <<>>
  PROVE  There(Data) =
             (Meant \ {given.place}) \cup (IF given.place \in Meant THEN {Data} ELSE {})
  <1> DEFINE d == given.place
             below == {p \in DOMAIN tree : IsStrictPrefix(d, p)}
  <1>1. /\ d \in Path /\ d \in Seq(Name) /\ Last(d) # EmptyName
        /\ Data = IF given.slash THEN Append(d, EmptyName) ELSE d
        /\ given.slash \in BOOLEAN /\ IsPrefix(Root, d)
    BY GivenIs, PathIs
  <1>2. /\ Located(tree, Data) = d /\ (Exists(tree, Data) <=> Present)
        /\ (given.slash \/ IsDirectory(tree, d)) => Resolve(tree, d) = d
        /\ Resolve(tree, Front(d)) = Front(d)
    BY DataLeads
  <1>3. CASE Present
    <2>1. Meant \ {d} = below
      BY <1>3 DEF Meant, Present, IsStrictPrefix
    <2>2. CASE IsDirectory(tree, d)
      <3>1. Descendants(tree, d) = below /\ Descendants(tree, Append(d, EmptyName)) = below
        <4> HIDE DEF d
        <4> QED
          BY <1>1, <1>2, <2>2, DescendantsAre
      <3>2. Descendants(tree, Data) = below
        BY <1>1, <3>1
      <3> QED
        BY <1>2, <1>3, <2>1, <2>2, <3>2, MeantIs DEF There, ObjectAt, IsDirectory
    <2>3. CASE ~IsDirectory(tree, d)
      <3>1. below = {}
        BY <1>1, <2>3, TreeIs
      <3> QED
        BY <1>2, <1>3, <2>1, <2>3, <3>1, MeantIs DEF There, ObjectAt, IsDirectory, Present
    <2> QED
      BY <2>2, <2>3
  <1>4. CASE ~Present
    <2>2. There(Data) = Beside(Data)
      BY <1>2, <1>4 DEF There
    <2>3. CASE given.slash
      <3>1. Last(Data) = EmptyName
        BY <1>1, <2>3, AppendIsPath, EmptyNameIs
      <3>2. Beside(Data) = {}
        BY <3>1 DEF Beside
      <3>3. Meant = {}
        BY <1>4, <2>3 DEF Meant, Present
      <3> QED
        BY <1>4, <2>2, <3>2, <3>3
    <2>4. CASE ~given.slash
      <3> DEFINE front == Front(d)
      <3>1. Data = d
        BY <1>1, <2>4
      <3>2. /\ front \in Path /\ Last(front) # EmptyName /\ IsPrefix(Root, front)
            /\ \A p \in DOMAIN tree :
                   (Len(p) = Len(d) /\ Front(p) = front) <=>
                   (IsStrictPrefix(front, p) /\ Len(p) = Len(front) + 1)
        BY <1>4, BesideIs
      <3>3. Meant = {p \in DOMAIN tree : Len(p) = Len(d) /\ Front(p) = front /\ IsPrefix(Last(d), Last(p))}
        BY <1>4, <2>4 DEF Meant, Present
      <3> HIDE DEF front
      <3>4. CASE IsDirectory(tree, front)
        <4>1. Descendants(tree, front) = {p \in DOMAIN tree : IsStrictPrefix(front, p)}
          BY <1>2, <3>2, DescendantsAre DEF front
        <4>2. Children(tree, front) = {p \in DOMAIN tree : Len(p) = Len(d) /\ Front(p) = front}
          BY <3>2, <4>1 DEF Children
        <4>3. Beside(Data) = {p \in Children(tree, front) : IsPrefix(Last(d), Last(p))}
          BY <1>1, <1>2, <3>1, <3>4 DEF Beside, front
        <4> QED
          BY <2>2, <3>1, <3>3, <4>2, <4>3
      <3>5. CASE ~IsDirectory(tree, front)
        <4>1. Beside(Data) = {}
          BY <1>2, <3>1, <3>5 DEF Beside, front
        <4>2. \A p \in DOMAIN tree : ~IsStrictPrefix(front, p)
          BY <3>2, <3>5, TreeIs
        <4>3. Meant = {}
          BY <3>2, <3>3, <4>2
        <4> QED
          BY <1>4, <2>2, <4>1, <4>3
      <3> QED
        BY <3>4, <3>5
    <2> QED
      BY <1>1, <2>3, <2>4
  <1> QED
    BY <1>3, <1>4

\* The paths below the root, without and with a "/" at the end.
LEMMA RelativePath ==
  ASSUME tree \in Trees, NEW b \in NormalPath, IsStrictPrefix(Root, b)
  PROVE  LET r == Below(b)
         IN  /\ r \in Path /\ r \in Seq(Proper) /\ b = Root \o r /\ Last(r) # EmptyName
             /\ lexically_relative(b, Root) = r
             /\ lexically_relative(Append(b, EmptyName), Root) = Append(r, EmptyName)
  <1> DEFINE r == Below(b)
             e == Append(b, EmptyName)
             re == Append(r, EmptyName)
  <1>1. /\ Root \in Seq(Name) /\ Root \in Seq(Proper) /\ b \in Seq(Name) /\ b \in Seq(Proper)
        /\ Last(b) # EmptyName /\ IsPrefix(Root, b) /\ Root # b /\ EmptyName \in Name
    BY TreeIs, PathIs, ProperIs, EmptyNameIs DEF IsStrictPrefix
  <1>2. r \in Seq(Name) /\ b = Root \o r /\ r # <<>> /\ Last(r) = Last(b)
    BY <1>1, PrefixRest DEF Below
  <1>3. r \in Seq(Proper)
    BY <1>1, PrefixRest DEF Below
  <1>4. r \in Path
    BY <1>2 DEF Path
  <1> HIDE DEF r
  <1>5. lexically_relative(b, Root) = r
    <2>1. lexically_relative(b, Root) = IF r \in {<<>>, <<EmptyName>>} THEN <<Dot>> ELSE r
      BY <1>1, RelativeIs DEF Below, r
    <2>2. Last(<<EmptyName>>) = EmptyName
      BY DEF Last
    <2> QED
      BY <1>1, <1>2, <2>1, <2>2
  <1>6. /\ re \in Seq(Name) /\ Last(re) = EmptyName /\ Front(re) = r /\ Len(re) = Len(r) + 1
        /\ e \in Seq(Name) /\ e = Root \o re
    <2>1. re \in Path /\ Last(re) = EmptyName /\ Front(re) = r /\ Len(re) = Len(r) + 1
      BY <1>1, <1>2, AppendIsPath
    <2>2. e \in Path
      BY <1>1, AppendIsPath
    <2>3. re \in Seq(Name) /\ e \in Seq(Name)
      BY <2>1, <2>2, PathIs
    <2>4. Root \o Append(r, EmptyName) = Append(Root \o r, EmptyName)
      BY <1>1, <1>2, ConcatAppend
    <2> QED
      BY <1>2, <2>1, <2>3, <2>4
  <1> HIDE DEF e, re
  <1>7. IsPrefix(Root, e) /\ SubSeq(e, Len(Root) + 1, Len(e)) = re
    <2> DEFINE w == Root \o re
    <2>0. Root \in Seq(Name) /\ re \in Seq(Name)
      BY <1>1, <1>6
    <2>1. IsPrefix(Root, w) /\ SubSeq(w, Len(Root) + 1, Len(w)) = re
      BY <2>0, PrefixConcat
    <2>2. w = e
      BY <1>6
    <2> HIDE DEF w
    <2> QED
      BY <2>1, <2>2
  <1>8. re # <<>> /\ re # <<EmptyName>>
    <2>1. Len(r) \in Nat \ {0}
      BY <1>4, PathIs
    <2>2. Len(<<EmptyName>>) = 1 /\ Len(<<>>) = 0
      OBVIOUS
    <2> DEFINE l == Len(re)
    <2>3. l = Len(r) + 1
      BY <1>6
    <2>4. l # 0 /\ l # 1
      BY <2>1, <2>3
    <2> QED
      BY <2>2, <2>4
  <1>9. lexically_relative(e, Root) = re
    <2>1. lexically_relative(e, Root) = IF re \in {<<>>, <<EmptyName>>} THEN <<Dot>> ELSE re
      BY <1>1, <1>6, <1>7, RelativeIs
    <2> QED
      BY <1>8, <2>1
  <1> QED
    BY <1>1, <1>2, <1>3, <1>4, <1>5, <1>9 DEF r, e, re

Found == IF Usable THEN There(Data) ELSE {}
Candidates == Configured \cup Found

LEMMA PlaceIs ==
  ASSUME tree \in Trees, given \in DataPaths, given.place # <<>>
  PROVE  /\ given.place \in NormalPath
         /\ Located(tree, Root) = Root
         /\ given.place # Root => /\ IsStrictPrefix(Root, given.place)
                                  /\ Front(given.place) \in NormalPath
                                  /\ IsPrefix(Root, Front(given.place))
         /\ given.slash => Front(Data) = given.place /\ Last(Data) = EmptyName /\ Data # given.place
         /\ ~given.slash => Data = given.place /\ Last(Data) # EmptyName
         /\ Bare(Data) = given.place
  <1> DEFINE d == given.place
             front == Front(d)
  <1>1. /\ d \in Path /\ d \in Seq(Name) /\ d \in Seq(Proper) /\ IsPrefix(Root, d) /\ d # <<>>
        /\ Last(d) # EmptyName
        /\ front \in Seq(Name) /\ Last(d) \in Name /\ d = Append(front, Last(d))
        /\ Len(front) = Len(d) - 1 /\ Len(d) \in Nat \ {0}
        /\ given.slash \in BOOLEAN
        /\ Data = IF given.slash THEN Append(d, EmptyName) ELSE d
    BY GivenIs, PathIs
  <1>2. Root \in Path /\ Root \in Seq(Name) /\ Root \in DOMAIN tree /\ Len(Root) \in Nat \ {0}
    BY TreeIs, PathIs
  <1> HIDE DEF front, d
  <1>3. ASSUME d # Root PROVE IsStrictPrefix(Root, d) /\ front \in NormalPath /\ IsPrefix(Root, front)
    <2>1. IsPrefix(Root, front)
      BY <1>1, <1>2, <1>3, PrefixAppend
    <2>2. front \in Seq(Proper)
      <3>1. d \in Seq(Proper) /\ d # <<>>
        BY <1>1
      <3> QED
        BY <3>1, FrontIs DEF front
    <2>3. front # <<>>
      <3>1. Len(Root) <= Len(front) /\ Len(front) \in Nat
        BY <1>1, <1>2, <2>1, PrefixOrder
      <3>2. Len(front) # 0
        BY <1>2, <3>1
      <3> QED
        BY <3>2
    <2> QED
      BY <1>1, <1>3, <2>1, <2>2, <2>3 DEF IsStrictPrefix, NormalPath
  <1>4. /\ Front(Append(d, EmptyName)) = d /\ Last(Append(d, EmptyName)) = EmptyName
        /\ Append(d, EmptyName) \in Path /\ Len(Append(d, EmptyName)) = Len(d) + 1
    BY <1>1, AppendIsPath, EmptyNameIs
  <1>5. Append(d, EmptyName) # d /\ Append(d, EmptyName) # <<>>
    <2>1. Append(d, EmptyName) # d
      BY <1>1, <1>4
    <2>2. Append(d, EmptyName) # <<>>
      BY <1>4, PathIs
    <2> QED
      BY <2>1, <2>2
  <1>6. Bare(Data) = d
    BY <1>1, <1>4, <1>5 DEF Bare
  <1>7. d \in NormalPath
    BY <1>1 DEF NormalPath
  <1>8. Located(tree, Root) = Root
    BY <1>2, TreeObject
  <1> QED
    BY <1>1, <1>3, <1>4, <1>5, <1>6, <1>7, <1>8 DEF d, front

\* What is found: the one at the place, what is below it if it is a directory, or
\* what is beside it.
LEMMA FoundAre ==
  ASSUME tree \in Trees, given \in DataPaths, given.place # <<>>, NEW k \in Found
  PROVE  \/ k = Data /\ Exists(tree, Data)
         \/ /\ Exists(tree, Data) /\ ObjectAt(tree, Data).type = "directory"
            /\ Under(given.place, k)
         \/ ~Exists(tree, Data) /\ given.place # Root /\ Under(Front(given.place), k)
  <1> DEFINE d == given.place
  <1>1. k \in There(Data)
    BY DEF Found
  <1>2. d \in NormalPath /\ d \in Path /\ Last(d) # EmptyName
    BY PlaceIs, ProperIs, GivenIs
  <1>3. given.slash \in BOOLEAN /\ Data = IF given.slash THEN Append(d, EmptyName) ELSE d
    BY GivenIs
  <1>4. CASE Exists(tree, Data) /\ k # Data
    <2>1. ObjectAt(tree, Data).type = "directory" /\ k \in Descendants(tree, Data)
      BY <1>1, <1>4 DEF There
    <2>2. k \in Descendants(tree, d) \cup Descendants(tree, Append(d, EmptyName))
      BY <1>3, <2>1
    <2>3. Under(d, k)
      <3> HIDE DEF d
      <3> QED
        BY <1>2, <2>2, DescendantIs
    <2> QED
      BY <1>4, <2>1, <2>3
  <1>5. CASE ~Exists(tree, Data)
    <2>1. Last(Data) # EmptyName /\ k \in Children(tree, Front(Data))
      BY <1>1, <1>5 DEF There, Beside
    <2>2. ~given.slash
      BY <1>3, <2>1, PlaceIs
    <2>3. Data = d /\ Last(Data) # EmptyName
      BY <2>2, PlaceIs
    <2>4. d # Root
      <3> SUFFICES ASSUME d = Root PROVE FALSE
        OBVIOUS
      <3>1. Located(tree, Data) = Root /\ Root \in DOMAIN tree
        BY <2>3, PlaceIs, TreeIs
      <3>2. ~tree[Root].unseen
        BY TreeIs
      <3> QED
        BY <1>5, <2>3, <3>1, <3>2 DEF Exists
    <2> DEFINE front == Front(d)
    <2>5. front \in NormalPath
      BY <2>4, PlaceIs
    <2>6. front \in Path /\ Last(front) # EmptyName
      BY <2>5, ProperIs
    <2>7. k \in Descendants(tree, front)
      BY <2>1, <2>3 DEF Children
    <2>8. Under(front, k)
      <3> HIDE DEF front
      <3> QED
        BY <2>6, <2>7, DescendantIs
    <2> QED
      BY <1>5, <2>4, <2>8
  <1> QED
    BY <1>1, <1>4, <1>5 DEF There

LEMMA UnderIs ==
  ASSUME NEW base \in NormalPath, NEW k, Under(base, k)
  PROVE  k \in NormalPath /\ IsStrictPrefix(base, k) /\ Located(tree, k) \in DOMAIN tree
  <1>1. PICK s \in NormalPath : /\ k = base \o s /\ Resolve(tree, base) \o s \in DOMAIN tree
                                /\ Located(tree, k) = Resolve(tree, base) \o s
    BY DEF Under
  <1>2. base \in Seq(Proper) /\ s \in Seq(Proper) /\ s # <<>>
    BY ProperIs
  <1> DEFINE w == base \o s
  <1>3. w \in Seq(Proper) /\ IsStrictPrefix(base, w)
    BY <1>2, PrefixConcat
  <1>4. w # <<>>
    BY <1>2, ConcatEqualIffEmpty, ConcatEmptySeq
  <1>5. k = w
    BY <1>1
  <1> HIDE DEF w
  <1> QED
    BY <1>1, <1>3, <1>4, <1>5 DEF NormalPath

\* A candidate is below the root, or it is the root itself; only what was given may have a
\* "/" at its end, and is a directory then; no two are the same but for that.
LEMMA Lawful ==
  ASSUME tree \in Trees, given \in DataPaths
  PROVE  /\ IsFiniteSet(Candidates)
         /\ \A k \in Candidates :
                /\ Bare(k) \in NormalPath /\ IsPrefix(Root, Bare(k))
                /\ Bare(k) = Root => k = Data /\ given.place = Root
                /\ Located(tree, k) \in DOMAIN tree
                /\ k # Bare(k) =>
                       /\ k = Append(Bare(k), EmptyName) /\ k = Data /\ Exists(tree, Data)
                       /\ ObjectAt(tree, k).type = "directory"
         /\ \A k, l \in Candidates : Bare(k) = Bare(l) => k = l
  <1> DEFINE d == given.place
             Law(k) == /\ Bare(k) \in NormalPath /\ IsPrefix(Root, Bare(k))
                       /\ Bare(k) = Root => k = Data /\ given.place = Root
                       /\ Located(tree, k) \in DOMAIN tree
                       /\ k # Bare(k) =>
                              /\ k = Append(Bare(k), EmptyName) /\ k = Data /\ Exists(tree, Data)
                              /\ ObjectAt(tree, k).type = "directory"
  <1>1. Usable <=> d # <<>>
    BY GivenIs
  <1>2. ASSUME NEW k \in Found PROVE d # <<>>
    BY <1>1 DEF Found
  <1>3. \A k \in NormalPath : Bare(k) = k
    BY ProperIs DEF Bare
  <1>4. ASSUME NEW k \in Configured PROVE Law(k)
    BY <1>3, ConfiguredAre DEF IsStrictPrefix
  <1>5. Root \in Seq(Name)
    BY TreeIs, PathIs
  <1>6. ASSUME NEW k \in Found PROVE Law(k)
    <2>1. d # <<>> /\ d \in NormalPath /\ IsPrefix(Root, d) /\ d \in Seq(Name)
      BY <1>2, PlaceIs, GivenIs, PathIs
    <2>2. CASE k = Data /\ Exists(tree, Data)
      <3>1. /\ Bare(Data) = d /\ Located(tree, Data) \in DOMAIN tree
            /\ Data # d => Data = Append(d, EmptyName) /\ Last(Data) = EmptyName
        BY <2>1, <2>2, PlaceIs, GivenIs DEF Exists
      <3>2. Data # d => ObjectAt(tree, Data).type = "directory"
        BY <2>2, <3>1 DEF Exists, ObjectAt
      <3> QED
        BY <2>1, <2>2, <3>1, <3>2
    <2>3. ASSUME NEW base \in NormalPath, IsPrefix(Root, base), Under(base, k) PROVE Law(k)
      <3>1. k \in NormalPath /\ IsStrictPrefix(base, k) /\ Located(tree, k) \in DOMAIN tree
        BY <2>3, UnderIs
      <3>2. k \in Seq(Name) /\ base \in Seq(Name)
        BY <3>1, ProperIs, PathIs
      <3>3. IsPrefix(Root, k) /\ k # Root
        <4>1. IsPrefix(base, k) /\ IsPrefix(Root, k)
          BY <1>5, <2>3, <3>1, <3>2, PrefixOrder DEF IsStrictPrefix
        <4>2. Len(Root) <= Len(base) /\ Len(base) < Len(k) /\ Len(Root) \in Nat /\ Len(base) \in Nat
          BY <1>5, <2>3, <3>1, <3>2, PrefixOrder
        <4>3. Len(Root) # Len(k)
          BY <4>2
        <4> QED
          BY <4>1, <4>3
      <3> QED
        BY <1>3, <3>1, <3>3
    <2> HIDE DEF Law
    <2>4. CASE Under(d, k)
      BY <2>1, <2>3, <2>4
    <2>5. CASE d # Root /\ Under(Front(d), k)
      <3>1. Front(d) \in NormalPath /\ IsPrefix(Root, Front(d))
        BY <2>1, <2>5, PlaceIs
      <3> QED
        BY <2>3, <2>5, <3>1
    <2> QED
      BY <2>1, <2>2, <2>4, <2>5, FoundAre
  <1>7. \A k \in Candidates : Law(k)
    BY <1>4, <1>6 DEF Candidates
  <1>8. ASSUME NEW k \in Candidates, NEW l \in Candidates, Bare(k) = Bare(l), k # Bare(k)
        PROVE  k = l
    <2>1. /\ k = Data /\ ObjectAt(tree, k).type = "directory" /\ k = Append(Bare(k), EmptyName)
          /\ Exists(tree, Data)
      BY <1>7, <1>8
    <2> SUFFICES ASSUME l = Bare(l) PROVE FALSE
      BY <1>7, <1>8, <2>1
    <2>2. k \in Found
      <3>1. k \notin Configured
        BY <1>3, <1>8, ConfiguredAre
      <3> QED
        BY <3>1 DEF Candidates
    <2>3. d # <<>> /\ Bare(Data) = d /\ l = d /\ Data # d /\ d \in NormalPath /\ d \in Seq(Name)
      BY <1>2, <1>8, <2>1, <2>2, PlaceIs, GivenIs, PathIs
    <2>4. given.slash
      BY <2>3, PlaceIs, GivenIs
    <2>5. Exists(tree, Data)
      BY <2>1
    <2>6. CASE l \in Configured
      <3>1. ObjectAt(tree, d).type = "regular" /\ Located(tree, d) \in DOMAIN tree
        BY <2>3, <2>6, ConfiguredAre
      <3>2. /\ Located(tree, Data) = Resolve(tree, d) /\ Last(d) # EmptyName
            /\ Front(d) \in Seq(Name) /\ Last(d) \in Name /\ d = Append(Front(d), Last(d))
        BY <2>3, <2>4, PlaceIs, ProperIs, PathIs DEF Located
      <3>3. Resolve(tree, Append(Front(d), Last(d))) = Led(tree, Append(Resolve(tree, Front(d)), Last(d)))
        BY <3>2, ResolveAppend, TreeIs
      <3>4. Resolve(tree, d) = Led(tree, Located(tree, d))
        BY <3>2, <3>3 DEF Located
      <3>5. Located(tree, Data) = Located(tree, d)
        BY <3>1, <3>2, <3>4 DEF Led, IsLink, ObjectAt
      <3> QED
        BY <2>1, <3>1, <3>5 DEF ObjectAt
    <2>7. CASE l \in Found
      <3>1. l # Data
        BY <2>3
      <3>2. Under(d, l)
        BY <2>3, <2>5, <2>7, <3>1, FoundAre
      <3> QED
        BY <2>3, <3>2, UnderIs DEF IsStrictPrefix
    <2> QED
      BY <2>6, <2>7 DEF Candidates
  <1>9. ASSUME NEW k \in Candidates, NEW l \in Candidates, Bare(k) = Bare(l)
        PROVE  k = l
    <2>1. CASE k # Bare(k)
      BY <1>8, <1>9, <2>1
    <2>2. CASE l # Bare(l)
      BY <1>8, <1>9, <2>2
    <2> QED
      BY <1>9, <2>1, <2>2
  <1>10. IsFiniteSet(Candidates)
    <2>1. IsFiniteSet(DOMAIN tree)
      BY TreeIs
    <2>2. IsFiniteSet(Found)
      <3>1. IsFiniteSet({Data}) /\ IsFiniteSet({}) /\ IsFiniteSet(Descendants(tree, Data))
        BY <2>1, FiniteDescendants, FS_Singleton, FS_EmptySet
      <3>2. IsFiniteSet(Beside(Data))
        <4>1. IsFiniteSet(Children(tree, Front(Data))) /\ Beside(Data) \subseteq Children(tree, Front(Data))
          BY <2>1, FiniteDescendants DEF Beside
        <4> QED
          BY <4>1, FS_Subset
      <3>3. IsFiniteSet({Data} \cup Descendants(tree, Data)) /\ IsFiniteSet({Data} \cup {})
        BY <3>1, FS_Union
      <3> QED
        BY <3>1, <3>2, <3>3 DEF Found, There
    <2> QED
      BY <2>2, ConfiguredAre, FS_Union DEF Candidates
  <1> QED
    BY <1>7, <1>9, <1>10

\* Each object that is captured is a candidate once, the one at the place perhaps with
\* a "/" at its end.
LEMMA CandidatesAre ==
  ASSUME tree \in Trees, given \in DataPaths, NoLinkOnTheWay
  PROVE  /\ IsFiniteSet(Candidates)
         /\ \A k \in Candidates :
                /\ Bare(k) \in Meant \cup Defined /\ Bare(k) \in DOMAIN tree
                /\ Located(tree, k) = Bare(k)
                /\ k # Bare(k) =>
                       /\ k = Append(Bare(k), EmptyName) /\ k = Data
                       /\ tree[Bare(k)].type = "directory"
         /\ \A p \in Meant \cup Defined : \E k \in Candidates : Bare(k) = p
         /\ \A k, l \in Candidates : Bare(k) = Bare(l) => k = l
         /\ Found = {} <=> Meant = {}
  <1> DEFINE d == given.place
  <1>1. /\ Configured = Defined /\ Defined \subseteq DOMAIN tree
        /\ \A p \in Defined : tree[p].type = "regular"
    BY ConfigurationIs DEF NoLinkOnTheWay
  <1>2. /\ Meant \subseteq DOMAIN tree /\ (d = <<>> => Meant = {})
        /\ d # <<>> => (d \in Meant => Present \/ ~given.slash)
    BY MeantIs
  <1>3. \A p \in DOMAIN tree : Bare(p) = p /\ Located(tree, p) = p
    BY TreeIs, TreeObject DEF Bare
  <1>4. Usable <=> d # <<>>
    BY GivenIs
  <1>5. d # <<>> => Found = (Meant \ {d}) \cup (IF d \in Meant THEN {Data} ELSE {})
    BY <1>4, FoundIs DEF Found
  <1>6. d = <<>> => Found = {}
    BY <1>4 DEF Found
  <1>7. ASSUME d # <<>>
        PROVE  /\ Located(tree, Data) = d /\ Bare(Data) = d
               /\ Data # d => given.slash /\ Data = Append(d, EmptyName)
    <2>1. Located(tree, Data) = d
      BY <1>7, DataLeads
    <2>2. /\ d \in Path /\ d \in Seq(Name) /\ Last(d) # EmptyName /\ given.slash \in BOOLEAN
          /\ Data = IF given.slash THEN Append(d, EmptyName) ELSE d
      BY <1>7, GivenIs, PathIs
    <2>3. CASE given.slash
      <3>1. Data \in Path /\ Front(Data) = d /\ Last(Data) = EmptyName
        BY <2>2, <2>3, AppendIsPath, EmptyNameIs
      <3>2. Data # <<>>
        BY <3>1, PathIs
      <3> QED
        BY <2>1, <2>2, <2>3, <3>1, <3>2 DEF Bare
    <2>4. CASE ~given.slash
      BY <2>1, <2>2, <2>4 DEF Bare
    <2> QED
      BY <2>2, <2>3, <2>4
  <1>8. ASSUME NEW k \in Candidates
        PROVE  \/ k \in Defined
               \/ d # <<>> /\ k \in Meant /\ k # d
               \/ d # <<>> /\ d \in Meant /\ k = Data
    BY <1>1, <1>5, <1>6 DEF Candidates
  <1>9. ASSUME d # <<>>, d \in Meant
        PROVE  d \in DOMAIN tree /\ Data \in Found /\ (given.slash => tree[d].type = "directory")
    BY <1>2, <1>5, <1>9 DEF Present
  <1> HIDE DEF d
  <1>10. ASSUME NEW k \in Candidates
         PROVE  /\ Bare(k) \in Meant \cup Defined /\ Bare(k) \in DOMAIN tree
                /\ Located(tree, k) = Bare(k)
                /\ k # Bare(k) =>
                       /\ k = Append(Bare(k), EmptyName) /\ k = Data
                       /\ tree[Bare(k)].type = "directory"
    <2>1. CASE k \in Defined
      BY <1>1, <1>3, <2>1
    <2>2. CASE k \in Meant
      BY <1>2, <1>3, <2>2
    <2>3. CASE d # <<>> /\ d \in Meant /\ k = Data
      <3>1. /\ Located(tree, k) = d /\ Bare(k) = d
            /\ k # d => given.slash /\ k = Append(d, EmptyName)
        BY <1>7, <2>3
      <3> QED
        BY <1>9, <2>3, <3>1
    <2> QED
      BY <1>8, <2>1, <2>2, <2>3
  <1>11. ASSUME NEW p \in Meant \cup Defined PROVE \E k \in Candidates : Bare(k) = p
    <2>1. CASE p \in Defined
      BY <1>1, <1>3, <2>1 DEF Candidates
    <2>2. CASE p \in Meant /\ p # d
      BY <1>1, <1>2, <1>3, <1>5, <2>2 DEF Candidates
    <2>3. CASE p \in Meant /\ p = d
      <3>1. d # <<>>
        BY <1>2, <2>3
      <3> QED
        BY <1>7, <1>9, <2>3, <3>1 DEF Candidates
    <2> QED
      BY <2>1, <2>2, <2>3
  <1>12. ASSUME NEW k \in Candidates, NEW l \in Candidates, Bare(k) = Bare(l) PROVE k = l
    <2>1. ASSUME NEW x \in Candidates, NEW y \in Candidates, Bare(x) = Bare(y),
                 d # <<>>, d \in Meant, x = Data
          PROVE  x = y
      <3>1. Bare(y) = d /\ (Data # d => given.slash)
        BY <1>7, <2>1
      <3>2. CASE y \in Defined
        <4>1. y = d /\ tree[d].type = "regular"
          BY <1>1, <1>3, <3>1, <3>2
        <4>2. ~given.slash
          BY <1>9, <2>1, <4>1
        <4> QED
          BY <2>1, <3>1, <4>1, <4>2
      <3>3. CASE y \in Meant /\ y # d
        BY <1>2, <1>3, <3>1, <3>3
      <3> QED
        BY <1>8, <2>1, <3>2, <3>3
    <2>2. CASE k \in DOMAIN tree /\ l \in DOMAIN tree
      BY <1>3, <1>12, <2>2
    <2>3. CASE k \notin DOMAIN tree
      <3>1. d # <<>> /\ d \in Meant /\ k = Data
        BY <1>1, <1>2, <1>8, <2>3
      <3> QED
        BY <1>12, <2>1, <3>1
    <2>4. CASE l \notin DOMAIN tree
      <3>1. d # <<>> /\ d \in Meant /\ l = Data
        BY <1>1, <1>2, <1>8, <2>4
      <3> QED
        BY <1>12, <2>1, <3>1
    <2> QED
      BY <2>2, <2>3, <2>4
  <1>13. Found = {} <=> Meant = {}
    BY <1>2, <1>5, <1>6, <1>9
  <1>14. IsFiniteSet(Candidates)
    <2>1. IsFiniteSet(DOMAIN tree)
      BY TreeIs
    <2>2. IsFiniteSet(DOMAIN tree \cup {Data})
      BY <2>1, FS_AddElement
    <2>3. Candidates \subseteq DOMAIN tree \cup {Data}
      BY <1>1, <1>2, <1>8
    <2> QED
      BY <2>2, <2>3, FS_Subset
  <1> QED
    BY <1>10, <1>11, <1>12, <1>13, <1>14

Rel(k) == lexically_relative(k, Root)

LEMMA RootPath ==
  ASSUME tree \in Trees
  PROVE  Rel(Root) = <<Dot>> /\ Rel(Append(Root, EmptyName)) = <<Dot>>
  <1> DEFINE u == <<EmptyName>>
             e == Root \o u
  <1>1. Root \in Seq(Name) /\ EmptyName \in Name
    BY TreeIs, PathIs, EmptyNameIs
  <1>2. u \in Seq(Name) /\ e = Append(Root, EmptyName)
    BY <1>1, AppendIsConcat
  <1>3. SubSeq(Root, Len(Root) + 1, Len(Root)) = <<>> /\ IsPrefix(Root, Root)
    BY <1>1, PrefixOrder
  <1>4. Rel(Root) = <<Dot>>
    BY <1>1, <1>3, RelativeIs DEF Rel
  <1> HIDE DEF u
  <1>5. e \in Seq(Name) /\ IsPrefix(Root, e) /\ SubSeq(e, Len(Root) + 1, Len(e)) = u
    <2>1. Root \in Seq(Name) /\ u \in Seq(Name)
      BY <1>1, <1>2
    <2> QED
      BY <2>1, PrefixConcat
  <1> HIDE DEF e
  <1>6. Rel(e) = <<Dot>>
    BY <1>1, <1>5, RelativeIs DEF Rel, u
  <1> QED
    BY <1>2, <1>4, <1>6

\* The path of a candidate is that below the root, with the "/" it may have, or ".".
LEMMA CandidatePath ==
  ASSUME tree \in Trees, given \in DataPaths, NEW k \in Candidates
  PROVE  LET r == Below(Bare(k))
         IN  /\ Rel(k) \in Path
             /\ Bare(k) = Root => Rel(k) = <<Dot>>
             /\ Bare(k) # Root =>
                    /\ r \in Path /\ r \in Seq(Proper) /\ Last(r) # EmptyName /\ Bare(k) = Root \o r
                    /\ Rel(k) = IF k = Bare(k) THEN r ELSE Append(r, EmptyName)
  <1> DEFINE b == Bare(k)
             r == Below(b)
  <1>1. /\ b \in NormalPath /\ IsPrefix(Root, b)
        /\ k # b => k = Append(b, EmptyName)
    BY Lawful
  <1> HIDE DEF b
  <1>2. ASSUME b = Root PROVE Rel(k) = <<Dot>> /\ Rel(k) \in Path
    <2>1. Rel(k) = <<Dot>>
      BY <1>1, <1>2, RootPath
    <2>2. Dot \in Name
      BY DEF Dot, Name, Range
    <2>3. <<Dot>> \in Path
      BY <2>2 DEF Path
    <2> QED
      BY <2>1, <2>3
  <1>3. ASSUME b # Root
        PROVE  /\ r \in Path /\ r \in Seq(Proper) /\ b = Root \o r /\ Last(r) # EmptyName
               /\ Rel(k) = IF k = b THEN r ELSE Append(r, EmptyName)
               /\ Rel(k) \in Path
    <2>1. /\ r \in Path /\ r \in Seq(Proper) /\ b = Root \o r /\ Last(r) # EmptyName
          /\ lexically_relative(b, Root) = r
          /\ lexically_relative(Append(b, EmptyName), Root) = Append(r, EmptyName)
      BY <1>1, <1>3, RelativePath DEF IsStrictPrefix
    <2>2. Append(r, EmptyName) \in Path
      BY <2>1, PathIs, AppendIsPath, EmptyNameIs
    <2>3. Rel(k) = IF k = b THEN r ELSE Append(r, EmptyName)
      BY <1>1, <2>1 DEF Rel
    <2> QED
      BY <2>1, <2>2, <2>3
  <1> QED
    BY <1>2, <1>3 DEF b

\* Candidates with one path are one.
LEMMA PathsAreKeys ==
  ASSUME tree \in Trees, given \in DataPaths, NEW k \in Candidates, NEW l \in Candidates
  PROVE  /\ Native(Rel(k)) \in Seq(Nat)
         /\ Native(Rel(k)) = Native(Rel(l)) => k = l
  <1>1. Rel(k) \in Path /\ Rel(l) \in Path
    BY CandidatePath
  <1>2. Native(Rel(k)) \in Seq(Nat)
    <2>1. Native(Rel(k)) \in Seq(0 .. 255)
      BY <1>1, PathIs DEF String
    <2>2. 0 .. 255 \subseteq Nat
      OBVIOUS
    <2> QED
      BY <2>1, <2>2, SeqMonotonic
  <1>3. ASSUME NEW x \in Candidates, Bare(x) # Root PROVE Rel(x) # <<Dot>>
    <2> DEFINE r == Below(Bare(x))
    <2>1. /\ r \in Path /\ r \in Seq(Proper)
          /\ Rel(x) = IF x = Bare(x) THEN r ELSE Append(r, EmptyName)
      BY <1>3, CandidatePath
    <2> HIDE DEF r
    <2>2. Dot \notin Proper /\ Dot # EmptyName
      BY DEF Proper, Dot, EmptyName
    <2>3. r # <<Dot>>
      <3> SUFFICES ASSUME r = <<Dot>> PROVE FALSE
        OBVIOUS
      <3>1. 1 \in 1 .. Len(r) /\ r[1] = Dot
        OBVIOUS
      <3>2. r[1] \in Proper
        BY <2>1, <3>1
      <3> QED
        BY <2>2, <3>1, <3>2
    <2>4. Last(Append(r, EmptyName)) = EmptyName /\ Last(<<Dot>>) = Dot
      BY <2>1, PathIs, AppendIsPath, EmptyNameIs DEF Last
    <2> QED
      BY <2>1, <2>2, <2>3, <2>4
  <1>4. ASSUME Rel(k) = Rel(l), Bare(k) # Root, Bare(l) # Root PROVE Bare(k) = Bare(l)
    <2> DEFINE r == Below(Bare(k))
               s == Below(Bare(l))
    <2>1. /\ r \in Path /\ Last(r) # EmptyName /\ Bare(k) = Root \o r
          /\ Rel(k) = IF k = Bare(k) THEN r ELSE Append(r, EmptyName)
      BY <1>4, CandidatePath
    <2>2. /\ s \in Path /\ Last(s) # EmptyName /\ Bare(l) = Root \o s
          /\ Rel(l) = IF l = Bare(l) THEN s ELSE Append(s, EmptyName)
      BY <1>4, CandidatePath
    <2> HIDE DEF r, s
    <2>3. /\ Last(Append(r, EmptyName)) = EmptyName /\ Front(Append(r, EmptyName)) = r
          /\ Last(Append(s, EmptyName)) = EmptyName /\ Front(Append(s, EmptyName)) = s
      BY <2>1, <2>2, PathIs, AppendIsPath, EmptyNameIs
    <2>4. r = s
      BY <1>4, <2>1, <2>2, <2>3
    <2> QED
      BY <2>1, <2>2, <2>4
  <1>5. ASSUME Native(Rel(k)) = Native(Rel(l)) PROVE k = l
    <2>1. Rel(k) = Rel(l)
      BY <1>1, <1>5, NativeDiffers
    <2>2. Bare(k) = Root <=> Bare(l) = Root
      BY <1>3, <2>1, CandidatePath
    <2>3. Bare(k) = Bare(l)
      BY <1>4, <2>1, <2>2
    <2> QED
      BY <2>3, Lawful
  <1> QED
    BY <1>2, <1>5

\* What of the tree has been extracted: what a pass over it may have found.
Source ==
  /\ tree \in Trees /\ given \in DataPaths
  /\ \E configuration \in find_configuration_files(tree, Root) :
         \E artifacts \in discover_artifacts(tree, Root, given, configuration.files) :
             first = Extracted(configuration, artifacts)

LEMMA NextSource == Source /\ [Advance]_allvars => Source'
  <1> SUFFICES ASSUME Source, [Advance]_allvars PROVE Source'
    OBVIOUS
  <1>1. UNCHANGED <<tree, given, first>>
    BY DEF Advance, allvars, vars, Next, reassemble, Validate, Check, MakeStage, Reopen, Begin,
           Write, End, LastRecord, Chmod, Replace, SyncParent, Cleanup, Interfere, Kill, PowerLoss,
           Disturb, Stumble, input, reading, staging, destination
  <1>2. PICK configuration \in find_configuration_files(tree, Root) :
            \E artifacts \in discover_artifacts(tree, Root, given, configuration.files) :
                first = Extracted(configuration, artifacts)
    BY DEF Source
  <1>3. PICK artifacts \in discover_artifacts(tree, Root, given, configuration.files) :
            first = Extracted(configuration, artifacts)
    BY <1>2
  <1>4. Extracted(configuration, artifacts)' = Extracted(configuration, artifacts)
    BY <1>1 DEF Extracted, Captured
  <1> QED
    BY <1>1, <1>2, <1>3, <1>4 DEF Source

\* Candidates in the order of their paths' bytes.
LEMMA SortedOf ==
  ASSUME tree \in Trees, given \in DataPaths, NEW G \in SUBSET Candidates
  PROVE  LET s == SortedByPath(Root, G)
         IN  /\ Cardinality(G) \in Nat /\ DOMAIN s = 1 .. Cardinality(G)
             /\ \A i \in DOMAIN s : s[i] \in G
             /\ \A k \in G : \E i \in DOMAIN s : s[i] = k
             /\ \A i, j \in DOMAIN s :
                    i < j => s[i] # s[j] /\ Before(Native(Rel(s[i])), Native(Rel(s[j])))
             /\ Range(s) = G
  <1> DEFINE s == SortedByPath(Root, G)
  <1>1. IsFiniteSet(G)
    BY Lawful, FS_Subset
  <1>2. /\ \A k \in G : Native(lexically_relative(k, Root)) \in Seq(Nat)
        /\ \A k, l \in G :
               Native(lexically_relative(k, Root)) = Native(lexically_relative(l, Root)) => k = l
    BY PathsAreKeys DEF Rel
  <1>3. /\ Cardinality(G) \in Nat /\ DOMAIN s = 1 .. Cardinality(G)
        /\ \A i \in DOMAIN s : s[i] \in G
        /\ \A p \in G : \E i \in DOMAIN s : s[i] = p
        /\ \A i, j \in DOMAIN s :
               i < j => /\ s[i] # s[j]
                        /\ Before(Native(lexically_relative(s[i], Root)),
                                  Native(lexically_relative(s[j], Root)))
    BY <1>1, <1>2, SortedIs
  <1> HIDE DEF s
  <1>4. Range(s) = G
    BY <1>3 DEF Range
  <1> QED
    BY <1>3, <1>4 DEF Rel, s

\* What may be found of the configuration, and what if nothing has failed.
LEMMA FilesAre ==
  ASSUME tree \in Trees, given \in DataPaths, NEW configuration \in find_configuration_files(tree, Root)
  PROVE  /\ Range(configuration.files) \subseteq Configured
         /\ ~configuration.failed => Range(configuration.files) = Configured
  <1> DEFINE master == Append(Root, ModsConf)
             directory == Append(Root, ModsD)
             alone == /\ master \in DOMAIN tree /\ ~tree[master].unseen
                      /\ tree[master].type \in {"regular", "symlink"}
  <1>1. PICK walk \in IF alone THEN {[found |-> {master}, failed |-> FALSE]} ELSE Walks(tree, directory) :
            /\ configuration.files = SortedByPath(Root, Defining(tree, walk.found))
            /\ configuration.failed = (walk.failed \/ Refused(tree, walk.found) # {})
    <2>1. PICK walk \in IF alone THEN {[found |-> {master}, failed |-> FALSE]} ELSE Walks(tree, directory) :
              configuration = [files |-> SortedByPath(Root, Defining(tree, walk.found)),
                               failed |-> walk.failed \/ Refused(tree, walk.found) # {}]
      BY Zenon DEF find_configuration_files
    <2> QED
      BY <2>1
  <1>2. /\ walk.found \subseteq ConfigurationCandidates
        /\ ~walk.failed => walk.found = ConfigurationCandidates
    <2>1. CASE alone
      <3>1. walk = [found |-> {master}, failed |-> FALSE]
        BY <1>1, <2>1
      <3>2. walk.found = {master}
        BY <3>1
      <3> QED
        BY <2>1, <3>2 DEF ConfigurationCandidates
    <2>2. CASE ~alone
      <3>1. walk \in Walks(tree, directory)
        BY <1>1, <2>2
      <3>2. ConfigurationCandidates = Descendants(tree, directory)
        BY <2>2 DEF ConfigurationCandidates
      <3> HIDE DEF directory
      <3> QED
        BY <3>1, <3>2, WalksGive
    <2> QED
      BY <2>1, <2>2
  <1> HIDE DEF master, directory, alone
  <1>3. /\ Defining(tree, walk.found) \subseteq Configured
        /\ ~walk.failed => Defining(tree, walk.found) = Configured
    BY <1>2 DEF Configured, Defining
  <1> DEFINE G == Defining(tree, walk.found)
  <1>4. G \in SUBSET Candidates
    BY <1>3 DEF Candidates
  <1>5. Range(SortedByPath(Root, G)) = G
    <2> HIDE DEF G
    <2> QED
      BY <1>4, SortedOf
  <1> QED
    BY <1>1, <1>3, <1>5

\* What may be found of what the DataPath names, and what if nothing has failed.
LEMMA DataIs ==
  ASSUME tree \in Trees, given \in DataPaths, Usable, NEW data \in DataCandidates(tree, Data)
  PROVE  /\ data.found \subseteq Found
         /\ Exists(tree, Data) => Data \in data.found
         /\ ~data.failed => data.found = Found /\ Found # {}
  <1>1. Found = There(Data)
    BY DEF Found
  <1>2. CASE ~Exists(tree, Data)
    <2> DEFINE parent == Resolve(tree, Front(Data))
    <2>1. data.found = Prefixed(tree, Data) /\ data.failed = (Prefixed(tree, Data) = {})
      BY <1>2 DEF DataCandidates
    <2>2. Found = Beside(Data)
      BY <1>1, <1>2 DEF There
    <2>3. Prefixed(tree, Data) # {} => IsDirectory(tree, parent) /\ ~tree[parent].unreadable
      BY DEF Prefixed
    <2>4. CASE Last(Data) = EmptyName
      <3>1. Located(tree, Data) = parent
        BY <2>4 DEF Located
      <3>2. ~(IsDirectory(tree, parent) /\ ~tree[parent].unreadable)
        BY <1>2, <3>1, TreeIs DEF Exists, IsDirectory
      <3> QED
        BY <1>2, <2>1, <2>3, <3>2
    <2>5. CASE Last(Data) # EmptyName
      <3>1. IsDirectory(tree, parent) /\ ~tree[parent].unreadable => Prefixed(tree, Data) = Beside(Data)
        BY <2>5 DEF Prefixed, Beside
      <3> QED
        BY <1>2, <2>1, <2>2, <2>3, <3>1
    <2> QED
      BY <2>4, <2>5
  <1>3. CASE Exists(tree, Data) /\ ObjectAt(tree, Data).type = "directory"
    <2>1. PICK walk \in Walks(tree, Data) :
              data = [found |-> {Data} \cup walk.found, failed |-> walk.failed]
      BY <1>3 DEF DataCandidates
    <2>2. Found = {Data} \cup Descendants(tree, Data)
      BY <1>1, <1>3 DEF There
    <2>3. data.found = {Data} \cup walk.found /\ data.failed = walk.failed
      BY <2>1
    <2> QED
      BY <2>2, <2>3, WalksGive
  <1>4. CASE Exists(tree, Data) /\ ObjectAt(tree, Data).type # "directory"
    <2>1. data.found = {Data}
      BY <1>4 DEF DataCandidates
    <2>2. Found = {Data}
      BY <1>1, <1>4 DEF There
    <2> QED
      BY <2>1, <2>2
  <1> QED
    BY <1>2, <1>3, <1>4

\* Where what has been extracted comes from.
LEMMA SourceIs ==
  ASSUME Source
  PROVE  \E configuration \in find_configuration_files(tree, Root) :
         \E data \in IF Usable THEN DataCandidates(tree, Data) ELSE {[found |-> {}, failed |-> TRUE]} :
             LET whole == Range(configuration.files) \cup data.found
             IN  /\ whole \subseteq Candidates
                 /\ first.success <=> /\ ~configuration.failed /\ ~data.failed
                                      /\ \A c \in whole : Capturable(ObjectAt(tree, c))
                 /\ first.artifacts = Captured(SortedByPath(Root, whole))
                 /\ Range(SortedByPath(Root, whole)) = whole
  <1>0. tree \in Trees /\ given \in DataPaths
    BY DEF Source
  <1>1. PICK configuration \in find_configuration_files(tree, Root) :
            \E artifacts \in discover_artifacts(tree, Root, given, configuration.files) :
                first = Extracted(configuration, artifacts)
    BY DEF Source
  <1>2. PICK artifacts \in discover_artifacts(tree, Root, given, configuration.files) :
            first = Extracted(configuration, artifacts)
    BY <1>1
  <1>3. PICK data \in IF Usable THEN DataCandidates(tree, Data) ELSE {[found |-> {}, failed |-> TRUE]} :
            /\ artifacts.candidates = SortedByPath(Root, Range(configuration.files) \cup data.found)
            /\ artifacts.failed = data.failed
    <2>1. IsFiniteSet(DOMAIN tree)
      BY <1>0, TreeIs
    <2>2. \E data :
              /\ data \in IF given.names # <<>> /\ ~Escapes(Root, given)
                          THEN DataCandidates(tree, Normalized(Root, given))
                          ELSE {[found |-> {}, failed |-> TRUE]}
              /\ artifacts.candidates = SortedByPath(Root, Range(configuration.files) \cup data.found)
              /\ artifacts.failed = data.failed
      BY <1>1, <1>2, <2>1, DiscoveredAre
    <2> QED
      BY <2>2, Zenon DEF Usable, Data
  <1> DEFINE whole == Range(configuration.files) \cup data.found
  <1>4. whole \subseteq Candidates
    <2>1. Range(configuration.files) \subseteq Configured
      BY <1>0, FilesAre
    <2>2. data.found \subseteq Found
      <3>1. CASE Usable
        BY <1>0, <1>3, <3>1, DataIs
      <3>2. CASE ~Usable
        BY <1>3, <3>2
      <3> QED
        BY <3>1, <3>2
    <2> QED
      BY <2>1, <2>2 DEF Candidates
  <1>5. artifacts.candidates = SortedByPath(Root, whole)
    BY <1>3
  <1> HIDE DEF whole
  <1>6. Range(SortedByPath(Root, whole)) = whole
    BY <1>0, <1>4, SortedOf
  <1>7. /\ first.success <=> /\ ~configuration.failed /\ ~artifacts.failed
                             /\ \A c \in Range(artifacts.candidates) : Capturable(ObjectAt(tree, c))
        /\ first.artifacts = Captured(artifacts.candidates)
    BY <1>2 DEF Extracted
  <1>8. /\ first.success <=> /\ ~configuration.failed /\ ~data.failed
                             /\ \A c \in whole : Capturable(ObjectAt(tree, c))
        /\ first.artifacts = Captured(SortedByPath(Root, whole))
    BY <1>3, <1>5, <1>6, <1>7
  <1> QED
    BY <1>4, <1>6, <1>8 DEF whole

\* What the stream says of the object that a candidate leads to.
Tells(artifact, k) ==
  LET object == ObjectAt(tree, k)
  IN  /\ artifact.path = Rel(k)
      /\ artifact.type = object.type /\ artifact.closed = object.closed
      /\ artifact.target = object.target
      /\ artifact.data = Contents(object, Located(tree, k))
      /\ Bare(k) # Root => components(artifact) = Below(Bare(k))

\* The candidates that have been captured: all, if the extraction has succeeded.
Captives(G) ==
  /\ \A k \in G : Capturable(ObjectAt(tree, k))
  /\ Usable /\ Exists(tree, Data) /\ Capturable(ObjectAt(tree, Data)) => Data \in G
  /\ first.success => G = Candidates /\ Found # {}
  /\ LET sorted == SortedByPath(Root, G)
     IN  /\ DOMAIN first.artifacts = DOMAIN sorted
         /\ \A i \in DOMAIN sorted : Tells(first.artifacts[i], sorted[i])

Taken == CHOOSE G \in SUBSET Candidates : Captives(G)
Sorted == SortedByPath(Root, Taken)

LEMMA GroupTells ==
  ASSUME tree \in Trees, given \in DataPaths, NEW k \in Candidates, NEW artifact,
         LET object == ObjectAt(tree, k)
         IN  artifact = [path |-> Rel(k), type |-> object.type, closed |-> object.closed,
                         target |-> object.target, data |-> Contents(object, Located(tree, k))]
  PROVE  Tells(artifact, k)
  <1> DEFINE object == ObjectAt(tree, k)
             r == Below(Bare(k))
  <1>1. ASSUME Bare(k) # Root PROVE components(artifact) = r
    <2>1. k # Bare(k) => object.type = "directory"
      BY Lawful
    <2>2. /\ r \in Path /\ Last(r) # EmptyName
          /\ Rel(k) = IF k = Bare(k) THEN r ELSE Append(r, EmptyName)
      BY <1>1, CandidatePath
    <2>3. artifact.path = Rel(k) /\ artifact.type = object.type
      OBVIOUS
    <2> HIDE DEF r, object
    <2>4. CASE k = Bare(k)
      BY <2>2, <2>3, <2>4 DEF components
    <2>5. CASE k # Bare(k)
      <3>1. artifact.type = "directory"
        BY <2>1, <2>3, <2>5
      <3>2. artifact.path = Append(r, EmptyName)
        BY <2>2, <2>3, <2>5
      <3>3. /\ r \in Seq(Name) /\ Len(r) \in Nat \ {0}
            /\ Front(Append(r, EmptyName)) = r /\ Last(Append(r, EmptyName)) = EmptyName
            /\ Len(Append(r, EmptyName)) = Len(r) + 1
        BY <2>2, PathIs, AppendIsPath, EmptyNameIs
      <3>4. Len(artifact.path) > 1
        BY <3>2, <3>3
      <3> QED
        BY <3>1, <3>2, <3>3, <3>4 DEF components
    <2> QED
      BY <2>4, <2>5
  <1> QED
    BY <1>1 DEF Tells

LEMMA ExtractedIs ==
  ASSUME Source
  PROVE  Taken \subseteq Candidates /\ Captives(Taken)
  <1>0. tree \in Trees /\ given \in DataPaths
    BY DEF Source
  <1>1. PICK configuration \in find_configuration_files(tree, Root) :
        \E data \in IF Usable THEN DataCandidates(tree, Data) ELSE {[found |-> {}, failed |-> TRUE]} :
            LET whole == Range(configuration.files) \cup data.found
            IN  /\ whole \subseteq Candidates
                /\ first.success <=> /\ ~configuration.failed /\ ~data.failed
                                     /\ \A c \in whole : Capturable(ObjectAt(tree, c))
                /\ first.artifacts = Captured(SortedByPath(Root, whole))
                /\ Range(SortedByPath(Root, whole)) = whole
    BY SourceIs
  <1>2. PICK data \in IF Usable THEN DataCandidates(tree, Data) ELSE {[found |-> {}, failed |-> TRUE]} :
            LET whole == Range(configuration.files) \cup data.found
            IN  /\ whole \subseteq Candidates
                /\ first.success <=> /\ ~configuration.failed /\ ~data.failed
                                     /\ \A c \in whole : Capturable(ObjectAt(tree, c))
                /\ first.artifacts = Captured(SortedByPath(Root, whole))
                /\ Range(SortedByPath(Root, whole)) = whole
    BY <1>1
  <1> DEFINE whole == Range(configuration.files) \cup data.found
             G == {c \in whole : Capturable(ObjectAt(tree, c))}
             sorted == SortedByPath(Root, G)
  <1>3. G \in SUBSET Candidates /\ \A k \in G : Capturable(ObjectAt(tree, k))
    BY <1>2
  <1>4. ASSUME Usable, Exists(tree, Data), Capturable(ObjectAt(tree, Data)) PROVE Data \in G
    <2>1. Data \in data.found
      BY <1>0, <1>2, <1>4, DataIs
    <2> QED
      BY <1>4, <2>1
  <1>5. ASSUME first.success PROVE G = Candidates /\ Found # {}
    <2>1. ~configuration.failed /\ ~data.failed /\ G = whole
      BY <1>2, <1>5
    <2>2. Usable
      <3> SUFFICES ASSUME ~Usable PROVE FALSE
        OBVIOUS
      <3>1. data = [found |-> {}, failed |-> TRUE]
        BY <1>2
      <3> QED
        BY <2>1, <3>1
    <2>3. data.found = Found /\ Found # {}
      BY <1>0, <1>2, <2>1, <2>2, DataIs
    <2>4. Range(configuration.files) = Configured
      BY <1>0, <2>1, FilesAre
    <2> HIDE DEF G
    <2> QED
      BY <2>1, <2>3, <2>4 DEF Candidates
  <1>6. first.artifacts =
            [i \in DOMAIN sorted |->
                LET object == ObjectAt(tree, sorted[i])
                IN  [path |-> Rel(sorted[i]), type |-> object.type, closed |-> object.closed,
                     target |-> object.target, data |-> Contents(object, Located(tree, sorted[i]))]]
    <2>1. first.artifacts = Captured(SortedByPath(Root, whole)) /\ Range(SortedByPath(Root, whole)) = whole
      BY <1>2
    <2> HIDE DEF whole
    <2> QED
      BY <2>1 DEF Captured, Rel
  <1> HIDE DEF G, whole
  <1>7. \A i \in DOMAIN sorted : sorted[i] \in Candidates
    BY <1>0, <1>3, SortedOf
  <1> HIDE DEF sorted
  <1>8. DOMAIN first.artifacts = DOMAIN sorted
    BY <1>6
  <1>9. ASSUME NEW i \in DOMAIN sorted PROVE Tells(first.artifacts[i], sorted[i])
    <2> DEFINE k == sorted[i]
               artifact == first.artifacts[i]
    <2>1. LET object == ObjectAt(tree, k)
          IN  artifact = [path |-> Rel(k), type |-> object.type, closed |-> object.closed,
                          target |-> object.target, data |-> Contents(object, Located(tree, k))]
      BY <1>6
    <2>2. k \in Candidates
      BY <1>7
    <2> HIDE DEF k, artifact
    <2>3. Tells(artifact, k)
      BY <1>0, <2>1, <2>2, GroupTells
    <2> QED
      BY <2>3 DEF k, artifact
  <1>10. Captives(G)
    BY <1>3, <1>4, <1>5, <1>8, <1>9 DEF Captives, sorted
  <1>11. \E H \in SUBSET Candidates : Captives(H)
    BY <1>3, <1>10
  <1>12. Taken \in SUBSET Candidates /\ Captives(Taken)
    BY <1>11 DEF Taken
  <1> QED
    BY <1>12

\* They are captured in the order of their paths' bytes.
LEMMA SortedCandidates ==
  ASSUME Source
  PROVE  /\ tree \in Trees /\ given \in DataPaths /\ Taken \subseteq Candidates
         /\ DOMAIN first.artifacts = DOMAIN Sorted
         /\ \A i \in DOMAIN Sorted : i \in Int /\ Sorted[i] \in Taken
         /\ \A k \in Taken : \E i \in DOMAIN Sorted : Sorted[i] = k
         /\ \A i, j \in DOMAIN Sorted :
                i < j => /\ Sorted[i] # Sorted[j]
                         /\ Before(Native(Rel(Sorted[i])), Native(Rel(Sorted[j])))
         /\ \A i \in DOMAIN Sorted : Tells(first.artifacts[i], Sorted[i])
  <1>1. tree \in Trees /\ given \in DataPaths
    BY DEF Source
  <1>2. Taken \in SUBSET Candidates /\ Captives(Taken)
    BY ExtractedIs
  <1>3. /\ Cardinality(Taken) \in Nat /\ DOMAIN Sorted = 1 .. Cardinality(Taken)
        /\ \A i \in DOMAIN Sorted : Sorted[i] \in Taken
        /\ \A k \in Taken : \E i \in DOMAIN Sorted : Sorted[i] = k
        /\ \A i, j \in DOMAIN Sorted :
               i < j => Sorted[i] # Sorted[j] /\ Before(Native(Rel(Sorted[i])), Native(Rel(Sorted[j])))
    BY <1>1, <1>2, SortedOf DEF Sorted
  <1>4. /\ DOMAIN first.artifacts = DOMAIN Sorted
        /\ \A i \in DOMAIN Sorted : Tells(first.artifacts[i], Sorted[i])
    BY <1>2 DEF Captives, Sorted
  <1> QED
    BY <1>1, <1>2, <1>3, <1>4

\* No directory comes after what is in it.
LEMMA DirectoriesFirst ==
  ASSUME Source, given.place # Root,
         NEW i \in DOMAIN Sorted, NEW j \in DOMAIN Sorted, i < j
  PROVE  ~IsPrefix(Below(Bare(Sorted[j])), Below(Bare(Sorted[i])))
  <1> DEFINE k == Sorted[i]
             l == Sorted[j]
             r == Below(Bare(k))
             s == Below(Bare(l))
  <1>0. tree \in Trees /\ given \in DataPaths
    BY DEF Source
  <1>1. k \in Candidates /\ l \in Candidates /\ k # l /\ Before(Native(Rel(k)), Native(Rel(l)))
    BY SortedCandidates
  <1>a. Bare(k) # Root /\ Bare(l) # Root
    BY <1>0, <1>1, Lawful
  <1>2. /\ r \in Path /\ Last(r) # EmptyName /\ Bare(k) = Root \o r /\ Rel(k) \in Path
        /\ Rel(k) = IF k = Bare(k) THEN r ELSE Append(r, EmptyName)
    BY <1>0, <1>1, <1>a, CandidatePath
  <1>3. /\ s \in Path /\ Last(s) # EmptyName /\ Bare(l) = Root \o s /\ Rel(l) \in Path
        /\ Rel(l) = IF l = Bare(l) THEN s ELSE Append(s, EmptyName)
    BY <1>0, <1>1, <1>a, CandidatePath
  <1>4. /\ Native(Rel(k)) \in Seq(Nat) /\ Native(Rel(l)) \in Seq(Nat)
        /\ k # Bare(k) => k = Data
        /\ l # Bare(l) => l = Data
        /\ Bare(k) = Bare(l) => k = l
    BY <1>0, <1>1, PathsAreKeys, Lawful
  <1> HIDE DEF k, l, r, s
  <1> SUFFICES ASSUME IsPrefix(s, r) PROVE FALSE
    BY DEF k, l, r, s
  <1>5. s # r
    BY <1>1, <1>2, <1>3, <1>4
  <1>6. r \in Seq(Name) /\ s \in Seq(Name)
    BY <1>2, <1>3, PathIs
  <1>7. IsStrictPrefix(s, Rel(k))
    <2>1. CASE Rel(k) = r
      BY <1>5, <2>1 DEF IsStrictPrefix
    <2>2. CASE Rel(k) = Append(r, EmptyName)
      <3>1. IsPrefix(s, Append(r, EmptyName))
        BY <1>6, PrefixAppend, EmptyNameIs
      <3>2. Last(Append(r, EmptyName)) = EmptyName
        BY <1>6, AppendIsPath, EmptyNameIs
      <3> QED
        BY <1>3, <2>2, <3>1, <3>2 DEF IsStrictPrefix
    <2> QED
      BY <1>2, <2>1, <2>2
  <1>8. Before(Native(Rel(l)), Native(Rel(k)))
    <2>1. CASE Rel(l) = s
      BY <1>2, <1>3, <1>7, <2>1, NativeBefore
    <2>2. CASE Rel(l) # s
      <3>1. l = Data /\ Rel(l) = Append(s, EmptyName)
        BY <1>3, <1>4, <2>2
      <3>2. Rel(k) = r
        BY <1>1, <1>2, <1>4, <3>1
      <3>3. Last(Rel(k)) # EmptyName
        BY <1>2, <3>2
      <3>4. Before(Native(Append(s, EmptyName)), Native(Rel(k)))
        BY <1>2, <1>3, <1>7, <3>3, NativeBefore
      <3> QED
        BY <3>1, <3>4
    <2> QED
      BY <2>1, <2>2
  <1>9. Before(Native(Rel(k)), Native(Rel(k)))
    BY <1>1, <1>4, <1>8, BeforeTransitive
  <1> QED
    BY <1>4, <1>9, BeforeIrreflexive

\* A walk that meets nothing unreadable gives all there is.
LEMMA WalksAll ==
  ASSUME NEW path, NEW walk \in Walks(tree, path),
         LET place == Resolve(tree, IF Last(path) = EmptyName THEN Front(path) ELSE path)
         IN  IsDirectory(tree, place) /\ ~tree[place].unreadable,
         \A p \in Descendants(tree, path) : ~ObjectAt(tree, p).unreadable
  PROVE  ~walk.failed /\ walk.found = Descendants(tree, path)
  <1> DEFINE place == Resolve(tree, IF Last(path) = EmptyName THEN Front(path) ELSE path)
             all == Descendants(tree, path)
             shut == {p \in all : ObjectAt(tree, p).type = "directory" /\ ObjectAt(tree, p).unreadable}
             some == {s \in SUBSET all : \E stop \in shut : GivenBefore(tree, all, stop, s)}
  <1>1. walk \in IF ~IsDirectory(tree, place) \/ tree[place].unreadable
                 THEN {[found |-> {}, failed |-> TRUE]}
                 ELSE IF shut = {} THEN {[found |-> all, failed |-> FALSE]}
                 ELSE {[found |-> given_, failed |-> TRUE] : given_ \in some}
    BY Zenon DEF Walks
  <1>2. shut = {}
    OBVIOUS
  <1>3. IsDirectory(tree, place) /\ ~tree[place].unreadable
    OBVIOUS
  <1> HIDE DEF place, all, shut, some
  <1>4. walk \in {[found |-> all, failed |-> FALSE]}
    BY <1>1, <1>2, <1>3
  <1>5. walk.found = all /\ ~walk.failed
    BY <1>4
  <1> QED
    BY <1>5 DEF all

\* With nothing in the way of what has to be read, nothing fails.
LEMMA NothingFails ==
  ASSUME Source, NoLinkOnTheWay, Meant # {}, NothingInTheWay
  PROVE  first.success
  <1> DEFINE d == given.place
             master == Append(Root, ModsConf)
             directory == Append(Root, ModsD)
             alone == /\ master \in DOMAIN tree /\ ~tree[master].unseen
                      /\ tree[master].type \in {"regular", "symlink"}
  <1>0. tree \in Trees /\ given \in DataPaths /\ ~ModsDIsLink
    BY DEF Source, NoLinkOnTheWay
  <1>1. PICK configuration \in find_configuration_files(tree, Root) :
        \E data \in IF Usable THEN DataCandidates(tree, Data) ELSE {[found |-> {}, failed |-> TRUE]} :
            LET whole == Range(configuration.files) \cup data.found
            IN  /\ whole \subseteq Candidates
                /\ first.success <=> /\ ~configuration.failed /\ ~data.failed
                                     /\ \A c \in whole : Capturable(ObjectAt(tree, c))
    BY SourceIs, Zenon
  <1>2. PICK data \in IF Usable THEN DataCandidates(tree, Data) ELSE {[found |-> {}, failed |-> TRUE]} :
            LET whole == Range(configuration.files) \cup data.found
            IN  /\ whole \subseteq Candidates
                /\ first.success <=> /\ ~configuration.failed /\ ~data.failed
                                     /\ \A c \in whole : Capturable(ObjectAt(tree, c))
    BY <1>1
  <1>3. /\ \A p \in Meant : Capturable(tree[p]) /\ ~tree[p].unreadable
        /\ \A p \in Configuration : tree[p].type # "symlink" /\ ~tree[p].unreadable
        /\ Front(d) \in DOMAIN tree => ~tree[Front(d)].unreadable
        /\ \/ Configuration = {master}
           \/ IsDirectory(tree, directory) /\ ~tree[directory].unreadable
    BY DEF NothingInTheWay
  <1>4. ASSUME NEW k \in Candidates
        PROVE  ~ObjectAt(tree, k).unreadable /\ Capturable(ObjectAt(tree, k))
    <2>1. Bare(k) \in Meant \cup Defined /\ ObjectAt(tree, k) = tree[Bare(k)]
      BY <1>0, CandidatesAre DEF ObjectAt
    <2>2. \A p \in Defined : Capturable(tree[p]) /\ ~tree[p].unreadable
      BY <1>0, ConfigurationIs DEF Defined
    <2> QED
      BY <1>3, <2>1, <2>2
  <1>5. /\ ConfigurationCandidates = Configuration /\ Configuration \subseteq DOMAIN tree
        /\ Resolve(tree, directory) = directory
        /\ Descendants(tree, directory) = {p \in DOMAIN tree : IsStrictPrefix(directory, p)}
    BY <1>0, ConfigurationIs
  <1>6. ASSUME NEW files, files \subseteq Configuration PROVE Refused(tree, files) = {}
    <2>1. \A p \in Configuration : ObjectAt(tree, p) = tree[p] /\ (tree[p].unseen => tree[p].unreadable)
      BY <1>0, <1>5, TreeObject, TreeIs
    <2> QED
      BY <1>3, <1>6, <2>1 DEF Refused
  <1>7. alone => Configuration = {master}
    BY DEF Configuration
  <1>8. ~alone => Configuration = {p \in DOMAIN tree : IsStrictPrefix(directory, p)}
    BY DEF Configuration
  <1>9. ASSUME ~alone PROVE IsDirectory(tree, directory) /\ ~tree[directory].unreadable
    <2> SUFFICES ASSUME Configuration = {master} PROVE FALSE
      BY <1>3
    <2>1. IsStrictPrefix(directory, master)
      BY <1>8, <1>9
    <2>2. Root \in Seq(Name) /\ ModsConf \in Name /\ ModsD \in Name
      BY <1>0, TreeIs, PathIs, ModsAreNames
    <2>3. /\ Len(master) = Len(Root) + 1 /\ Len(directory) = Len(Root) + 1 /\ Len(Root) \in Nat
          /\ master \in Seq(Name) /\ directory \in Seq(Name)
      BY <2>2, AppendIsPath, PathIs
    <2> HIDE DEF master, directory
    <2>4. Len(directory) # Len(master)
      <3>1. IsPrefix(directory, master) /\ directory # master
        BY <2>1 DEF IsStrictPrefix
      <3> QED
        BY <2>3, <3>1, PrefixOrder
    <2> QED
      BY <2>3, <2>4
  <1>10. ~configuration.failed
    <2>1. PICK walk \in IF alone THEN {[found |-> {master}, failed |-> FALSE]} ELSE Walks(tree, directory) :
              configuration = [files |-> SortedByPath(Root, Defining(tree, walk.found)),
                               failed |-> walk.failed \/ Refused(tree, walk.found) # {}]
      BY <1>1, Zenon DEF find_configuration_files
    <2>2. ~walk.failed /\ walk.found \subseteq Configuration
      <3>1. CASE alone
        <4>1. walk = [found |-> {master}, failed |-> FALSE]
          BY <2>1, <3>1
        <4>2. walk.found = {master} /\ ~walk.failed
          BY <4>1
        <4> QED
          BY <1>7, <3>1, <4>2
      <3>2. CASE ~alone
        <4>1. walk \in Walks(tree, directory)
          BY <2>1, <3>2
        <4>2. IsDirectory(tree, directory) /\ ~tree[directory].unreadable
          BY <1>9, <3>2
        <4>3. Last(directory) # EmptyName
          BY <1>0, ModsAreNames, AppendIsPath, TreeIs, PathIs
        <4>4. Descendants(tree, directory) = Configuration
          BY <1>5, <1>8, <3>2
        <4>5. \A p \in Configuration : ~ObjectAt(tree, p).unreadable
          BY <1>0, <1>3, <1>5, TreeObject
        <4> HIDE DEF directory
        <4> QED
          BY <1>5, <4>1, <4>2, <4>3, <4>4, <4>5, WalksAll
      <3> QED
        BY <3>1, <3>2
    <2> QED
      BY <1>6, <2>1, <2>2
  <1>11. ~data.failed
    <2>1. d # <<>>
      BY DEF Meant
    <2>2. Usable /\ data \in DataCandidates(tree, Data)
      BY <1>0, <1>2, <2>1, GivenIs
    <2>3. Found # {} /\ Found = There(Data)
      BY <1>0, <2>2, CandidatesAre DEF Found
    <2>4. /\ Located(tree, Data) = d /\ (Exists(tree, Data) <=> Present)
          /\ IsDirectory(tree, d) => Resolve(tree, d) = d
          /\ Resolve(tree, Front(d)) = Front(d)
      BY <1>0, <2>1, DataLeads
    <2>5. /\ given.slash => Front(Data) = d /\ Last(Data) = EmptyName
          /\ ~given.slash => Data = d /\ Last(Data) # EmptyName
          /\ given.slash \in BOOLEAN
      BY <1>0, <2>1, PlaceIs, GivenIs
    <2>6. CASE ~Exists(tree, Data)
      <3>1. data.failed = (Prefixed(tree, Data) = {})
        BY <2>2, <2>6 DEF DataCandidates
      <3>2. Beside(Data) # {}
        BY <2>3, <2>6 DEF There
      <3>3. Last(Data) # EmptyName /\ IsDirectory(tree, Resolve(tree, Front(Data)))
        BY <3>2 DEF Beside
      <3>4. Resolve(tree, Front(Data)) = Front(d)
        BY <2>4, <2>5, <3>3
      <3>5. ~tree[Front(d)].unreadable
        BY <1>3, <3>3, <3>4 DEF IsDirectory
      <3>6. Prefixed(tree, Data) = Beside(Data)
        BY <3>3, <3>4, <3>5 DEF Prefixed, Beside
      <3> QED
        BY <3>1, <3>2, <3>6
    <2>7. CASE Exists(tree, Data) /\ ObjectAt(tree, Data).type = "directory"
      <3>1. PICK walk \in Walks(tree, Data) :
                data = [found |-> {Data} \cup walk.found, failed |-> walk.failed]
        BY <2>2, <2>7 DEF DataCandidates
      <3>2. IsDirectory(tree, d) /\ d \in Meant
        BY <1>0, <2>1, <2>4, <2>7, MeantIs DEF ObjectAt, IsDirectory, Exists
      <3>3. Resolve(tree, IF Last(Data) = EmptyName THEN Front(Data) ELSE Data) = d
        BY <2>4, <2>5, <3>2
      <3>4. Descendants(tree, Data) \subseteq Candidates
        BY <2>3, <2>7 DEF There, Candidates
      <3>5. ~walk.failed
        BY <1>3, <1>4, <3>2, <3>3, <3>4, WalksAll
      <3> QED
        BY <3>1, <3>5
    <2>8. CASE Exists(tree, Data) /\ ObjectAt(tree, Data).type # "directory"
      BY <2>2, <2>8 DEF DataCandidates
    <2> QED
      BY <2>6, <2>7, <2>8
  <1> QED
    BY <1>2, <1>4, <1>10, <1>11

LEMMA ExtractionCaptures ==
  ASSUME Source
  PROVE  CapturesTheTree
  <1> DEFINE artifacts == first.artifacts
             captured == {components(artifacts[i]) : i \in DOMAIN artifacts}
             whole == {Below(p) : p \in Meant \cup Defined}
  <1> SUFFICES ASSUME NoLinkOnTheWay, given.place # Root
               PROVE  /\ captured \subseteq whole
                      /\ \A i, j \in DOMAIN artifacts :
                             i < j => /\ Before(Native(artifacts[i].path), Native(artifacts[j].path))
                                      /\ ~IsPrefix(components(artifacts[j]), components(artifacts[i]))
                      /\ first.success => captured = whole /\ Meant # {}
                      /\ Meant # {} /\ NothingInTheWay => first.success
    BY DEF CapturesTheTree
  <1>0. tree \in Trees /\ given \in DataPaths
    BY DEF Source
  <1>1. DOMAIN artifacts = DOMAIN Sorted
    BY SortedCandidates
  <1>2. \A i \in DOMAIN Sorted : /\ artifacts[i].path = Rel(Sorted[i])
                                 /\ components(artifacts[i]) = Below(Bare(Sorted[i]))
                                 /\ Sorted[i] \in Candidates
    BY SortedCandidates, Lawful DEF Tells
  <1>3. first.success => Taken = Candidates /\ Found # {}
    BY ExtractedIs DEF Captives
  <1> HIDE DEF artifacts
  <1>4. /\ \A k \in Candidates : Bare(k) \in Meant \cup Defined
        /\ \A p \in Meant \cup Defined : \E k \in Candidates : Bare(k) = p
        /\ Found = {} <=> Meant = {}
    BY <1>0, CandidatesAre
  <1>5. captured \subseteq whole
    BY <1>1, <1>2, <1>4
  <1>6. ASSUME first.success PROVE captured = whole /\ Meant # {}
    <2>1. \A p \in Meant \cup Defined : \E i \in DOMAIN Sorted : Bare(Sorted[i]) = p
      BY <1>3, <1>4, <1>6, SortedCandidates
    <2>2. whole \subseteq captured
      BY <1>1, <1>2, <2>1
    <2> QED
      BY <1>3, <1>4, <1>5, <1>6, <2>2
  <1>7. ASSUME NEW i \in DOMAIN artifacts, NEW j \in DOMAIN artifacts, i < j
        PROVE  /\ Before(Native(artifacts[i].path), Native(artifacts[j].path))
               /\ ~IsPrefix(components(artifacts[j]), components(artifacts[i]))
    <2>1. i \in DOMAIN Sorted /\ j \in DOMAIN Sorted
      BY <1>1
    <2>2. Before(Native(Rel(Sorted[i])), Native(Rel(Sorted[j])))
      BY <1>7, <2>1, SortedCandidates
    <2>3. ~IsPrefix(Below(Bare(Sorted[j])), Below(Bare(Sorted[i])))
      BY <1>7, <2>1, DirectoriesFirst
    <2> QED
      BY <1>2, <2>1, <2>2, <2>3
  <1>8. Meant # {} /\ NothingInTheWay => first.success
    BY NothingFails
  <1> HIDE DEF captured, whole
  <1> QED
    BY <1>5, <1>6, <1>7, <1>8

\* Whatever tree stands there (files, directories, links and objects of no supported kind;
\* any of them unreadable or not to be looked at, but for the root itself, and what cannot
\* be looked at cannot be opened either) and however a DataPath other than the root's is
\* spelled, if no link lies on its way: only what is meant and what defines the module is
\* captured, in order; an extraction that has succeeded has missed nothing of it, and one
\* that could read all it had to has succeeded.
THEOREM TheTreeIsCaptured == Spec => []CapturesTheTree
  <1>1. Init => Source
    BY DEF Init, Source
  <1>2. Source => CapturesTheTree
    BY ExtractionCaptures
  <1> QED
    BY <1>1, <1>2, NextSource, PTL DEF Spec

-----------------------------------------------------------------------------
(* What an extraction captures can be made again: its paths are valid, and    *)
(* what one of them lies in is a directory.                                  *)

\* What something in the tree lies in is reached where it is.
LEMMA OnTheWay ==
  ASSUME tree \in Trees, NEW c \in DOMAIN tree, NEW p \in Path, IsStrictPrefix(p, c)
  PROVE  Resolve(tree, p) = p
  <1>1. c \in Seq(Name) /\ p \in Seq(Name)
    BY TreeIs, PathIs
  <1>2. ASSUME NEW q \in Path, IsPrefix(q, p) PROVE ~IsLink(tree, q)
    <2>1. q \in Seq(Name)
      BY PathIs
    <2>2. IsPrefix(q, c) /\ Len(q) <= Len(p) /\ Len(p) < Len(c)
      BY <1>1, <1>2, <2>1, PrefixOrder DEF IsStrictPrefix
    <2>3. Len(q) \in Nat /\ Len(p) \in Nat /\ Len(c) \in Nat
      BY <1>1, <2>1
    <2>4. Len(q) # Len(c)
      BY <2>2, <2>3
    <2>5. IsStrictPrefix(q, c)
      BY <2>2, <2>4 DEF IsStrictPrefix
    <2> QED
      BY <2>5, TreeIs
  <1> QED
    BY <1>2, StraightOn

\* So is a file, and what would lie in it.
LEMMA Blocked ==
  ASSUME tree \in Trees, NEW c \in DOMAIN tree, tree[c].type = "regular",
         NEW p \in Path, IsPrefix(p, c) \/ IsPrefix(c, p)
  PROVE  Resolve(tree, p) = p
  <1>1. c \in Seq(Name) /\ c \in Path /\ p \in Seq(Name) /\ ~IsLink(tree, c)
    BY TreeIs, PathIs DEF IsLink
  <1>2. ASSUME NEW q \in Path, IsPrefix(q, p) PROVE ~IsLink(tree, q)
    <2>1. q \in Seq(Name)
      BY PathIs
    <2>2. IsPrefix(q, c) \/ IsPrefix(c, q)
      BY <1>1, <1>2, <2>1, PrefixOrder
    <2>3. CASE q = c
      BY <1>1, <2>3
    <2>4. CASE IsPrefix(q, c) /\ q # c
      BY <2>4, TreeIs DEF IsStrictPrefix
    <2>5. CASE IsPrefix(c, q) /\ q # c
      <3>1. SUFFICES ASSUME q \in DOMAIN tree PROVE FALSE
        BY DEF IsLink
      <3>2. IsDirectory(tree, c)
        BY <1>1, <2>5, <3>1, TreeIs DEF IsStrictPrefix
      <3> QED
        BY <3>2 DEF IsDirectory
    <2> QED
      BY <2>2, <2>3, <2>4, <2>5
  <1> QED
    BY <1>2, StraightOn

LEMMA UnderFile ==
  ASSUME tree \in Trees, NEW c \in DOMAIN tree, tree[c].type = "regular",
         NEW base \in NormalPath, NEW k, Under(base, k), IsStrictPrefix(c, k)
  PROVE  FALSE
  <1>1. k \in NormalPath /\ IsStrictPrefix(base, k)
    BY UnderIs
  <1>2. /\ c \in Seq(Name) /\ c \in Path /\ k \in Seq(Name) /\ base \in Seq(Name) /\ base \in Path
    BY <1>1, TreeIs, PathIs, ProperIs
  <1>3. IsPrefix(base, c) \/ IsPrefix(c, base)
    BY <1>1, <1>2, PrefixOrder DEF IsStrictPrefix
  <1>4. Resolve(tree, base) = base
    BY <1>2, <1>3, Blocked
  <1>5. k \in DOMAIN tree
    BY <1>4 DEF Under
  <1>6. IsDirectory(tree, c)
    BY <1>2, <1>5, TreeIs
  <1> QED
    BY <1>6 DEF IsDirectory

LEMMA UnderMeets ==
  ASSUME tree \in Trees, NEW c \in DOMAIN tree, NEW base \in NormalPath, NEW l, Under(base, l),
         IsStrictPrefix(l, c)
  PROVE  ObjectAt(tree, l).type = "directory"
  <1>1. l \in NormalPath /\ IsStrictPrefix(base, l)
    BY UnderIs
  <1>2. /\ c \in Seq(Name) /\ l \in Seq(Name) /\ l \in Path /\ base \in Seq(Name) /\ base \in Path
    BY <1>1, TreeIs, PathIs, ProperIs
  <1>3. IsStrictPrefix(base, c)
    <2>1. IsPrefix(base, c) /\ Len(base) < Len(l) /\ Len(l) < Len(c)
      BY <1>1, <1>2, PrefixOrder DEF IsStrictPrefix
    <2>2. Len(base) \in Nat /\ Len(l) \in Nat /\ Len(c) \in Nat
      BY <1>2
    <2>3. Len(base) # Len(c)
      BY <2>1, <2>2
    <2> QED
      BY <2>1, <2>3 DEF IsStrictPrefix
  <1>4. Resolve(tree, base) = base
    BY <1>2, <1>3, OnTheWay
  <1>5. l \in DOMAIN tree
    BY <1>4 DEF Under
  <1>6. IsDirectory(tree, l) /\ ObjectAt(tree, l) = tree[l]
    BY <1>2, <1>5, TreeIs, TreeObject
  <1> QED
    BY <1>6 DEF IsDirectory

LEMMA UnderBoth ==
  ASSUME tree \in Trees, NEW base \in NormalPath, NEW k, NEW l, Under(base, k), Under(base, l),
         IsStrictPrefix(l, k)
  PROVE  ObjectAt(tree, l).type = "directory"
  <1> DEFINE R == Resolve(tree, base)
  <1>1. PICK s \in NormalPath : k = base \o s /\ R \o s \in DOMAIN tree
    BY DEF Under
  <1>2. PICK u \in NormalPath : l = base \o u /\ R \o u \in DOMAIN tree /\ Located(tree, l) = R \o u
    BY DEF Under
  <1>3. /\ s \in Seq(Name) /\ u \in Seq(Name) /\ base \in Seq(Name)
    BY ProperIs
  <1>4. R \in Seq(Name)
    BY <1>3, TreeIs, ResolveIs
  <1> HIDE DEF R
  <1>5. IsStrictPrefix(u, s)
    BY <1>1, <1>2, <1>3, PrefixUnder
  <1>6. IsStrictPrefix(R \o u, R \o s)
    BY <1>3, <1>4, <1>5, PrefixUnder
  <1> DEFINE x == R \o u
  <1>7. x \in DOMAIN tree /\ Located(tree, l) = x
    BY <1>2
  <1>8. IsDirectory(tree, x)
    <2>1. x \in Path
      BY <1>7, TreeIs
    <2> DEFINE y == R \o s
    <2>2. y \in DOMAIN tree /\ IsStrictPrefix(x, y)
      BY <1>1, <1>6
    <2> HIDE DEF x, y
    <2> QED
      BY <1>7, <2>1, <2>2, TreeIs
  <1> QED
    BY <1>7, <1>8 DEF IsDirectory, ObjectAt

LEMMA DataMeets ==
  ASSUME tree \in Trees, given \in DataPaths, given.place # <<>>,
         NEW c \in DOMAIN tree, IsStrictPrefix(given.place, c)
  PROVE  ObjectAt(tree, Data).type = "directory"
  <1> DEFINE d == given.place
  <1>1. d \in Path /\ IsPrefix(Root, d) /\ given.slash \in BOOLEAN
    BY GivenIs
  <1>2. IsDirectory(tree, d)
    BY <1>1, TreeIs
  <1>3. Located(tree, d) = d
    BY <1>2, TreeObject DEF IsDirectory
  <1>4. Resolve(tree, d) = d
    <2> HIDE DEF d
    <2> QED
      BY <1>1, OnTheWay DEF d
  <1>5. Located(tree, Data) = d
    <2>1. CASE given.slash
      BY <1>4, <2>1, PlaceIs DEF Located
    <2>2. CASE ~given.slash
      BY <1>3, <2>2, PlaceIs
    <2> QED
      BY <1>1, <2>1, <2>2
  <1> QED
    BY <1>2, <1>5 DEF IsDirectory, ObjectAt

LEMMA DataFile ==
  ASSUME tree \in Trees, given \in DataPaths, given.place # <<>>,
         NEW c \in DOMAIN tree, tree[c].type = "regular", IsStrictPrefix(c, given.place)
  PROVE  ~Exists(tree, Data)
  <1> DEFINE d == given.place
             front == Front(d)
             x == Last(d)
  <1>1. /\ d \in Path /\ d \in Seq(Name) /\ given.slash \in BOOLEAN /\ IsPrefix(c, d) /\ c # d
        /\ front \in Seq(Name) /\ x \in Name /\ d = Append(front, x)
        /\ c \in Path /\ c \in Seq(Name) /\ Len(c) \in Nat \ {0}
    BY GivenIs, PathIs, TreeIs DEF IsStrictPrefix
  <1> HIDE DEF front, x, d
  <1>2. IsPrefix(c, front)
    BY <1>1, PrefixAppend
  <1>3. front \in Path
    <2>1. Len(c) <= Len(front) /\ Len(front) \in Nat
      BY <1>1, <1>2, PrefixOrder
    <2>2. Len(front) # 0
      BY <1>1, <2>1
    <2>3. front # <<>>
      BY <2>2
    <2> QED
      BY <1>1, <2>3 DEF Path
  <1>4. Resolve(tree, d) = d /\ Resolve(tree, front) = front
    BY <1>1, <1>2, <1>3, Blocked
  <1>5. Located(tree, Data) = d
    <2>1. CASE given.slash
      BY <1>4, <2>1, PlaceIs DEF Located, d
    <2>2. CASE ~given.slash
      <3>1. Data = d /\ Last(Data) # EmptyName
        BY <2>2, PlaceIs DEF d
      <3> QED
        BY <1>1, <1>4, <3>1 DEF Located, front, x
    <2> QED
      BY <1>1, <2>1, <2>2
  <1>6. d \notin DOMAIN tree
    <2> SUFFICES ASSUME d \in DOMAIN tree PROVE FALSE
      OBVIOUS
    <2>1. IsDirectory(tree, c)
      BY <1>1, TreeIs DEF IsStrictPrefix
    <2> QED
      BY <2>1 DEF IsDirectory
  <1> QED
    BY <1>5, <1>6 DEF Exists

\* A candidate that another one lies in is a directory.
LEMMA NestedCandidates ==
  ASSUME tree \in Trees, given \in DataPaths, ~ModsDIsLink,
         NEW k \in Candidates, NEW l \in Candidates, IsStrictPrefix(Bare(l), Bare(k))
  PROVE  ObjectAt(tree, l).type = "directory"
  <1> DEFINE d == given.place
             front == Front(d)
  <1>1. /\ Configured \subseteq DOMAIN tree
        /\ \A x \in Configured : tree[x].type = "regular" /\ Bare(x) = x
    <2>1. \A x \in DOMAIN tree : Bare(x) = x
      BY TreeIs DEF Bare
    <2> QED
      BY <2>1, ConfigurationIs
  <1>2. \A x \in Found : d # <<>>
    BY GivenIs DEF Found
  <1>3. d # <<>> => /\ d \in NormalPath /\ Bare(Data) = d
                    /\ d # Root => front \in NormalPath
    BY PlaceIs
  <1>4. \A base \in NormalPath : \A x :
            Under(base, x) => Bare(x) = x /\ IsStrictPrefix(base, x) /\ x \in NormalPath
    BY UnderIs, ProperIs DEF Bare
  <1>5. \A x \in Found :
            \/ x = Data /\ Exists(tree, Data)
            \/ Exists(tree, Data) /\ ObjectAt(tree, Data).type = "directory" /\ Under(d, x)
            \/ ~Exists(tree, Data) /\ d # Root /\ Under(front, x)
    BY <1>2, FoundAre
  <1> HIDE DEF front, d
  <1>6. CASE l \in Configured
    <2>1. l \in DOMAIN tree /\ tree[l].type = "regular" /\ Bare(l) = l
      BY <1>1, <1>6
    <2>2. CASE k \in Configured
      <3>1. IsDirectory(tree, l)
        BY <1>1, <2>1, <2>2, TreeIs
      <3> QED
        BY <2>1, <3>1 DEF IsDirectory
    <2>3. CASE k \in Found
      <3>1. CASE k = Data /\ Exists(tree, Data)
        <4>1. IsStrictPrefix(l, d)
          BY <1>2, <1>3, <2>1, <2>3, <3>1
        <4> QED
          BY <1>2, <2>1, <2>3, <3>1, <4>1, DataFile DEF d
      <3>2. CASE Under(d, k)
        BY <1>2, <1>3, <1>4, <2>1, <2>3, <3>2, UnderFile
      <3>3. CASE d # Root /\ Under(front, k)
        BY <1>2, <1>3, <1>4, <2>1, <2>3, <3>3, UnderFile
      <3> QED
        BY <1>5, <2>3, <3>1, <3>2, <3>3
    <2> QED
      BY <2>2, <2>3 DEF Candidates
  <1>7. CASE l \in Found /\ k \in Configured
    <2>1. Bare(k) = k /\ k \in DOMAIN tree /\ IsStrictPrefix(Bare(l), k)
      BY <1>1, <1>7
    <2>2. CASE l = Data
      <3>1. IsStrictPrefix(d, k)
        BY <1>2, <1>3, <1>7, <2>1, <2>2
      <3> QED
        BY <1>2, <1>7, <2>1, <2>2, <3>1, DataMeets DEF d
    <2>3. CASE Under(d, l)
      BY <1>2, <1>3, <1>4, <1>7, <2>1, <2>3, UnderMeets
    <2>4. CASE d # Root /\ Under(front, l)
      BY <1>2, <1>3, <1>4, <1>7, <2>1, <2>4, UnderMeets
    <2> QED
      BY <1>5, <1>7, <2>2, <2>3, <2>4
  <1>8. CASE l \in Found /\ k \in Found
    <2>1. CASE l = Data /\ Exists(tree, Data)
      <3>1. k # Data
        BY <2>1 DEF IsStrictPrefix
      <3> QED
        BY <1>5, <1>8, <2>1, <3>1
    <2>2. CASE Under(d, l) /\ Exists(tree, Data)
      <3>1. Bare(l) = l /\ IsStrictPrefix(d, l) /\ d \in Seq(Name) /\ l \in Seq(Name)
        BY <1>2, <1>3, <1>4, <1>8, <2>2, ProperIs
      <3>2. k # Data
        <4> SUFFICES ASSUME k = Data PROVE FALSE
          OBVIOUS
        <4>1. IsPrefix(l, d) /\ IsPrefix(d, l) /\ d # l
          BY <1>2, <1>3, <1>8, <3>1 DEF IsStrictPrefix
        <4> QED
          BY <3>1, <4>1, PrefixOrder
      <3>3. Under(d, k) /\ Bare(k) = k
        BY <1>2, <1>3, <1>4, <1>5, <1>8, <2>2, <3>2
      <3>4. IsStrictPrefix(l, k) /\ d \in NormalPath
        BY <1>2, <1>3, <1>8, <3>1, <3>3
      <3> QED
        BY <2>2, <3>3, <3>4, UnderBoth
    <2>3. CASE ~Exists(tree, Data)
      <3>1. d # Root /\ Under(front, l) /\ Under(front, k) /\ front \in NormalPath
        BY <1>2, <1>3, <1>5, <1>8, <2>3
      <3>2. IsStrictPrefix(l, k)
        BY <1>4, <3>1
      <3> QED
        BY <3>1, <3>2, UnderBoth
    <2> QED
      BY <1>5, <1>8, <2>1, <2>2, <2>3
  <1> QED
    BY <1>6, <1>7, <1>8 DEF Candidates

\* The artifacts of an extraction and the places they are captured at.
LEMMA ArtifactIs ==
  ASSUME Source, given.place # Root, NEW i \in DOMAIN first.artifacts
  PROVE  LET artifact == first.artifacts[i]
             k == Sorted[i]
             r == Below(Bare(k))
         IN  /\ i \in DOMAIN Sorted /\ k \in Candidates
             /\ components(artifact) = r /\ Bare(k) = Root \o r
             /\ r \in Path /\ r \in Seq(Proper) /\ r \in Seq(Name)
             /\ artifact.path \in Path
             /\ artifact.type = ObjectAt(tree, k).type
             /\ artifact.data # <<>> => artifact.type = "regular"
  <1>0. tree \in Trees /\ given \in DataPaths
    BY DEF Source
  <1>1. i \in DOMAIN Sorted /\ Sorted[i] \in Candidates /\ Tells(first.artifacts[i], Sorted[i])
    BY SortedCandidates
  <1>2. Bare(Sorted[i]) # Root
    BY <1>0, <1>1, Lawful
  <1>3. /\ Rel(Sorted[i]) \in Path /\ Below(Bare(Sorted[i])) \in Path
        /\ Below(Bare(Sorted[i])) \in Seq(Proper) /\ Bare(Sorted[i]) = Root \o Below(Bare(Sorted[i]))
    BY <1>0, <1>1, <1>2, CandidatePath
  <1>4. Below(Bare(Sorted[i])) \in Seq(Name)
    BY <1>3, PathIs
  <1> QED
    BY <1>1, <1>2, <1>3, <1>4 DEF Tells, Contents

LEMMA NestedArtifacts ==
  ASSUME Source, given.place # Root, ~ModsDIsLink,
         NEW i \in DOMAIN first.artifacts, NEW j \in DOMAIN first.artifacts,
         IsStrictPrefix(components(first.artifacts[i]), components(first.artifacts[j]))
  PROVE  first.artifacts[i].type = "directory"
  <1> DEFINE k == Sorted[j]
             l == Sorted[i]
             r == Below(Bare(k))
             s == Below(Bare(l))
  <1>1. /\ k \in Candidates /\ components(first.artifacts[j]) = r /\ Bare(k) = Root \o r
        /\ r \in Seq(Name)
    BY ArtifactIs
  <1>2. /\ l \in Candidates /\ components(first.artifacts[i]) = s /\ Bare(l) = Root \o s
        /\ s \in Seq(Name) /\ first.artifacts[i].type = ObjectAt(tree, l).type
    BY ArtifactIs
  <1>3. Root \in Seq(Name) /\ IsStrictPrefix(s, r)
    BY <1>1, <1>2, TreeIs, PathIs DEF Source
  <1> HIDE DEF k, l, r, s
  <1>4. IsStrictPrefix(Root \o s, Root \o r)
    BY <1>1, <1>2, <1>3, PrefixUnder
  <1>5. IsStrictPrefix(Bare(l), Bare(k))
    BY <1>1, <1>2, <1>4
  <1> QED
    BY <1>1, <1>2, <1>5, NestedCandidates DEF Source

LEMMA ArtifactsInOrder ==
  ASSUME Source, given.place # Root,
         NEW i \in DOMAIN first.artifacts, NEW j \in DOMAIN first.artifacts, i < j
  PROVE  ~IsPrefix(components(first.artifacts[j]), components(first.artifacts[i]))
  BY ArtifactIs, DirectoriesFirst

LEMMA PathsAreValid ==
  ASSUME Source, given.place # Root
  PROVE  PathRules(first.artifacts)
  <1> DEFINE artifacts == first.artifacts
  <1>1. ASSUME NEW i \in DOMAIN artifacts
        PROVE  /\ artifacts[i].path # <<>>
               /\ Range(components(artifacts[i])) \cap {EmptyName, Dot, DotDot} = {}
    <2> DEFINE r == components(artifacts[i])
    <2>1. artifacts[i].path \in Path /\ r \in Seq(Proper)
      BY ArtifactIs
    <2>2. Range(r) \subseteq Proper
      <3> HIDE DEF r
      <3> QED
        BY <2>1 DEF Range
    <2> HIDE DEF r
    <2>3. Range(r) \cap {EmptyName, Dot, DotDot} = {}
      BY <2>2 DEF Proper
    <2> QED
      BY <2>1, <2>3, PathIs DEF r
  <1>2. ASSUME NEW i \in DOMAIN artifacts, NEW j \in DOMAIN artifacts,
               components(artifacts[i]) = components(artifacts[j])
        PROVE  i = j
    <2>1. Bare(Sorted[i]) = Bare(Sorted[j]) /\ Sorted[i] \in Candidates /\ Sorted[j] \in Candidates
      BY <1>2, ArtifactIs
    <2>2. Sorted[i] = Sorted[j]
      BY <2>1, Lawful DEF Source
    <2>3. i \in DOMAIN Sorted /\ j \in DOMAIN Sorted
      BY ArtifactIs
    <2>4. i \in Int /\ j \in Int
      BY <2>3, SortedCandidates
    <2>5. ~(i < j) /\ ~(j < i)
      BY <2>2, <2>3, SortedCandidates
    <2> QED
      BY <2>4, <2>5
  <1> HIDE DEF artifacts
  <1>3. PathRules(artifacts)
    BY <1>1, <1>2 DEF PathRules
  <1> QED
    BY <1>3 DEF artifacts

\* The root itself has no path below the root.
LEMMA RootIsRefused ==
  ASSUME Source, given.place = Root
  PROVE  ~PathRules(first.artifacts)
  <1>0. tree \in Trees /\ given \in DataPaths
    BY DEF Source
  <1>1. /\ Root \in Path /\ Root \in Seq(Name) /\ Root \in DOMAIN tree /\ tree[Root].type = "directory"
        /\ ~tree[Root].unseen /\ Root # <<>>
    BY <1>0, TreeIs, PathIs
  <1>2. Resolve(tree, Root) = Root
    <2>1. ASSUME NEW q \in Path, IsPrefix(q, Root) PROVE ~IsLink(tree, q)
      BY <1>0, <1>1, <2>1, TreeIs DEF IsStrictPrefix, IsLink
    <2> QED
      BY <1>0, <1>1, <2>1, StraightOn
  <1>3. Located(tree, Data) = Root
    <2>1. CASE given.slash
      BY <1>0, <1>1, <1>2, <2>1, PlaceIs DEF Located
    <2>2. CASE ~given.slash
      BY <1>0, <1>1, <2>2, PlaceIs
    <2> QED
      BY <1>0, <1>1, <2>1, <2>2, GivenIs
  <1>4. Data \in Taken /\ Data \in Candidates /\ Bare(Data) = Root
    <2>1. Usable /\ Bare(Data) = Root
      BY <1>0, <1>1, GivenIs, PlaceIs
    <2>2. Exists(tree, Data)
      BY <1>1, <1>3 DEF Exists
    <2>3. Capturable(ObjectAt(tree, Data))
      BY <1>1, <1>3 DEF ObjectAt, Capturable
    <2> QED
      BY <2>1, <2>2, <2>3, ExtractedIs DEF Captives
  <1>5. PICK i \in DOMAIN Sorted : Sorted[i] = Data
    BY <1>4, SortedCandidates
  <1> DEFINE artifact == first.artifacts[i]
  <1>6. artifact.path = <<Dot>> /\ i \in DOMAIN first.artifacts
    BY <1>0, <1>4, <1>5, SortedCandidates, CandidatePath DEF Tells
  <1> HIDE DEF artifact
  <1>7. components(artifact) = <<Dot>>
    BY <1>6 DEF components
  <1>8. Dot \in Range(<<Dot>>)
    BY DEF Range
  <1> QED
    BY <1>6, <1>7, <1>8 DEF PathRules, artifact

-----------------------------------------------------------------------------
(* How a tree is restored.                                                 *)

Spot(i) == components(first.artifacts[i])

\* How many artifacts have been begun.
Reached == IF pc = "write" THEN index ELSE index - 1

\* The stage has what has been begun and what that lies in, and nothing else.
Rooted ==
  \A p \in DOMAIN stage :
      /\ p \in Path /\ Ancestors(p) \subseteq DOMAIN stage
      /\ \E j \in 1 .. Reached : p = Spot(j) \/ p \in Ancestors(Spot(j))
Placed ==
  \A j \in 1 .. Reached :
      /\ j \in DOMAIN first.artifacts /\ Spot(j) \in DOMAIN stage /\ IsArtifact(Spot(j), j)
      /\ stage[Spot(j)].type = "directory" =>
             Spot(j) \in pending \/ (stage[Spot(j)].closed <=> ModeOf(Spot(j)))

\* Directories are closed last, and none before those that are deeper.
ModesLast ==
  /\ pc \in Filling => \A p \in DOMAIN stage : ~stage[p].closed
  /\ \A p \in DOMAIN stage, q \in pending : stage[p].closed => Len(q) <= Len(p)
Ready == pc = "write" /\ first.artifacts[index].type = "regular" => opened # NoFile

\* While the input has not been cut short.
Growing == pc \in Filling \/ (Filled /\ index > Len(second))
Grown == Growing => Rooted /\ Placed /\ ModesLast /\ Ready

LEMMA AncestorsAre ==
  ASSUME NEW p \in Path, NEW q \in Ancestors(p)
  PROVE  /\ q \in Path /\ IsStrictPrefix(q, p) /\ Len(q) < Len(p)
         /\ Ancestors(q) \subseteq Ancestors(p)
  <1>1. p \in Seq(Name) /\ Len(p) \in Nat \ {0}
    BY PathIs
  <1>2. PICK n \in 1 .. Len(p) - 1 : q = SubSeq(p, 1, n)
    BY DEF Ancestors
  <1>3. n \in Nat /\ 1 <= n /\ n < Len(p)
    BY <1>1, <1>2
  <1>4. q \in Seq(Name) /\ Len(q) = n /\ \A k \in 1 .. n : q[k] = p[k]
    BY <1>1, <1>2, <1>3
  <1>5. q \in Path
    <2>1. Len(q) # 0
      BY <1>3, <1>4
    <2>2. q # <<>>
      BY <2>1
    <2> QED
      BY <1>4, <2>2 DEF Path
  <1>6. IsStrictPrefix(q, p)
    <2>1. Len(q) <= Len(p) /\ Len(q) # Len(p)
      BY <1>1, <1>3, <1>4
    <2>2. IsPrefix(q, p)
      BY <1>1, <1>4, <2>1, PrefixIs
    <2> QED
      BY <2>1, <2>2 DEF IsStrictPrefix
  <1>7. ASSUME NEW m \in 1 .. Len(q) - 1 PROVE SubSeq(q, 1, m) \in Ancestors(p)
    <2>1. m \in Nat /\ m <= n /\ m \in 1 .. Len(p) - 1
      BY <1>1, <1>3, <1>4
    <2>2. SubSeq(q, 1, m) = SubSeq(p, 1, m)
      BY <1>1, <1>3, <1>4, <2>1
    <2> QED
      BY <2>1, <2>2 DEF Ancestors
  <1> QED
    BY <1>1, <1>3, <1>4, <1>5, <1>6, <1>7 DEF Ancestors

\* A validated extraction has no artifact that is in the way of another one.
LEMMA ArtifactsFit ==
  ASSUME Source, PathRules(first.artifacts)
  PROVE  /\ given.place # Root
         /\ \A i \in DOMAIN first.artifacts :
                /\ Spot(i) \in Path
                /\ first.artifacts[i].data # <<>> => first.artifacts[i].type = "regular"
         /\ \A i, j \in DOMAIN first.artifacts : i < j => ~IsPrefix(Spot(j), Spot(i))
         /\ ~ModsDIsLink =>
                \A i, j \in DOMAIN first.artifacts :
                    IsStrictPrefix(Spot(i), Spot(j)) => first.artifacts[i].type = "directory"
  <1>2. given.place # Root
    BY RootIsRefused
  <1>3. \A i \in DOMAIN first.artifacts :
            /\ Spot(i) \in Path
            /\ first.artifacts[i].data # <<>> => first.artifacts[i].type = "regular"
    BY <1>2, ArtifactIs DEF Spot
  <1>4. \A i, j \in DOMAIN first.artifacts : i < j => ~IsPrefix(Spot(j), Spot(i))
    BY <1>2, ArtifactsInOrder DEF Spot
  <1>5. ASSUME ~ModsDIsLink, NEW i \in DOMAIN first.artifacts, NEW j \in DOMAIN first.artifacts,
               IsStrictPrefix(Spot(i), Spot(j))
        PROVE  first.artifacts[i].type = "directory"
    BY <1>2, <1>5, NestedArtifacts DEF Spot
  <1> QED
    BY <1>2, <1>3, <1>4, <1>5

\* A step that begins and closes nothing.
LEMMA GrownStep ==
  ASSUME Grown, first' = first,
         Growing' => /\ Growing /\ Reached' = Reached
                     /\ DOMAIN stage' = DOMAIN stage /\ pending' = pending
                     /\ \A p \in DOMAIN stage : /\ stage'[p].type = stage[p].type
                                                /\ stage'[p].target = stage[p].target
                                                /\ stage'[p].closed = stage[p].closed
                     /\ pc' \in Filling => pc \in Filling
                     /\ pc' = "write" => pc = "write" /\ index' = index /\ opened' = opened
  PROVE  Grown'
  <1> SUFFICES ASSUME Growing' PROVE Rooted' /\ Placed' /\ ModesLast' /\ Ready'
    BY DEF Grown
  <1>1. /\ Growing /\ Reached' = Reached /\ DOMAIN stage' = DOMAIN stage /\ pending' = pending
        /\ \A p \in DOMAIN stage : /\ stage'[p].type = stage[p].type
                                   /\ stage'[p].target = stage[p].target
                                   /\ stage'[p].closed = stage[p].closed
        /\ pc' \in Filling => pc \in Filling
        /\ pc' = "write" => pc = "write" /\ index' = index /\ opened' = opened
    OBVIOUS
  <1>2. Rooted /\ Placed /\ ModesLast /\ Ready
    BY <1>1 DEF Grown
  <1>3. \A i : Spot(i)' = Spot(i)
    BY DEF Spot, components
  <1>4. \A p : ModeOf(p)' <=> ModeOf(p)
    BY DEF ModeOf
  <1>5. Rooted'
    BY <1>1, <1>2, <1>3 DEF Rooted
  <1>6. Placed'
    <2> SUFFICES ASSUME NEW j \in 1 .. Reached
                 PROVE  /\ j \in DOMAIN first.artifacts /\ Spot(j) \in DOMAIN stage
                        /\ IsArtifact(Spot(j), j)'
                        /\ stage'[Spot(j)].type = "directory" =>
                               Spot(j) \in pending \/ (stage'[Spot(j)].closed <=> ModeOf(Spot(j)))
      BY <1>1, <1>3, <1>4 DEF Placed
    <2>1. /\ j \in DOMAIN first.artifacts /\ Spot(j) \in DOMAIN stage /\ IsArtifact(Spot(j), j)
          /\ stage[Spot(j)].type = "directory" =>
                 Spot(j) \in pending \/ (stage[Spot(j)].closed <=> ModeOf(Spot(j)))
      BY <1>2 DEF Placed
    <2>2. IsArtifact(Spot(j), j)'
      BY <1>1, <1>3, <2>1 DEF IsArtifact
    <2> QED
      BY <1>1, <2>1, <2>2
  <1>7. ModesLast'
    BY <1>1, <1>2 DEF ModesLast
  <1>8. Ready'
    BY <1>1, <1>2 DEF Ready
  <1> QED
    BY <1>5, <1>6, <1>7, <1>8

LEMMA QuietGrown ==
  ASSUME Typed, IInv, Grown,
         \/ Validate \/ Check \/ MakeStage \/ LastRecord \/ Replace \/ SyncParent \/ Cleanup
         \/ Interfere \/ Kill \/ Disturb \/ Stumble \/ UNCHANGED allvars
  PROVE  Grown'
  <1>1. target = "ours" => pc \in {"sync", "cleanup", "done", "killed"}
    BY DEF IInv, Published
  <1> DEFINE Same == /\ first' = first
                     /\ Growing' => /\ Growing /\ index' = index /\ stage' = stage /\ pending' = pending
                                    /\ pc' = "write" <=> pc = "write"
                                    /\ pc' = "write" => opened' = opened
                                    /\ pc' \in Filling => pc \in Filling
  <1>2. Same
    <2>1. CASE Validate \/ Check \/ MakeStage
      <3>1. /\ first' = first /\ target' = target /\ target # "ours"
            /\ pc' \in {"check", "mkdtemp", "open", "done"}
        BY <1>1, <2>1 DEF Validate, Check, MakeStage, Conclude, input, destination
      <3>2. ~Growing'
        BY <3>1 DEF Growing, Filling, Filled
      <3> QED
        BY <3>1, <3>2
    <2>2. CASE LastRecord
      <3>1. Len(second) \in Nat /\ index \in Nat
        <4>1. PICK S : second \in Seq(S)
          BY DEF Typed, Listed
        <4> QED
          BY <4>1 DEF IInv, Progressed
      <3>2. UNCHANGED <<first, second, index, stage, pending, opened, target>> /\ pc' = "chmod"
        BY <2>2 DEF LastRecord, input, reading, staging, destination
      <3>3. Growing' => pc = "begin"
        BY <2>2, <3>1, <3>2 DEF LastRecord, Growing, Filling
      <3> QED
        BY <3>2, <3>3 DEF Growing, Filling
    <2>3. CASE Replace
      BY <2>3 DEF Replace, Disturb, Growing, Filling, Filled, input, reading, staging
    <2>4. CASE SyncParent
      BY <2>4 DEF SyncParent, Conclude, Growing, Filling, Filled, input, reading, staging
    <2>5. CASE Cleanup
      <3>1. /\ first' = first /\ target' = target /\ pc' = "done" /\ index' = index
            /\ second' = second
            /\ target = "ours" => stage' = stage /\ pending' = pending
        BY <2>5 DEF Cleanup, Conclude, input, staging, destination
      <3>2. Growing' => target = "ours"
        BY <3>1 DEF Growing, Filling, Filled
      <3>3. pc = "cleanup"
        BY <2>5 DEF Cleanup
      <3> QED
        BY <3>1, <3>2, <3>3 DEF Growing, Filling, Filled
    <2>6. CASE Interfere
      <3>1. /\ UNCHANGED <<first, second, index, stage, pending, pc, opened>> /\ target' # "ours"
        BY <2>6 DEF Interfere, input, reading, staging
      <3> QED
        BY <3>1 DEF Growing, Filling, Filled
    <2>7. CASE Kill \/ Disturb \/ Stumble
      <3>1. UNCHANGED <<first, second, index, stage, pending, target>> /\ pc' \in {"cleanup", "killed"}
        BY <2>7 DEF Kill, Disturb, Stumble, input, reading, staging, destination
      <3>2. Growing' => target = "ours" /\ pc # "write"
        BY <1>1, <3>1 DEF Growing, Filling, Filled
      <3> QED
        BY <3>1, <3>2 DEF Growing, Filling, Filled
    <2>8. CASE UNCHANGED allvars
      BY <2>8 DEF allvars, vars, Growing, Filling, Filled
    <2> QED
      BY <2>1, <2>2, <2>3, <2>4, <2>5, <2>6, <2>7, <2>8
  <1>3. Growing' => Reached' = Reached
    BY <1>2 DEF Reached
  <1> QED
    BY <1>2, <1>3, GrownStep

LEMMA ReopenGrown == ASSUME Typed, IInv, Grown, Reopen PROVE Grown'
  <1>1. CASE Disturb
    BY <1>1, QuietGrown
  <1>2. CASE ~Disturb
    <2>1. pc' = "begin" /\ index' = 1 /\ DOMAIN stage' = {} /\ pending' = {}
      BY <1>2 DEF Reopen, IInv, Validated, EmptyTree, staging
    <2>2. Reached' = 0
      BY <2>1 DEF Reached
    <2>3. 1 .. Reached' = {}
      BY <2>2
    <2> QED
      BY <2>1, <2>3 DEF Grown, Rooted, Placed, ModesLast, Ready
  <1> QED
    BY <1>1, <1>2

LEMMA BeginGrown == ASSUME Source, Typed, IInv, Grown, Begin PROVE Grown'
  <1>1. CASE Disturb \/ Stumble
    BY <1>1, QuietGrown
  <1>2. CASE ~Disturb /\ ~Stumble
    <2> DEFINE artifact == first.artifacts[index]
               path == Spot(index)
    <2>1. /\ pc = "begin" /\ pc' = "write" /\ index \in DOMAIN first.artifacts
          /\ Creatable(path) /\ stage' = Created(artifact, path)
          /\ pending' = IF artifact.type = "directory" THEN pending \cup {path} ELSE pending
          /\ artifact.type = "regular" => opened' = path
          /\ UNCHANGED <<first, index>>
      BY <1>2 DEF Begin, input, Spot
    <2>2. /\ DOMAIN stage' = DOMAIN stage \cup Ancestors(path) \cup {path}
          /\ path \notin DOMAIN stage
          /\ \A p \in DOMAIN stage : stage'[p] = stage[p]
          /\ stage'[path] = Object(artifact.type, artifact.target)
          /\ \A p \in Ancestors(path) :
                 p \notin DOMAIN stage /\ p # path => stage'[p] = Object("directory", NoTarget)
      BY <2>1 DEF Created, Creatable
    <2>3. /\ Rooted /\ Placed /\ \A p \in DOMAIN stage : ~stage[p].closed
      BY <2>1 DEF Grown, Growing, Filling, ModesLast
    <2>4. path \in Path
      <3>1. PathRules(first.artifacts)
        BY <2>1 DEF IInv, Validated
      <3> QED
        BY <2>1, <3>1, ArtifactsFit
    <2>5. /\ index \in Nat \ {0} /\ Reached = index - 1 /\ Reached' = index
      BY <2>1 DEF Typed, TypeOK, Reached
    <2>6. /\ \A j \in 1 .. Reached : j \in 1 .. Reached'
          /\ \A j \in 1 .. Reached' : j \in 1 .. Reached \/ j = index
          /\ index \in 1 .. Reached'
      BY <2>5
    <2>7. \A i : Spot(i)' = Spot(i)
      BY <2>1 DEF Spot, components
    <2>8. \A p : ModeOf(p)' <=> ModeOf(p)
      BY <2>1 DEF ModeOf
    <2> HIDE DEF path
    <2>9. Rooted'
      <3> SUFFICES ASSUME NEW p \in DOMAIN stage'
                   PROVE  /\ p \in Path /\ Ancestors(p) \subseteq DOMAIN stage'
                          /\ \E j \in 1 .. Reached' : p = Spot(j) \/ p \in Ancestors(Spot(j))
        BY <2>7 DEF Rooted
      <3>1. CASE p \in DOMAIN stage
        BY <2>2, <2>3, <2>6, <3>1 DEF Rooted
      <3>2. CASE p = path
        BY <2>2, <2>4, <2>6, <3>2 DEF path
      <3>3. CASE p \in Ancestors(path)
        <4>1. p \in Path /\ Ancestors(p) \subseteq Ancestors(path)
          BY <2>4, <3>3, AncestorsAre
        <4> QED
          BY <2>2, <2>6, <3>3, <4>1 DEF path
      <3> QED
        BY <2>2, <3>1, <3>2, <3>3
    <2>10. Placed'
      <3> SUFFICES ASSUME NEW j \in 1 .. Reached'
                   PROVE  /\ j \in DOMAIN first.artifacts /\ Spot(j) \in DOMAIN stage'
                          /\ IsArtifact(Spot(j), j)'
                          /\ stage'[Spot(j)].type = "directory" =>
                                 Spot(j) \in pending' \/ (stage'[Spot(j)].closed <=> ModeOf(Spot(j)))
        BY <2>1, <2>7, <2>8 DEF Placed
      <3>1. CASE j \in 1 .. Reached
        <4>1. /\ j \in DOMAIN first.artifacts /\ Spot(j) \in DOMAIN stage /\ IsArtifact(Spot(j), j)
              /\ stage[Spot(j)].type = "directory" =>
                     Spot(j) \in pending \/ (stage[Spot(j)].closed <=> ModeOf(Spot(j)))
          BY <2>3, <3>1 DEF Placed
        <4>2. stage'[Spot(j)] = stage[Spot(j)] /\ Spot(j) \in DOMAIN stage'
          BY <2>2, <4>1
        <4>3. IsArtifact(Spot(j), j)'
          BY <2>1, <2>7, <4>1, <4>2 DEF IsArtifact
        <4>4. Spot(j) \in pending => Spot(j) \in pending'
          BY <2>1
        <4> QED
          BY <4>1, <4>2, <4>3, <4>4
      <3>2. CASE j = index
        <4>1. Spot(j) = path /\ path \in DOMAIN stage'
          BY <2>2, <3>2 DEF path
        <4>2. stage'[path].type = artifact.type /\ stage'[path].target = artifact.target
          BY <2>2 DEF Object
        <4>3. IsArtifact(Spot(j), j)'
          <5>1. Spot(j)' = Spot(j) /\ components(first.artifacts[j])' = Spot(j)
            BY <2>7, <2>1 DEF Spot, components
          <5> QED
            BY <2>1, <3>2, <4>1, <4>2, <5>1 DEF IsArtifact
        <4>4. artifact.type = "directory" => path \in pending'
          BY <2>1 DEF path
        <4> QED
          BY <2>1, <3>2, <4>1, <4>2, <4>3, <4>4
      <3> QED
        BY <2>6, <3>1, <3>2
    <2>11. \A p \in DOMAIN stage' : ~stage'[p].closed
      <3> TAKE p \in DOMAIN stage'
      <3>1. CASE p \in DOMAIN stage
        BY <2>2, <2>3, <3>1
      <3>2. CASE p \notin DOMAIN stage
        <4>1. stage'[p] = Object(artifact.type, artifact.target) \/ stage'[p] = Object("directory", NoTarget)
          BY <2>2, <3>2
        <4> QED
          BY <4>1 DEF Object
      <3> QED
        BY <3>1, <3>2
    <2>12. ModesLast'
      BY <2>11 DEF ModesLast
    <2>13. Ready'
      <3>1. path # NoFile
        BY <2>4, PathIs DEF NoFile
      <3> QED
        BY <2>1, <3>1 DEF Ready, path
    <2> QED
      BY <2>9, <2>10, <2>12, <2>13 DEF Grown
  <1> QED
    BY <1>1, <1>2

LEMMA WriteGrown == ASSUME Typed, IInv, Grown, Write PROVE Grown'
  <1>1. CASE Disturb \/ Stumble
    BY <1>1, QuietGrown
  <1>2. CASE ~Disturb /\ ~Stumble
    <2>1. /\ stage' = [stage EXCEPT ![opened].data = Append(@, second[index].data[written + 1])]
          /\ UNCHANGED <<first, pc, index, opened, pending>>
      BY <1>2 DEF Write, input
    <2>2. \A p \in DOMAIN stage : Record(stage[p])
      BY DEF Typed
    <2>3. /\ DOMAIN stage' = DOMAIN stage
          /\ \A p \in DOMAIN stage : /\ stage'[p].type = stage[p].type
                                     /\ stage'[p].target = stage[p].target
                                     /\ stage'[p].closed = stage[p].closed
      BY <2>1, <2>2 DEF Record
    <2>4. Growing' => Growing
      <3>1. pc = "write"
        BY DEF Write
      <3> QED
        BY <3>1 DEF Growing, Filling
    <2>5. Reached' = Reached
      BY <2>1 DEF Reached
    <2> QED
      BY <2>1, <2>3, <2>4, <2>5, GrownStep
  <1> QED
    BY <1>1, <1>2

LEMMA EndGrown == ASSUME Typed, IInv, Grown, End PROVE Grown'
  <1>1. CASE Disturb
    BY <1>1, QuietGrown
  <1>2. CASE ~Disturb
    <2>1. pc = "write" /\ target # "ours" /\ UNCHANGED <<first, target>> /\ index \in Nat
      BY <1>2 DEF End, IInv, Published, Progressed, destination, input
    <2>2. CASE pc' = "done"
      <3>1. ~Growing'
        BY <2>1, <2>2 DEF Growing, Filling, Filled
      <3> QED
        BY <2>1, <3>1, GrownStep
    <2>3. CASE pc' # "done"
      <3>1. /\ pc' = "begin" /\ index' = index + 1
            /\ stage' = IF opened = NoFile THEN stage ELSE [stage EXCEPT ![opened].synced = TRUE]
            /\ UNCHANGED <<first, pending>>
        BY <1>2, <2>3 DEF End, Conclude, input
      <3>2. \A p \in DOMAIN stage : Record(stage[p])
        BY DEF Typed
      <3>3. /\ DOMAIN stage' = DOMAIN stage
            /\ \A p \in DOMAIN stage : /\ stage'[p].type = stage[p].type
                                       /\ stage'[p].target = stage[p].target
                                       /\ stage'[p].closed = stage[p].closed
        BY <3>1, <3>2 DEF Record
      <3>4. Growing /\ pc \in Filling
        BY <2>1 DEF Growing, Filling
      <3>5. Reached' = Reached
        BY <2>1, <3>1 DEF Reached
      <3> QED
        BY <3>1, <3>3, <3>4, <3>5, GrownStep
    <2> QED
      BY <2>2, <2>3
  <1> QED
    BY <1>1, <1>2

LEMMA ChmodGrown == ASSUME Typed, IInv, Grown, Chmod PROVE Grown'
  <1> SUFFICES ASSUME Growing' PROVE Grown'
    BY DEF Grown
  <1>1. CASE Disturb \/ Stumble
    BY <1>1, QuietGrown
  <1>2. CASE ~Disturb /\ ~Stumble
    <2>1. PICK path \in pending :
             /\ \A q \in pending : Len(q) <= Len(path)
             /\ pc = "chmod"
             /\ stage' = [stage EXCEPT ![path].closed = ModeOf(path)]
             /\ pending' = pending \ {path}
             /\ UNCHANGED <<first, second, pc, index>>
      BY <1>2 DEF Chmod, Deepest, input, reading
    <2>2. \A p \in DOMAIN stage : Record(stage[p])
      BY DEF Typed
    <2>3. /\ DOMAIN stage' = DOMAIN stage
          /\ \A p \in DOMAIN stage : /\ stage'[p].type = stage[p].type
                                     /\ stage'[p].target = stage[p].target
                                     /\ p # path => stage'[p].closed = stage[p].closed
                                     /\ p = path => stage'[p].closed = ModeOf(path)
      BY <2>1, <2>2 DEF Record
    <2>4. Rooted /\ Placed /\ ModesLast
      BY <2>1 DEF Grown, Growing, Filling, Filled
    <2>5. \A i : Spot(i)' = Spot(i)
      BY <2>1 DEF Spot, components
    <2>6. \A p : ModeOf(p)' <=> ModeOf(p)
      BY <2>1 DEF ModeOf
    <2>7. Reached' = Reached
      BY <2>1 DEF Reached
    <2>8. Rooted'
      BY <2>3, <2>4, <2>5, <2>7 DEF Rooted
    <2>9. Placed'
      <3> SUFFICES ASSUME NEW j \in 1 .. Reached
                   PROVE  /\ j \in DOMAIN first.artifacts /\ Spot(j) \in DOMAIN stage
                          /\ IsArtifact(Spot(j), j)'
                          /\ stage'[Spot(j)].type = "directory" =>
                                 Spot(j) \in pending' \/ (stage'[Spot(j)].closed <=> ModeOf(Spot(j)))
        BY <2>1, <2>3, <2>5, <2>6, <2>7 DEF Placed
      <3>1. /\ j \in DOMAIN first.artifacts /\ Spot(j) \in DOMAIN stage /\ IsArtifact(Spot(j), j)
            /\ stage[Spot(j)].type = "directory" =>
                   Spot(j) \in pending \/ (stage[Spot(j)].closed <=> ModeOf(Spot(j)))
        BY <2>4 DEF Placed
      <3>2. IsArtifact(Spot(j), j)'
        BY <2>1, <2>3, <2>5, <3>1 DEF IsArtifact
      <3>3. CASE Spot(j) = path
        BY <2>3, <3>1, <3>2, <3>3
      <3>4. CASE Spot(j) # path
        BY <2>1, <2>3, <3>1, <3>2, <3>4
      <3> QED
        BY <3>3, <3>4
    <2>10. ModesLast'
      <3>1. pc' \notin Filling
        BY <2>1 DEF Filling
      <3>2. ASSUME NEW p \in DOMAIN stage, NEW q \in pending', stage'[p].closed PROVE Len(q) <= Len(p)
        <4>1. q \in pending
          BY <2>1
        <4>2. CASE p = path
          BY <2>1, <4>1, <4>2
        <4>3. CASE p # path
          BY <2>3, <2>4, <3>2, <4>1, <4>3 DEF ModesLast
        <4> QED
          BY <4>2, <4>3
      <3> QED
        BY <2>3, <3>1, <3>2 DEF ModesLast
    <2>11. Ready'
      BY <2>1 DEF Ready
    <2> QED
      BY <2>8, <2>9, <2>10, <2>11 DEF Grown
  <1> QED
    BY <1>1, <1>2

LEMMA PowerLossGrown == ASSUME Typed, IInv, Grown, PowerLoss PROVE Grown'
  <1>1. /\ pc' \in {"done", "killed"} /\ (target' = "ours" => target = "ours")
        /\ stage' = [p \in DOMAIN stage |->
                        IF stage[p].type = "regular" /\ ~stage[p].synced
                        THEN [stage[p] EXCEPT !.data = <<>>] ELSE stage[p]]
        /\ UNCHANGED <<first, second, index, opened, pending>>
    BY DEF PowerLoss, input, reading, destination
  <1>2. \A p \in DOMAIN stage : Record(stage[p])
    BY DEF Typed
  <1>3. /\ DOMAIN stage' = DOMAIN stage
        /\ \A p \in DOMAIN stage : /\ stage'[p].type = stage[p].type
                                   /\ stage'[p].target = stage[p].target
                                   /\ stage'[p].closed = stage[p].closed
    BY <1>1, <1>2 DEF Record
  <1>4. Growing' => Growing /\ pc # "write"
    BY <1>1 DEF Growing, Filling, Filled, IInv, Published
  <1>5. Growing' => Reached' = Reached
    BY <1>1, <1>4 DEF Reached
  <1>6. pc' \notin Filling
    BY <1>1 DEF Filling
  <1> QED
    BY <1>1, <1>3, <1>4, <1>5, <1>6, GrownStep

LEMMA NextGrown == Source /\ Typed /\ IInv /\ Grown /\ [Advance]_allvars => Grown'
  <1> SUFFICES ASSUME Source, Typed, IInv, Grown, [Advance]_allvars PROVE Grown'
    OBVIOUS
  <1> QED
    BY QuietGrown, ReopenGrown, BeginGrown, WriteGrown, EndGrown, ChmodGrown, PowerLossGrown
    DEF Advance, Next, reassemble

LEMMA InitGrown == Init => Grown
  <1> SUFFICES ASSUME Init PROVE Grown
    OBVIOUS
  <1>1. pc = "validate" /\ target \in {"absent", "empty", "foreign"}
    BY DEF Init, Start
  <1> QED
    BY <1>1 DEF Grown, Growing, Filling, Filled

\* What can be created when nothing else has gone wrong.
LEMMA Unhindered ==
  ASSUME Source, Typed, IInv, Grown, ~ModsDIsLink, pc = "begin", index \in DOMAIN first.artifacts
  PROVE  Creatable(Spot(index))
  <1> DEFINE path == Spot(index)
  <1>1. PathRules(first.artifacts) /\ Rooted /\ Placed /\ Staged
    BY DEF IInv, Validated, Grown, Growing, Filling
  <1>2. /\ \A i \in DOMAIN first.artifacts : Spot(i) \in Path
        /\ \A i, j \in DOMAIN first.artifacts : i < j => ~IsPrefix(Spot(j), Spot(i))
        /\ \A i, j \in DOMAIN first.artifacts :
               IsStrictPrefix(Spot(i), Spot(j)) => first.artifacts[i].type = "directory"
    BY <1>1, ArtifactsFit
  <1>3. path \in Path /\ path \in Seq(Name)
    BY <1>2, PathIs
  <1>4. path \notin DOMAIN stage
    <2> SUFFICES ASSUME path \in DOMAIN stage PROVE FALSE
      OBVIOUS
    <2>1. PICK j \in 1 .. Reached : path = Spot(j) \/ path \in Ancestors(Spot(j))
      BY <1>1 DEF Rooted
    <2>2. j \in DOMAIN first.artifacts /\ j < index
      <3>1. j \in DOMAIN first.artifacts
        BY <1>1 DEF Placed
      <3>2. Reached = index - 1 /\ index \in Nat
        BY DEF Reached, Typed, TypeOK
      <3> QED
        BY <3>1, <3>2
    <2>3. ~IsPrefix(path, Spot(j))
      BY <1>2, <2>2
    <2>4. IsPrefix(path, path)
      BY <1>3, PrefixOrder
    <2>5. CASE path \in Ancestors(Spot(j))
      <3>1. IsStrictPrefix(path, Spot(j))
        BY <1>2, <2>2, <2>5, AncestorsAre
      <3> QED
        BY <2>3, <3>1 DEF IsStrictPrefix
    <2> QED
      BY <2>1, <2>3, <2>4, <2>5
  <1>5. ASSUME NEW p \in Ancestors(path), p \in DOMAIN stage PROVE stage[p].type = "directory"
    <2>1. IsStrictPrefix(p, path)
      BY <1>3, <1>5, AncestorsAre
    <2>2. Shaped(p)
      BY <1>1, <1>5 DEF Staged, Filling
    <2>3. CASE \E i \in DOMAIN first.artifacts : IsArtifact(p, i)
      <3>1. PICK i \in DOMAIN first.artifacts : IsArtifact(p, i)
        BY <2>3
      <3>2. p = Spot(i) /\ stage[p].type = first.artifacts[i].type
        BY <3>1 DEF IsArtifact, Spot
      <3> QED
        BY <1>2, <2>1, <3>2
    <2> QED
      BY <2>2, <2>3 DEF Shaped
  <1> QED
    BY <1>4, <1>5 DEF Creatable

\* With nothing wrong outside, it ends for a reason there was from the beginning.
Undisturbed ==
  /\ outcome = "invalid" => ~PathRules(first.artifacts)
  /\ pc \in {"mkdtemp", "open", "begin", "write", "chmod", "sync"} \/ outcome = "done" => first.success
  /\ ~disturbed =>
         /\ outcome = "refused" => ~first.success \/ target # "absent" \/ ~LinksArePermitted
         /\ outcome = "failed" \/ pc = "cleanup" => ModsDIsLink
         /\ pc \in {"begin", "write", "chmod", "sync"} => second = first.artifacts
         /\ pc \in {"chmod", "sync"} => index > Len(second)

LEMMA InitUndisturbed == Init => Undisturbed
  BY DEF Init, Start, Undisturbed

LEMMA BeginUndisturbed ==
  ASSUME Source, Typed, IInv, Grown, Undisturbed, Begin PROVE disturbed' \/ pc' = "write" \/ ModsDIsLink
  <1> SUFFICES ASSUME ~disturbed', ~ModsDIsLink PROVE pc' = "write"
    OBVIOUS
  <1>1. CASE Stumble /\ (index \in DOMAIN first.artifacts => ~Creatable(components(first.artifacts[index])))
    <2>1. ~disturbed /\ pc = "begin" /\ index <= Len(second)
      BY <1>1 DEF Stumble, Begin
    <2>2. index \in DOMAIN first.artifacts
      <3>1. second = first.artifacts
        BY <2>1 DEF Undisturbed
      <3>2. index \in Nat \ {0}
        BY DEF Typed, TypeOK
      <3>3. PICK S : first.artifacts \in Seq(S)
        BY DEF Typed, Listed
      <3>4. DOMAIN first.artifacts = 1 .. Len(first.artifacts) /\ Len(first.artifacts) \in Nat
        BY <3>3
      <3> QED
        BY <2>1, <3>1, <3>2, <3>4
    <2> QED
      BY <1>1, <2>1, <2>2, Unhindered DEF Spot
  <1> QED
    BY <1>1 DEF Begin, Disturb

LEMMA WriteUndisturbed ==
  ASSUME Source, Typed, IInv, Grown, Undisturbed, Write PROVE disturbed' \/ pc' = "write"
  <1> SUFFICES ASSUME ~disturbed' PROVE pc' = "write"
    OBVIOUS
  <1>1. CASE Stumble /\ opened = NoFile
    <2>1. ~disturbed /\ pc = "write" /\ written < Len(second[index].data)
      BY <1>1 DEF Stumble, Write
    <2>2. second = first.artifacts /\ PathRules(first.artifacts) /\ Ready /\ index <= Len(second)
      BY <2>1 DEF Undisturbed, IInv, Validated, Grown, Growing, Filling, Typed
    <2>3. index \in Nat \ {0} /\ written \in Nat
      BY <2>1, <2>2 DEF Typed, TypeOK
    <2>4. PICK S : first.artifacts \in Seq(S)
      BY DEF Typed, Listed
    <2>5. DOMAIN first.artifacts = 1 .. Len(first.artifacts) /\ Len(first.artifacts) \in Nat
      BY <2>4
    <2>6. index \in DOMAIN first.artifacts
      BY <2>2, <2>3, <2>5
    <2>7. first.artifacts[index].data # <<>>
      <3>1. written < Len(first.artifacts[index].data)
        BY <2>1, <2>2
      <3> QED
        BY <2>3, <3>1
    <2>8. first.artifacts[index].type = "regular"
      BY <2>2, <2>6, <2>7, ArtifactsFit
    <2> QED
      BY <1>1, <2>1, <2>2, <2>8 DEF Ready
  <1> QED
    BY <1>1 DEF Write, Disturb

LEMMA ChmodUndisturbed ==
  ASSUME Typed, IInv, Grown, Undisturbed, Chmod PROVE disturbed' \/ pc' = "chmod"
  <1> SUFFICES ASSUME ~disturbed' PROVE pc' = "chmod"
    OBVIOUS
  <1>0. pc = "chmod" /\ index > Len(second)
    BY DEF Chmod, Disturb, Stumble, Undisturbed
  <1>1. pc = "chmod" /\ Rooted /\ ModesLast /\ pending \subseteq DOMAIN stage
    BY <1>0 DEF Grown, Growing, Filled, Typed, TypeOK
  <1>2. ASSUME NEW path \in Deepest(pending), NEW p \in Ancestors(path), stage[p].closed PROVE FALSE
    <2>1. path \in pending /\ path \in Path /\ p \in DOMAIN stage
      BY <1>1 DEF Deepest, Rooted
    <2>2. Len(path) <= Len(p)
      BY <1>1, <1>2, <2>1 DEF ModesLast
    <2>3. Len(p) < Len(path) /\ p \in Path
      BY <2>1, AncestorsAre
    <2>4. Len(p) \in Nat /\ Len(path) \in Nat
      BY <2>1, <2>3, PathIs
    <2> QED
      BY <2>2, <2>3, <2>4
  <1>3. PICK path \in Deepest(pending) :
            \/ pc' = pc
            \/ \E p \in Ancestors(path) : stage[p].closed
    BY DEF Chmod, Disturb
  <1> QED
    BY <1>1, <1>2, <1>3

LEMMA NextUndisturbed ==
  Source /\ Typed /\ IInv /\ Grown /\ Undisturbed /\ [Advance]_allvars => Undisturbed'
  <1> SUFFICES ASSUME Source, Typed, IInv, Grown, Undisturbed, [Advance]_allvars PROVE Undisturbed'
    OBVIOUS
  <1>1. UNCHANGED <<tree, first, allowed>>
    BY DEF Advance, allvars, vars, Next, reassemble, Validate, Check, MakeStage, Reopen, Begin,
           Write, End, LastRecord, Chmod, Replace, SyncParent, Cleanup, Interfere, Kill, PowerLoss,
           Disturb, Stumble, input, reading, staging, destination
  <1>2. /\ ModsDIsLink' <=> ModsDIsLink
        /\ LinksArePermitted' <=> LinksArePermitted
        /\ PathRules(first.artifacts)' <=> PathRules(first.artifacts)
    BY <1>1 DEF ModsDIsLink, IsLink, LinksArePermitted
  <1> DEFINE Fine == ~disturbed' =>
                         /\ ~disturbed
                         /\ pc' = "cleanup" => pc = "cleanup" \/ ModsDIsLink
                         /\ pc' \in {"begin", "write", "chmod", "sync"} => second' = first.artifacts
                         /\ pc' \in {"chmod", "sync"} => index' > Len(second')
  <1>3. Fine
    <2>1. CASE Begin
      <3>1. disturbed' \/ pc' = "write" \/ ModsDIsLink
        BY <2>1, BeginUndisturbed
      <3>2. pc = "begin" /\ second' = second /\ (disturbed' \/ disturbed' = disturbed)
            /\ pc' \in {"begin", "write", "cleanup"}
        BY <2>1 DEF Begin, Disturb, Stumble, reading
      <3>3. ~disturbed => second = first.artifacts
        BY <3>2 DEF Undisturbed
      <3> QED
        BY <3>1, <3>2, <3>3
    <2>2. CASE Write
      <3>1. disturbed' \/ pc' = "write"
        BY <2>2, WriteUndisturbed
      <3>2. pc = "write" /\ second' = second /\ (disturbed' \/ disturbed' = disturbed)
            /\ pc' \in {"write", "cleanup"}
        BY <2>2 DEF Write, Disturb, Stumble, reading
      <3>3. ~disturbed => second = first.artifacts
        BY <3>2 DEF Undisturbed
      <3> QED
        BY <3>1, <3>2, <3>3
    <2>3. CASE Chmod
      <3>1. disturbed' \/ pc' = "chmod"
        BY <2>3, ChmodUndisturbed
      <3>2. pc = "chmod" /\ second' = second /\ (disturbed' \/ disturbed' = disturbed)
            /\ pc' \in {"chmod", "cleanup"} /\ index' = index
        BY <2>3 DEF Chmod, Disturb, Stumble, reading
      <3>3. ~disturbed => second = first.artifacts /\ index > Len(second)
        BY <3>2 DEF Undisturbed
      <3> QED
        BY <3>1, <3>2, <3>3
    <2>4. CASE Validate \/ Check \/ MakeStage \/ Reopen
      BY <2>4 DEF Validate, Check, MakeStage, Reopen, Conclude, Disturb, reading
    <2>5. CASE End \/ LastRecord \/ Replace \/ SyncParent
      BY <2>5 DEF End, LastRecord, Replace, SyncParent, Conclude, Disturb, Undisturbed, reading
    <2>6. CASE Cleanup \/ Interfere \/ Kill \/ PowerLoss
      BY <2>6 DEF Cleanup, Interfere, Kill, PowerLoss, Conclude
    <2>7. CASE UNCHANGED allvars
      BY <2>7 DEF allvars, vars, Undisturbed
    <2> QED
      BY <2>1, <2>2, <2>3, <2>4, <2>5, <2>6, <2>7 DEF Advance, Next, reassemble
  <1>4. /\ outcome' = "invalid" => outcome = "invalid" \/ ~PathRules(first.artifacts)
        /\ pc' \in {"mkdtemp", "open", "begin", "write", "chmod", "sync"} \/ outcome' = "done" =>
               \/ pc \in {"mkdtemp", "open", "begin", "write", "chmod", "sync"}
               \/ outcome = "done" \/ first.success
        /\ outcome' = "failed" /\ ~disturbed' => outcome = "failed" \/ pc = "cleanup"
        /\ outcome' = "refused" /\ ~disturbed' =>
               \/ outcome = "refused" /\ (target # "absent" => target' # "absent")
               \/ ~first.success \/ target' # "absent" \/ ~LinksArePermitted
    <2>1. CASE Begin \/ Write \/ Chmod \/ Reopen \/ LastRecord
      BY <2>1 DEF Begin, Write, Chmod, Reopen, LastRecord, Disturb, Stumble, destination
    <2>2. CASE Validate \/ Check \/ MakeStage
      BY <2>2 DEF Validate, Check, MakeStage, Conclude, destination
    <2>3. CASE End \/ Replace \/ SyncParent \/ Cleanup
      BY <2>3 DEF End, Replace, SyncParent, Cleanup, Conclude, Disturb, destination
    <2>4. CASE Interfere \/ Kill \/ PowerLoss
      BY <2>4 DEF Interfere, Kill, PowerLoss
    <2>5. CASE UNCHANGED allvars
      BY <2>5 DEF allvars, vars
    <2> QED
      BY <2>1, <2>2, <2>3, <2>4, <2>5 DEF Advance, Next, reassemble
  <1> QED
    BY <1>1, <1>2, <1>3, <1>4 DEF Undisturbed

\* What is at the destination when nothing has been left out.
LEMMA CompleteTree ==
  ASSUME Source, Typed, IInv, Kept, Grown, outcome = "done", ReadTwice
  PROVE  /\ given.place # Root
         /\ \A i \in DOMAIN first.artifacts :
                LET there == stage[Spot(i)]
                IN  /\ Spot(i) \in DOMAIN stage
                    /\ there.type = first.artifacts[i].type
                    /\ there.target = first.artifacts[i].target
                    /\ there.type = "directory" => (there.closed <=> first.artifacts[i].closed)
                    /\ there.data = first.artifacts[i].data
         /\ DOMAIN stage = {Spot(i) : i \in DOMAIN first.artifacts}
                               \cup UNION {Ancestors(Spot(i)) : i \in DOMAIN first.artifacts}
  <1>1. /\ target = "ours" /\ pc = "done" /\ pending = {} /\ index > Len(second)
        /\ PathRules(first.artifacts) /\ Rooted /\ Placed /\ second = first.artifacts
    BY DEF IInv, Published, Validated, Progressed, Filled, Grown, Growing, ReadTwice
  <1>2. given.place # Root
    BY <1>1, ArtifactsFit
  <1>3. 1 .. Reached = DOMAIN first.artifacts
    <2>1. PICK S : first.artifacts \in Seq(S)
      BY DEF Typed, Listed
    <2>2. DOMAIN first.artifacts = 1 .. Len(first.artifacts) /\ Len(first.artifacts) \in Nat
      BY <2>1
    <2>3. index = Len(first.artifacts) + 1
      BY <1>1, <2>2 DEF Typed, TypeOK
    <2>4. Reached = Len(first.artifacts)
      BY <1>1, <2>2, <2>3 DEF Reached
    <2> QED
      BY <2>2, <2>4
  <1>4. ASSUME NEW i \in DOMAIN first.artifacts
        PROVE  LET there == stage[Spot(i)]
               IN  /\ Spot(i) \in DOMAIN stage
                   /\ there.type = first.artifacts[i].type
                   /\ there.target = first.artifacts[i].target
                   /\ there.type = "directory" => (there.closed <=> first.artifacts[i].closed)
                   /\ there.data = first.artifacts[i].data
    <2>1. /\ Spot(i) \in DOMAIN stage /\ IsArtifact(Spot(i), i)
          /\ stage[Spot(i)].type = "directory" => (stage[Spot(i)].closed <=> ModeOf(Spot(i)))
      BY <1>1, <1>3 DEF Placed
    <2>2. ModeOf(Spot(i)) <=> first.artifacts[i].closed
      BY <1>1, ModeOfArtifact DEF Spot
    <2>3. stage[Spot(i)].data = first.artifacts[i].data
      BY <1>1, IInvDestination DEF DestinationIsWhole, Spot
    <2> QED
      BY <2>1, <2>2, <2>3 DEF IsArtifact
  <1>5. ASSUME NEW p \in DOMAIN stage
        PROVE  \E i \in DOMAIN first.artifacts : p = Spot(i) \/ p \in Ancestors(Spot(i))
    BY <1>1, <1>3 DEF Rooted
  <1>6. ASSUME NEW i \in DOMAIN first.artifacts
        PROVE  Spot(i) \in DOMAIN stage /\ Ancestors(Spot(i)) \subseteq DOMAIN stage
    BY <1>1, <1>4 DEF Rooted
  <1>7. DOMAIN stage = {Spot(i) : i \in DOMAIN first.artifacts}
                           \cup UNION {Ancestors(Spot(i)) : i \in DOMAIN first.artifacts}
    BY <1>5, <1>6
  <1> QED
    BY <1>2, <1>4, <1>7

\* What the artifacts are of.
LEMMA ArtifactsAreOf ==
  ASSUME Source, NoLinkOnTheWay, given.place # Root
  PROVE  /\ \A i \in DOMAIN first.artifacts : \E p \in Meant \cup Defined : Spot(i) = Below(p)
         /\ first.success => \A p \in Meant \cup Defined :
                \E i \in DOMAIN first.artifacts :
                    LET artifact == first.artifacts[i]
                    IN  /\ Spot(i) = Below(p)
                        /\ artifact.type = tree[p].type /\ artifact.target = tree[p].target
                        /\ artifact.closed = tree[p].closed
                        /\ artifact.data = Contents(tree[p], p)
  <1>1. tree \in Trees /\ given \in DataPaths
    BY DEF Source
  <1>2. DOMAIN first.artifacts = DOMAIN Sorted
    BY SortedCandidates
  <1>3. ASSUME NEW i \in DOMAIN Sorted
        PROVE  LET k == Sorted[i]
               IN  /\ k \in Candidates /\ Bare(k) \in Meant \cup Defined
                   /\ Located(tree, k) = Bare(k)
                   /\ Tells(first.artifacts[i], k)
                   /\ Spot(i) = Below(Bare(k))
    <2>1. Sorted[i] \in Candidates
      BY SortedCandidates
    <2>2. Tells(first.artifacts[i], Sorted[i])
      BY SortedCandidates
    <2>3. Spot(i) = Below(Bare(Sorted[i]))
      BY <1>1, <1>2, ArtifactIs DEF Spot
    <2> QED
      BY <1>1, <2>1, <2>2, <2>3, CandidatesAre
  <1>4. ASSUME first.success, NEW p \in Meant \cup Defined
        PROVE  \E i \in DOMAIN Sorted : Bare(Sorted[i]) = p
    <2>1. PICK k \in Candidates : Bare(k) = p
      BY <1>1, CandidatesAre
    <2>2. Taken = Candidates
      BY <1>4, ExtractedIs DEF Captives
    <2> QED
      BY <2>1, <2>2, SortedCandidates
  <1>5. ASSUME first.success, NEW p \in Meant \cup Defined
        PROVE  \E i \in DOMAIN first.artifacts :
                   LET artifact == first.artifacts[i]
                   IN  /\ Spot(i) = Below(p)
                       /\ artifact.type = tree[p].type /\ artifact.target = tree[p].target
                       /\ artifact.closed = tree[p].closed
                       /\ artifact.data = Contents(tree[p], p)
    <2>1. PICK i \in DOMAIN Sorted : Bare(Sorted[i]) = p
      BY <1>4, <1>5
    <2>2. /\ Located(tree, Sorted[i]) = p /\ Tells(first.artifacts[i], Sorted[i])
          /\ Spot(i) = Below(p)
      BY <1>3, <2>1
    <2>3. ObjectAt(tree, Sorted[i]) = tree[p]
      BY <2>2 DEF ObjectAt
    <2> QED
      BY <1>2, <2>2, <2>3 DEF Tells
  <1> QED
    BY <1>2, <1>3, <1>5

LEMMA GrownRestored ==
  Source /\ Typed /\ IInv /\ Kept /\ Grown /\ Undisturbed => Restored
  <1> SUFFICES ASSUME Source, Typed, IInv, Kept, Grown, Undisturbed PROVE Restored
    OBVIOUS
  <1>1. ASSUME outcome = "done", ReadTwice, NoLinkOnTheWay
        PROVE  LET restored == {Below(p) : p \in Meant \cup Defined}
               IN  /\ \A p \in Meant \cup Defined :
                          LET there == stage[Below(p)]
                          IN  /\ there.type = tree[p].type /\ there.target = tree[p].target
                              /\ there.type = "directory" => (there.closed <=> tree[p].closed)
                              /\ there.data = Contents(tree[p], p)
                   /\ DOMAIN stage = restored \cup UNION {Ancestors(p) : p \in restored}
    <2> DEFINE restored == {Below(p) : p \in Meant \cup Defined}
               spots == {Spot(i) : i \in DOMAIN first.artifacts}
    <2>1. given.place # Root /\ first.success
      BY <1>1, CompleteTree DEF Undisturbed
    <2>2. spots = restored
      <3>1. \A i \in DOMAIN first.artifacts : \E p \in Meant \cup Defined : Spot(i) = Below(p)
        BY <1>1, <2>1, ArtifactsAreOf
      <3>2. \A p \in Meant \cup Defined : \E i \in DOMAIN first.artifacts : Spot(i) = Below(p)
        BY <1>1, <2>1, ArtifactsAreOf
      <3> QED
        BY <3>1, <3>2
    <2>3. DOMAIN stage = spots \cup UNION {Ancestors(p) : p \in spots}
      <3>1. DOMAIN stage = spots \cup UNION {Ancestors(Spot(i)) : i \in DOMAIN first.artifacts}
        BY <1>1, CompleteTree
      <3> QED
        BY <3>1
    <2>4. ASSUME NEW p \in Meant \cup Defined
          PROVE  LET there == stage[Below(p)]
                 IN  /\ there.type = tree[p].type /\ there.target = tree[p].target
                     /\ there.type = "directory" => (there.closed <=> tree[p].closed)
                     /\ there.data = Contents(tree[p], p)
      <3>1. PICK i \in DOMAIN first.artifacts :
                /\ Spot(i) = Below(p)
                /\ first.artifacts[i].type = tree[p].type
                /\ first.artifacts[i].target = tree[p].target
                /\ first.artifacts[i].closed = tree[p].closed
                /\ first.artifacts[i].data = Contents(tree[p], p)
        BY <1>1, <2>1, ArtifactsAreOf
      <3>2. LET there == stage[Spot(i)]
            IN  /\ there.type = first.artifacts[i].type
                /\ there.target = first.artifacts[i].target
                /\ there.type = "directory" => (there.closed <=> first.artifacts[i].closed)
                /\ there.data = first.artifacts[i].data
        BY <1>1, CompleteTree
      <3> QED
        BY <3>1, <3>2
    <2> HIDE DEF spots
    <2> QED
      BY <2>2, <2>3, <2>4
  <1>2. outcome = "invalid" => given.place = Root
    <2>1. outcome = "invalid" => ~PathRules(first.artifacts)
      BY DEF Undisturbed
    <2>2. given.place # Root => PathRules(first.artifacts)
      BY PathsAreValid
    <2> QED
      BY <2>1, <2>2
  <1>3. ~disturbed /\ outcome = "refused" => ~first.success \/ target # "absent" \/ ~LinksArePermitted
    BY DEF Undisturbed
  <1>4. ~disturbed /\ outcome = "failed" => ModsDIsLink
    BY DEF Undisturbed
  <1> QED
    BY <1>1, <1>2, <1>3, <1>4 DEF Restored

\* Whatever there is below the root and whichever calls fail, and whoever else uses the
\* destination's name: a tree that is reported as restored by a reassembly that has read
\* the same input twice is all that was meant, if no link lies on the DataPath's way; and
\* with nothing going wrong outside, what was extracted with success is refused or fails
\* only for one of the reasons Restored lists, a record over the size limit being another.
THEOREM TheTreeIsRestored == Spec => []Restored
  <1>1. Init => Source /\ Typed /\ IInv /\ Kept /\ Grown /\ Undisturbed
    BY InitTyped, InitIInv, InitKept, InitGrown, InitUndisturbed DEF Init, Source
  <1>2. IInv /\ [Advance]_allvars => IInv'
    BY NextIInv
  <1>3. Typed /\ IInv /\ [Advance]_allvars => Typed'
    BY NextTyped
  <1> QED
    BY <1>1, <1>2, <1>3, NextSource, NextKept, NextGrown, NextUndisturbed, GrownRestored, PTL DEF Spec
=============================================================================

------------------------------- MODULE RoundTrip -------------------------------
(***************************************************************************)
(* From a SWORD root to a stream and back: what discovery finds in a tree     *)
(* that stands still is captured as ArtifactCapture shows it to be, its stream *)
(* is validated as ValidatedStream shows, and reassembled.                    *)
(***************************************************************************)
EXTENDS Reassembly

CONSTANTS
    Root,       \* the canonical path of the SWORD root
    Trees,      \* trees that may be found there
    DataPaths   \* given DataPaths, [absolute, names], with the place they mean:
                \* below the root, <<>> if it is not there, and whether a "/" ends it

ASSUME RootAssumption == Root \in NormalPath

\* The root is a directory that can be looked at.  What something lies in is a directory,
\* and known below the root; what cannot be looked at cannot be opened either.
ASSUME TreesAssumption ==
    \A t \in Trees :
        /\ IsFiniteSet(DOMAIN t)
        /\ Root \in DOMAIN t /\ t[Root].type = "directory" /\ ~t[Root].unseen
        /\ \A p \in DOMAIN t :
               /\ p \in NormalPath
               /\ t[p].type \in {"regular", "directory", "symlink", "other"}
               /\ t[p].unreadable \in BOOLEAN /\ (t[p].unseen => t[p].unreadable)
               /\ t[p].target.names \in Seq(Name)
               /\ \A q \in Ancestors(p) :
                      IF q \in DOMAIN t THEN t[q].type = "directory" ELSE ~IsPrefix(Root, q)

\* A path means its place if that is below the root and it has names.
ASSUME DataPathsAssumption ==
    \A d \in DataPaths :
        /\ d.names \in Seq(Name)
        /\ LET path == Normalized(Root, d)
               place == IF path # <<>> /\ Last(path) = EmptyName THEN Front(path) ELSE path
           IN  /\ d.place = IF d.names # <<>> /\ IsPrefix(Root, place) THEN place ELSE <<>>
               /\ d.slash = (path # place)

VARIABLES tree, given

allvars == <<tree, given, vars>>

\* What chunks there are of an object: of a file one or two, which tell whose they are.
Contents(object, place) ==
    IF object.type # "regular" THEN <<>>
    ELSE IF object.defines THEN <<place>> ELSE <<place, place>>

\* It can be looked at, is of a kind that is supported, and can be opened or followed;
\* a directory is not opened.
Capturable(object) ==
    /\ ~object.unseen
    /\ object.type # "other"
    /\ object.type # "directory" => ~object.unreadable

\* emit_artifacts, of a tree that stands still: one group for each candidate that can
\* be captured, in their order.
Captured(candidates) ==
    LET groups == SortedByPath(Root, {c \in Range(candidates) : Capturable(ObjectAt(tree, c))})
    IN  [i \in DOMAIN groups |->
            LET object == ObjectAt(tree, groups[i])
            IN  [path |-> lexically_relative(groups[i], Root),
                 type |-> object.type, closed |-> object.closed, target |-> object.target,
                 data |-> Contents(object, Located(tree, groups[i]))]]

\* extract_module, as far as files go: what is not captured has a diagnostic.
Extracted(configuration, artifacts) ==
    [success |-> /\ ~configuration.failed /\ ~artifacts.failed
                 /\ \A c \in Range(artifacts.candidates) : Capturable(ObjectAt(tree, c)),
     artifacts |-> Captured(artifacts.candidates)]

Init ==
    /\ tree \in Trees /\ given \in DataPaths
    /\ \E configuration \in find_configuration_files(tree, Root) :
           \E artifacts \in discover_artifacts(tree, Root, given, configuration.files) :
               first = Extracted(configuration, artifacts)
    /\ Start

Advance == Next /\ UNCHANGED <<tree, given>>

Spec == Init /\ [][Advance]_allvars
-----------------------------------------------------------------------------
(* Properties.                                                             *)

\* The objects a DataPath stands for: the one at its place and all below it; if there
\* is none, those beside it whose name begins like its last.
Meant ==
    LET place == given.place
        present == /\ place \in DOMAIN tree /\ ~tree[place].unseen
                   /\ given.slash => tree[place].type = "directory"
    IN  IF place = <<>> THEN {}
        ELSE IF present THEN {p \in DOMAIN tree : IsPrefix(place, p)}
        ELSE {p \in DOMAIN tree : /\ ~given.slash
                                  /\ Len(p) = Len(place) /\ Front(p) = Front(place)
                                  /\ IsPrefix(Last(place), Last(p))}

\* mods.conf, if it is a file or a link, and else all there is in mods.d.
Configuration ==
    LET master == Append(Root, ModsConf)
    IN  IF /\ master \in DOMAIN tree /\ ~tree[master].unseen
           /\ tree[master].type \in {"regular", "symlink"}
        THEN {master}
        ELSE {p \in DOMAIN tree : IsStrictPrefix(Append(Root, ModsD), p)}

\* The configuration files that define the module.
Defined == {p \in Configuration :
                tree[p].type = "regular" /\ tree[p].defines /\ ~tree[p].unreadable}

\* All that is meant can be captured, there is configuration and no link in it, and
\* nothing of either is unreadable, nor what it lies in.
NothingInTheWay ==
    /\ \A p \in Meant : Capturable(tree[p]) /\ ~tree[p].unreadable
    /\ \A p \in Configuration : tree[p].type # "symlink" /\ ~tree[p].unreadable
    /\ Front(given.place) \in DOMAIN tree => ~tree[Front(given.place)].unreadable
    /\ \/ Configuration = {Append(Root, ModsConf)}
       \/ /\ IsDirectory(tree, Append(Root, ModsD))
          /\ ~tree[Append(Root, ModsD)].unreadable

ModsDIsLink == IsLink(tree, Append(Root, ModsD))

\* A link on the way to the place is followed, and so is one there before a "/", and one
\* that is mods.d.
NoLinkOnTheWay ==
    /\ ~ModsDIsLink
    /\ \A p \in DOMAIN tree :
           tree[p].type = "symlink" =>
               ~(IsPrefix(p, given.place) /\ (given.slash \/ p # given.place))

Below(place) == SubSeq(place, Len(Root) + 1, Len(place))

\* The captured paths are of objects that are meant and of nothing else, each once, in
\* the order of their bytes with every directory before what is in it.  An extraction
\* that says it has succeeded has captured them all, and one has succeeded if
\* something was meant and nothing kept it from what it had to read.
CapturesTheTree ==
    pc = "validate" /\ NoLinkOnTheWay /\ given.place # Root =>
        LET artifacts == first.artifacts
            captured == {components(artifacts[i]) : i \in DOMAIN artifacts}
            whole == {Below(p) : p \in Meant \cup Defined}
        IN  /\ captured \subseteq whole
            /\ \A i, j \in DOMAIN artifacts :
                   i < j => /\ Before(Native(artifacts[i].path), Native(artifacts[j].path))
                            /\ ~IsPrefix(components(artifacts[j]), components(artifacts[i]))
            /\ first.success => captured = whole /\ Meant # {}
            /\ Meant # {} /\ NothingInTheWay => first.success

\* A tree is restored as it was, type, mode, target and contents, with missing parents
\* made, if the second pass reads what the first has read.  What had been extracted with
\* success is refused only for the links in it, for a destination that is there, because
\* the DataPath is the root, or for a record over the limit ("oversize"), and cannot
\* be written only if mods.d, captured as a link, is also the parent of a file.
Restored ==
    /\ (outcome = "done" /\ ReadTwice /\ NoLinkOnTheWay) =>
           LET restored == {Below(p) : p \in Meant \cup Defined}
           IN  /\ \A p \in Meant \cup Defined :
                      LET there == stage[Below(p)]
                      IN  /\ there.type = tree[p].type /\ there.target = tree[p].target
                          /\ there.type = "directory" => (there.closed <=> tree[p].closed)
                          /\ there.data = Contents(tree[p], p)
               /\ DOMAIN stage = restored \cup UNION {Ancestors(p) : p \in restored}
    /\ (~disturbed /\ outcome \in {"invalid", "refused", "failed"}) =>
           \/ ~first.success
           \/ outcome = "invalid" /\ given.place = Root
           \/ outcome = "refused" /\ (~LinksArePermitted \/ target # "absent")
           \/ outcome = "failed" /\ ModsDIsLink

(* What the documentation says and the code does not.                      *)

\* The artifact paths of an extraction that says it has succeeded are normalized, and
\* its stream is accepted.
SuccessIsAccepted == first.success => outcome # "invalid"
=============================================================================

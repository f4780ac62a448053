------------------------------- MODULE Discovery -------------------------------
(***************************************************************************)
(* Which files of a SWORD root an extraction captures: the configuration     *)
(* files that define the module, and what its DataPath names.  Operators on   *)
(* a tree that stands still; ArtifactCapture has the tree that does not.      *)
(*                                                                         *)
(* A name is a sequence of bytes, for their order and their prefixes decide.  *)
(* A path is the sequence of its names, after an implied first "/" if it is    *)
(* absolute; an empty last name stands for a "/" at the end.  A tree is a      *)
(* function from absolute paths to objects:                                  *)
(*   [type, target, closed, defines, unreadable, unseen]                     *)
(* of type "regular", "directory", "symlink" or "other" (a FIFO, a socket, a   *)
(* device), with the target of a link as a path, whether a directory's mode    *)
(* keeps its owner out, and whether a file has the section of the module.      *)
(* What is unreadable cannot be opened, entered or followed by the extraction, *)
(* and what is unseen cannot even be looked at (lstat fails).                  *)
(***************************************************************************)
EXTENDS Integers, SequencesExt

EmptyName == <<>>
Dot == <<46>>
DotDot == <<46, 46>>

\* A name has no "/" in it, and those of a path in normal form have a place each.
Name == {name \in Seq(0 .. 255) : 47 \notin Range(name)}
Proper == Name \ {EmptyName, Dot, DotDot}
NormalPath == Seq(Proper) \ {<<>>}

-----------------------------------------------------------------------------
(* std::filesystem::path, for absolute paths.                              *)

\* lexically_normal: a directory named by ".", ".." or "/" keeps a "/".
lexically_normal(path) ==
    LET done[n \in 0 .. Len(path)] ==
            IF n = 0 THEN <<>>
            ELSE IF path[n] \in {EmptyName, Dot} THEN done[n - 1]
            ELSE IF path[n] # DotDot THEN Append(done[n - 1], path[n])
            ELSE IF done[n - 1] = <<>> THEN <<>> ELSE Front(done[n - 1])
        names == done[Len(path)]
    IN  IF names # <<>> /\ Last(path) \in {EmptyName, Dot, DotDot}
        THEN Append(names, EmptyName) ELSE names

\* lexically_relative, to a base in normal form without a "/" at the end.
lexically_relative(path, base) ==
    LET common == Max({n \in 0 .. Len(base) :
                           n <= Len(path) /\ SubSeq(path, 1, n) = SubSeq(base, 1, n)})
        rest == SubSeq(path, common + 1, Len(path))
        up == Len(base) - common
    IN  IF up = 0 /\ rest \in {<<>>, <<EmptyName>>} THEN <<Dot>>
        ELSE [i \in 1 .. up |-> DotDot] \o rest

\* native(): the names, joined.
Native(path) ==
    LET joined[n \in 0 .. Len(path)] ==
            IF n = 0 THEN <<>>
            ELSE (IF n = 1 THEN <<>> ELSE Append(joined[n - 1], 47)) \o path[n]
    IN  joined[Len(path)]

\* operator<, on strings.
Before(left, right) ==
    \/ IsStrictPrefix(left, right)
    \/ \E i \in DOMAIN left \cap DOMAIN right :
           /\ SubSeq(left, 1, i - 1) = SubSeq(right, 1, i - 1)
           /\ left[i] < right[i]

\* std::sort by relative path, std::unique by absolute path.  (What is equal is
\* next to each other, so that a set will do; of two roles for one path
\* either may stay.)
SortedByPath(root, paths) ==
    LET bytes == [p \in paths |-> Native(lexically_relative(p, root))]
        rank == [p \in paths |-> Cardinality({q \in paths : Before(bytes[q], bytes[p])})]
    IN  [i \in 1 .. Cardinality(paths) |-> CHOOSE p \in paths : rank[p] = i - 1]

-----------------------------------------------------------------------------
(* The file system.  Targets of links lead to no other link.               *)

TargetOf(tree, path) ==
    IF tree[path].target.absolute THEN lexically_normal(tree[path].target.names)
    ELSE lexically_normal(Front(path) \o tree[path].target.names)

IsLink(tree, path) == path \in DOMAIN tree /\ tree[path].type = "symlink"

\* Where a path of directories leads.
Resolve(tree, path) ==
    LET here[n \in 0 .. Len(path)] ==
            IF n = 0 THEN <<>>
            ELSE LET there == Append(here[n - 1], path[n])
                 IN  IF IsLink(tree, there) THEN TargetOf(tree, there) ELSE there
    IN  here[Len(path)]

\* A "/" at the end, or a name after it, makes the system follow a link.
Located(tree, path) ==
    IF Last(path) = EmptyName THEN Resolve(tree, Front(path))
    ELSE Append(Resolve(tree, Front(path)), Last(path))

\* symlink_status; a "/" after what is no directory finds nothing.
Exists(tree, path) ==
    /\ Located(tree, path) \in DOMAIN tree
    /\ ~tree[Located(tree, path)].unseen
    /\ Last(path) = EmptyName => tree[Located(tree, path)].type = "directory"

ObjectAt(tree, path) == tree[Located(tree, path)]

IsDirectory(tree, place) == place \in DOMAIN tree /\ tree[place].type = "directory"

\* What a (recursive) directory iterator gives, in the iterator's own terms:
\* links are given, and not entered.
Descendants(tree, path) ==
    LET place == Resolve(tree, IF Last(path) = EmptyName THEN Front(path) ELSE path)
        below == {p \in DOMAIN tree : IsStrictPrefix(place, p)}
    IN  {(IF Last(path) = EmptyName THEN Front(path) ELSE path)
             \o SubSeq(p, Len(place) + 1, Len(p)) : p \in below}

Children(tree, path) ==
    {p \in Descendants(tree, path) :
         Len(p) = Len(path) + (IF Last(path) = EmptyName THEN 0 ELSE 1)}

\* What a walk may have given when it stops at the first directory it cannot enter,
\* whatever the order in each: that directory, nothing below it, and of every other
\* one that does not lead to it all there is below.
GivenBefore(tree, all, stop, given) ==
    /\ stop \in given
    /\ \A p \in given :
           /\ \A q \in all : IsStrictPrefix(q, p) => q \in given
           /\ ~IsStrictPrefix(stop, p)
           /\ ObjectAt(tree, p).type = "directory" /\ ~IsPrefix(p, stop) =>
                  ~ObjectAt(tree, p).unreadable /\ \A q \in all : IsPrefix(p, q) => q \in given

\* Mutant: with skip_permission_denied.
WalksSkipping(tree, path) ==
    LET all == Descendants(tree, path)
        shut == {p \in all : ObjectAt(tree, p).type = "directory" /\ ObjectAt(tree, p).unreadable}
    IN  {[found |-> {p \in all : \A q \in shut : ~IsStrictPrefix(q, p)}, failed |-> FALSE]}

\* What a recursive iterator without skip_permission_denied may give, and whether
\* it ends with an error.
Walks(tree, path) ==
    LET place == Resolve(tree, IF Last(path) = EmptyName THEN Front(path) ELSE path)
        all == Descendants(tree, path)
        shut == {p \in all : ObjectAt(tree, p).type = "directory" /\ ObjectAt(tree, p).unreadable}
    IN  IF ~IsDirectory(tree, place) \/ tree[place].unreadable
        THEN {[found |-> {}, failed |-> TRUE]}
        ELSE IF shut = {} THEN {[found |-> all, failed |-> FALSE]}
        ELSE {[found |-> given, failed |-> TRUE] :
                  given \in {s \in SUBSET all : \E stop \in shut : GivenBefore(tree, all, stop, s)}}

-----------------------------------------------------------------------------
(* find_configuration_files: what it may find, [files, failed].            *)

ModsConf == <<109, 99>>
ModsD == <<109, 100>>

\* What becomes of one candidate, by its own type.
Defining(tree, files) ==
    {f \in files : LET file == ObjectAt(tree, f)
                   IN  file.type = "regular" /\ ~file.unreadable /\ file.defines}
Refused(tree, files) ==
    {f \in files : LET file == ObjectAt(tree, f)
                   IN  \/ file.unseen \/ file.type = "symlink"
                       \/ file.type = "regular" /\ file.unreadable}

\* mods.conf is passed over if it is neither a file nor a link, or is unseen.
find_configuration_files(tree, root) ==
    LET master == Append(root, ModsConf)
        alone == /\ master \in DOMAIN tree /\ ~tree[master].unseen
                 /\ tree[master].type \in {"regular", "symlink"}
    IN  {[files |-> SortedByPath(root, Defining(tree, walk.found)),
          failed |-> walk.failed \/ Refused(tree, walk.found) # {}] :
             walk \in IF alone THEN {[found |-> {master}, failed |-> FALSE]}
                     ELSE Walks(tree, Append(root, ModsD))}

-----------------------------------------------------------------------------
(* discover_artifacts: what it may find, [candidates, failed].             *)

is_within_root(root, path) == Head(lexically_relative(path, root)) # DotDot

\* normalize_candidate: a given path may be absolute or the root's.
Normalized(root, given) ==
    lexically_normal(IF given.absolute THEN given.names ELSE root \o given.names)

Escapes(root, given) == ~is_within_root(root, Normalized(root, given))

\* The files of a prefix-style data path; if it ends with "/" its prefix is empty.
Prefixed(tree, data) ==
    IF LET parent == Resolve(tree, Front(data))
       IN  IsDirectory(tree, parent) /\ ~tree[parent].unreadable
    THEN {p \in Children(tree, Front(data)) : IsPrefix(Last(data), Last(p))}
    ELSE {}

\* The candidates of a data path that does not escape, and whether they are all.
DataCandidates(tree, data) ==
    IF ~Exists(tree, data)
    THEN {[found |-> Prefixed(tree, data), failed |-> Prefixed(tree, data) = {}]}
    ELSE IF ObjectAt(tree, data).type = "directory"
    THEN {[found |-> {data} \cup walk.found, failed |-> walk.failed] : walk \in Walks(tree, data)}
    ELSE {[found |-> {data}, failed |-> FALSE]}

discover_artifacts(tree, root, given, files) ==
    LET usable == given.names # <<>> /\ ~Escapes(root, given)
    IN  {[candidates |-> SortedByPath(root, Range(files) \cup data.found), failed |-> data.failed] :
            data \in IF usable THEN DataCandidates(tree, Normalized(root, given))
                    ELSE {[found |-> {}, failed |-> TRUE]}}
=============================================================================

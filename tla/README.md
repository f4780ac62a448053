# Specifications of getBibleSword

getBibleSword reads one module of the CrossWire SWORD engine and streams it as
NDJSON: a header, the module, its configuration, its entries, its files as
artifacts, diagnostics, and a footer that counts and hashes all of it.  The
stream leaves through a command line (standard output, or a file that appears
atomically) or through a C ABI (a callback).  An independent validator in Python
decides whether a stream may be relied on.

These TLA+ modules model the parts of that path where the order of steps,
failures and other actors matter.  TLC checks them on small instances, TLAPS
proves the most important results for every value of the constants.

## Inventory

| Component | Source | State | Operations |
|---|---|---|---|
| Command-line output | `src/main.cpp` 143-312, 328-364 | temporary file, buffer, descriptor, `committed_`; the target's directory | construct, write, commit, destroy, exit |
| Command-line parsing | `src/main.cpp` 57-137 | none | `parse_arguments` |
| C ABI | `src/c_api.cpp`, `src/callback_streambuf.cpp` | `sword_operation_mutex`, `sword_operation_active`, the buffer and `failure_`, the caller's `gbs_error` | `gbs_list_modules_v1`, `gbs_extract_module_v1` |
| NDJSON writer | `src/ndjson_writer.cpp` | `sequence_`, `counts_`, `stream_hash_`, `finished_` | `emit`, `finish` |
| Extraction | `src/sword_extractor.cpp` | `DiagnosticCounts`, entries, artifacts, bytes | `list_modules`, `extract_module` |
| Entry traversal | `src/sword_extractor.cpp` 536-703 | the engine's key; previous key and index; `entry_count` | `emit_entries` |
| Discovery | `src/artifact.cpp` 35-197, `src/sword_extractor.cpp` 241-403 | the lists of configuration files and candidates | `find_configuration_files`, `discover_artifacts` |
| Artifact capture | `src/artifact.cpp` 72-105, 199-356 | `ArtifactResult`, the open descriptor, three `struct stat` | `emit_artifacts` |
| Stream validator | `tools/getbiblesword_v1.py` 227-809 | sequence, counts, digest, phase, ordinals, the active artifact | `validate` |
| Reassembly | `tools/getbiblesword_v1.py` 812-956 | staging directory, open file | `reassemble` |
| Byte values and encodings | `src/byte_value.cpp`, `base64.cpp`, `source_encoding.cpp`, `annotation.cpp` | none | `is_valid_utf8`, `json_escape`, `byte_value_json`, `source_utf8`, `annotation_segments_json` |
| SHA-256 | `src/sha256.cpp` | the running digest | a standard function |
| SWORD engine, ICU | external | process-wide | used by the extraction |

How they interact.  `main` or `run_streaming_operation` makes a `std::ostream` over
a buffer (a file descriptor's or a callback's) and an `NdjsonWriter` on it, and
calls `list_modules` or `extract_module`.  These call the engine, `discover_artifacts`
and `emit_artifacts`, all of which emit records through the same writer.  A sink that
refuses bytes comes back as an exception.  The consumer shares nothing with the
producer but the bytes; when it reassembles, it reads them twice, and shares the
destination's directory with whoever else uses it.

What is hard in this system:

- *the file system as a shared, failing, lossy medium*: several invocations with one
  output name, files of the module tree that change while they are captured,
  crashes between data and directory updates;
- *callbacks*: foreign code in the middle of a stream, that refuses, throws, or
  calls back into a library with a process-wide lock;
- *late bookkeeping*: diagnostics that are collected, emitted and counted at three
  different times, and exceptions in between;
- *a foreign engine*: keys that repeat, go round or fail, declared counts that are
  wrong, texts in any encoding and none;
- *a contract checked elsewhere*: producer and validator were written separately and
  must agree on every path, not only on those the corpus has, and on every sequence
  of bytes.

`PROJECT.json` lists the hazards line by line, each with the properties that watch it.

What makes each component correct: the output file is whole, durable and never
clobbers; the C ABI serialises the engine, never deadlocks on itself and reports
what happened; a stable artifact is a snapshot and an imperfect one is diagnosed;
a closed stream is accepted and a cut one is not; success means no error; every key
gives its own entry, and its bytes survive; what a DataPath means is captured, once
and in order, or the extraction says that something is missing; it comes back from the
stream as it was; a reassembled tree is whole or not there, if the stream is read twice as it was.

## Modules

| Module | Models | Kind |
|---|---|---|
| `AtomicFile` | what `--output` promises to whoever reads the target | abstract specification |
| `AtomicOutput` | `FileDescriptorBuffer`, `AtomicOutput`, `main` | implements `AtomicFile` |
| `AtomicOutput_proofs` | | theorems |
| `StreamService` | what the C ABI promises to threads that call it | abstract specification |
| `CApi` | `run_streaming_operation`, `CallbackStreambuf` | implements `StreamService` |
| `CApi_proofs` | | theorems |
| `ArtifactCapture` | `emit_artifacts` against a changing tree | specification |
| `ArtifactCapture_proofs` | | theorems |
| `NdjsonWriter` | `NdjsonWriter` | state and operators |
| `Extraction` | `list_modules`, `extract_module` | specification, EXTENDS `NdjsonWriter` |
| `Extraction_proofs` | | theorems |
| `StreamValidator` | class `Validator` | state and actions |
| `ValidatedStream` | producer, pipe and validator | composes `Extraction` and `StreamValidator` |
| `ValidatedStream_proofs` | | theorems, EXTENDS `Extraction_proofs` |
| `EntryText` | `byte_value.cpp`, `base64.cpp`, `source_encoding.cpp`, `annotation.cpp`, and their Python counterparts | operators on bytes |
| `EntryTraversal` | `emit_entries` | specification, EXTENDS `EntryText`; implements the traversal of `Extraction` |
| `EntryTraversal_proofs` | | theorems |
| `Discovery` | `find_configuration_files`, `discover_artifacts` | operators on trees |
| `Discovery_proofs` | | lemmas about paths, their order, and what the file system finds |
| `Reassembly` | `reassemble` | state and actions |
| `RoundTrip` | a root, its extraction and its reassembly | composes `Discovery` and `Reassembly` |
| `RoundTrip_proofs` | | theorems, EXTENDS `Discovery_proofs` |
| `MC*` | constants for TLC | |

### AtomicOutput

A process is an invocation with the same `--output`; `pc` is its next system call.
Every call that can fail has a failing disjunct.  `Inspect`, `MakeTemp` and `Secure`
are the constructor, `Emit`, `Write` and `Flushed` the buffer's `overflow`, `sync` and
`flush_pending` (which writes as little at a time as `write()` likes), `Fsync` to
`SyncDir` the steps of `commit`, `Unwind` the destructor on the way to `main`'s
handler.  `commits` is the history of what the target name led to; `durable` is the
prefix of it that survives a power loss, `synced` what survives of a file.  `Kill`
ends a process anywhere; `PowerLoss` ends all that run.

Assumptions: names given by `mkstemp` are fresh; directory updates reach the disk in
the order in which they were made, as they do in a journal; what `fsync` has
confirmed stays.  A failed `fsync` and a failed `write` leave nothing that is
relied on.

### CApi

`pc` is where a thread's outermost call is.  Argument checks are folded into `Refused`,
in the order of the code: unusable error storage, defects of the arguments, re-entry.
`gbs_extract_module_v1` copies its strings before the lock and may run out of memory there
(`Exhaust`).
A stream is a number of blocks, the last of which is the footer; `Flush` gives the
callback what is pending when the buffer is full and when the writer or
`run_streaming_operation` flushes.  A callback continues, refuses in either way
(throwing counts as an error) or calls the library again (`Reenter`), also with the
same `gbs_error`.  Destructors run before the handler of an exception (`Unwind`) and
after the return value of a normal return is known (`Release`).

Assumptions: a callback returns in the end, and does not wait for another thread's
call.  No fairness of the mutex is assumed, so that a waiting thread may starve.

### ArtifactCapture

One action per system call.  A file is a sequence of blocks, each the number of the
change that wrote it, so that a mix of versions shows.  Somebody else may rewrite,
extend, truncate, replace or remove the candidate that is being captured, at any
moment; changing another one first is the same as changing it when its turn comes,
or later, when nobody looks.  A timestamp is a number that grows with every change,
unless `CoarseClock` lets two share one; an inode that is unlinked while open gets a new
change time.  FIFOs, sockets and devices are of the kind `special`.

Every system call may fail, each `fstat` among them: the code takes a failed `fstat` for a
change.  The history `failed` has the candidates for which a call failed while nobody had changed
anything, which is all that may be accused or left out of a quiet tree.  `open` without
`O_NONBLOCK` may wait at a FIFO (`waiting`): at the inode it met, whatever the path leads to
afterwards, until somebody opens that FIFO for writing or a signal interrupts (`Awaken`), which
nobody need do.

### NdjsonWriter, Extraction, StreamValidator, ValidatedStream

Every record is a step, since any of them may be the one the sink refuses.  The
digest is represented by the number of lines it covers: the validator compares the
same lines the producer hashed.  The engine and the file system answer
nondeterministically: keys that stall, entries that cannot be read, configuration
that vanishes, artifacts that change, exceptions from wherever a try block is
active.  `group` is the artifact whose records are under way; what the capture
of a regular file can look like is what ArtifactCapture establishes
(a stable group has the announced size).  Three variables keep history: `trouble`
counts the errors that occurred, whether or not the code has noticed; `upset`
marks the three events after which the code does not close a valid stream (a file that
grows, an exception in `emit_artifacts`, and a DataPath that is the root, `BeginRoot`; see
*Disagreements*); and `atRoot` the last of them.

The validator is the automaton of `Validator.validate`, one record a step: the `...Rules`
are what it refuses, the actions what it remembers.  Of the completed artifacts it keeps what its
rules read: how many there are, the sum of their sizes and their paths.  A path is a number,
which stands for a normal form below the root; the root's own, `.`, is `RootPath` and not `Proper`.
Any record may be longer than the validator's `--max-record-bytes`, since nothing in the producer
bounds one (`Oversized`): that is a verdict of its own, `oversize`, and not `invalid`, so that
the properties say what is true of every limit.  The two are composed through a
pipe of `PipeLines` lines; a validator that reads a file later sees the same lines.

### EntryText, EntryTraversal

`Extraction` leaves open where the engine's key goes and what an entry holds; here both
are inputs.  `engine` is chosen at the start: the walk of its key (`next`, which may
repeat, go round, end or fail), what each key shows (`look`), its texts, whether it is
a dictionary and how many records it declares.  `Top`, `Read`, `Length`, `Normalize`,
`Strip`, `Emit` and `Advance` are the parts of the loop of `emit_entries`, each of
which emits at most one record, in the code's order and with its early returns.

A text is a sequence of bytes, and its records hold what a consumer gets: byte
values (UTF-8 text or base64, and a digest, represented by the bytes it is of),
annotation segments, and the forms in UTF-8.  `EntryText` has the producer's
functions and, beside them, what `decode_byte_value` and Python's decoder do with
their results, so that the two sides can be compared byte by byte.  A length above what
an `int` holds is the `size` of a text, "long" or (if only its UTF-8 form is too
long) "swelling".  UTF-16 and Latin-1 are decoded as ICU does; what SCSU gives is an
input (`scsu`), as are the engine's stripped texts (`stripped`); the rendered text is
the raw one.

`ImplementsTraverse` maps this module to `Extraction`: each step is one of `Traverse`
there, with the same record (`Lines`), counts (`Counted`, `Diagnosed`) and place (`Place`).

### Discovery

Operators on a tree that stands still; `ArtifactCapture` has the one that does not.  A
name is a sequence of bytes, since order and prefixes decide; a path is a sequence
of names, with an empty last one for a `/` at its end, which the code does not strip
and the system does not ignore.  `lexically_normal`, `lexically_relative`,
`is_within_root` and `Before` are what the code uses of `std::filesystem`, and
`Located`, `Exists` and `Descendants` what it uses of the file system, with links
on the way.  An object may be `unreadable` (it cannot be opened, entered or followed) and also
`unseen` (`lstat` fails).  `Walks` is the recursive iterator without `skip_permission_denied`:
it stops at the first directory it cannot enter, and as the order in a directory is open, so is
what it has given by then (`GivenBefore`).  `find_configuration_files` and
`discover_artifacts` are the sets of what the two functions may return: lists, and whether they
report an error.

Assumptions: the target of a link leads to no other link; roots are canonical, as
the code makes them (`RootAssumption`); the names of a tree are those a file system can
have, what an object lies in is a directory, the root is one and can be looked at, and what
cannot be looked at cannot be opened either (`TreesAssumption`).

### Reassembly, RoundTrip

`RoundTrip` starts with any of its trees and a DataPath, captures what `Discovery` finds
(as `ArtifactCapture` shows a still tree to be captured: a group for each candidate that is
`Capturable`, and an error for each that is not), and gives the artifacts to
`Reassembly`.  The `Contents` of a file are one chunk, or two, each of which names the place it
was read at, so that contents that get to another file show.  There, one action per system call or record: `Validate` and `Check` are the
first pass, as far as paths go, and the refusals; `MakeStage` the staging directory;
`Reopen`, `Begin`, `Write`, `End` and `LastRecord` the second pass; `Chmod`, `Replace` and
`SyncParent` the publication; `Cleanup` the handler.  Each call may fail (`Disturb`), or
fail for what has been done before (`Stumble`).  `stage` is the tree in the staging
directory, and after the rename at the destination.  Of a mode only `closed` is kept,
whether it keeps its owner out: that is what decides whether the next call
succeeds.  Directories of equal depth get their modes in any order.  When `close` fails
the handler's own `close` fails too, and nothing is cleaned up.

`Interfere` is somebody else who uses the destination's name; `Kill` and `PowerLoss` may
come anywhere.  `Reopen` may find the artifacts of another stream in the input file, and
`LastRecord` may find its end after any record, also inside an artifact, whose file then stays
open and unsynchronised: nothing in the second pass looks for a footer.  What the file
may not hold by then is a stream whose records are malformed or in an order of their own.
Assumptions: temporary names are fresh; directory updates reach
the disk in the order in which they were made; trees are finite, and another
stream is a list of artifacts, each with a list of chunks.

A DataPath is given with the place it means, which only the properties read.
`DataPathsAssumption` ties it to its spelling: `place` is what `Normalized` makes of the
names, without a `/` at the end, and `<<>>` if it has no names or is not below the root.
`Meant` and `Defined` then say from the tree alone what belongs to a module, and
`CapturesTheTree` and `Restored` compare them with what the code finds and restores.
`NoLinkOnTheWay` excludes the trees in which the code follows a link (see
*Disagreements*).

## What the runs show

| Run | Instance | Checked |
|---|---|---|
| `atomic_output` | two invocations, one with `--force`; 2 blocks, buffer of 1; about 9,600 states | `TargetIsWhole`, `NoClobber`, `ReportIsTruthful`, `CleansUp`, `Terminates`, `ImplementsAtomicFile` |
| `c_api` | two threads, calls without end; 3 blocks, buffer of 2; about 124,000 states | `EngineExclusive`, `NeverRelocks`, `FlagFollowsOperation`, `StatusMatchesStream`, `ErrorMatchesStatus`, `SilentAfterRefusal`, `EngineReleased`, `ImplementsService` |
| `artifact_capture` | two candidates of any kind, files of up to 2 blocks, 2 changes, any call failing; about 1.4 million states | `StableIsSnapshot`, `FailureIsDiagnosed`, `QuietTreeIsCaptured`, `GroupsAreCounted`, `Returns` |
| `validated_stream` | one call of either command; 2 modules, 1 configuration file, 1 configuration entry, 2 entries, 2 artifacts of up to 3 blocks, 2 errors; about 1.8 million states | `OnlyUpsetIsInvalid`, `CutStreamIsInvalid`, `SuccessIsClean`, `ReturnIsTrue`, `ErrorsAreRecorded`, `FailureStillCloses` |
| `entry_traversal` | every walk of three keys with three looks, counts from -1 to 4; and some 6,000 texts of up to four bytes, in all encodings; up to 5 entries; about 259,000 states | `EntriesFollowWalk`, `CompleteOrDiagnosed`, `DuplicatesAreKept`, `EntryIsAccepted`, `Returns`, `ImplementsTraverse` |
| `round_trip` | some 70 trees of up to three levels below the root, with links, closed directories and objects that cannot be seen, opened or captured, and 11 DataPaths; 2 other streams; about 276,000 states | `CapturesTheTree`, `Restored`, `DestinationIsWhole` |

Each also checks a type invariant.

Why the bounds are enough to meet the interesting cases.  Two invocations cover the
race for a name in all its orders, with and without `--force`; two blocks
with a buffer of one give an overflow and a final flush (a `write()` that takes a part of the
buffer needs a larger one, and is covered by the theorems only).  Three blocks
with a buffer of two give one callback for a full buffer and one for the rest.  Two
changes suffice to change a file and change it back in size, and two candidates to
see what a skipped one does to the ids of the next.  Two artifacts of up to three
blocks in chunks of two have whole and short chunks, and two errors may come from two
different places, one of them an artifact's.  Three keys make a walk that ends, one
that stands still, a circle of two or three, and one with a beginning; the five
entries come round each.  The texts are all of a given length over the bytes at
the edges of UTF-8's forms, those that JSON escapes, those of markup, and those that
make UTF-16's marks and surrogates.  The trees have a directory inside a directory, both
open or closed in any way, a link to a sibling and one that leaves, a name that begins
like another, each way configuration can be missing or unusable, files,
directories and links that cannot be opened or entered, or not even be looked at, and a FIFO; the DataPaths
name the same place with dots, with slashes, from outside and from the file
system's root.  A link's new target may be longer than its first, and any call may fail once
or more.  What the bounds leave out is repetition: a third invocation, a
longer stream, a deeper tree.  The theorems cover those for every module that has
actions: `AtomicOutput`, `CApi`, `ArtifactCapture`, `Extraction`, `ValidatedStream`,
`EntryTraversal` and `Reassembly`.

Deadlock is checked for `c_api`, whose threads always have another call to make.  The
others really stop, when every process has ended or the stream has been judged.

Fairness.  A process that is not killed executes its next step (`WF` of its steps,
one for each invocation): that is what an operating system's scheduler gives.
`EngineReleased` needs callbacks that return.  `Returns` needs system calls that
return, except the `open` of a FIFO, of which it says that the capture ends or waits there for
ever (`Awaken` is not fair); that of `entry_traversal` an engine that does.
Nowhere is a particular outcome counted on:
every failure may happen for ever.  `ValidatedStream` and `RoundTrip` state safety only.

### Disagreements

Six runs end in a violation of what the repository says of itself; `PROJECT.json`
quotes the lines.

- `growing_file`: a file that grows while it is read yields a short chunk that is not
  the last one.  The producer notices the change and says so, but the validator
  refuses the stream for the chunk.
- `capture_throws`: an exception in `emit_artifacts` leaves an open group, or totals
  and diagnostics that do not add up, under a footer.
- `symlink_target`: a link replaced by a longer one between `lstat` and `readlink` is
  captured cut off, as a success.
- `coarse_clock`: without a fine-grained clock a rewrite in place goes unnoticed.
  `artifact_capture` shows that nothing else does.
- `root_datapath`: a DataPath that is the root itself, as `a/..` is, passes the escape
  check, gives an artifact whose path is `.` in an extraction that succeeds, and the
  validator refuses the stream.
- `reread_input`: `reassemble` reads the input a second time.  If the file was cut short
  or replaced after the first pass, a tree that lacks validated artifacts, or has other
  contents, is published with success.

Others were seen while modelling and have no run of their own:

- The validator exits zero for a well-formed stream whose footer says that the extraction
  failed; `docs/validator-v1.md:24` says that failed producer streams exit nonzero.
- A record may exceed the validator's default limit of 64 MiB: an entry is one record,
  whatever its size.  The producer has no such limit, so that a successful extraction can be
  refused (`oversize` in `ValidatedStream` and `RoundTrip`).
- A failed `fstat` is reported as `artifact.changed_before_read` or
  `artifact.changed_during_read`, also of a file that nobody changed.

- The contract says that links are never followed (`docs/contract-v1.md:118`).  A
  module directory that is a link is entered if its DataPath ends in `/` or goes on
  below it, and one named `mods.d` always.  `NoLinkOnTheWay` keeps these cases out of
  what is said of the captured paths.
- If `mods.d` is a link that the DataPath captures as well, the configuration files
  found through it have paths below it.  The extraction succeeds and its stream is valid,
  but it cannot be reassembled even with `--allow-symlinks`: the second pass cannot create a
  file below a link.  `Restored` names this as the only case of a failure that
  nothing outside the program has caused (`ModsDIsLink`).
- `docs/validator-v1.md:37` has the validator look for conflicts between parents and
  children and check digests before a tree appears.  A file that is also a parent is
  only met when the second pass cannot create what is below it; and the digests are
  those of the first pass, whatever the second one reads.  `DestinationIsWhole`
  therefore promises completeness, contents and synchronised files only as far as
  both passes have read the same, or up to where the second input was cut.
- An empty directory that appears at the destination after the check is replaced, as
  `rename` does.

## What is proved

For any set of processes or threads, any stream length, buffer and pipe, any number of
candidates, changes and blocks, any bounds of `Extraction`, any engine with any walk and
any texts, any finite trees, DataPaths and other streams:

| Theorem | States |
|---|---|
| `AtomicOutput_proofs`: `TypeCorrect`, `TargetAlwaysWhole`, `NeverClobbers`, `ReportsAreTruthful`, `NoTempIsForgotten` | the safety properties of `AtomicOutput` |
| `AtomicOutput_proofs`: `Implementation` | `AtomicOutput` implements `AtomicFile` |
| `CApi_proofs`: `TypeCorrect`, `EngineIsExclusive`, `NobodyRelocks`, `FlagIsExact`, `StatusIsRight`, `ErrorIsRight`, `SilenceAfterRefusal` | the safety properties of `CApi` |
| `CApi_proofs`: `Implementation` | `CApi` implements `StreamService` |
| `Extraction_proofs`: `ReturnsTruthfully`, `ReturnsClosed` | what the producer's call returns |
| `ValidatedStream_proofs`: `PipeTypes`, `ClosedIsAccepted`, `CutIsRefused`, `SuccessIsTrusted`, `ErrorsAreAllRecorded`, `PipedReturnsTruthfully`, `PipedReturnsClosed` | the safety properties of `ValidatedStream`: producer and validator agree, but for the three events and the record limit |
| `ArtifactCapture_proofs`: `CaptureTypeOK`, `CaptureFailureIsDiagnosed`, `QuietTreeIsAlwaysCaptured`, `GroupsAreAlwaysCounted` | the type invariant, that diagnostics are given to exactly the candidates without a group or with an unstable one, that an unchanged file is accused only for a failed call, and that totals are exact |
| `ArtifactCapture_proofs`: `StableIsAlwaysSnapshot` | a stable group is a snapshot, unless two changes can share a timestamp |
| `EntryTraversal_proofs`: `TraversalTypeOK`, `EntriesAlwaysFollowWalk`, `TraversalIsCompleteOrDiagnosed`, `DuplicatesAreAlwaysKept` | the safety properties of `EntryTraversal` but `EntryIsAccepted` |
| `EntryTraversal_proofs`: `Implementation` | `EntryTraversal` implements the traversal of `Extraction` |
| `RoundTrip_proofs`: `ReassemblyTypeOK`, `DestinationIsAlwaysWhole` | the type invariant, and what a reassembly guarantees of its destination, also when the second input is another one or is cut |
| `RoundTrip_proofs`: `TheTreeIsCaptured` | an extraction captures nothing but what a DataPath means and what defines the module, once and in order, and all of it if it says success; it says success if nothing stood in its way (no link on the DataPath's way, not the root itself) |
| `RoundTrip_proofs`: `TheTreeIsRestored` | what was meant comes back as it was from a reassembly that has read the same twice, and only the listed reasons can stand against it |

The assumptions are those the modules declare for their constants, and nothing else,
except that `StableIsAlwaysSnapshot` has `~CoarseClock` in its statement; the run
`coarse_clock` shows that it is needed.  Those of `RoundTrip` and `Reassembly` say what a tree
in a file system is, what place a DataPath means, and that other streams are lists of
artifacts; all are stated above, and TLC evaluates them for the trees it checks.

The arguments.

*AtomicOutput*: a property of the target speaks of files that were
published, so that the inductive invariant says what is known of a file at each step
before: how much of it `written` and `synced` hold at each `pc`, that a process has
published at most once and only from `sync_dir` on, and that what is `durable` is a
prefix of `commits`, which only a power loss shortens.

*CApi*: the invariant ties `owner` and
`active` to `pc`, and for each place of a call says what has been emitted and
delivered, what `failure` can be, and what the caller's `gbs_error` holds; a status
is right when it is returned because of the place it is returned from, and stays
right because only a new call changes the stream.

*Extraction*: errors are counted
in three places (counted diagnostics, those collected by the capture, an exception
being caught), and the invariant says that their sum is `trouble` at every step of
the call; when the footer is due only the first is left.

*ValidatedStream*: the validator is behind the producer by what is in the pipe, so
that nothing relates their variables directly.  `After` is the validator's step as
a function of its state and one line; a run of it through all the lines in the pipe
(`Reads`) leads to a state that `Fits` what the producer has counted, or, once the footer is in
the pipe, to one that is `Closed`.  A step of the producer adds a line that this last state
accepts, and leads to a state that fits again; a step of the validator takes the first line
away and with it the first step of the run.  This is `Agreed`, and it holds
unless there was an upset.  `Numbered` says what holds in any case: a footer
is the last line of a call that wrote all lines before it, which is why a cut
stream cannot be valid.

*ArtifactCapture*: what the
code compares, before and after it reads, is a timestamp and an inode; the invariant
(`Snapshot`) says why that is enough: as long as the inode first looked at still has the
timestamp it had, it has the contents it had, and what has been captured of it so
far is a beginning of them; when reading has ended without a failure it is all of
them.  That a timestamp says so rests on every change giving a new one (`clock`).
`Diagnosed` ties the diagnostics of each candidate to its outcome, `Quiet` says that
all that was looked at is as it was while `changes` is zero, so that only a call that failed
leads to a diagnostic of a change (and `open` cannot have met a FIFO).  `Counted` has the totals as
cardinalities, of the candidates that have a group and of the places of their blocks, so
that a new chunk is one more element, not one more term.

*EntryTraversal*: `Walk`, which the properties are stated with, is a recursive function; that
it satisfies its equation is shown by induction over the naturals in the form
of sets (`Least`, `Induct`).  `Walked` says that the key is where the walk is
after as many steps as there are entries, `Compared` which neighbours on it may look alike, and
`Answered` why the loop was left; `Followed` that the entries are those of the walk so far, and
that the projections under way are those of the text under the key.  For the refinement
`Typed` and `Bounded` say how many diagnostics an entry can have had, and the mapping's
expressions (`Lines`, `Counted`, `Diagnosed`) change by one record where `Extraction`'s
variables do.

*Discovery*: the functions on paths are recursive, and what they compute is shown by
induction over the naturals (`Discovery_proofs`).  `lexically_normal` gives a path in
normal form, with or without a `/` at its end; `lexically_relative` from a path in
normal form takes away the root or begins with `..`; `Native` determines its path,
and a directory's bytes begin those of what is in it; `Before` is a strict total order
on bytes, so that `SortedByPath` lists every candidate once, in order, although
`CHOOSE` says so only of a rank.  `Resolve` stays on a path with no link on it, and a link's
target goes on from there.

*CapturesTheTree*: without a link on the way the place a DataPath means is the place its
candidates are found at (`DataLeads`, `FoundIs`), and with any tree a candidate has a path below
the root that no other candidate has (`Lawful`).  `CandidatesAre` puts the two and the
configuration files together: but for a `/` at the end the candidates of a tree in which nothing
fails are `Meant \cup Defined`.  What an extraction has captured of them when walks stop and calls
fail is a part (`Captives`), and all of them if it says success; that it does when nothing is in
the way is `NothingFails`.  Sorting the part by relative paths puts a directory first
(`DirectoriesFirst`), also when its path is the one with a `/` at the end.  The invariant is
then only that the extraction is one of this tree and DataPath (`Source`).

*RoundTrip*: discovery returns finite lists because trees are finite (`ExtractedIsList`).  The
destination is the staging directory renamed, so that `Staged` says of every path in
it, from the first artifact on, that it is a validated one or a parent of one, with its
mode set unless it is `pending`, and synchronised unless it is open or the input was cut in it
(`Loose`, `CutIn`); `Progressed` that
the artifacts before the current one are there; `Published` that nothing is pending
once the destination has been reached, and what holds after.  `Validated` adds that the
paths are unique, without which a mode could be another artifact's, and a file could be
written over.  `Kept` says that each artifact before the current one has all of its chunks,
and the current one those written so far, as long as both passes read the same.

*Restored* needs more than `DestinationIsWhole` does: not only that all that is staged is
valid, but that nothing stands in the way of what is still to come.  `Grown` says, as long as the
input has not been cut, that the stage
has exactly the artifacts begun so far and their parents (`Rooted`, `Placed`), that no
directory is closed before all artifacts are there, nor before those below it (`ModesLast`), and
that a regular file is open while it is written (`Ready`).  `NestedArtifacts`, about
discovery, adds that what an artifact lies in is a directory unless it is `mods.d`,
and `PathsAreValid` that only the root's path is refused.  So in a run that is not `disturbed`
no call fails (`Unhindered`, for those that create), and `Undisturbed` lists why it may
end without a tree.  At the end `Grown`, `Kept` and `CandidatesAre` make the destination what was meant.

Each refinement is proved by mapping the initial states and every action to a step
of the abstract specification or to a stutter.

Only model-checked: liveness (`Terminates`, `EngineReleased`, `Returns`), which is out of
the prover's reach, and one invariant, `EntryIsAccepted`: its claim is about what an automaton
for UTF-8 and the forms of JSON and base64 make of any bytes, and that their inverses undo
it.  The theorems of `EntryTraversal_proofs` hold whatever those functions return.

## Not modelled

- What the engine's filters produce, the values of module metadata (scopes, official
  attributes, configuration values), the wording of diagnostics.
- `parse_arguments`: a pure function of `argv` that decides which of the modelled
  operations runs.
- `sha256.cpp`: a standard function with published vectors.  Its input is modelled
  instead: lines in `NdjsonWriter`, bytes in `EntryText`.
- A directory that changes while it is enumerated: `Discovery` has a tree that stands still,
  in which an enumeration may stop at a directory that cannot be entered.
- Other failures of a system call on a tree that stands still (an I/O error in the middle of
  a file): `ArtifactCapture` has them, `RoundTrip` has those that what the tree is decides.
- Special mode bits and the modes of regular files: they do not decide any step that
  is modelled.
- A second input of `reassemble` whose records are malformed or out of order.
- A configuration file that changes between the reading that looks for the module's
  section and the one that emits it, and reads of different files at different times: no
  code relates them, and so no property does.
- Callbacks that wait for other threads, a second `gbs_error` shared by two threads at
  once: the ABI documentation leaves them to the caller.
- Schema, build files, packaging, tests.

## Plan

1. Done: `AtomicOutput`, `CApi`, `ArtifactCapture`, `Extraction` with `StreamValidator`,
   two abstract specifications and their refinements.
2. Done: `EntryTraversal`, which implements the traversal of `Extraction`, with
   `EntryText`; `Discovery` and `Reassembly`, composed in `RoundTrip`.
3. Done: proofs for `AtomicOutput`, `CApi`, `Extraction`, `ArtifactCapture`,
   `ValidatedStream`, `EntryTraversal` with its refinement, and `RoundTrip`, with what
   `normalize_candidate`, `discover_artifacts` and `find_configuration_files` find.
4. Left, proofs: what the functions of `EntryText` compute, for `EntryIsAccepted`.
5. Left, model: changes of a directory during its enumeration, joined to
   `ArtifactCapture`; `parse_arguments` as an operator against a reference grammar.

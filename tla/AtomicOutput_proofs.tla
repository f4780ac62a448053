------------------------ MODULE AtomicOutput_proofs ------------------------
(***************************************************************************)
(* What AtomicOutput guarantees for any number of invocations, any stream   *)
(* length and any buffer: the invariants the run checks, and that it        *)
(* implements AtomicFile.                                                   *)
(***************************************************************************)
EXTENDS AtomicOutput, TLAPS

-----------------------------------------------------------------------------
(* The inductive invariant.                                                *)

\* What is on the disk has been written, what is written has been emitted.
Ordered == \A p \in Procs : synced[p] <= written[p] /\ written[p] <= emitted[p]

\* commit() is reached with the whole stream emitted, fsync with it written,
\* and everything after fsync with it on the disk.
Progressed ==
    \A p \in Procs :
        /\ pc[p] \in {"finish", "flush"} => emitted[p] = Blocks
        /\ pc[p] \in {"flush", "fsync"} => written[p] = Blocks
        /\ pc[p] \in {"close", "publish", "drop_temp", "sync_dir", "exit",
                      "unwind_committed"} => synced[p] = Blocks

\* Only a process past rename or link is the content of the target, and its
\* file is whole on the disk.
Placed ==
    \A p \in Procs :
        /\ pc[p] \in {"inspect", "mkstemp", "secure", "extract", "overflow",
                      "finish", "flush", "fsync", "close", "publish",
                      "unwind"} => ~Committed(p)
        /\ pc[p] \in {"drop_temp", "sync_dir", "exit", "unwind_committed"} =>
               Committed(p)
        /\ pc[p] = "exit" => Survives(p)
        /\ Committed(p) => synced[p] = Blocks

\* A report is the last thing a process does, and is true.
Reported ==
    \A p \in Procs :
        /\ report[p] # "none" => pc[p] = "done"
        /\ report[p] = "failed" => ~Committed(p)
        /\ report[p] \in {"success", "unsuccessful"} => Survives(p)

IInv ==
    /\ TypeOK
    /\ Ordered
    /\ Progressed
    /\ Placed
    /\ Reported
    /\ NoClobber

USE OldAssumption, BlocksAssumption, CapacityAssumption

-----------------------------------------------------------------------------
(* What the directory operations do to the commits.                        *)

\* rename and link add one content, the last, and keep the earlier ones.
LEMMA AppendCommit ==
    ASSUME TypeOK, NEW q \in Procs, commits' = Append(commits, q)
    PROVE  /\ commits' \in Seq(Procs \cup {Old})
           /\ Len(commits') = Len(commits) + 1
           /\ \A i \in 1 .. Len(commits) : commits'[i] = commits[i]
           /\ commits'[Len(commits) + 1] = q
           /\ \A p : Committed(p)' <=> Committed(p) \/ p = q
           /\ durable' = durable => \A p : Survives(p)' <=> Survives(p)
<1>1. /\ commits' \in Seq(Procs \cup {Old})
      /\ Len(commits') = Len(commits) + 1
      /\ \A i \in 1 .. Len(commits) : commits'[i] = commits[i]
      /\ commits'[Len(commits) + 1] = q
  BY DEF TypeOK
<1>2. \A i : i \in 1 .. Len(commits') <=> i \in 1 .. Len(commits) \/ i = Len(commits) + 1
  BY <1>1 DEF TypeOK
<1>3. 1 .. durable \subseteq 1 .. Len(commits)
  BY DEF TypeOK
<1> QED
  BY <1>1, <1>2, <1>3 DEF Committed, Survives

\* A power loss keeps the durable contents and only those.
LEMMA TruncateCommits ==
    ASSUME TypeOK, commits' = SubSeq(commits, 1, durable)
    PROVE  /\ commits' \in Seq(Procs \cup {Old})
           /\ Len(commits') = durable
           /\ \A i \in 1 .. durable : i \in 1 .. Len(commits) /\ commits'[i] = commits[i]
           /\ \A p : Committed(p)' => Committed(p)
           /\ durable' = durable => \A p : Survives(p)' <=> Survives(p)
<1>1. /\ commits' \in Seq(Procs \cup {Old})
      /\ Len(commits') = durable
      /\ \A i \in 1 .. durable : i \in 1 .. Len(commits) /\ commits'[i] = commits[i]
  BY DEF TypeOK
<1> QED
  BY <1>1 DEF Committed, Survives

\* Writing the directory out only adds to what survives.
LEMMA PersistCommits ==
    ASSUME TypeOK, UNCHANGED commits, durable' \in durable .. Len(commits)
    PROVE  /\ \A p : Committed(p)' <=> Committed(p)
           /\ \A p : Survives(p) => Survives(p)'
           /\ durable' = Len(commits) => \A p : Survives(p)' <=> Committed(p)
           /\ NoClobber => NoClobber'
<1>1. \A i \in 1 .. durable : i \in 1 .. durable'
  BY DEF TypeOK
<1> QED
  BY <1>1 DEF Committed, Survives, NoClobber

-----------------------------------------------------------------------------
(* Type correctness.                                                       *)

LEMMA InitType == Init => TypeOK
<1> SUFFICES ASSUME Init PROVE TypeOK
  OBVIOUS
<1>1. commits \in Seq(Procs \cup {Old}) /\ Len(commits) \in Nat
  <2>1. CASE commits = <<>>
    BY <2>1
  <2>2. CASE commits = <<Old>>
    BY <2>2
  <2> QED
    BY <2>1, <2>2 DEF Init
<1>2. 0 \in 0 .. Blocks /\ durable \in 0 .. Len(commits)
  BY <1>1 DEF Init
<1> QED
  BY <1>1, <1>2 DEF Init, TypeOK, Steps, Reports

LEMMA NextType == TypeOK /\ [Next]_vars => TypeOK'
<1> SUFFICES ASSUME TypeOK, [Next]_vars PROVE TypeOK'
  OBVIOUS
<1> USE DEF TypeOK, Steps, Reports, files, directory, Goto, Fail
<1>1. ASSUME NEW p \in Procs, Inspect(p) PROVE TypeOK'
  BY <1>1 DEF Inspect
<1>2. ASSUME NEW p \in Procs, MakeTemp(p) PROVE TypeOK'
  BY <1>2 DEF MakeTemp
<1>3. ASSUME NEW p \in Procs, Secure(p) PROVE TypeOK'
  BY <1>3 DEF Secure
<1>4. ASSUME NEW p \in Procs, Emit(p) PROVE TypeOK'
  <2>1. emitted[p] < Blocks => emitted[p] + 1 \in 0 .. Blocks
    OBVIOUS
  <2>2. emitted' \in [Procs -> 0 .. Blocks]
    BY <1>4, <2>1 DEF Emit
  <2>3. pc' \in [Procs -> Steps]
    BY <1>4 DEF Emit
  <2> QED
    BY <1>4, <2>2, <2>3 DEF Emit
<1>5. ASSUME NEW p \in Procs, Footer(p) PROVE TypeOK'
  BY <1>5 DEF Footer
<1>6. ASSUME NEW p \in Procs, Write(p) PROVE TypeOK'
  <2>1. \A n \in written[p] + 1 .. emitted[p] : n \in 0 .. Blocks
    OBVIOUS
  <2>2. written' \in [Procs -> 0 .. Blocks]
    BY <1>6, <2>1 DEF Write
  <2>3. pc' \in [Procs -> Steps]
    BY <1>6 DEF Write
  <2> QED
    BY <1>6, <2>2, <2>3 DEF Write
<1>7. ASSUME NEW p \in Procs, Flushed(p) PROVE TypeOK'
  BY <1>7 DEF Flushed, AfterFlush
<1>8. ASSUME NEW p \in Procs, Throw(p) PROVE TypeOK'
  BY <1>8 DEF Throw
<1>9. ASSUME NEW p \in Procs, Fsync(p) PROVE TypeOK'
  BY <1>9 DEF Fsync
<1>10. ASSUME NEW p \in Procs, Close(p) PROVE TypeOK'
  BY <1>10 DEF Close
<1>11. ASSUME NEW p \in Procs, Rename(p) PROVE TypeOK'
  <2>1. CASE commits' = Append(commits, p)
    <3>1. commits' \in Seq(Procs \cup {Old}) /\ durable \in 0 .. Len(commits')
      BY <2>1, AppendCommit
    <3> QED
      BY <1>11, <3>1 DEF Rename
  <2>2. CASE UNCHANGED commits
    BY <1>11, <2>2 DEF Rename
  <2> QED
    BY <1>11, <2>1, <2>2 DEF Rename
<1>12. ASSUME NEW p \in Procs, Link(p) PROVE TypeOK'
  <2>1. CASE commits' = Append(commits, p)
    <3>1. commits' \in Seq(Procs \cup {Old}) /\ durable \in 0 .. Len(commits')
      BY <2>1, AppendCommit
    <3> QED
      BY <1>12, <3>1 DEF Link
  <2>2. CASE UNCHANGED commits
    BY <1>12, <2>2 DEF Link
  <2> QED
    BY <1>12, <2>1, <2>2 DEF Link
<1>13. ASSUME NEW p \in Procs, DropTemp(p) PROVE TypeOK'
  BY <1>13 DEF DropTemp
<1>14. ASSUME NEW p \in Procs, SyncDir(p) PROVE TypeOK'
  <2>1. Len(commits) \in 0 .. Len(commits)
    OBVIOUS
  <2> QED
    BY <1>14, <2>1 DEF SyncDir
<1>15. ASSUME NEW p \in Procs, Exit(p) PROVE TypeOK'
  BY <1>15 DEF Exit
<1>16. ASSUME NEW p \in Procs, Unwind(p) PROVE TypeOK'
  BY <1>16 DEF Unwind
<1>17. ASSUME NEW p \in Procs, Kill(p) PROVE TypeOK'
  BY <1>17 DEF Kill
<1>18. CASE Writeback
  BY <1>18 DEF Writeback
<1>19. CASE PowerLoss
  BY <1>19, TruncateCommits DEF PowerLoss, Survivor
<1>20. CASE UNCHANGED vars
  BY <1>20 DEF vars
<1> QED
  BY <1>1, <1>2, <1>3, <1>4, <1>5, <1>6, <1>7, <1>8, <1>9, <1>10, <1>11, <1>12,
     <1>13, <1>14, <1>15, <1>16, <1>17, <1>18, <1>19, <1>20 DEF Next, Step

-----------------------------------------------------------------------------
(* The inductive invariant.                                                *)

LEMMA InitInv == Init => IInv
<1> SUFFICES ASSUME Init PROVE IInv
  OBVIOUS
<1>1. TypeOK
  BY InitType
<1>2. commits = <<>> \/ (commits = <<Old>> /\ Len(commits) = 1 /\ commits[1] = Old)
  BY DEF Init
<1>3. \A p \in Procs : ~Committed(p)
  BY <1>2 DEF Committed
<1>4. NoClobber
  BY <1>2 DEF NoClobber
<1> QED
  BY <1>1, <1>3, <1>4 DEF IInv, Init, Ordered, Progressed, Placed, Reported

\* A step that leaves the target alone keeps what is said about it.
LEMMA SameCommits ==
    ASSUME UNCHANGED <<commits, durable>>
    PROVE  /\ \A p : Committed(p)' <=> Committed(p)
           /\ \A p : Survives(p)' <=> Survives(p)
           /\ NoClobber => NoClobber'
  BY DEF Committed, Survives, NoClobber

\* The steps of a process before and after rename or link: only its own
\* counter, file and report change.
LEMMA LocalStep ==
    ASSUME IInv, TypeOK', UNCHANGED <<commits, durable>>, NEW p \in Procs,
           \/ Inspect(p) \/ MakeTemp(p) \/ Secure(p) \/ Emit(p) \/ Footer(p)
           \/ Write(p) \/ Flushed(p) \/ Throw(p) \/ Fsync(p) \/ Close(p)
           \/ DropTemp(p) \/ Exit(p) \/ Unwind(p) \/ Kill(p)
    PROVE  IInv'
<1> USE SameCommits DEF IInv, TypeOK, Steps, Reports, files, directory, Goto
<1>1. CASE Inspect(p)
  <2>1. Ordered'
    BY <1>1 DEF Inspect, Fail, Ordered
  <2>2. Progressed'
    BY <1>1 DEF Inspect, Fail, Progressed
  <2>3. Placed'
    BY <1>1 DEF Inspect, Fail, Placed
  <2>4. Reported'
    BY <1>1 DEF Inspect, Fail, Placed, Reported
  <2> QED
    BY <2>1, <2>2, <2>3, <2>4
<1>2. CASE MakeTemp(p)
  <2>1. Ordered'
    BY <1>2 DEF MakeTemp, Fail, Ordered
  <2>2. Progressed'
    BY <1>2 DEF MakeTemp, Fail, Progressed
  <2>3. Placed'
    BY <1>2 DEF MakeTemp, Fail, Placed
  <2>4. Reported'
    BY <1>2 DEF MakeTemp, Fail, Placed, Reported
  <2> QED
    BY <2>1, <2>2, <2>3, <2>4
<1>3. CASE Secure(p)
  <2>1. Ordered'
    BY <1>3 DEF Secure, Fail, Ordered
  <2>2. Progressed'
    BY <1>3 DEF Secure, Fail, Progressed
  <2>3. Placed'
    BY <1>3 DEF Secure, Fail, Placed
  <2>4. Reported'
    BY <1>3 DEF Secure, Fail, Placed, Reported
  <2> QED
    BY <2>1, <2>2, <2>3, <2>4
<1>4. CASE Emit(p)
  <2>1. Ordered'
    <3> SUFFICES ASSUME NEW q \in Procs
                 PROVE  synced'[q] <= written'[q] /\ written'[q] <= emitted'[q]
      BY DEF Ordered
    <3>1. CASE q = p
      BY <1>4, <3>1 DEF Emit, Ordered
    <3>2. CASE q # p
      BY <1>4, <3>2 DEF Emit, Ordered
    <3> QED
      BY <3>1, <3>2
  <2>2. Progressed'
    BY <1>4 DEF Emit, Progressed
  <2>3. Placed'
    BY <1>4 DEF Emit, Placed
  <2>4. Reported'
    BY <1>4 DEF Emit, Reported
  <2> QED
    BY <2>1, <2>2, <2>3, <2>4
<1>5. CASE Footer(p)
  <2>1. Ordered'
    BY <1>5 DEF Footer, Ordered
  <2>2. Progressed'
    BY <1>5 DEF Footer, Progressed
  <2>3. Placed'
    BY <1>5 DEF Footer, Placed
  <2>4. Reported'
    BY <1>5 DEF Footer, Reported
  <2> QED
    BY <2>1, <2>2, <2>3, <2>4
<1>6. CASE Write(p)
  <2>1. Ordered'
    <3> SUFFICES ASSUME NEW q \in Procs
                 PROVE  synced'[q] <= written'[q] /\ written'[q] <= emitted'[q]
      BY DEF Ordered
    <3>1. CASE q = p
      BY <1>6, <3>1 DEF Write, Ordered
    <3>2. CASE q # p
      BY <1>6, <3>2 DEF Write, Ordered
    <3> QED
      BY <3>1, <3>2
  <2>2. Progressed'
    BY <1>6 DEF Write, Progressed
  <2>3. Placed'
    BY <1>6 DEF Write, Placed
  <2>4. Reported'
    BY <1>6 DEF Write, Reported
  <2> QED
    BY <2>1, <2>2, <2>3, <2>4
<1>7. CASE Flushed(p)
  <2>1. Ordered'
    BY <1>7 DEF Flushed, AfterFlush, Ordered
  <2>2. Progressed'
    BY <1>7 DEF Flushed, AfterFlush, Progressed
  <2>3. Placed'
    BY <1>7 DEF Flushed, AfterFlush, Placed
  <2>4. Reported'
    BY <1>7 DEF Flushed, AfterFlush, Reported
  <2> QED
    BY <2>1, <2>2, <2>3, <2>4
<1>8. CASE Throw(p)
  <2>1. Ordered'
    BY <1>8 DEF Throw, Ordered
  <2>2. Progressed'
    BY <1>8 DEF Throw, Progressed
  <2>3. Placed'
    BY <1>8 DEF Throw, Placed
  <2>4. Reported'
    BY <1>8 DEF Throw, Reported
  <2> QED
    BY <2>1, <2>2, <2>3, <2>4
<1>9. CASE Fsync(p)
  <2>1. Ordered'
    <3> SUFFICES ASSUME NEW q \in Procs
                 PROVE  synced'[q] <= written'[q] /\ written'[q] <= emitted'[q]
      BY DEF Ordered
    <3>1. CASE q = p
      BY <1>9, <3>1 DEF Fsync, Ordered
    <3>2. CASE q # p
      BY <1>9, <3>2 DEF Fsync, Ordered
    <3> QED
      BY <3>1, <3>2
  <2>2. Progressed'
    BY <1>9 DEF Fsync, Progressed
  <2>3. Placed'
    BY <1>9 DEF Fsync, Placed
  <2>4. Reported'
    BY <1>9 DEF Fsync, Reported
  <2> QED
    BY <2>1, <2>2, <2>3, <2>4
<1>10. CASE Close(p)
  <2>1. Ordered'
    BY <1>10 DEF Close, Ordered
  <2>2. Progressed'
    BY <1>10 DEF Close, Progressed
  <2>3. Placed'
    BY <1>10 DEF Close, Placed
  <2>4. Reported'
    BY <1>10 DEF Close, Reported
  <2> QED
    BY <2>1, <2>2, <2>3, <2>4
<1>11. CASE DropTemp(p)
  <2>1. Ordered'
    BY <1>11 DEF DropTemp, Ordered
  <2>2. Progressed'
    BY <1>11 DEF DropTemp, Progressed
  <2>3. Placed'
    BY <1>11 DEF DropTemp, Placed
  <2>4. Reported'
    BY <1>11 DEF DropTemp, Reported
  <2> QED
    BY <2>1, <2>2, <2>3, <2>4
<1>12. CASE Exit(p)
  <2>1. Ordered'
    BY <1>12 DEF Exit, Ordered
  <2>2. Progressed'
    BY <1>12 DEF Exit, Progressed
  <2>3. Placed'
    BY <1>12 DEF Exit, Placed
  <2>4. Reported'
    BY <1>12 DEF Exit, Placed, Reported
  <2> QED
    BY <2>1, <2>2, <2>3, <2>4
<1>13. CASE Unwind(p)
  <2>1. Ordered'
    BY <1>13 DEF Unwind, Ordered
  <2>2. Progressed'
    BY <1>13 DEF Unwind, Progressed
  <2>3. Placed'
    BY <1>13 DEF Unwind, Placed
  <2>4. Reported'
    BY <1>13 DEF Unwind, Placed, Reported
  <2> QED
    BY <2>1, <2>2, <2>3, <2>4
<1>14. CASE Kill(p)
  <2>1. Ordered'
    BY <1>14 DEF Kill, Ordered
  <2>2. Progressed'
    BY <1>14 DEF Kill, Progressed
  <2>3. Placed'
    BY <1>14 DEF Kill, Placed
  <2>4. Reported'
    BY <1>14 DEF Kill, Reported
  <2> QED
    BY <2>1, <2>2, <2>3, <2>4
<1> QED
  BY <1>1, <1>2, <1>3, <1>4, <1>5, <1>6, <1>7, <1>8, <1>9, <1>10, <1>11, <1>12, <1>13, <1>14

\* rename or link: the process is now among the commits, and at the first
\* place if it has no --force.
LEMMA PublishStep ==
    ASSUME IInv, TypeOK', NEW p \in Procs, Rename(p) \/ Link(p)
    PROVE  IInv'
<1> USE DEF IInv, TypeOK, Steps, Reports, files, directory, Goto
<1>1. CASE UNCHANGED commits
  <2>0. UNCHANGED <<commits, durable>>
    BY <1>1 DEF Rename, Link
  <2>1. Ordered' /\ Progressed'
    BY <1>1 DEF Rename, Link, Ordered, Progressed
  <2>2. pc'[p] = "unwind" /\ \A q \in Procs : q # p => pc'[q] = pc[q]
    BY <1>1, AppendCommit DEF Rename, Link
  <2>3. Placed'
    BY <2>0, <2>2, SameCommits DEF Rename, Link, Placed
  <2>4. Reported'
    BY <2>0, <2>2, SameCommits DEF Rename, Link, Reported
  <2> QED
    BY <2>0, <2>1, <2>3, <2>4, SameCommits
<1>2. CASE commits' = Append(commits, p)
  <2>1. durable' = durable /\ synced' = synced /\ report' = report
    BY DEF Rename, Link
  <2>2. /\ pc[p] = "publish" /\ synced[p] = Blocks
        /\ pc'[p] \in {"drop_temp", "sync_dir"}
        /\ \A q \in Procs : q # p => pc'[q] = pc[q]
    BY <1>2, AppendCommit DEF Rename, Link, Progressed
  <2>3. Ordered' /\ Progressed'
    BY <2>2 DEF Rename, Link, Ordered, Progressed
  <2>4. /\ \A q : Committed(q)' <=> Committed(q) \/ q = p
        /\ \A q : Survives(q)' <=> Survives(q)
    BY <1>2, <2>1, AppendCommit
  <2>5. Placed'
    BY <2>1, <2>2, <2>4 DEF Placed
  <2>6. Reported'
    BY <2>1, <2>2, <2>4 DEF Reported
  <2>7. NoClobber'
    <3>1. p \in Forced \/ commits = <<>>
      BY <1>2, AppendCommit DEF Rename, Link, Exists
    <3> QED
      BY <1>2, <3>1, AppendCommit DEF NoClobber
  <2> QED
    BY <2>3, <2>5, <2>6, <2>7
<1> QED
  BY <1>1, <1>2 DEF Rename, Link

\* The directory's fsync makes what the process committed survive.
LEMMA SyncDirStep ==
    ASSUME IInv, TypeOK', NEW p \in Procs, SyncDir(p)
    PROVE  IInv'
<1> USE DEF IInv, TypeOK, Steps, Reports, files, directory, Goto
<1>1. UNCHANGED commits /\ durable' \in durable .. Len(commits)
  BY DEF SyncDir
<1>2. /\ pc[p] = "sync_dir"
      /\ \A q \in Procs : q # p => pc'[q] = pc[q]
      /\ \/ pc'[p] = "exit" /\ durable' = Len(commits)
         \/ pc'[p] = "unwind_committed"
      /\ UNCHANGED <<emitted, written, synced, report>>
  BY DEF SyncDir
<1>3. Ordered' /\ Progressed'
  BY <1>2 DEF Ordered, Progressed
<1>4. Placed'
  BY <1>1, <1>2, PersistCommits DEF Placed
<1>5. Reported'
  BY <1>1, <1>2, PersistCommits DEF Reported
<1> QED
  BY <1>1, <1>3, <1>4, <1>5, PersistCommits

LEMMA WritebackStep == ASSUME IInv, TypeOK', Writeback PROVE IInv'
<1> USE DEF IInv, TypeOK, Steps, Reports, files, directory
<1>1. /\ UNCHANGED <<commits, pc, emitted, written, synced, report>>
      /\ durable' \in durable .. Len(commits)
  BY DEF Writeback
<1>2. Ordered' /\ Progressed'
  BY <1>1 DEF Ordered, Progressed
<1>3. Placed' /\ Reported'
  BY <1>1, PersistCommits DEF Placed, Reported
<1> QED
  BY <1>1, <1>2, <1>3, PersistCommits

\* After a power loss nobody is between rename and the directory's fsync.
LEMMA PowerLossStep == ASSUME IInv, TypeOK', PowerLoss PROVE IInv'
<1> USE DEF IInv, TypeOK, Steps, Reports
<1>1. /\ \A p \in Procs : pc'[p] = Survivor(pc[p])
      /\ commits' = SubSeq(commits, 1, durable)
      /\ written' = synced /\ emitted' = synced
      /\ UNCHANGED <<synced, durable, report>>
  BY DEF PowerLoss
<1>2. Ordered'
  BY <1>1 DEF Ordered
<1>3. Progressed'
  BY <1>1 DEF Progressed, Survivor
<1>4. /\ \A p : Committed(p)' => Committed(p)
      /\ \A p : Survives(p)' <=> Survives(p)
  BY <1>1, TruncateCommits
<1>5. Placed'
  BY <1>1, <1>4 DEF Placed, Survivor
<1>6. Reported'
  BY <1>1, <1>4 DEF Reported, Survivor
<1>7. NoClobber'
  BY <1>1, TruncateCommits DEF NoClobber
<1> QED
  BY <1>2, <1>3, <1>5, <1>6, <1>7

LEMMA NextInv == IInv /\ [Next]_vars => IInv'
<1> SUFFICES ASSUME IInv, [Next]_vars PROVE IInv'
  OBVIOUS
<1>1. TypeOK'
  BY NextType DEF IInv
<1>2. ASSUME NEW p \in Procs, Step(p) \/ Kill(p) PROVE IInv'
  <2>1. CASE Rename(p) \/ Link(p)
    BY <1>1, <2>1, PublishStep
  <2>2. CASE SyncDir(p)
    BY <1>1, <2>2, SyncDirStep
  <2>3. CASE \/ Inspect(p) \/ MakeTemp(p) \/ Secure(p) \/ Emit(p) \/ Footer(p)
             \/ Write(p) \/ Flushed(p) \/ Throw(p) \/ Fsync(p) \/ Close(p)
             \/ DropTemp(p) \/ Exit(p) \/ Unwind(p) \/ Kill(p)
    <3>1. UNCHANGED <<commits, durable>>
      BY <2>3 DEF Inspect, MakeTemp, Secure, Emit, Footer, Write, Flushed, Throw,
                  Fsync, Close, DropTemp, Exit, Unwind, Kill, directory
    <3> QED
      BY <1>1, <2>3, <3>1, LocalStep
  <2> QED
    BY <1>2, <2>1, <2>2, <2>3 DEF Step
<1>3. CASE Writeback
  BY <1>1, <1>3, WritebackStep
<1>4. CASE PowerLoss
  BY <1>1, <1>4, PowerLossStep
<1>5. CASE UNCHANGED vars
  <2>1. UNCHANGED <<commits, durable>>
    BY <1>5 DEF vars
  <2> QED
    BY <1>1, <1>5, <2>1, SameCommits
    DEF vars, IInv, Ordered, Progressed, Placed, Reported
<1> QED
  BY <1>2, <1>3, <1>4, <1>5 DEF Next

LEMMA InductiveInvariant == Spec => []IInv
<1> QED
  BY InitInv, NextInv, PTL DEF Spec

-----------------------------------------------------------------------------
(* What follows.                                                           *)

\* Every variable keeps its type, through failures, kills and power losses.
THEOREM TypeCorrect == Spec => []TypeOK
<1>1. IInv => TypeOK
  BY DEF IInv
<1> QED
  BY <1>1, InductiveInvariant, PTL

\* The target is the complete, synchronised stream of one invocation (or
\* what was there before), at any moment and after any power loss.
THEOREM TargetAlwaysWhole == Spec => []TargetIsWhole
<1>1. IInv => TargetIsWhole
  <2> SUFFICES ASSUME IInv, NEW i \in 1 .. Len(commits), commits[i] # Old
               PROVE  written[commits[i]] = Blocks /\ synced[commits[i]] = Blocks
    BY DEF TargetIsWhole
  <2>1. commits[i] \in Procs
    BY DEF IInv, TypeOK
  <2>2. synced[commits[i]] = Blocks
    BY <2>1 DEF IInv, Placed, Committed
  <2> QED
    BY <2>1, <2>2 DEF IInv, TypeOK, Ordered
<1> QED
  BY <1>1, InductiveInvariant, PTL

\* Without --force nothing is ever replaced.
THEOREM NeverClobbers == Spec => []NoClobber
<1>1. IInv => NoClobber
  BY DEF IInv
<1> QED
  BY <1>1, InductiveInvariant, PTL

\* Exit status and message never claim more, or less, than happened.
THEOREM ReportsAreTruthful == Spec => []ReportIsTruthful
<1>1. IInv => ReportIsTruthful
  BY DEF IInv, Reported, ReportIsTruthful
<1> QED
  BY <1>1, InductiveInvariant, PTL

-----------------------------------------------------------------------------
(* Temporary files.                                                        *)

\* Before mkstemp and after rename or unlink there is no temporary name.
NoTemp ==
    \A p \in Procs :
        pc[p] \in {"inspect", "mkstemp", "sync_dir", "exit"} => p \notin temps

LEMMA NextNoTemp == TypeOK /\ NoTemp /\ [Next]_vars => NoTemp'
<1> SUFFICES ASSUME TypeOK, NoTemp, [Next]_vars, NEW q \in Procs
             PROVE  NoTemp!(q)'
  BY DEF NoTemp
<1> USE DEF NoTemp, TypeOK, Steps, directory, Goto, Fail
<1>1. ASSUME NEW p \in Procs,
             Inspect(p) \/ MakeTemp(p) \/ Secure(p) \/ Emit(p) \/ Footer(p)
      PROVE  NoTemp!(q)'
  BY <1>1 DEF Inspect, MakeTemp, Secure, Emit, Footer
<1>2. ASSUME NEW p \in Procs, Write(p) \/ Throw(p) \/ Fsync(p) \/ Close(p)
      PROVE  NoTemp!(q)'
  BY <1>2 DEF Write, Throw, Fsync, Close
<1>3. ASSUME NEW p \in Procs, Flushed(p) PROVE NoTemp!(q)'
  BY <1>3 DEF Flushed, AfterFlush
<1>4. ASSUME NEW p \in Procs, Rename(p) \/ Link(p) \/ DropTemp(p) \/ SyncDir(p)
      PROVE  NoTemp!(q)'
  BY <1>4 DEF Rename, Link, DropTemp, SyncDir
<1>5. ASSUME NEW p \in Procs, Exit(p) \/ Unwind(p) \/ Kill(p) PROVE NoTemp!(q)'
  BY <1>5 DEF Exit, Unwind, Kill
<1>6. CASE Writeback
  BY <1>6 DEF Writeback
<1>7. CASE PowerLoss
  BY <1>7 DEF PowerLoss, Survivor
<1>8. CASE UNCHANGED vars
  BY <1>8 DEF vars
<1> QED
  BY <1>1, <1>2, <1>3, <1>4, <1>5, <1>6, <1>7, <1>8 DEF Next, Step

\* A process ends with its temporary name still there only where the unlink
\* of the constructor or the destructor has failed.
THEOREM NoTempIsForgotten == Spec => CleansUp
<1>1. Init => NoTemp
  BY DEF Init, NoTemp
<1>2. TypeOK /\ NoTemp /\ [Next]_vars =>
        [\A p \in temps \cap temps' :
            pc[p] # "done" /\ pc'[p] = "done" =>
                pc[p] \in {"secure", "unwind", "unwind_committed"}]_vars
  <2> SUFFICES ASSUME TypeOK, NoTemp, Next, NEW q \in temps, q \in temps',
                      pc[q] # "done", pc'[q] = "done"
               PROVE  pc[q] \in {"secure", "unwind", "unwind_committed"}
    BY DEF vars
  <2> USE DEF NoTemp, TypeOK, Steps, directory, Goto, Fail
  <2>1. ASSUME NEW p \in Procs,
               Inspect(p) \/ MakeTemp(p) \/ Secure(p) \/ Emit(p) \/ Footer(p)
        PROVE  pc[q] \in {"secure", "unwind", "unwind_committed"}
    BY <2>1 DEF Inspect, MakeTemp, Secure, Emit, Footer
  <2>2. ASSUME NEW p \in Procs, Write(p) \/ Flushed(p) \/ Throw(p) \/ Fsync(p)
        PROVE  pc[q] \in {"secure", "unwind", "unwind_committed"}
    BY <2>2 DEF Write, Flushed, AfterFlush, Throw, Fsync
  <2>3. ASSUME NEW p \in Procs, Close(p) \/ Rename(p) \/ Link(p) \/ DropTemp(p)
        PROVE  pc[q] \in {"secure", "unwind", "unwind_committed"}
    BY <2>3 DEF Close, Rename, Link, DropTemp
  <2>4. ASSUME NEW p \in Procs, SyncDir(p) \/ Exit(p) \/ Unwind(p) \/ Kill(p)
        PROVE  pc[q] \in {"secure", "unwind", "unwind_committed"}
    BY <2>4 DEF SyncDir, Exit, Unwind, Kill
  <2>5. CASE Writeback
    BY <2>5 DEF Writeback
  <2>6. CASE PowerLoss
    BY <2>6 DEF PowerLoss, Survivor
  <2> QED
    BY <2>1, <2>2, <2>3, <2>4, <2>5, <2>6 DEF Next, Step
<1> QED
  BY <1>1, <1>2, NextNoTemp, TypeCorrect, PTL DEF Spec, CleansUp

-----------------------------------------------------------------------------
(* AtomicOutput implements AtomicFile.                                     *)

\* What a reader of the target sees is the sequence of commits.
LEMMA ContentsAreCommits == IInv => Contents = commits
<1> SUFFICES ASSUME IInv PROVE Contents = commits
  OBVIOUS
<1>1. ASSUME NEW i \in 1 .. Len(commits), commits[i] # Old
      PROVE  written[commits[i]] = Blocks
  <2>1. commits[i] \in Procs
    BY <1>1 DEF IInv, TypeOK
  <2>2. synced[commits[i]] = Blocks
    BY <2>1 DEF IInv, Placed, Committed
  <2> QED
    BY <2>1, <2>2 DEF IInv, TypeOK, Ordered
<1>2. Contents = [i \in 1 .. Len(commits) |-> commits[i]]
  BY <1>1 DEF Contents
<1> QED
  BY <1>2 DEF IInv, TypeOK

LEMMA ContentsStayCommits == IInv' => (Contents = commits)'
  BY ContentsAreCommits, PTL

LEMMA InitPromise == Init => Promise!Init
<1> SUFFICES ASSUME Init PROVE Promise!Init
  OBVIOUS
<1>1. Contents = commits
  BY InitInv, ContentsAreCommits
<1>2. PromisedReport = [p \in Procs |-> "none"]
  BY DEF Init, PromisedReport
<1> QED
  BY <1>1, <1>2 DEF Init, Promise!Init

\* Every process step is a step of AtomicFile or does not show.
LEMMA NextPromise ==
    ASSUME IInv, [Next]_vars
    PROVE  [Promise!Next]_(Promise!vars)
<1>1. Contents = commits /\ Contents' = commits'
  BY NextInv, ContentsAreCommits, ContentsStayCommits
<1>2. \A p : (Promise!Published(p) <=> Committed(p))
             /\ (Promise!Survives(p) <=> Survives(p))
  BY <1>1 DEF Promise!Published, Promise!Survives, Committed, Survives
<1>3. ASSUME UNCHANGED <<commits, durable, report>>
      PROVE  UNCHANGED Promise!vars
  BY <1>1, <1>3 DEF Promise!vars, PromisedReport
<1>4. ASSUME NEW p \in Procs, report[p] = "none",
             NEW r \in Reports \ {"none"},
             report' = [report EXCEPT ![p] = r], UNCHANGED <<commits, durable>>,
             r = "failed" => ~Committed(p),
             r \in {"success", "unsuccessful"} => Survives(p),
             r = "committed_but" => Committed(p)
      PROVE  Promise!Next
  <2> DEFINE told == CASE r \in {"success", "unsuccessful"} -> "in_place"
                       [] r = "failed" -> "untouched"
                       [] r = "committed_but" -> "maybe_lost"
  <2>1. told \in Promise!Reports
    BY <1>4 DEF Reports, Promise!Reports
  <2>2. PromisedReport[p] = "none"
    BY <1>4 DEF PromisedReport
  <2>3. PromisedReport' = [PromisedReport EXCEPT ![p] = told]
    BY <1>4 DEF PromisedReport, IInv, TypeOK, Reports
  <2>4. \/ told = "untouched" /\ ~Promise!Published(p)
        \/ told = "in_place" /\ Promise!Survives(p)
        \/ told = "maybe_lost" /\ Promise!Published(p)
    BY <1>2, <1>4 DEF Reports
  <2>5. Promise!Answer(p, told)
    BY <1>1, <1>4, <2>2, <2>3, <2>4 DEF Promise!Answer
  <2> QED
    BY <2>1, <2>5 DEF Promise!Next
<1>5. ASSUME NEW p \in Procs, Step(p) \/ Kill(p)
      PROVE  Promise!Next \/ UNCHANGED Promise!vars
  <2>1. CASE Rename(p) \/ Link(p)
    <3>1. CASE UNCHANGED commits
      BY <1>3, <2>1, <3>1 DEF Rename, Link
    <3>2. CASE commits' = Append(commits, p)
      <4>1. /\ pc[p] = "publish" /\ UNCHANGED <<durable, report>>
            /\ p \in Forced \/ commits = <<>>
        BY <2>1, <3>2, AppendCommit DEF Rename, Link, Exists, IInv
      <4>2. report[p] = "none" /\ ~Committed(p)
        BY <4>1 DEF IInv, TypeOK, Placed, Reported
      <4>3. PromisedReport[p] = "none" /\ PromisedReport' = PromisedReport
        BY <4>1, <4>2 DEF PromisedReport
      <4>4. Promise!Publish(p)
        BY <1>1, <1>2, <3>2, <4>1, <4>2, <4>3 DEF Promise!Publish
      <4> QED
        BY <4>4 DEF Promise!Next
    <3> QED
      BY <2>1, <3>1, <3>2 DEF Rename, Link
  <2>2. CASE SyncDir(p)
    <3>1. /\ UNCHANGED <<commits, report>>
          /\ durable' \in {durable, Len(commits)} /\ durable \in 0 .. Len(commits)
      BY <2>2 DEF SyncDir, IInv, TypeOK
    <3>2. CASE durable' = durable
      BY <1>3, <3>1, <3>2
    <3>3. CASE durable' # durable
      <4>1. durable' \in durable + 1 .. Len(commits)
        BY <3>1, <3>3 DEF IInv, TypeOK
      <4>2. PromisedReport' = PromisedReport
        BY <3>1 DEF PromisedReport
      <4>3. Promise!Persist
        BY <1>1, <3>1, <4>1, <4>2 DEF Promise!Persist
      <4> QED
        BY <4>3 DEF Promise!Next
    <3> QED
      BY <3>2, <3>3
  <2>3. CASE Inspect(p) \/ MakeTemp(p) \/ Secure(p)
    <3>1. UNCHANGED <<commits, durable>>
      BY <2>3 DEF Inspect, MakeTemp, Secure, directory
    <3>2. report[p] = "none" /\ ~Committed(p)
      BY <2>3 DEF Inspect, MakeTemp, Secure, IInv, TypeOK, Placed, Reported
    <3>3. CASE UNCHANGED report
      BY <1>3, <3>1, <3>3
    <3>4. CASE report' = [report EXCEPT ![p] = "failed"]
      BY <1>4, <3>1, <3>2, <3>4 DEF Reports
    <3> QED
      BY <2>3, <3>3, <3>4 DEF Inspect, MakeTemp, Secure, Fail
  <2>4. CASE Exit(p)
    <3>1. /\ UNCHANGED <<commits, durable>>
          /\ report' = [report EXCEPT ![p] = "success"]
             \/ report' = [report EXCEPT ![p] = "unsuccessful"]
      BY <2>4 DEF Exit, directory
    <3>2. report[p] = "none" /\ Survives(p)
      BY <2>4 DEF Exit, IInv, TypeOK, Placed, Reported
    <3> QED
      BY <1>4, <3>1, <3>2 DEF Reports
  <2>5. CASE Unwind(p)
    <3>1. /\ UNCHANGED <<commits, durable>>
          /\ \/ pc[p] = "unwind" /\ report' = [report EXCEPT ![p] = "failed"]
             \/ /\ pc[p] = "unwind_committed"
                /\ report' = [report EXCEPT ![p] = "committed_but"]
      BY <2>5 DEF Unwind
    <3>2. /\ report[p] = "none"
          /\ pc[p] = "unwind" => ~Committed(p)
          /\ pc[p] = "unwind_committed" => Committed(p)
      BY <3>1 DEF IInv, TypeOK, Placed, Reported
    <3> QED
      BY <1>4, <3>1, <3>2 DEF Reports
  <2>6. CASE \/ Emit(p) \/ Footer(p) \/ Write(p) \/ Flushed(p) \/ Throw(p)
             \/ Fsync(p) \/ Close(p) \/ DropTemp(p) \/ Kill(p)
    <3>1. UNCHANGED <<commits, durable, report>>
      BY <2>6 DEF Emit, Footer, Write, Flushed, Throw, Fsync, Close, DropTemp,
                  Kill, directory
    <3> QED
      BY <1>3, <3>1
  <2> QED
    BY <1>5, <2>1, <2>2, <2>3, <2>4, <2>5, <2>6 DEF Step
<1>6. CASE Writeback
  <2>1. PromisedReport' = PromisedReport
    BY <1>6 DEF Writeback, PromisedReport
  <2>2. Promise!Persist
    BY <1>1, <1>6, <2>1 DEF Writeback, Promise!Persist
  <2> QED
    BY <2>2 DEF Promise!Next
<1>7. CASE PowerLoss
  <2>1. PromisedReport' = PromisedReport
    BY <1>7 DEF PowerLoss, PromisedReport
  <2>2. Promise!PowerLoss
    BY <1>1, <1>7, <2>1 DEF PowerLoss, Promise!PowerLoss
  <2> QED
    BY <2>2 DEF Promise!Next
<1>8. CASE UNCHANGED vars
  BY <1>3, <1>8 DEF vars
<1> QED
  BY <1>5, <1>6, <1>7, <1>8 DEF Next

\* Temporary files, buffers, failing calls and crashes do not show through:
\* every behaviour of AtomicOutput is one of AtomicFile.
THEOREM Implementation == Spec => ImplementsAtomicFile
<1>1. Init => Promise!Init
  BY InitPromise
<1>2. IInv /\ [Next]_vars => [Promise!Next]_(Promise!vars)
  BY NextPromise
<1> QED
  BY <1>1, <1>2, InductiveInvariant, PTL
  DEF Spec, ImplementsAtomicFile, Promise!Spec
=============================================================================

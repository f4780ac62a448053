-------------------------- MODULE Extraction_proofs --------------------------
(***************************************************************************)
(* For every chunk size, every bound and every environment: what a call     *)
(* returns is the truth about the errors it met, and a call that returns    *)
(* has closed its stream.                                                   *)
(***************************************************************************)
EXTENDS Extraction, TLAPS

\* Where nothing has been captured yet.
Before == Places \ {"capture", "caught", "finish", "ended"}

CountsOK ==
    /\ trouble \in Nat
    /\ diagnostics \in [{"error", "warning", "info"} -> Nat]
    /\ result \in [artifacts : {result.artifacts}, bytes : {result.bytes}, diagnostics : Nat]

\* Every error met is counted in diagnostics already, or still collected in
\* the result of emit_artifacts; an exception on the way loses what was
\* collected, but is an error itself.
ErrorsAreCounted ==
    /\ pc \in Before => trouble = diagnostics["error"] /\ result.diagnostics = 0
    /\ pc = "capture" => trouble = diagnostics["error"] + result.diagnostics
    /\ pc = "caught" => trouble > 0
    /\ pc = "finish" => (diagnostics["error"] = 0 <=> trouble = 0)

ReturnsOnce == pc # "ended" => returned = "nothing"

IInv ==
    /\ pc \in Places
    /\ CountsOK
    /\ ErrorsAreCounted
    /\ ReturnsOnce
    /\ ReturnIsTrue
    /\ FailureStillCloses

-----------------------------------------------------------------------------
(* The invariant is inductive.                                             *)

USE DEF Places, Trying, Before

LEMMA InitInvariant == Init => IInv
  BY DEF Init, WriterInit, IInv, CountsOK, ErrorsAreCounted, ReturnsOnce, ReturnIsTrue,
         FailureStillCloses

\* What the records are does not matter here, only that writing them leaves
\* the stream as closed as it was.
LEMMA EmitLeavesOpen ==
  ASSUME NEW type, NEW fields, Emit(type, fields)
  PROVE  finished' = finished
  BY DEF Emit

\* A step that neither counts, collects nor returns, within a place or on to
\* one where the same holds.
LEMMA NothingCounted ==
  ASSUME IInv, pc \in Before \cup {"capture"}, pc' \in Before \cup {"capture", "finish"},
         pc' \in Before => pc \in Before,
         pc' = "finish" => pc \in Before,
         UNCHANGED <<trouble, result, returned, finished>>,
         diagnostics' \in [{"error", "warning", "info"} -> Nat],
         diagnostics'["error"] = diagnostics["error"]
  PROVE  IInv'
  BY DEF IInv, CountsOK, ErrorsAreCounted, ReturnsOnce, ReturnIsTrue, FailureStillCloses

LEMMA PutKeeps ==
  ASSUME IInv, NEW type, NEW fields, NEW next \in Before, pc \in Before,
         Put(type, fields, next)
  PROVE  IInv'
  <1>1. UNCHANGED <<trouble, result, returned, finished, diagnostics>> /\ pc' = next
    BY EmitLeavesOpen DEF Put, capture, history
  <1> QED
    BY <1>1, NothingCounted DEF IInv, CountsOK

LEMMA ProceedKeeps ==
  ASSUME IInv, NEW next \in Before \cup {"capture", "finish"}, pc \in Before,
         Proceed(next)
  PROVE  IInv'
  <1>1. UNCHANGED <<trouble, result, returned, finished, diagnostics>> /\ pc' = next
    BY DEF Proceed, capture, history, writer
  <1> QED
    BY <1>1, NothingCounted DEF IInv, CountsOK

LEMMA WarnKeeps ==
  ASSUME IInv, NEW next \in Before, pc \in Before, Warn(next)
  PROVE  IInv'
  <1>1. /\ UNCHANGED <<trouble, result, returned, finished>>
        /\ pc' = next
        /\ diagnostics' = [diagnostics EXCEPT !["warning"] = @ + 1]
    BY EmitLeavesOpen DEF Warn, Diagnose, capture, history
  <1> QED
    BY <1>1, NothingCounted DEF IInv, CountsOK

LEMMA ComplainKeeps ==
  ASSUME IInv, NEW next \in Before \cup {"finish"}, pc \in Before, Complain(next)
  PROVE  IInv'
  <1>1. /\ UNCHANGED <<result, returned, finished>>
        /\ trouble' = trouble + 1
        /\ pc' = next
        /\ diagnostics' = [diagnostics EXCEPT !["error"] = @ + 1]
    BY EmitLeavesOpen DEF Complain, Diagnose, Trouble, capture
  <1> QED
    BY <1>1 DEF IInv, CountsOK, ErrorsAreCounted, ReturnsOnce, ReturnIsTrue,
                FailureStillCloses

LEMMA ListKeeps == ASSUME IInv, List PROVE IInv'
  <1>1. CASE Discovered
    BY <1>1, ProceedKeeps DEF Discovered
  <1>2. CASE Listed
    BY <1>2, PutKeeps DEF Listed
  <1>3. CASE AllListed
    BY <1>3, ProceedKeeps DEF AllListed
  <1> QED
    BY <1>1, <1>2, <1>3 DEF List

LEMMA ConfigureKeeps == ASSUME IInv, Configure PROVE IInv'
  <1>1. CASE ModuleNotFound
    BY <1>1, ComplainKeeps DEF ModuleNotFound
  <1>2. CASE Module
    BY <1>2, PutKeeps DEF Module
  <1>3. CASE UnknownType
    BY <1>3, WarnKeeps DEF UnknownType
  <1>4. CASE ConfigurationRefused
    BY <1>4, ComplainKeeps DEF ConfigurationRefused
  <1>5. CASE ConfigurationFound
    BY <1>5, ProceedKeeps DEF ConfigurationFound
  <1>6. CASE Unmatched
    BY <1>6, WarnKeeps DEF Unmatched
  <1>7. CASE Source
    BY <1>7, PutKeeps, ComplainKeeps DEF Source
  <1>8. CASE SourcesDone
    BY <1>8, ProceedKeeps DEF SourcesDone
  <1>9. CASE ConfigEntry
    BY <1>9, PutKeeps DEF ConfigEntry
  <1>10. CASE ConfigDone
    BY <1>10, ProceedKeeps DEF ConfigDone
  <1> QED
    BY <1>1, <1>2, <1>3, <1>4, <1>5, <1>6, <1>7, <1>8, <1>9, <1>10 DEF Configure

LEMMA TraverseKeeps == ASSUME IInv, Traverse PROVE IInv'
  <1>1. CASE Empty
    BY <1>1, WarnKeeps DEF Empty
  <1>2. CASE Positioned
    BY <1>2, ProceedKeeps DEF Positioned
  <1>3. CASE Unreadable
    BY <1>3, ComplainKeeps DEF Unreadable
  <1>4. CASE Remark
    BY <1>4, WarnKeeps, ComplainKeeps DEF Remark
  <1>5. CASE Entry
    BY <1>5, PutKeeps DEF Entry
  <1>6. CASE Increment
    BY <1>6, ProceedKeeps, ComplainKeeps DEF Increment
  <1>7. CASE TooLong
    BY <1>7, ComplainKeeps DEF TooLong
  <1> QED
    BY <1>1, <1>2, <1>3, <1>4, <1>5, <1>6, <1>7 DEF Traverse

\* The capture adds as much to what is collected as it meets.
LEMMA CollectedKeeps ==
  ASSUME IInv, pc = "capture", NEW n \in Nat,
         UNCHANGED <<pc, diagnostics, returned, finished>>,
         trouble' = trouble + n,
         result' \in [artifacts : {result'.artifacts}, bytes : {result'.bytes},
                      diagnostics : Nat],
         result'.diagnostics = result.diagnostics + n
  PROVE  IInv'
  BY DEF IInv, CountsOK, ErrorsAreCounted, ReturnsOnce, ReturnIsTrue, FailureStillCloses

LEMMA CaptureKeeps == ASSUME IInv, Capture PROVE IInv'
  <1> USE DEF IInv
  <1>1. CASE Undiscovered
    BY <1>1, ComplainKeeps DEF Undiscovered
  <1>2. CASE Candidates
    BY <1>2, ProceedKeeps DEF Candidates
  <1>3. CASE SkipCandidate
    BY <1>3, CollectedKeeps DEF SkipCandidate, Collect, Trouble, CountsOK, writer
  <1>4. CASE BeginArtifact
    <2>1. finished' = finished
      BY <1>4, EmitLeavesOpen DEF BeginArtifact
    <2> QED
      BY <1>4, <2>1, NothingCounted DEF BeginArtifact, CountsOK, history
  <1>5. CASE ReadChunk
    <2>1. finished' = finished
      BY <1>5, EmitLeavesOpen DEF ReadChunk
    <2> QED
      BY <1>5, <2>1, NothingCounted DEF ReadChunk, CountsOK
  <1>6. CASE ReadError
    BY <1>6, CollectedKeeps DEF ReadError, Collect, Trouble, CountsOK, writer
  <1>7. CASE EndWhole
    <2>1. UNCHANGED <<pc, diagnostics, returned, finished>>
      BY <1>7, EmitLeavesOpen DEF EndWhole, Close
    <2>2. trouble' = trouble + 0 /\ pc = "capture"
      BY <1>7 DEF EndWhole, CountsOK
    <2>3. result'.diagnostics = result.diagnostics + 0
          /\ result' \in [artifacts : {result'.artifacts}, bytes : {result'.bytes},
                          diagnostics : Nat]
      BY <1>7 DEF EndWhole, CountsOK
    <2> QED
      BY <2>1, <2>2, <2>3, CollectedKeeps
  <1>8. CASE EndRegular
    <2>1. PICK unchanged \in BOOLEAN :
             /\ Close([stable |-> unchanged /\ ~group.failed], group.size)
             /\ result' = [artifacts |-> result.artifacts + 1,
                           bytes |-> result.bytes + group.size,
                           diagnostics |-> result.diagnostics
                                               + (IF unchanged THEN 0 ELSE 1)]
             /\ Trouble(IF unchanged THEN 0 ELSE 1)
      BY <1>8 DEF EndRegular
    <2>2. UNCHANGED <<pc, diagnostics, returned, finished>> /\ pc = "capture"
      BY <1>8, <2>1, EmitLeavesOpen DEF EndRegular, Close
    <2> QED
      BY <2>1, <2>2, CollectedKeeps DEF Trouble, CountsOK
  <1>9. CASE Report
    <2>1. finished' = finished
      BY <1>9, EmitLeavesOpen DEF Report
    <2> QED
      BY <1>9, <2>1, NothingCounted DEF Report, CountsOK, history
  <1>10. CASE Captured
    BY <1>10 DEF Captured, CountsOK, ErrorsAreCounted, ReturnsOnce, ReturnIsTrue,
                 FailureStillCloses, writer, capture, history
  <1>11. CASE BeginRoot
    <2>1. finished' = finished
      BY <1>11, EmitLeavesOpen DEF BeginRoot
    <2> QED
      BY <1>11, <2>1, NothingCounted DEF BeginRoot, CountsOK
  <1> QED
    BY <1>1, <1>2, <1>3, <1>4, <1>5, <1>6, <1>7, <1>8, <1>9, <1>10, <1>11 DEF Capture

LEMMA EndKeeps ==
  ASSUME IInv, Throw \/ Catch \/ FinishStream \/ SinkFails
  PROVE  IInv'
  <1> USE DEF IInv, CountsOK, ErrorsAreCounted, ReturnsOnce, ReturnIsTrue,
              FailureStillCloses
  <1>1. CASE Throw
    BY <1>1 DEF Throw, Trouble, writer, capture
  <1>2. CASE Catch
    <2>1. finished' = finished
      BY <1>2, EmitLeavesOpen DEF Catch, Diagnose
    <2> QED
      BY <1>2, <2>1 DEF Catch, Diagnose, capture, history
  <1>3. CASE FinishStream
    BY <1>3 DEF FinishStream, Finish, Success, capture, history
  <1>4. CASE SinkFails
    BY <1>4 DEF SinkFails, FinishFails, EmitFails, capture, history
  <1> QED
    BY <1>1, <1>2, <1>3, <1>4

LEMMA StepInvariant == IInv /\ [Next]_vars => IInv'
  <1> SUFFICES ASSUME IInv, [Next]_vars PROVE IInv'
    OBVIOUS
  <1>1. CASE Header
    BY <1>1, PutKeeps DEF Header
  <1>2. CASE BadRoot
    BY <1>2, ComplainKeeps DEF BadRoot
  <1>3. CASE UNCHANGED vars
    BY <1>3 DEF vars, writer, capture, history, IInv, CountsOK, ErrorsAreCounted,
                ReturnsOnce, ReturnIsTrue, FailureStillCloses
  <1> QED
    BY <1>1, <1>2, <1>3, ListKeeps, ConfigureKeeps, TraverseKeeps, CaptureKeeps,
       EndKeeps DEF Next

LEMMA Invariance == Spec => []IInv
  BY InitInvariant, StepInvariant, PTL DEF Spec

-----------------------------------------------------------------------------
(* The theorems.                                                           *)

\* What extract_module and list_modules return says whether an error was
\* met, whatever the engine, the file system and the sink do.
THEOREM ReturnsTruthfully == Spec => []ReturnIsTrue
  <1>1. IInv => ReturnIsTrue
    BY DEF IInv
  <1> QED
    BY <1>1, Invariance, PTL

\* A call that returns, even to say that it failed, has written its footer.
THEOREM ReturnsClosed == Spec => []FailureStillCloses
  <1>1. IInv => FailureStillCloses
    BY DEF IInv
  <1> QED
    BY <1>1, Invariance, PTL
=============================================================================

---------------------------- MODULE CApi_proofs ----------------------------
(***************************************************************************)
(* What the streaming functions of the C ABI guarantee for any number of    *)
(* threads, any stream length and any buffer size.                          *)
(***************************************************************************)
EXTENDS CApi, TLAPS

USE NoneAssumption, BlocksAssumption, CapacityAssumption

-----------------------------------------------------------------------------
(* The inductive invariant.                                                *)

\* The mutex is held by exactly the thread in the operation, whose flag is
\* up; nobody blocks on a mutex of its own.
Locked ==
    \A t \in Threads :
        /\ InOperation(t) <=> owner = t
        /\ active[t] <=> InOperation(t)
        /\ pc[t] # "relock"

\* How far the stream is at each place of the call.
Streamed ==
    \A t \in Threads :
        /\ delivered[t] <= emitted[t]
        /\ footer[t] => emitted[t] = Blocks
        /\ pc[t] = "lock" => emitted[t] = 0
        /\ pc[t] = "callback" => delivered[t] < emitted[t]
        /\ pc[t] \in {"lock", "operate", "callback", "completed", "release"} =>
               failure[t] = "none"
        /\ pc[t] \in {"unwind", "handler"} => delivered[t] < Blocks
        /\ pc[t] \in {"completed", "release"} => delivered[t] = Blocks

\* The status is pending until the call returns, and right from then on.
Answered ==
    \A t \in Threads :
        /\ pc[t] \in {"lock", "operate", "callback", "completed", "unwind", "handler"} =>
               status[t] = "pending"
        /\ pc[t] = "release" => status[t] \in {"OK", "EXTRACTION_FAILED"}
        /\ pc[t] = "idle" => status[t] # "pending"

\* What gbs_error holds at each place of the call.
Stored ==
    \A t \in Threads :
        storage[t] = "valid" =>
            /\ pc[t] \in {"lock", "operate", "callback", "completed"} =>
                   error[t] = "OK" \/ shared[t]
            /\ pc[t] \in {"release", "idle"} /\ status[t] # "none" =>
                   error[t] = status[t] \/ (shared[t] /\ status[t] = "OK")

IInv == TypeOK /\ Locked /\ Streamed /\ Answered /\ Stored /\ StatusMatchesStream

LEMMA InitInv == Init => IInv
  BY DEF Init, IInv, TypeOK, Locked, InOperation, Streamed, Answered, Stored,
         StatusMatchesStream, Places, Failures, Storages, Statuses

\* A step changes nothing of the other threads' calls but the mutex.
LEMMA NextInv == IInv /\ [Next]_vars => IInv'
<1> SUFFICES ASSUME IInv, [Next]_vars PROVE IInv'
  OBVIOUS
<1> USE DEF IInv, TypeOK, Places, Failures, Storages, Statuses, stream, Goto
<1>1. ASSUME NEW t \in Threads, NEW kind \in Storages, Accept(t, kind) PROVE IInv'
  <2>1. TypeOK'
    BY <1>1 DEF Accept, SetError, NewStream
  <2>2. Locked'
    BY <1>1 DEF Accept, SetError, NewStream, Locked, InOperation
  <2>3. Streamed'
    BY <1>1 DEF Accept, SetError, NewStream, Streamed
  <2>4. Answered'
    BY <1>1 DEF Accept, SetError, NewStream, Answered
  <2>5. Stored'
    BY <1>1 DEF Accept, SetError, NewStream, Stored, Answered
  <2>6. StatusMatchesStream'
    BY <1>1 DEF Accept, SetError, NewStream, StatusMatchesStream, Streamed, Answered
  <2> QED
    BY <2>1, <2>2, <2>3, <2>4, <2>5, <2>6
<1>2. ASSUME NEW t \in Threads, NEW kind \in Storages, NEW s \in {"INVALID_ARGUMENT", "INTERNAL_ERROR"},
             Decline(t, kind, s)
      PROVE  IInv'
  <2>1. TypeOK'
    BY <1>2 DEF Decline, SetError, NewStream
  <2>2. Locked'
    BY <1>2 DEF Decline, SetError, NewStream, Locked, InOperation
  <2>3. Streamed'
    BY <1>2 DEF Decline, SetError, NewStream, Streamed
  <2>4. Answered'
    BY <1>2 DEF Decline, SetError, NewStream, Answered
  <2>5. Stored'
    BY <1>2 DEF Decline, SetError, NewStream, Stored, Answered
  <2>6. StatusMatchesStream'
    BY <1>2 DEF Decline, SetError, NewStream, StatusMatchesStream, Streamed, Answered
  <2> QED
    BY <2>1, <2>2, <2>3, <2>4, <2>5, <2>6
<1>3. ASSUME NEW t \in Threads, NEW kind \in Storages, NEW defect \in Defects, NEW same \in BOOLEAN,
             Reenter(t, kind, defect, same) PROVE IInv'
  <2>1. TypeOK'
    BY <1>3 DEF Reenter, SetError, Refused
  <2>2. Locked'
    BY <1>3 DEF Reenter, SetError, Refused, Locked, InOperation
  <2>3. Streamed'
    BY <1>3 DEF Reenter, SetError, Refused, Streamed
  <2>4. Answered'
    BY <1>3 DEF Reenter, SetError, Refused, Answered
  <2>5. Stored'
    BY <1>3 DEF Reenter, SetError, Refused, Stored, Answered
  <2>6. StatusMatchesStream'
    BY <1>3 DEF Reenter, SetError, Refused, StatusMatchesStream, Streamed, Answered
  <2> QED
    BY <2>1, <2>2, <2>3, <2>4, <2>5, <2>6
<1>4. ASSUME NEW t \in Threads, Lock(t) PROVE IInv'
  <2>1. TypeOK'
    BY <1>4 DEF Lock
  <2>2. Locked'
    BY <1>4 DEF Lock, Locked, InOperation
  <2>3. Streamed'
    BY <1>4 DEF Lock, Streamed
  <2>4. Answered'
    BY <1>4 DEF Lock, Answered
  <2>5. Stored'
    BY <1>4 DEF Lock, Stored, Answered
  <2>6. StatusMatchesStream'
    BY <1>4 DEF Lock, StatusMatchesStream, Streamed, Answered
  <2> QED
    BY <2>1, <2>2, <2>3, <2>4, <2>5, <2>6
<1>5. ASSUME NEW t \in Threads, Emit(t) PROVE IInv'
  <2>1. TypeOK'
    BY <1>5 DEF Emit
  <2>2. Locked'
    BY <1>5 DEF Emit, Locked, InOperation
  <2>3. Streamed'
    BY <1>5 DEF Emit, Streamed
  <2>4. Answered'
    BY <1>5 DEF Emit, Answered
  <2>5. Stored'
    BY <1>5 DEF Emit, Stored, Answered
  <2>6. StatusMatchesStream'
    BY <1>5 DEF Emit, StatusMatchesStream, Streamed, Answered
  <2> QED
    BY <2>1, <2>2, <2>3, <2>4, <2>5, <2>6
<1>6. ASSUME NEW t \in Threads, Flush(t) PROVE IInv'
  <2>1. TypeOK'
    BY <1>6 DEF Flush
  <2>2. Locked'
    BY <1>6 DEF Flush, Locked, InOperation
  <2>3. Streamed'
    BY <1>6 DEF Flush, Streamed
  <2>4. Answered'
    BY <1>6 DEF Flush, Answered
  <2>5. Stored'
    BY <1>6 DEF Flush, Stored, Answered
  <2>6. StatusMatchesStream'
    BY <1>6 DEF Flush, StatusMatchesStream, Streamed, Answered
  <2> QED
    BY <2>1, <2>2, <2>3, <2>4, <2>5, <2>6
<1>7. ASSUME NEW t \in Threads, Finish(t) PROVE IInv'
  <2>1. TypeOK'
    BY <1>7 DEF Finish
  <2>2. Locked'
    BY <1>7 DEF Finish, Locked, InOperation
  <2>3. Streamed'
    BY <1>7 DEF Finish, Streamed
  <2>4. Answered'
    BY <1>7 DEF Finish, Answered
  <2>5. Stored'
    BY <1>7 DEF Finish, Stored, Answered
  <2>6. StatusMatchesStream'
    BY <1>7 DEF Finish, StatusMatchesStream, Streamed, Answered
  <2> QED
    BY <2>1, <2>2, <2>3, <2>4, <2>5, <2>6
<1>8. ASSUME NEW t \in Threads, Throw(t) PROVE IInv'
  <2>1. TypeOK'
    BY <1>8 DEF Throw
  <2>2. Locked'
    BY <1>8 DEF Throw, Locked, InOperation
  <2>3. Streamed'
    BY <1>8 DEF Throw, Streamed
  <2>4. Answered'
    BY <1>8 DEF Throw, Answered
  <2>5. Stored'
    BY <1>8 DEF Throw, Stored, Answered
  <2>6. StatusMatchesStream'
    BY <1>8 DEF Throw, StatusMatchesStream, Streamed, Answered
  <2> QED
    BY <2>1, <2>2, <2>3, <2>4, <2>5, <2>6
<1>9. ASSUME NEW t \in Threads, Continue(t) PROVE IInv'
  <2>1. TypeOK'
    BY <1>9 DEF Continue
  <2>2. Locked'
    BY <1>9 DEF Continue, Locked, InOperation
  <2>3. Streamed'
    BY <1>9 DEF Continue, Streamed
  <2>4. Answered'
    BY <1>9 DEF Continue, Answered
  <2>5. Stored'
    BY <1>9 DEF Continue, Stored, Answered
  <2>6. StatusMatchesStream'
    BY <1>9 DEF Continue, StatusMatchesStream, Streamed, Answered
  <2> QED
    BY <2>1, <2>2, <2>3, <2>4, <2>5, <2>6
<1>10. ASSUME NEW t \in Threads, NEW how \in Failures \ {"none"}, Refuse(t, how) PROVE IInv'
  <2>1. TypeOK'
    BY <1>10 DEF Refuse
  <2>2. Locked'
    BY <1>10 DEF Refuse, Locked, InOperation
  <2>3. Streamed'
    BY <1>10 DEF Refuse, Streamed
  <2>4. Answered'
    BY <1>10 DEF Refuse, Answered
  <2>5. Stored'
    BY <1>10 DEF Refuse, Stored, Answered
  <2>6. StatusMatchesStream'
    BY <1>10 DEF Refuse, StatusMatchesStream, Streamed, Answered
  <2> QED
    BY <2>1, <2>2, <2>3, <2>4, <2>5, <2>6
<1>11. ASSUME NEW t \in Threads, Complete(t) PROVE IInv'
  <2>1. TypeOK'
    BY <1>11 DEF Complete, SetError, Result
  <2>2. Locked'
    BY <1>11 DEF Complete, SetError, Result, Locked, InOperation
  <2>3. Streamed'
    BY <1>11 DEF Complete, SetError, Result, Streamed
  <2>4. Answered'
    BY <1>11 DEF Complete, SetError, Result, Streamed, Answered
  <2>5. Stored'
    BY <1>11 DEF Complete, SetError, Result, Stored, Answered
  <2>6. StatusMatchesStream'
    BY <1>11 DEF Complete, SetError, Result, StatusMatchesStream, Streamed, Answered
  <2> QED
    BY <2>1, <2>2, <2>3, <2>4, <2>5, <2>6
<1>12. ASSUME NEW t \in Threads, Release(t) PROVE IInv'
  <2>1. TypeOK'
    BY <1>12 DEF Release
  <2>2. Locked'
    BY <1>12 DEF Release, Locked, InOperation
  <2>3. Streamed'
    BY <1>12 DEF Release, Streamed
  <2>4. Answered'
    BY <1>12 DEF Release, Answered
  <2>5. Stored'
    BY <1>12 DEF Release, Stored, Answered
  <2>6. StatusMatchesStream'
    BY <1>12 DEF Release, StatusMatchesStream, Streamed, Answered
  <2> QED
    BY <2>1, <2>2, <2>3, <2>4, <2>5, <2>6
<1>13. ASSUME NEW t \in Threads, Unwind(t) PROVE IInv'
  <2>1. TypeOK'
    BY <1>13 DEF Unwind
  <2>2. Locked'
    BY <1>13 DEF Unwind, Locked, InOperation
  <2>3. Streamed'
    BY <1>13 DEF Unwind, Streamed
  <2>4. Answered'
    BY <1>13 DEF Unwind, Answered
  <2>5. Stored'
    BY <1>13 DEF Unwind, Stored, Answered
  <2>6. StatusMatchesStream'
    BY <1>13 DEF Unwind, StatusMatchesStream, Streamed, Answered
  <2> QED
    BY <2>1, <2>2, <2>3, <2>4, <2>5, <2>6
<1>14. ASSUME NEW t \in Threads, Handle(t) PROVE IInv'
  <2>1. TypeOK'
    BY <1>14 DEF Handle, SetError, Result
  <2>2. Locked'
    BY <1>14 DEF Handle, SetError, Result, Locked, InOperation
  <2>3. Streamed'
    BY <1>14 DEF Handle, SetError, Result, Streamed
  <2>4. Answered'
    BY <1>14 DEF Handle, SetError, Result, Answered
  <2>5. Stored'
    BY <1>14 DEF Handle, SetError, Result, Stored, Answered
  <2>6. StatusMatchesStream'
    BY <1>14 DEF Handle, SetError, Result, StatusMatchesStream, Streamed, Answered
  <2> QED
    BY <2>1, <2>2, <2>3, <2>4, <2>5, <2>6
<1>15. CASE UNCHANGED vars
  BY <1>15 DEF vars, Locked, InOperation, Streamed, Answered, Stored, StatusMatchesStream
<1> QED
  BY <1>1, <1>2, <1>3, <1>4, <1>5, <1>6, <1>7, <1>8, <1>9, <1>10, <1>11, <1>12, <1>13, <1>14, <1>15
  DEF Next, Call, Reject, Exhaust, Nested, Progress

LEMMA InductiveInvariant == Spec => []IInv
  BY InitInv, NextInv, PTL DEF Spec

-----------------------------------------------------------------------------
(* What follows.                                                           *)

\* Every variable keeps its type, through refusals, re-entry and exceptions.
THEOREM TypeCorrect == Spec => []TypeOK
<1>1. IInv => TypeOK
  BY DEF IInv
<1> QED
  BY <1>1, InductiveInvariant, PTL

\* The engine is only used under the mutex, by any number of threads.
THEOREM EngineIsExclusive == Spec => []EngineExclusive
<1>1. IInv => EngineExclusive
  BY DEF IInv, Locked, EngineExclusive
<1> QED
  BY <1>1, InductiveInvariant, PTL

\* A callback that calls back into the library never blocks on the mutex its
\* own thread holds.
THEOREM NobodyRelocks == Spec => []NeverRelocks
<1>1. IInv => NeverRelocks
  BY DEF IInv, Locked, NeverRelocks
<1> QED
  BY <1>1, InductiveInvariant, PTL

\* The re-entry flag is up exactly while its thread is in the operation.
THEOREM FlagIsExact == Spec => []FlagFollowsOperation
<1>1. IInv => FlagFollowsOperation
  BY DEF IInv, Locked, FlagFollowsOperation
<1> QED
  BY <1>1, InductiveInvariant, PTL

\* The returned status is the documented one for what was delivered.
THEOREM StatusIsRight == Spec => []StatusMatchesStream
<1>1. IInv => StatusMatchesStream
  BY DEF IInv
<1> QED
  BY <1>1, InductiveInvariant, PTL

\* gbs_error agrees with the status, but for a success whose storage a
\* nested call was given.
THEOREM ErrorIsRight == Spec => []ErrorMatchesStatus
<1>1. IInv => ErrorMatchesStatus
  BY DEF IInv, TypeOK, Stored, ErrorMatchesStatus
<1> QED
  BY <1>1, InductiveInvariant, PTL

\* After a refusal the callback hears no more of that call.
THEOREM SilenceAfterRefusal == Spec => SilentAfterRefusal
<1>1. IInv /\ [Next]_vars =>
        [\A t \in Threads :
            failure[t] # "none" /\ pc[t] # "idle" =>
                pc'[t] # "callback" /\ delivered'[t] = delivered[t]]_vars
  <2> SUFFICES ASSUME IInv, Next, NEW u \in Threads,
                      failure[u] # "none", pc[u] # "idle"
               PROVE  pc'[u] # "callback" /\ delivered'[u] = delivered[u]
    BY DEF vars
  <2>1. pc[u] \in {"unwind", "handler"}
    BY DEF IInv, TypeOK, Places, Locked, Streamed
  <2>2. ASSUME NEW t \in Threads, Call(t)
        PROVE  pc'[u] # "callback" /\ delivered'[u] = delivered[u]
    BY <2>1, <2>2 DEF Call, Accept, Reject, Exhaust, Decline, NewStream, Goto, IInv, TypeOK
  <2>3. ASSUME NEW t \in Threads, Nested(t)
        PROVE  pc'[u] # "callback" /\ delivered'[u] = delivered[u]
    BY <2>1, <2>3 DEF Nested, Reenter, Goto, stream, IInv, TypeOK
  <2>4. ASSUME NEW t \in Threads, Progress(t)
        PROVE  pc'[u] # "callback" /\ delivered'[u] = delivered[u]
    BY <2>1, <2>4 DEF Progress, Lock, Emit, Flush, Finish, Throw, Continue, Refuse,
                      Complete, Release, Unwind, Handle, Goto, stream, IInv, TypeOK
  <2> QED
    BY <2>2, <2>3, <2>4 DEF Next
<1> QED
  BY <1>1, InductiveInvariant, PTL DEF Spec, SilentAfterRefusal

-----------------------------------------------------------------------------
(* CApi implements StreamService.                                          *)

LEMMA InitService == Init => Service!Init
<1> SUFFICES ASSUME Init PROVE Service!Init
  OBVIOUS
<1>1. Heard = [t \in Threads |-> "nothing"]
  BY DEF Init, Heard
<1> QED
  BY <1>1 DEF Init, Service!Init

\* One step of a thread changes what its own callback has heard or refused,
\* and for nobody else.
LEMMA NextService ==
    ASSUME IInv, [Next]_vars
    PROVE  [Service!Next]_(Service!vars)
<1> DEFINE Answer == [t \in Threads |-> IF failure[t] = "none" THEN "no" ELSE failure[t]]
<1> USE DEF IInv, TypeOK, Places, Failures, Storages, Statuses, stream, Goto
<1>2. ASSUME UNCHANGED <<owner, delivered, footer, failure, status>>
      PROVE  UNCHANGED Service!vars
  BY <1>2 DEF Service!vars, Heard
<1>3. ASSUME NEW t \in Threads, NEW kind \in Storages, Accept(t, kind)
      PROVE  Service!Next
  <2>1. status[t] # "pending" /\ UNCHANGED owner
    BY <1>3 DEF Accept, Answered
  <2>2. status' = [status EXCEPT ![t] = "pending"]
    BY <1>3 DEF Accept
  <2>3. Heard' = [Heard EXCEPT ![t] = "nothing"]
    BY <1>3 DEF Accept, NewStream, Heard
  <2>4. Answer' = [Answer EXCEPT ![t] = "no"]
    BY <1>3 DEF Accept, NewStream
  <2>5. Service!Accept(t)
    BY <2>1, <2>2, <2>3, <2>4 DEF Service!Accept
  <2> QED
    BY <2>5 DEF Service!Next
<1>4. ASSUME NEW t \in Threads, NEW kind \in Storages,
             NEW s \in {"INVALID_ARGUMENT", "INTERNAL_ERROR"}, Decline(t, kind, s)
      PROVE  Service!Next
  <2>1. status[t] # "pending" /\ UNCHANGED owner
    BY <1>4 DEF Decline, Answered
  <2>2. status' = [status EXCEPT ![t] = s]
    BY <1>4 DEF Decline
  <2>3. Heard' = [Heard EXCEPT ![t] = "nothing"]
    BY <1>4 DEF Decline, NewStream, Heard
  <2>4. Answer' = [Answer EXCEPT ![t] = "no"]
    BY <1>4 DEF Decline, NewStream
  <2>5. Service!Reject(t, s)
    BY <2>1, <2>2, <2>3, <2>4 DEF Service!Reject
  <2> QED
    BY <2>5 DEF Service!Next, Service!Statuses
<1>5. ASSUME NEW t \in Threads, Nested(t) PROVE UNCHANGED Service!vars
  BY <1>2, <1>5 DEF Nested, Reenter
<1>6. ASSUME NEW t \in Threads, Lock(t) PROVE Service!Next
  <2>1. status[t] = "pending" /\ failure[t] = "none" /\ delivered[t] = 0
    BY <1>6 DEF Lock, Streamed, Answered
  <2>2. Heard[t] = "nothing" /\ Heard' = Heard /\ Answer' = Answer /\ Answer[t] = "no"
    BY <1>6, <2>1 DEF Lock, Heard
  <2>3. Service!Start(t)
    BY <1>6, <2>1, <2>2 DEF Lock, Service!Start
  <2> QED
    BY <2>3 DEF Service!Next
<1>7. ASSUME NEW t \in Threads, Emit(t) PROVE UNCHANGED Service!vars
  <2>1. emitted[t] < Blocks /\ delivered[t] < Blocks /\ delivered'[t] = delivered[t]
    BY <1>7 DEF Emit, Streamed
  <2>2. Heard' = Heard
    BY <1>7, <2>1 DEF Emit, Heard
  <2> QED
    BY <1>7, <2>2 DEF Emit, Service!vars
<1>8. ASSUME NEW t \in Threads, Flush(t) \/ Finish(t) \/ Throw(t)
      PROVE  UNCHANGED Service!vars
  BY <1>2, <1>8 DEF Flush, Finish, Throw
<1>9. ASSUME NEW t \in Threads, Continue(t) PROVE Service!Next
  <2>1. /\ owner = t /\ failure[t] = "none"
        /\ delivered[t] < emitted[t] /\ delivered'[t] = emitted[t]
    BY <1>9 DEF Continue, Locked, InOperation, Streamed
  <2> DEFINE h == IF emitted[t] < Blocks THEN "part"
                  ELSE IF footer[t] THEN "successful_stream" ELSE "failed_stream"
  <2>2. Heard[t] \in {"nothing", "part"}
    BY <2>1 DEF Heard
  <2>3. Heard' = [Heard EXCEPT ![t] = h]
    <3>1. /\ \A u \in Threads : u # t => delivered'[u] = delivered[u]
          /\ UNCHANGED <<emitted, footer>> /\ delivered'[t] # 0
      BY <1>9, <2>1 DEF Continue
    <3>2. Heard'[t] = h
      BY <2>1, <3>1 DEF Heard
    <3>3. \A u \in Threads : u # t => Heard'[u] = Heard[u]
      BY <3>1 DEF Heard
    <3>4. /\ Heard = [u \in Threads |-> Heard[u]]
          /\ Heard' = [u \in Threads |-> Heard'[u]]
      BY DEF Heard
    <3> HIDE DEF h
    <3> QED
      BY <3>2, <3>3, <3>4
  <2>4. h \in Service!Heard \ {"nothing"}
    BY DEF Service!Heard
  <2>5. Service!Deliver(t, h)
    BY <1>9, <2>1, <2>2, <2>3, <2>4 DEF Continue, Service!Deliver
  <2> QED
    BY <2>4, <2>5 DEF Service!Next
<1>10. ASSUME NEW t \in Threads, NEW how \in Failures \ {"none"}, Refuse(t, how)
       PROVE  Service!Next
  <2>1. owner = t /\ failure[t] = "none"
    BY <1>10 DEF Refuse, Locked, InOperation, Streamed
  <2>2. Heard' = Heard
    BY <1>10 DEF Refuse, Heard
  <2>3. Answer[t] = "no" /\ Answer' = [Answer EXCEPT ![t] = how]
    BY <1>10, <2>1 DEF Refuse
  <2>4. Service!Refuse(t, how)
    BY <1>10, <2>1, <2>2, <2>3 DEF Refuse, Service!Refuse
  <2> QED
    BY <2>4 DEF Service!Next
<1>11. ASSUME NEW t \in Threads, Release(t) \/ Unwind(t) PROVE Service!Next
  <2>1. owner = t /\ owner' = None /\ UNCHANGED <<delivered, footer, failure, status>>
    BY <1>11 DEF Release, Unwind, Locked, InOperation
  <2>2. Heard' = Heard
    BY <2>1 DEF Heard
  <2>3. Service!Stop(t)
    BY <2>1, <2>2 DEF Service!Stop
  <2> QED
    BY <2>3 DEF Service!Next
<1>12. ASSUME NEW t \in Threads, Complete(t) \/ Handle(t) PROVE Service!Next
  <2>1. /\ status[t] = "pending"
        /\ status' = [status EXCEPT ![t] = Result(t)]
        /\ UNCHANGED <<owner, delivered, footer, failure>>
    BY <1>12 DEF Complete, Handle, Answered
  <2>2. Heard' = Heard
    BY <2>1 DEF Heard
  <2>3. \/ Result(t) = "OK" /\ Answer[t] = "no" /\ Heard[t] = "successful_stream"
        \/ Result(t) = "EXTRACTION_FAILED" /\ Answer[t] = "no" /\ Heard[t] = "failed_stream"
        \/ Result(t) = "CANCELLED" /\ Answer[t] = "cancelled"
        \/ Result(t) = "WRITE_FAILED" /\ Answer[t] = "write_failed"
        \/ /\ Result(t) = "INTERNAL_ERROR" /\ Answer[t] = "no"
           /\ Heard[t] \in {"nothing", "part"}
    BY <1>12 DEF Complete, Handle, Result, Heard, Streamed
  <2>4. Service!Return(t, Result(t))
    BY <2>1, <2>2, <2>3 DEF Service!Return
  <2> QED
    BY <2>3, <2>4 DEF Service!Next, Service!Statuses
<1>13. CASE UNCHANGED vars
  BY <1>2, <1>13 DEF vars
<1> QED
  BY <1>3, <1>4, <1>5, <1>6, <1>7, <1>8, <1>9, <1>10, <1>11, <1>12, <1>13
  DEF Next, Call, Reject, Exhaust, Progress

\* Whatever the threads, callbacks and exceptions do, the calls are those of
\* a service that serves one caller at a time and reports what it did.
THEOREM Implementation == Spec => ImplementsService
<1>1. Init => Service!Init
  BY InitService
<1>2. IInv /\ [Next]_vars => [Service!Next]_(Service!vars)
  BY NextService
<1> QED
  BY <1>1, <1>2, InductiveInvariant, PTL DEF Spec, ImplementsService, Service!Spec
=============================================================================

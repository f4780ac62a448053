-------------------------------- MODULE CApi --------------------------------
(***************************************************************************)
(* The streaming functions of the C ABI, gbs_list_modules_v1 and            *)
(* gbs_extract_module_v1, called again and again by the threads of one      *)
(* process: argument checks, the process-wide operation mutex, the          *)
(* thread-local re-entry flag, the stream produced into CallbackStreambuf,   *)
(* a callback that may refuse a piece or call back into the library, the    *)
(* exceptions that unwind through the destructors, and the status and       *)
(* gbs_error handed back.                                                   *)
(*                                                                          *)
(* A stream is a number of blocks, the last of them the footer; a block     *)
(* stands for a piece of a record line that fits the 64 KiB buffer.         *)
(***************************************************************************)
EXTENDS Naturals

CONSTANTS
    Threads,    \* threads of the embedding process
    None,       \* no thread
    Blocks,     \* length of a complete stream, in blocks
    Capacity    \* blocks the callback buffer holds

ASSUME NoneAssumption == None \notin Threads
ASSUME BlocksAssumption == Blocks \in Nat \ {0}
ASSUME CapacityAssumption == Capacity \in Nat \ {0}

VARIABLES
    owner,      \* holder of sword_operation_mutex
    active,     \* sword_operation_active, one per thread
    pc,         \* where each thread's outermost call is
    emitted,    \* blocks handed to the ostream
    delivered,  \* blocks the callback has accepted
    footer,     \* the footer's success member, once the footer is emitted
    failure,    \* CallbackStreambuf::failure_
    storage,    \* what the caller passed as gbs_error
    error,      \* the status in the thread's gbs_error
    shared,     \* a nested call was given the same gbs_error
    status      \* what the latest call returned

stream == <<emitted, delivered, footer, failure>>
vars == <<owner, active, pc, emitted, delivered, footer, failure,
          storage, error, shared, status>>

Places == {"idle", "lock", "operate", "callback", "completed", "release",
           "unwind", "handler", "relock"}
Failures == {"none", "cancelled", "write_failed"}
Storages == {"none", "valid", "undersized"}
Statuses == {"OK", "INVALID_ARGUMENT", "EXTRACTION_FAILED", "WRITE_FAILED",
             "CANCELLED", "INTERNAL_ERROR"}
\* A defect of the arguments found by the checks of the two functions: the
\* options (null, too small, version, reserved, path, name, chunk size) or
\* the missing callback.
Defects == {"none", "options", "callback"}

TypeOK ==
    /\ owner \in Threads \cup {None}
    /\ active \in [Threads -> BOOLEAN]
    /\ pc \in [Threads -> Places]
    /\ emitted \in [Threads -> 0 .. Blocks]
    /\ delivered \in [Threads -> 0 .. Blocks]
    /\ footer \in [Threads -> BOOLEAN]
    /\ failure \in [Threads -> Failures]
    /\ storage \in [Threads -> Storages]
    /\ error \in [Threads -> Statuses]
    /\ shared \in [Threads -> BOOLEAN]
    /\ status \in [Threads -> Statuses \cup {"none", "pending"}]

Init ==
    /\ owner = None
    /\ active = [t \in Threads |-> FALSE]
    /\ pc = [t \in Threads |-> "idle"]
    /\ emitted = [t \in Threads |-> 0]
    /\ delivered = [t \in Threads |-> 0]
    /\ footer = [t \in Threads |-> FALSE]
    /\ failure = [t \in Threads |-> "none"]
    /\ storage = [t \in Threads |-> "none"]
    /\ error = [t \in Threads |-> "OK"]
    /\ shared = [t \in Threads |-> FALSE]
    /\ status = [t \in Threads |-> "none"]

Goto(t, place) == pc' = [pc EXCEPT ![t] = place]

\* set_error: storage that is absent or too small is never written.
SetError(t, kind, s) ==
    error' = IF kind = "valid" THEN [error EXCEPT ![t] = s] ELSE error

\* What the checks before the lock make of a call, in their order.
Refused(t, kind, defect) == kind = "undersized" \/ defect # "none" \/ active[t]

-----------------------------------------------------------------------------
(* A call from outside any callback.                                       *)

NewStream(t) ==
    /\ emitted' = [emitted EXCEPT ![t] = 0]
    /\ delivered' = [delivered EXCEPT ![t] = 0]
    /\ footer' = [footer EXCEPT ![t] = FALSE]
    /\ failure' = [failure EXCEPT ![t] = "none"]
    /\ shared' = [shared EXCEPT ![t] = FALSE]

\* A call that returns before it asks for the engine.
Decline(t, kind, s) ==
    /\ pc[t] = "idle"
    /\ storage' = [storage EXCEPT ![t] = kind]
    /\ SetError(t, kind, s)
    /\ status' = [status EXCEPT ![t] = s]
    /\ NewStream(t)
    /\ UNCHANGED <<owner, active, pc>>

Reject(t, kind, defect) ==
    Refused(t, kind, defect) /\ Decline(t, kind, "INVALID_ARGUMENT")

\* gbs_extract_module_v1 has no memory for its copies of path and name.
Exhaust(t, kind) == kind # "undersized" /\ Decline(t, kind, "INTERNAL_ERROR")

Accept(t, kind) ==
    /\ pc[t] = "idle"
    /\ ~Refused(t, kind, "none")
    /\ Goto(t, "lock")
    /\ storage' = [storage EXCEPT ![t] = kind]
    /\ SetError(t, kind, "OK")
    /\ status' = [status EXCEPT ![t] = "pending"]
    /\ NewStream(t)
    /\ UNCHANGED <<owner, active>>

\* Mutant: enters the operation without the mutex.
LockSkipped(t) ==
    /\ pc[t] = "lock"
    /\ owner' = t
    /\ active' = [active EXCEPT ![t] = TRUE]
    /\ Goto(t, "operate")
    /\ UNCHANGED <<stream, storage, error, shared, status>>

\* Mutant: takes the mutex but does not raise the flag.
LockUnflagged(t) ==
    /\ pc[t] = "lock" /\ owner = None
    /\ owner' = t
    /\ Goto(t, "operate")
    /\ UNCHANGED <<active, stream, storage, error, shared, status>>

\* scoped_lock, then ActiveOperation's constructor.
Lock(t) ==
    /\ pc[t] = "lock" /\ owner = None
    /\ owner' = t
    /\ active' = [active EXCEPT ![t] = TRUE]
    /\ Goto(t, "operate")
    /\ UNCHANGED <<stream, storage, error, shared, status>>

-----------------------------------------------------------------------------
(* The operation: list_modules or extract_module into the buffer.          *)

\* Mutant: writes on after the footer.
EmitPastFooter(t) ==
    /\ pc[t] = "operate"
    /\ emitted[t] - delivered[t] < Capacity
    /\ emitted' = [emitted EXCEPT ![t] = @ + 1]
    /\ \E success \in BOOLEAN :
           /\ success => emitted'[t] = Blocks
           /\ footer' = [footer EXCEPT ![t] = success]
    /\ UNCHANGED <<owner, active, pc, delivered, failure,
                   storage, error, shared, status>>

\* A block goes to the buffer; the last one is the footer.
Emit(t) ==
    /\ pc[t] = "operate" /\ emitted[t] < Blocks
    /\ emitted[t] - delivered[t] < Capacity
    /\ emitted' = [emitted EXCEPT ![t] = @ + 1]
    /\ \E success \in BOOLEAN :
           /\ success => emitted'[t] = Blocks
           /\ footer' = [footer EXCEPT ![t] = success]
    /\ UNCHANGED <<owner, active, pc, delivered, failure,
                   storage, error, shared, status>>

\* overflow() on a full buffer, or the flush of NdjsonWriter::finish, hands
\* what is pending to the callback.
Flush(t) ==
    /\ pc[t] = "operate" /\ delivered[t] < emitted[t]
    /\ emitted[t] - delivered[t] = Capacity \/ emitted[t] = Blocks
    /\ Goto(t, "callback")
    /\ UNCHANGED <<owner, active, stream, storage, error, shared, status>>

\* Mutant: returns with the end of the stream still in the buffer.
FinishUnflushed(t) ==
    /\ pc[t] = "operate"
    /\ emitted[t] = Blocks
    /\ Goto(t, "completed")
    /\ UNCHANGED <<owner, active, stream, storage, error, shared, status>>

\* finish() is through, and the second flush finds nothing pending.
Finish(t) ==
    /\ pc[t] = "operate"
    /\ emitted[t] = Blocks /\ delivered[t] = Blocks
    /\ Goto(t, "completed")
    /\ UNCHANGED <<owner, active, stream, storage, error, shared, status>>

\* An exception the operation does not turn into a failed footer.
Throw(t) ==
    /\ pc[t] = "operate" /\ emitted[t] < Blocks
    /\ Goto(t, "unwind")
    /\ UNCHANGED <<owner, active, stream, storage, error, shared, status>>

\* The callback takes the whole pending span.
Continue(t) ==
    /\ pc[t] = "callback"
    /\ delivered' = [delivered EXCEPT ![t] = emitted[t]]
    /\ Goto(t, "operate")
    /\ UNCHANGED <<owner, active, emitted, footer, failure,
                   storage, error, shared, status>>

\* Mutant: the refused write is not reported to the ostream.
RefuseUnnoticed(t, how) ==
    /\ pc[t] = "callback"
    /\ failure' = [failure EXCEPT ![t] = how]
    /\ Goto(t, "operate")
    /\ UNCHANGED <<owner, active, emitted, delivered, footer,
                   storage, error, shared, status>>

\* Mutant: a refused write keeps the buffer and is tried again.
RefuseRetried(t, how) ==
    /\ pc[t] = "callback"
    /\ Goto(t, "operate")
    /\ UNCHANGED <<owner, active, stream, storage, error, shared, status>>

\* It cancels, or answers anything else, or throws: the failure is latched,
\* overflow() or sync() fails and the ostream throws.  The diagnostic that
\* extract_module's handler then tries to emit meets a bad stream and throws
\* again without reaching the buffer.
Refuse(t, how) ==
    /\ pc[t] = "callback"
    /\ failure' = [failure EXCEPT ![t] = how]
    /\ Goto(t, "unwind")
    /\ UNCHANGED <<owner, active, emitted, delivered, footer,
                   storage, error, shared, status>>

\* The callback calls a streaming function of the library.  It is rejected
\* by the flag (or an earlier check, or for want of memory) and may have
\* been given the outer call's gbs_error; had it passed, it would block on a mutex of its own.
Reenter(t, kind, defect, same) ==
    /\ pc[t] = "callback"
    /\ IF Refused(t, kind, defect)
       THEN /\ IF same
               THEN /\ kind = storage[t]
                    /\ \/ SetError(t, kind, "INVALID_ARGUMENT")
                       \/ SetError(t, kind, "INTERNAL_ERROR") /\ defect # "options"
                    /\ shared' = [shared EXCEPT ![t] = @ \/ kind = "valid"]
               ELSE UNCHANGED <<error, shared>>
            /\ UNCHANGED pc
       ELSE Goto(t, "relock") /\ UNCHANGED <<error, shared>>
    /\ UNCHANGED <<owner, active, stream, storage, status>>

-----------------------------------------------------------------------------
(* How a call returns.                                                     *)

\* Mutant: every exception is an internal error, the refused write's too.
ResultOfException(t) ==
    IF pc[t] = "handler" THEN "INTERNAL_ERROR"
    ELSE IF footer[t] THEN "OK" ELSE "EXTRACTION_FAILED"

Result(t) ==
    CASE failure[t] = "cancelled"    -> "CANCELLED"
      [] failure[t] = "write_failed" -> "WRITE_FAILED"
      [] failure[t] = "none" -> IF pc[t] = "handler" THEN "INTERNAL_ERROR"
                                ELSE IF footer[t] THEN "OK"
                                ELSE "EXTRACTION_FAILED"

\* The return statement of the try block: gbs_error is written except for
\* GBS_STATUS_OK, which the beginning of the call has left there.
Complete(t) ==
    /\ pc[t] = "completed"
    /\ Goto(t, "release")
    /\ status' = [status EXCEPT ![t] = Result(t)]
    /\ IF Result(t) = "OK" THEN UNCHANGED error ELSE SetError(t, storage[t], Result(t))
    /\ UNCHANGED <<owner, active, stream, storage, shared>>

\* The destructors run after the return value is known ...
Release(t) ==
    /\ pc[t] = "release"
    /\ active' = [active EXCEPT ![t] = FALSE]
    /\ owner' = None
    /\ Goto(t, "idle")
    /\ UNCHANGED <<stream, storage, error, shared, status>>

\* Mutant: the flag is lowered on the way of a normal return only.
UnwindKeepsFlag(t) ==
    /\ pc[t] = "unwind"
    /\ owner' = None
    /\ Goto(t, "handler")
    /\ UNCHANGED <<active, stream, storage, error, shared, status>>

\* ... but before the handler of an exception.
Unwind(t) ==
    /\ pc[t] = "unwind"
    /\ active' = [active EXCEPT ![t] = FALSE]
    /\ owner' = None
    /\ Goto(t, "handler")
    /\ UNCHANGED <<stream, storage, error, shared, status>>

\* Mutant: the handler forgets gbs_error.
HandleSilently(t) ==
    /\ pc[t] = "handler"
    /\ Goto(t, "idle")
    /\ status' = [status EXCEPT ![t] = Result(t)]
    /\ UNCHANGED <<owner, active, stream, storage, error, shared>>

Handle(t) ==
    /\ pc[t] = "handler"
    /\ Goto(t, "idle")
    /\ status' = [status EXCEPT ![t] = Result(t)]
    /\ SetError(t, storage[t], Result(t))
    /\ UNCHANGED <<owner, active, stream, storage, shared>>

Call(t) ==
    \E kind \in Storages :
        \/ Accept(t, kind) \/ Exhaust(t, kind)
        \/ \E defect \in Defects : Reject(t, kind, defect)

Nested(t) ==
    \E kind \in Storages, defect \in Defects, same \in BOOLEAN :
        Reenter(t, kind, defect, same)

\* What a thread does once its call is accepted, whoever else calls.
Progress(t) ==
    \/ Lock(t) \/ Emit(t) \/ Flush(t) \/ Finish(t) \/ Throw(t)
    \/ Continue(t) \/ \E how \in Failures \ {"none"} : Refuse(t, how)
    \/ Complete(t) \/ Release(t) \/ Unwind(t) \/ Handle(t)

Next == \E t \in Threads : Call(t) \/ Nested(t) \/ Progress(t)

\* A thread in a call runs, and its callback returns; the mutex is not fair.
Fairness == \A t \in Threads : WF_vars(Progress(t))

Spec == Init /\ [][Next]_vars /\ Fairness
-----------------------------------------------------------------------------
(* Properties.                                                             *)

\* The engine, which is not thread safe, is used by one thread at a time,
\* and only under the mutex.
InOperation(t) == pc[t] \in {"operate", "callback", "completed", "release", "unwind"}

EngineExclusive == \A t \in Threads : InOperation(t) => owner = t

\* No call blocks on a mutex its own thread holds.
NeverRelocks == \A t \in Threads : pc[t] # "relock"

\* The re-entry flag is down whenever the thread is outside the engine,
\* after a refused callback and an exception too: no later call of the
\* thread is taken for a nested one.
FlagFollowsOperation == \A t \in Threads : active[t] <=> InOperation(t)

\* The returned status is the one the ABI documents for what the callback
\* was given and answered.
StatusMatchesStream ==
    \A t \in Threads :
        LET whole == delivered[t] = Blocks
        IN  /\ status[t] = "OK" => whole /\ footer[t] /\ failure[t] = "none"
            /\ status[t] = "EXTRACTION_FAILED" =>
                   whole /\ ~footer[t] /\ failure[t] = "none"
            /\ status[t] = "CANCELLED" => failure[t] = "cancelled" /\ ~whole
            /\ status[t] = "WRITE_FAILED" => failure[t] = "write_failed" /\ ~whole
            /\ status[t] = "INTERNAL_ERROR" => failure[t] = "none" /\ ~whole
            /\ status[t] = "INVALID_ARGUMENT" => delivered[t] = 0

\* gbs_error holds the returned status, unless a nested call was given the
\* same storage (a success does not write it again).
ErrorMatchesStatus ==
    \A t \in Threads :
        pc[t] = "idle" /\ storage[t] = "valid" /\ status[t] # "none" =>
            error[t] = status[t] \/ (shared[t] /\ status[t] = "OK")

\* A callback that has refused a piece is not called again in that call.
SilentAfterRefusal ==
    [][\A t \in Threads :
          failure[t] # "none" /\ pc[t] # "idle" =>
              pc'[t] # "callback" /\ delivered'[t] = delivered[t]]_vars

\* The engine is given back, whatever the callback answers.
EngineReleased == \A t \in Threads : owner = t ~> owner # t

(* The calls are calls of StreamService.                                   *)
Heard == [t \in Threads |->
             IF delivered[t] = 0 THEN "nothing"
             ELSE IF delivered[t] < Blocks THEN "part"
             ELSE IF footer[t] THEN "successful_stream" ELSE "failed_stream"]

Service == INSTANCE StreamService
           WITH engine <- owner, heard <- Heard,
                refused <- [t \in Threads |-> IF failure[t] = "none" THEN "no"
                                              ELSE failure[t]]

ImplementsService == Service!Spec
=============================================================================

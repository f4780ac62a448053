---------------------------- MODULE StreamService ----------------------------
(***************************************************************************)
(* What the streaming functions of the C ABI promise: the engine serves one *)
(* caller at a time; a caller's callback is given the stream in pieces until *)
(* it is complete or a piece is refused, and then never called again; the   *)
(* returned status tells the caller which of these happened.                *)
(***************************************************************************)
CONSTANTS
    Threads,    \* threads of the embedding process
    None        \* no thread

VARIABLES
    engine,     \* the thread whose stream is being produced
    heard,      \* what the callback of each thread's latest call has consumed
    refused,    \* how that callback refused a piece, if it did
    status      \* what that call returned, "pending" until it does

vars == <<engine, heard, refused, status>>

Heard == {"nothing", "part", "successful_stream", "failed_stream"}

Init ==
    /\ engine = None
    /\ heard = [t \in Threads |-> "nothing"]
    /\ refused = [t \in Threads |-> "no"]
    /\ status = [t \in Threads |-> "none"]

\* The arguments are accepted; the caller waits for the engine.
Accept(t) ==
    /\ status[t] # "pending"
    /\ status' = [status EXCEPT ![t] = "pending"]
    /\ heard' = [heard EXCEPT ![t] = "nothing"]
    /\ refused' = [refused EXCEPT ![t] = "no"]
    /\ UNCHANGED engine

\* They are not, or there is no memory for them.
Reject(t, s) ==
    /\ status[t] # "pending"
    /\ s \in {"INVALID_ARGUMENT", "INTERNAL_ERROR"}
    /\ status' = [status EXCEPT ![t] = s]
    /\ heard' = [heard EXCEPT ![t] = "nothing"]
    /\ refused' = [refused EXCEPT ![t] = "no"]
    /\ UNCHANGED engine

Start(t) ==
    /\ engine = None /\ status[t] = "pending"
    /\ heard[t] = "nothing" /\ refused[t] = "no"
    /\ engine' = t
    /\ UNCHANGED <<heard, refused, status>>

Deliver(t, h) ==
    /\ engine = t /\ refused[t] = "no"
    /\ heard[t] \in {"nothing", "part"}
    /\ h \in Heard \ {"nothing"}
    /\ heard' = [heard EXCEPT ![t] = h]
    /\ UNCHANGED <<engine, refused, status>>

Refuse(t, how) ==
    /\ engine = t /\ refused[t] = "no"
    /\ how \in {"cancelled", "write_failed"}
    /\ refused' = [refused EXCEPT ![t] = how]
    /\ UNCHANGED <<engine, heard, status>>

Stop(t) ==
    /\ engine = t
    /\ engine' = None
    /\ UNCHANGED <<heard, refused, status>>

Return(t, s) ==
    /\ status[t] = "pending"
    /\ \/ s = "OK" /\ refused[t] = "no" /\ heard[t] = "successful_stream"
       \/ s = "EXTRACTION_FAILED" /\ refused[t] = "no" /\ heard[t] = "failed_stream"
       \/ s = "CANCELLED" /\ refused[t] = "cancelled"
       \/ s = "WRITE_FAILED" /\ refused[t] = "write_failed"
       \/ s = "INTERNAL_ERROR" /\ refused[t] = "no" /\ heard[t] \in {"nothing", "part"}
    /\ status' = [status EXCEPT ![t] = s]
    /\ UNCHANGED <<engine, heard, refused>>

Statuses == {"OK", "INVALID_ARGUMENT", "EXTRACTION_FAILED", "WRITE_FAILED",
             "CANCELLED", "INTERNAL_ERROR"}

Next ==
    \E t \in Threads :
        \/ Accept(t) \/ Start(t) \/ Stop(t)
        \/ \E h \in Heard : Deliver(t, h)
        \/ \E how \in {"cancelled", "write_failed"} : Refuse(t, how)
        \/ \E s \in Statuses : Reject(t, s) \/ Return(t, s)

Spec == Init /\ [][Next]_vars
=============================================================================

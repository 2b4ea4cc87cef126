--------------------------- MODULE WebSocketClient ---------------------------
(***************************************************************************)
(* WebSocketClient: once it is opened it resolves, connects and shakes     *)
(* hands, then reads and writes until an operation fails, and tries again  *)
(* after m_retry_timer.  The timer is a Trigger here.  m_reading and       *)
(* m_sending are set and cleared with their operations, and                *)
(* m_outstanding_ops counts them, so that they are definitions.            *)
(***************************************************************************)
EXTENDS WebSocketOperations

VARIABLES
    level,      \* the local run level
    opened,     \* m_opened
    timer,      \* m_retry_timer is running
    stage,      \* the operation that opens the connection
    op,         \* each operation, and the result its handler will get
    connected,  \* m_connected
    sends,      \* the length of m_pending_sends
    heard,      \* the last state the state handler was given
    forgotten,  \* a write has succeeded after the read had failed
    assertion   \* the function whose assertion has failed, or "none"

vars == <<level, opened, timer, stage, op, connected, sends, heard, forgotten, assertion>>

Init ==
    /\ level = "RUNNING" /\ opened = FALSE /\ timer = FALSE
    /\ stage = "resolve" /\ op = Idle
    /\ connected = FALSE /\ sends = 0 /\ heard = "nothing"
    /\ forgotten = FALSE /\ assertion = "none"

Reading(f) == f["read"] # "none"
Sending(f) == f["write"] # "none"

-----------------------------------------------------------------------------
\* The network: an operation ends well or with an error.
Fail(o) ==
    /\ op[o] = "pending" /\ op' = [op EXCEPT ![o] = "failed"]
    /\ UNCHANGED <<level, opened, timer, stage, connected, sends, heard, forgotten, assertion>>

Succeed(o) ==
    /\ op[o] = "pending" /\ op' = [op EXCEPT ![o] = "done"]
    /\ UNCHANGED <<level, opened, timer, stage, connected, sends, heard, forgotten, assertion>>

\* CloseConnection, with the operations f.
Closing(f) == IF connected THEN Cancelled(f) ELSE {f}

-----------------------------------------------------------------------------
Open ==
    /\ level = "RUNNING"
    /\ opened' = TRUE
    /\ IF opened THEN op' \in Closing(op) /\ UNCHANGED timer
       ELSE timer' = TRUE /\ UNCHANGED op
    /\ UNCHANGED <<level, stage, connected, sends, heard, forgotten, assertion>>

CloseConnection ==
    /\ level = "RUNNING"
    /\ op' \in Closing(op)
    /\ UNCHANGED <<level, opened, timer, stage, connected, sends, heard, forgotten, assertion>>

\* Without a connection there is nothing to send on.
Send ==
    /\ connected /\ sends < MaxSends
    /\ sends' = sends + 1
    /\ op' = IF Sending(op) THEN op ELSE [op EXCEPT !["write"] = "pending"]
    /\ UNCHANGED <<level, opened, timer, stage, connected, heard, forgotten, assertion>>

\* Mutant: the stop is not completed.
CheckStoppingNever(l, f, t) == level' = l /\ timer' = t

\* CheckStopping, at level l with operations f and timer t.
CheckStopping(l, f, t) ==
    /\ level' = IF l = "STOPPING" /\ f = Idle THEN "STOPPED" ELSE l
    /\ timer' = (t /\ ~(l = "STOPPING" /\ f = Idle))

HandleStopping ==
    /\ level = "RUNNING"
    /\ op' \in Closing(op)
    /\ CheckStopping("STOPPING", op', timer)
    /\ UNCHANGED <<opened, stage, connected, sends, heard, forgotten, assertion>>

HandleRetryTimerExpired ==
    /\ timer /\ timer' = FALSE
    /\ IF level = "RUNNING" /\ opened
       THEN /\ stage' = "resolve" /\ op' = [op EXCEPT !["open"] = "pending"]
            /\ UNCHANGED assertion
       ELSE assertion' = "HandleRetryTimerExpired" /\ UNCHANGED <<stage, op>>
    /\ UNCHANGED <<level, opened, connected, sends, heard, forgotten>>

\* Mutant: the write that is under way is forgotten.
HandleErrorWhileSending(f, n) ==
    /\ op' = f /\ connected' = FALSE
    /\ heard' = IF connected THEN "down" ELSE heard
    /\ IF ~Reading(f)
       THEN sends' = 0 /\ CheckStopping(level, f, TRUE)
       ELSE sends' = n /\ CheckStopping(level, f, timer)

\* Mutant: only a lost connection is tried again.
HandleErrorOnce(f, n) ==
    /\ op' = f /\ connected' = FALSE
    /\ heard' = IF connected THEN "down" ELSE heard
    /\ IF ~Reading(f) /\ ~Sending(f) /\ connected
       THEN sends' = 0 /\ CheckStopping(level, f, TRUE)
       ELSE sends' = n /\ CheckStopping(level, f, timer)

\* HandleError, with the operations f left and n messages: only the last of a
\* read and a write that fail starts the timer.
HandleError(f, n) ==
    /\ op' = f /\ connected' = FALSE
    /\ heard' = IF connected THEN "down" ELSE heard
    /\ IF ~Reading(f) /\ ~Sending(f)
       THEN sends' = 0 /\ CheckStopping(level, f, TRUE)
       ELSE sends' = n /\ CheckStopping(level, f, timer)

-----------------------------------------------------------------------------
\* HandleResolved, HandleConnect and HandleHandshake: the next operation, the
\* connection with its first read, or an error when stopping.
HandleOpening ==
    /\ op["open"] \in {"done", "failed"}
    /\ IF op["open"] = "failed" \/ level # "RUNNING"
       THEN HandleError([op EXCEPT !["open"] = "none"], sends) /\ UNCHANGED stage
       ELSE /\ \/ /\ stage = "resolve" /\ stage' = "connect"
                  /\ op' = [op EXCEPT !["open"] = "pending"] /\ UNCHANGED <<connected, heard>>
               \/ /\ stage = "connect" /\ stage' = "handshake"
                  /\ op' = [op EXCEPT !["open"] = "pending"] /\ UNCHANGED <<connected, heard>>
               \/ /\ stage = "handshake" /\ UNCHANGED stage
                  /\ connected' = TRUE /\ heard' = "up"
                  /\ op' = [op EXCEPT !["open"] = "none", !["read"] = "pending"]
            /\ UNCHANGED <<level, timer, sends>>
    /\ UNCHANGED <<opened, forgotten, assertion>>

\* StartRead asserts that there is a connection; a binary message closes it.
HandleRead ==
    /\ op["read"] \in {"done", "failed"}
    /\ IF op["read"] = "failed"
       THEN HandleError([op EXCEPT !["read"] = "none"], sends) /\ UNCHANGED assertion
       ELSE /\ IF connected
               THEN /\ \/ op' = [op EXCEPT !["read"] = "pending"]
                       \/ op' \in Closing([op EXCEPT !["read"] = "pending"])
                    /\ UNCHANGED assertion
               ELSE assertion' = "StartRead" /\ op' = [op EXCEPT !["read"] = "none"]
            /\ UNCHANGED <<level, timer, connected, sends, heard>>
    /\ UNCHANGED <<opened, stage, forgotten>>

\* The next message is written, whether or not there still is a connection; if
\* there is neither, no attempt follows, and a client that stops never has.
HandleWritten ==
    /\ op["write"] \in {"done", "failed"}
    /\ IF op["write"] = "failed"
       THEN HandleError([op EXCEPT !["write"] = "none"], sends - 1) /\ UNCHANGED forgotten
       ELSE /\ forgotten' = (forgotten \/ (sends = 1 /\ ~connected /\ ~Reading(op)))
            /\ sends' = sends - 1
            /\ op' = [op EXCEPT !["write"] = IF sends = 1 THEN "none" ELSE "pending"]
            /\ UNCHANGED <<level, timer, connected, heard>>
    /\ UNCHANGED <<opened, stage, assertion>>

-----------------------------------------------------------------------------
Next ==
    \/ /\ assertion = "none"
       /\ \/ \E o \in Operations : Fail(o) \/ Succeed(o)
          \/ Open \/ CloseConnection \/ Send \/ HandleStopping
          \/ HandleRetryTimerExpired \/ HandleOpening \/ HandleRead \/ HandleWritten
    \/ (assertion # "none" \/ level = "STOPPED" \/ forgotten) /\ UNCHANGED vars

Spec == Init /\ [][Next]_vars

\* The timer expires, handlers run, operations end, and no peer keeps a
\* connection for ever.
FairSpec ==
    /\ Spec
    /\ \A o \in Operations : WF_vars(Fail(o) \/ Succeed(o))
    /\ SF_vars(Fail("read")) /\ SF_vars(Fail("write"))
    /\ WF_vars(HandleRetryTimerExpired) /\ WF_vars(HandleOpening)
    /\ WF_vars(HandleRead) /\ WF_vars(HandleWritten)

-----------------------------------------------------------------------------
\* The variables have their types.
TypeOK ==
    /\ level \in {"RUNNING", "STOPPING", "STOPPED"}
    /\ opened \in BOOLEAN /\ timer \in BOOLEAN /\ connected \in BOOLEAN
    /\ stage \in {"resolve", "connect", "handshake"}
    /\ op \in [Operations -> Results]
    /\ sends \in 0..MaxSends
    /\ heard \in {"nothing", "up", "down"} /\ forgotten \in BOOLEAN
    /\ assertion \in {"none", "StartRead", "HandleRetryTimerExpired"}

\* The connection and its operations agree: it is read while it is there, it is
\* opened, or waits to be, only when no operation of an earlier one is left, and
\* the owner has been told of it.
OneConnection ==
    /\ connected => Reading(op) \/ assertion # "none"
    /\ connected <=> heard = "up"
    /\ op["open"] # "none" => ~connected /\ ~Reading(op) /\ ~Sending(op) /\ ~timer
    /\ timer => op = Idle /\ level = "RUNNING" /\ opened
    /\ Sending(op) => sends > 0
    /\ op = Idle /\ assertion = "none" => sends = 0
    /\ level = "STOPPED" => op = Idle /\ ~connected
    /\ assertion # "HandleRetryTimerExpired"

Consistent == TypeOK /\ OneConnection

\* A client without a connection opens another, unless an assertion fails or
\* the lost one is forgotten.
KeepsTrying ==
    (opened /\ ~connected)
        ~> (op["open"] # "none" \/ level # "RUNNING" \/ assertion = "StartRead" \/ forgotten)

\* The stop completes, with the same exceptions.
StopCompletes ==
    level = "STOPPING" ~> (level = "STOPPED" \/ assertion = "StartRead" \/ forgotten)

\* StartRead's BBOX_ASSERT(m_connected) does not fail.
ConnectedAtStartRead == assertion # "StartRead"
=============================================================================

--------------------------- MODULE ServerWebSocket ---------------------------
(***************************************************************************)
(* A WebSocketConnection of the HTTP server and the ServerWebSocket that   *)
(* is its owner's handle.  The connection accepts, reads and writes with   *)
(* asynchronous operations and calls the owner back from their handlers;   *)
(* the owner may send and close at any time, in its callbacks too.  Once   *)
(* closed, by either side or by an error, the connection waits for its     *)
(* operations to end, lets go of the handle, and has the server delete it. *)
(***************************************************************************)
EXTENDS WebSocketOperations

CONSTANT MaxReceived    \* bound on the messages received

VARIABLES
    op,             \* each asynchronous operation, and the result its handler will get
    outstanding,    \* m_outstanding_async_ops
    accepted,       \* m_accept_completed
    closeRequested, \* m_close_requested
    closeReported,  \* m_close_reported
    writePending,   \* m_write_pending
    pendingWrites,  \* m_pending_writes, the messages' numbers
    owned,          \* m_owner is the handle
    linked,         \* the handle's m_connection is this connection
    deleted,        \* the server has deleted it
    busy,           \* the callback the connection is in, or "no"
    heard, received, sent, written  \* what the owner has seen, see Channel

flags == <<accepted, closeRequested>>
link == <<owned, linked, closeReported>>
out == <<writePending, pendingWrites, sent, written>>
vars == <<op, outstanding, flags, link, out, deleted, busy, heard, received>>

\* Upgrade: the constructor starts the accept.
Init ==
    /\ op = [Idle EXCEPT !["open"] = "pending"]
    /\ outstanding = 1
    /\ accepted = FALSE /\ closeRequested = FALSE /\ closeReported = FALSE
    /\ writePending = FALSE /\ pendingWrites = <<>>
    /\ owned = TRUE /\ linked = TRUE /\ deleted = FALSE /\ busy = "no"
    /\ heard = "nothing" /\ received = 0 /\ sent = 0 /\ written = 0

-----------------------------------------------------------------------------
\* The socket: an operation ends well or with an error.
Complete(o) ==
    /\ op[o] = "pending"
    /\ op' = [op EXCEPT ![o] = "done"] \/ op' = [op EXCEPT ![o] = "failed"]
    /\ UNCHANGED <<outstanding, flags, link, out, deleted, busy, heard, received>>

\* Mutant: only the write is waited for.
CheckCloseEarly(n, req, wp, own, lnk) ==
    IF req /\ ~closeReported /\ ~wp
    THEN /\ closeReported' = TRUE /\ owned' = FALSE
         /\ linked' = (lnk /\ ~own)
    ELSE closeReported' = closeReported /\ owned' = own /\ linked' = lnk

\* CheckClose, with n operations outstanding: WebSocketClosed.
CheckClose(n, req, wp, own, lnk) ==
    IF req /\ ~closeReported /\ n = 0 /\ ~wp
    THEN /\ closeReported' = TRUE /\ owned' = FALSE
         /\ linked' = (lnk /\ ~own)
    ELSE closeReported' = closeReported /\ owned' = own /\ linked' = lnk

\* Mutant: errors are reported after the close, too.
ReportErrorAlways(n, wp) ==
    busy' = "error" /\ heard' = "lost" /\ closeRequested' = TRUE /\ UNCHANGED link

\* ReportError up to the owner's callback, and CheckClose if there is none.
ReportError(n, wp) ==
    IF ~closeRequested
    THEN busy' = "error" /\ heard' = "lost" /\ closeRequested' = TRUE /\ UNCHANGED link
    ELSE /\ CheckClose(n, TRUE, wp, owned, linked)
         /\ UNCHANGED <<busy, heard, closeRequested>>

-----------------------------------------------------------------------------
OnAccept ==
    /\ busy = "no" /\ op["open"] \in {"done", "failed"}
    /\ IF op["open"] = "done" /\ ~closeRequested
       THEN /\ accepted' = TRUE
            /\ op' = [op EXCEPT !["open"] = "none", !["read"] = "pending"]
            /\ busy' = "state" /\ heard' = "opened"
            /\ UNCHANGED <<outstanding, closeRequested, link>>
       ELSE /\ op' = [op EXCEPT !["open"] = "none"] /\ outstanding' = outstanding - 1
            /\ UNCHANGED accepted
            /\ IF op["open"] = "failed" THEN ReportError(outstanding', writePending)
               ELSE /\ CheckClose(outstanding', closeRequested, writePending, owned, linked)
                    /\ UNCHANGED <<busy, heard, closeRequested>>
    /\ UNCHANGED <<out, deleted, received>>

\* A text is passed on after the next read has started; a binary message
\* closes the connection.
OnRead ==
    /\ busy = "no" /\ op["read"] \in {"done", "failed"}
    /\ IF op["read"] = "done" /\ ~closeRequested
       THEN /\ UNCHANGED outstanding
            /\ \/ /\ received < MaxReceived /\ received' = received + 1 /\ busy' = "receive"
                  /\ op' = [op EXCEPT !["read"] = "pending"]
                  /\ UNCHANGED <<closeRequested, link>>
               \/ /\ op' \in Cancelled([op EXCEPT !["read"] = "pending"])
                  /\ closeRequested' = TRUE
                  /\ CheckClose(outstanding, TRUE, writePending, owned, linked)
                  /\ UNCHANGED <<busy, received>>
            /\ UNCHANGED heard
       ELSE /\ op' = [op EXCEPT !["read"] = "none"] /\ outstanding' = outstanding - 1
            /\ UNCHANGED received
            /\ IF op["read"] = "failed" THEN ReportError(outstanding', writePending)
               ELSE /\ CheckClose(outstanding', closeRequested, writePending, owned, linked)
                    /\ UNCHANGED <<busy, heard, closeRequested>>
    /\ UNCHANGED <<accepted, out, deleted>>

\* The next message is written.
OnWrite ==
    /\ busy = "no" /\ op["write"] \in {"done", "failed"}
    /\ IF op["write"] = "done" /\ ~closeRequested /\ pendingWrites # <<>>
       THEN /\ written' = Head(pendingWrites) /\ pendingWrites' = Tail(pendingWrites)
            /\ op' = [op EXCEPT !["write"] = "pending"]
            /\ UNCHANGED <<outstanding, writePending, closeRequested, link, busy, heard>>
       ELSE /\ op' = [op EXCEPT !["write"] = "none"] /\ outstanding' = outstanding - 1
            /\ writePending' = FALSE
            /\ UNCHANGED <<written, pendingWrites>>
            /\ IF op["write"] = "failed" THEN ReportError(outstanding', FALSE)
               ELSE /\ CheckClose(outstanding', closeRequested, FALSE, owned, linked)
                    /\ UNCHANGED <<busy, heard, closeRequested>>
    /\ UNCHANGED <<accepted, sent, deleted, received>>

\* The callback returns: ReportError closes the socket, and all check the close.
Return ==
    /\ busy # "no" /\ busy' = "no"
    /\ op' = IF busy = "error" THEN Closed(op) ELSE op
    /\ CheckClose(outstanding, closeRequested, writePending, owned, linked)
    /\ UNCHANGED <<outstanding, flags, out, deleted, heard, received>>

-----------------------------------------------------------------------------
\* The owner sends while IsOpen, as all owners do.
Send ==
    /\ linked /\ accepted /\ ~closeRequested /\ sent < MaxSends
    /\ sent' = sent + 1
    /\ IF writePending
       THEN /\ pendingWrites' = Append(pendingWrites, sent')
            /\ UNCHANGED <<op, outstanding, writePending, written>>
       ELSE /\ written' = sent' /\ writePending' = TRUE
            /\ op' = [op EXCEPT !["write"] = "pending"] /\ outstanding' = outstanding + 1
            /\ UNCHANGED pendingWrites
    /\ UNCHANGED <<flags, link, deleted, busy, heard, received>>

\* WebSocketConnection::Close, called with the owner gone or still there.
Close(own, lnk) ==
    IF closeRequested
    THEN closeReported' = closeReported /\ owned' = own /\ linked' = lnk /\ UNCHANGED <<op, closeRequested>>
    ELSE /\ closeRequested' = TRUE
         /\ op' \in Cancelled(op)
         /\ CheckClose(outstanding, TRUE, writePending, own, lnk)

\* ServerWebSocket::Close or its destructor, through UpdateOwner.
OwnerCloses ==
    /\ linked
    /\ Close(FALSE, FALSE)
    /\ UNCHANGED <<outstanding, accepted, out, deleted, busy, heard, received>>

\* HttpServer::HandleStopping
ServerCloses ==
    /\ busy = "no" /\ ~deleted /\ ~closeRequested
    /\ Close(owned, linked)
    /\ UNCHANGED <<outstanding, accepted, out, deleted, busy, heard, received>>

\* The handler that HttpServer::WebSocketClosed posts.
Delete ==
    /\ busy = "no" /\ closeReported /\ ~deleted
    /\ deleted' = TRUE
    /\ UNCHANGED <<op, outstanding, flags, link, out, busy, heard, received>>

-----------------------------------------------------------------------------
Handler == OnAccept \/ OnRead \/ OnWrite \/ Return \/ Delete

Next ==
    \/ \E o \in Operations : Complete(o)
    \/ Handler
    \/ Send \/ OwnerCloses \/ ServerCloses
    \/ deleted /\ UNCHANGED vars

Spec == Init /\ [][Next]_vars

\* Handlers run, and operations end: peers send, close or time out.
FairSpec ==
    /\ Spec
    /\ \A o \in Operations : WF_vars(Complete(o))
    /\ WF_vars(OnAccept) /\ WF_vars(OnRead) /\ WF_vars(OnWrite)
    /\ WF_vars(Return) /\ WF_vars(Delete)

-----------------------------------------------------------------------------
\* The variables have their types.
TypeOK ==
    /\ op \in [Operations -> Results]
    /\ outstanding \in Nat
    /\ accepted \in BOOLEAN /\ closeRequested \in BOOLEAN /\ closeReported \in BOOLEAN
    /\ writePending \in BOOLEAN /\ pendingWrites \in Seq(1..MaxSends)
    /\ owned \in BOOLEAN /\ linked \in BOOLEAN /\ deleted \in BOOLEAN
    /\ busy \in {"no", "state", "error", "receive"}
    /\ heard \in {"nothing", "opened", "lost"}
    /\ received \in Nat /\ sent \in 0..MaxSends /\ written \in 0..MaxSends

\* m_outstanding_async_ops counts the operations, one write at a time among them.
OpsCounted ==
    /\ outstanding = (IF op["open"] # "none" THEN 1 ELSE 0)
                     + (IF op["read"] # "none" THEN 1 ELSE 0)
                     + (IF op["write"] # "none" THEN 1 ELSE 0)
    /\ writePending <=> op["write"] # "none"

\* The close is reported exactly when nothing is left to wait for: after it no
\* handler of an operation can use the deleted connection, and the handle has
\* let go of it.
NothingLeft ==
    /\ closeReported => closeRequested /\ outstanding = 0 /\ busy = "no" /\ ~linked /\ ~owned
    /\ closeRequested /\ outstanding = 0 /\ busy = "no" => closeReported
    /\ deleted => closeReported
    /\ linked = owned

Consistent == TypeOK /\ OpsCounted /\ NothingLeft

\* The state the owner sees.
state ==
    IF deleted THEN "gone" ELSE IF closeRequested THEN "closed"
    ELSE IF accepted THEN "open" ELSE "accepting"

Owner == INSTANCE Channel

\* The connection is the Channel its owner sees, which is destroyed once it is
\* closed or lost.
ImplementsChannel == Owner!Promise

\* Its safety part.
KeepsPromise == Owner!Safety
=============================================================================

--------------------------- MODULE WebSocketsProofs ---------------------------
(***************************************************************************)
(* Proofs about both ends of a web socket and about the client of an LED   *)
(* sign, for any bounds on the messages.                                   *)
(*                                                                         *)
(* WebSocketClient's Consistent is inductive together with one fact: an    *)
(* operation is only under way in a client that has been opened, so that   *)
(* the timer that HandleError starts is one of an opened client.           *)
(*                                                                         *)
(* ServerWebSocket's is together with ServerPhases, which says what may be *)
(* under way before the accept has ended and while the owner is called,    *)
(* and MessagesQueued, which says which messages wait.                     *)
(*                                                                         *)
(* FadecandyClient's is as it stands but for two facts about a frame: what *)
(* a write carries, and that a frame is left unsent in no other state.     *)
(***************************************************************************)
EXTENDS MCWebSockets, TLAPS

-----------------------------------------------------------------------------
\* The client.

OpenedForOperations == op # Idle => opened

IInv == Consistent /\ OpenedForOperations

\* Operations that are cancelled or closed keep their type, and are of the same
\* kinds as before.
SameKinds(f, g) == \A o \in Operations : g[o] = "none" <=> f[o] = "none"

LEMMA ClosingKeeps ==
    ASSUME NEW f \in [Operations -> Results], NEW g \in Closing(f)
    PROVE  g \in [Operations -> Results] /\ SameKinds(f, g)
<1>1. CASE g \in Cancelled(f)
  BY <1>1 DEF Cancelled, SameKinds
<1>2. CASE g = f
  BY <1>2 DEF SameKinds
<1> QED BY <1>1, <1>2 DEF Closing

\* Idle is where no operation of any kind is.
LEMMA IdleIff ==
    ASSUME NEW f \in [Operations -> Results]
    PROVE  f = Idle <=> f["open"] = "none" /\ f["read"] = "none" /\ f["write"] = "none"
<1>1. ASSUME f["open"] = "none", f["read"] = "none", f["write"] = "none" PROVE f = Idle
  <2>1. \A o \in Operations : f[o] = "none"
    BY <1>1 DEF Operations
  <2> QED BY <2>1 DEF Idle
<1>2. ASSUME f = Idle PROVE f["open"] = "none" /\ f["read"] = "none" /\ f["write"] = "none"
  BY <1>2 DEF Idle, Operations
<1> QED BY <1>1, <1>2

\* The initial state satisfies the inductive invariant.
LEMMA InitInv == Init => IInv
<1> SUFFICES ASSUME Init PROVE IInv
  OBVIOUS
<1>1. TypeOK
  <2>1. op \in [Operations -> Results]
    BY DEF Init, Idle, Results
  <2>2. sends \in 0 .. MaxSends
    BY WebSocketAssumption DEF Init
  <2> QED BY <2>1, <2>2 DEF Init, TypeOK
<1>2. OneConnection
  BY DEF Init, OneConnection, Idle, Operations, Reading, Sending
<1>3. OpenedForOperations
  BY DEF Init, OpenedForOperations
<1> QED BY <1>1, <1>2, <1>3 DEF IInv, Consistent

\* Changing only the results of the operations, and not which are under way,
\* keeps the inductive invariant.
LEMMA SameKindsInv ==
    ASSUME IInv, op' \in [Operations -> Results], SameKinds(op, op'),
           UNCHANGED <<level, opened, timer, stage, connected, sends, heard, forgotten, assertion>>
    PROVE  IInv'
<1> USE DEF IInv, Consistent
<1>1. op'["open"] = "none" <=> op["open"] = "none"
  BY DEF SameKinds, Operations
<1>2. (Reading(op'))  <=> Reading(op)
  BY DEF SameKinds, Operations, Reading
<1>3. Sending(op') <=> Sending(op)
  BY DEF SameKinds, Operations, Sending
<1>4. op' = Idle <=> op = Idle
  BY <1>1, <1>2, <1>3, IdleIff DEF TypeOK, Reading, Sending
<1>5. TypeOK'
  BY DEF TypeOK
<1>6. OneConnection'
  BY <1>1, <1>2, <1>3, <1>4 DEF OneConnection
<1>7. OpenedForOperations'
  BY <1>4 DEF OpenedForOperations
<1> QED BY <1>5, <1>6, <1>7

\* HandleError after an operation of an opened client that has not stopped: only
\* when nothing is left does the timer start, and it does not when it stops.
LEMMA HandleErrorInv ==
    ASSUME IInv, assertion = "none", level # "STOPPED", op # Idle,
           NEW f \in [Operations -> Results], NEW n \in 0 .. MaxSends,
           HandleError(f, n),
           f["open"] = "none", Sending(f) => n > 0,
           UNCHANGED <<opened, assertion>>,
           stage' \in {"resolve", "connect", "handshake"}, forgotten' \in BOOLEAN
    PROVE  IInv'
<1> USE DEF IInv, Consistent
<1>1. opened /\ ~timer
  BY DEF OpenedForOperations, OneConnection
<1>2. f = Idle <=> ~Reading(f) /\ ~Sending(f)
  BY IdleIff DEF Reading, Sending
<1>3. connected' = FALSE /\ op' = f /\ heard' # "up"
  BY DEF HandleError, OneConnection
<1>4. CASE ~Reading(f) /\ ~Sending(f)
  <2>1. sends' = 0 /\ level' = (IF level = "STOPPING" THEN "STOPPED" ELSE level)
        /\ timer' = (level # "STOPPING")
    BY <1>2, <1>4 DEF HandleError, CheckStopping
  <2>2. level \in {"RUNNING", "STOPPING"}
    BY DEF TypeOK
  <2>3. TypeOK'
    <3>1. sends' \in 0 .. MaxSends
      BY <2>1, WebSocketAssumption
    <3>2. level' \in {"RUNNING", "STOPPED"} /\ timer' \in BOOLEAN /\ heard' \in {"nothing", "up", "down"}
      BY <2>1, <2>2 DEF HandleError, TypeOK
    <3> QED BY <1>1, <1>3, <3>1, <3>2 DEF TypeOK
  <2>4. OneConnection'
    BY <1>1, <1>2, <1>3, <1>4, <2>1, <2>2 DEF OneConnection, HandleError
  <2>5. OpenedForOperations'
    BY <1>1 DEF OpenedForOperations
  <2> QED BY <2>3, <2>4, <2>5
<1>5. CASE Reading(f) \/ Sending(f)
  <2>1. sends' = n /\ level' = level /\ timer' = FALSE
    BY <1>1, <1>2, <1>5 DEF HandleError, CheckStopping
  <2>2. TypeOK'
    BY <1>3, <2>1 DEF TypeOK, HandleError
  <2>3. OneConnection'
    BY <1>1, <1>2, <1>3, <1>5, <2>1 DEF OneConnection, Reading, Sending
  <2>4. OpenedForOperations'
    BY <1>1 DEF OpenedForOperations
  <2> QED BY <2>2, <2>3, <2>4
<1> QED BY <1>4, <1>5

\* Every step keeps the inductive invariant.
LEMMA NextInv == IInv /\ [Next]_vars => IInv'
<1> SUFFICES ASSUME IInv, [Next]_vars PROVE IInv'
  OBVIOUS
<1> USE DEF IInv, Consistent
<1>0. op \in [Operations -> Results] /\ (op = Idle <=> op["open"] = "none" /\ ~Reading(op) /\ ~Sending(op))
  BY IdleIff DEF TypeOK, Reading, Sending
<1>1. ASSUME NEW o \in Operations, Fail(o) \/ Succeed(o) PROVE IInv'
  <2>1. op' \in [Operations -> Results] /\ SameKinds(op, op')
    BY <1>0, <1>1 DEF Fail, Succeed, SameKinds, Results
  <2> QED BY <1>1, <2>1, SameKindsInv DEF Fail, Succeed
<1>2. CASE Open /\ assertion = "none"
  <2>1. CASE opened
    <3>1. op' \in [Operations -> Results] /\ SameKinds(op, op')
      BY <1>0, <1>2, <2>1, ClosingKeeps DEF Open
    <3>2. UNCHANGED opened
      BY <1>2, <2>1 DEF Open
    <3> QED BY <1>2, <2>1, <3>1, <3>2, SameKindsInv DEF Open
  <2>2. CASE ~opened
    <3>1. op = Idle
      BY <2>2 DEF OpenedForOperations
    <3>2. TypeOK'
      BY <1>2, <2>2 DEF Open, TypeOK
    <3>3. OneConnection'
      BY <1>0, <1>2, <2>2, <3>1 DEF Open, OneConnection
    <3>4. OpenedForOperations'
      BY <1>2, <2>2 DEF Open, OpenedForOperations
    <3> QED BY <3>2, <3>3, <3>4
  <2> QED BY <2>1, <2>2 DEF TypeOK
<1>3. CASE CloseConnection
  <2>1. op' \in [Operations -> Results] /\ SameKinds(op, op')
    BY <1>0, <1>3, ClosingKeeps DEF CloseConnection
  <2> QED BY <1>3, <2>1, SameKindsInv DEF CloseConnection
<1>4. CASE Send /\ assertion = "none"
  <2>1. Reading(op) /\ op["open"] = "none" /\ op # Idle
    BY <1>0, <1>4 DEF Send, OneConnection
  <2>2. op' \in [Operations -> Results] /\ op'["open"] = op["open"] /\ op'["read"] = op["read"]
    BY <1>0, <1>4 DEF Send, Results, Operations
  <2>3. op' # Idle /\ Reading(op')
    BY <2>1, <2>2, IdleIff DEF Reading
  <2>4. TypeOK'
    <3>1. sends' \in 0 .. MaxSends
      BY <1>4, WebSocketAssumption DEF Send, TypeOK
    <3> QED BY <1>4, <2>2, <3>1 DEF Send, TypeOK
  <2>5. OneConnection'
    BY <1>4, <2>1, <2>2, <2>3, <2>4 DEF Send, OneConnection, TypeOK
  <2>6. OpenedForOperations'
    BY <1>4, <2>1 DEF Send, OpenedForOperations
  <2> QED BY <2>4, <2>5, <2>6
<1>5. CASE HandleStopping /\ assertion = "none"
  <2>1. op' \in [Operations -> Results] /\ SameKinds(op, op')
    BY <1>0, <1>5, ClosingKeeps DEF HandleStopping
  <2>2. /\ op'["open"] = "none" <=> op["open"] = "none"
        /\ Reading(op') <=> Reading(op)
        /\ Sending(op') <=> Sending(op)
    BY <2>1 DEF SameKinds, Operations, Reading, Sending
  <2>3. op' = Idle <=> op = Idle
    BY <1>0, <2>1, <2>2, IdleIff DEF Reading, Sending
  <2>4. level' = (IF op = Idle THEN "STOPPED" ELSE "STOPPING") /\ timer' = (timer /\ op # Idle)
    BY <1>5, <2>3 DEF HandleStopping, CheckStopping
  <2>5. TypeOK'
    BY <1>5, <2>1, <2>4 DEF HandleStopping, TypeOK
  <2>6. OneConnection'
    <3>1. UNCHANGED <<opened, connected, sends, heard, assertion>>
      BY <1>5 DEF HandleStopping
    <3>2. op = Idle => ~connected
      BY <1>0, <1>5 DEF OneConnection
    <3> QED BY <1>5, <2>2, <2>3, <2>4, <3>1, <3>2 DEF OneConnection
  <2>7. OpenedForOperations'
    BY <1>5, <2>3 DEF HandleStopping, OpenedForOperations
  <2> QED BY <2>5, <2>6, <2>7
<1>6. CASE HandleRetryTimerExpired /\ assertion = "none"
  <2>1. op = Idle /\ level = "RUNNING" /\ opened
    BY <1>6 DEF HandleRetryTimerExpired, OneConnection
  <2>2. /\ op' = [op EXCEPT !["open"] = "pending"] /\ stage' = "resolve" /\ timer' = FALSE
        /\ UNCHANGED <<level, opened, connected, sends, heard, forgotten, assertion>>
    BY <1>6, <2>1 DEF HandleRetryTimerExpired
  <2>3. op' \in [Operations -> Results] /\ op'["open"] = "pending" /\ ~Reading(op') /\ ~Sending(op')
    BY <1>0, <2>1, <2>2 DEF Results, Operations, Reading, Sending
  <2>4. op' # Idle
    BY <2>3, IdleIff
  <2>5. TypeOK'
    BY <2>2, <2>3 DEF TypeOK
  <2>6. OneConnection'
    BY <1>0, <1>6, <2>1, <2>2, <2>3, <2>4 DEF OneConnection
  <2>7. OpenedForOperations'
    BY <2>1, <2>2 DEF OpenedForOperations
  <2> QED BY <2>5, <2>6, <2>7
<1>7. CASE HandleOpening /\ assertion = "none"
  <2>1. op["open"] # "none" /\ op # Idle /\ ~Reading(op) /\ ~Sending(op) /\ ~connected /\ ~timer
    BY <1>0, <1>7 DEF HandleOpening, OneConnection
  <2>2. CASE op["open"] = "failed" \/ level # "RUNNING"
    <3> DEFINE f == [op EXCEPT !["open"] = "none"]
    <3>1. f \in [Operations -> Results] /\ f["open"] = "none" /\ ~Sending(f)
      BY <1>0, <2>1 DEF Results, Operations, Sending
    <3>2. HandleError(f, sends) /\ UNCHANGED <<stage, opened, forgotten, assertion>>
      BY <1>7, <2>2 DEF HandleOpening
    <3>3. sends \in 0 .. MaxSends /\ stage' \in {"resolve", "connect", "handshake"} /\ forgotten' \in BOOLEAN
      BY <3>2 DEF TypeOK
    <3>4. level # "STOPPED"
      BY <2>1 DEF OneConnection
    <3> HIDE DEF f
    <3> QED BY <1>7, <2>1, <3>1, <3>2, <3>3, <3>4, HandleErrorInv
  <2>3. CASE ~(op["open"] = "failed" \/ level # "RUNNING")
    <3>0. UNCHANGED <<level, timer, sends, opened, forgotten, assertion>> /\ opened
      BY <1>7, <2>1, <2>3 DEF HandleOpening, OpenedForOperations
    <3>1. CASE stage' \in {"connect", "handshake"} /\ op' = [op EXCEPT !["open"] = "pending"]
               /\ UNCHANGED <<connected, heard>>
      <4>1. op' \in [Operations -> Results] /\ op'["open"] = "pending" /\ ~Reading(op') /\ ~Sending(op')
        BY <1>0, <2>1, <3>1 DEF Results, Operations, Reading, Sending
      <4>2. op' # Idle
        BY <4>1, IdleIff
      <4>3. TypeOK'
        BY <3>0, <3>1, <4>1 DEF TypeOK
      <4>4. OneConnection'
        BY <2>1, <3>0, <3>1, <4>1, <4>2 DEF OneConnection
      <4> QED BY <3>0, <4>3, <4>4 DEF OpenedForOperations
    <3>2. CASE UNCHANGED stage /\ connected' = TRUE /\ heard' = "up"
               /\ op' = [op EXCEPT !["open"] = "none", !["read"] = "pending"]
      <4>1. op' \in [Operations -> Results] /\ op'["open"] = "none" /\ Reading(op') /\ ~Sending(op')
        BY <1>0, <2>1, <3>2 DEF Results, Operations, Reading, Sending
      <4>2. op' # Idle
        BY <4>1, IdleIff DEF Reading
      <4>3. TypeOK'
        BY <3>0, <3>2, <4>1 DEF TypeOK
      <4>4. OneConnection'
        BY <1>7, <2>1, <2>3, <3>0, <3>2, <4>1, <4>2 DEF OneConnection
      <4> QED BY <3>0, <4>3, <4>4 DEF OpenedForOperations
    <3> QED BY <1>7, <2>3, <3>1, <3>2 DEF HandleOpening
  <2> QED BY <2>2, <2>3
<1>8. CASE HandleRead /\ assertion = "none"
  <2>1. Reading(op) /\ op # Idle /\ op["open"] = "none" /\ ~timer /\ level # "STOPPED"
    BY <1>0, <1>8 DEF HandleRead, OneConnection, Reading
  <2>2. CASE op["read"] = "failed"
    <3> DEFINE f == [op EXCEPT !["read"] = "none"]
    <3>1. f \in [Operations -> Results] /\ f["open"] = "none" /\ (Sending(f) => sends > 0)
      BY <1>0, <2>1 DEF Results, Operations, Sending, OneConnection
    <3>2. HandleError(f, sends) /\ UNCHANGED <<stage, opened, forgotten, assertion>>
      BY <1>8, <2>2 DEF HandleRead
    <3>3. sends \in 0 .. MaxSends /\ stage' \in {"resolve", "connect", "handshake"} /\ forgotten' \in BOOLEAN
      BY <3>2 DEF TypeOK
    <3> HIDE DEF f
    <3> QED BY <1>8, <2>1, <3>1, <3>2, <3>3, HandleErrorInv
  <2>3. CASE op["read"] # "failed" /\ connected
    <3> DEFINE f == [op EXCEPT !["read"] = "pending"]
    <3>1. f \in [Operations -> Results] /\ SameKinds(op, f)
      BY <1>0, <2>1 DEF Results, Operations, Reading, SameKinds
    <3>2. op' = f \/ op' \in Closing(f)
      BY <1>8, <2>3 DEF HandleRead
    <3>3. op' \in [Operations -> Results] /\ SameKinds(f, op')
      <4> HIDE DEF f
      <4>1. CASE op' = f
        BY <3>1, <4>1 DEF SameKinds
      <4>2. CASE op' \in Closing(f)
        BY <3>1, <4>2, ClosingKeeps
      <4> QED BY <3>2, <4>1, <4>2
    <3>4. SameKinds(op, op')
      BY <3>1, <3>3 DEF SameKinds
    <3>5. UNCHANGED <<level, opened, timer, stage, connected, sends, heard, forgotten, assertion>>
      BY <1>8, <2>3 DEF HandleRead
    <3> QED BY <3>3, <3>4, <3>5, SameKindsInv
  <2>4. CASE op["read"] # "failed" /\ ~connected
    <3>1. /\ op' = [op EXCEPT !["read"] = "none"] /\ assertion' = "StartRead"
          /\ UNCHANGED <<level, opened, timer, stage, connected, sends, heard, forgotten>>
      BY <1>8, <2>4 DEF HandleRead
    <3>2. op' \in [Operations -> Results] /\ op'["open"] = "none" /\ ~Reading(op') /\ (Sending(op') <=> Sending(op))
      BY <1>0, <2>1, <3>1 DEF Results, Operations, Reading, Sending
    <3>3. TypeOK'
      BY <3>1, <3>2 DEF TypeOK
    <3>4. OneConnection'
      BY <1>8, <2>1, <2>4, <3>1, <3>2 DEF OneConnection
    <3>5. OpenedForOperations'
      BY <2>1, <3>1 DEF OpenedForOperations
    <3> QED BY <3>3, <3>4, <3>5
  <2> QED BY <2>2, <2>3, <2>4
<1>9. CASE HandleWritten /\ assertion = "none"
  <2>1. Sending(op) /\ op # Idle /\ op["open"] = "none" /\ ~timer /\ level # "STOPPED"
        /\ sends \in 1 .. MaxSends
    BY <1>0, <1>9 DEF HandleWritten, OneConnection, Sending, TypeOK
  <2>2. CASE op["write"] = "failed"
    <3> DEFINE f == [op EXCEPT !["write"] = "none"]
    <3>1. f \in [Operations -> Results] /\ f["open"] = "none" /\ ~Sending(f)
      BY <1>0, <2>1 DEF Results, Operations, Sending
    <3>2. HandleError(f, sends - 1) /\ UNCHANGED <<stage, opened, forgotten, assertion>>
      BY <1>9, <2>2 DEF HandleWritten
    <3>3. sends - 1 \in 0 .. MaxSends /\ stage' \in {"resolve", "connect", "handshake"} /\ forgotten' \in BOOLEAN
      BY <2>1, <3>2, WebSocketAssumption DEF TypeOK
    <3> HIDE DEF f
    <3> QED BY <1>9, <2>1, <3>1, <3>2, <3>3, HandleErrorInv
  <2>3. CASE op["write"] # "failed"
    <3>1. /\ op' = [op EXCEPT !["write"] = IF sends = 1 THEN "none" ELSE "pending"]
          /\ sends' = sends - 1 /\ forgotten' \in BOOLEAN
          /\ UNCHANGED <<level, opened, timer, stage, connected, heard, assertion>>
      BY <1>9, <2>3 DEF HandleWritten, TypeOK
    <3>2. op' \in [Operations -> Results] /\ op'["open"] = "none" /\ (Reading(op') <=> Reading(op))
      BY <1>0, <2>1, <3>1 DEF Results, Operations, Reading
    <3>3. Sending(op') <=> sends # 1
      BY <1>0, <3>1 DEF Operations, Sending
    <3>4. sends' \in 0 .. MaxSends /\ (sends # 1 => sends' > 0) /\ (sends = 1 => sends' = 0)
      BY <2>1, <3>1, WebSocketAssumption
    <3>5. op' = Idle => sends' = 0 /\ ~Reading(op)
      BY <3>2, <3>3, <3>4, IdleIff DEF Reading, Sending
    <3>6. TypeOK'
      BY <3>1, <3>2, <3>4 DEF TypeOK
    <3>7. OneConnection'
      BY <1>9, <2>1, <3>1, <3>2, <3>3, <3>4, <3>5 DEF OneConnection
    <3>8. OpenedForOperations'
      BY <2>1, <3>1 DEF OpenedForOperations
    <3> QED BY <3>6, <3>7, <3>8
  <2> QED BY <2>2, <2>3
<1>10. CASE UNCHANGED vars
  BY <1>10 DEF vars, TypeOK, OneConnection, OpenedForOperations, Reading, Sending
<1> QED BY <1>1, <1>2, <1>3, <1>4, <1>5, <1>6, <1>7, <1>8, <1>9, <1>10 DEF Next

\* The connection, its operations and what the owner was told always agree: an
\* attempt never overlaps what is left of an earlier connection, the timer runs
\* only in an opened client that has nothing under way, and the assertion of
\* HandleRetryTimerExpired holds.
THEOREM StaysConsistent == Spec => []Consistent
<1>1. Spec => []IInv
  BY InitInv, NextInv, PTL DEF Spec
<1>2. IInv => Consistent
  BY DEF IInv
<1> QED BY <1>1, <1>2, PTL

-----------------------------------------------------------------------------
\* A server's connection.

ServerPhases ==
    /\ ~accepted => sop["read"] = "none" /\ sop["write"] = "none"
    /\ accepted => sop["open"] = "none"
    /\ busy \in {"state", "receive"} => sop["read"] # "none"
    /\ busy = "error" => closeRequested

MessagesQueued ==
    /\ Len(pendingWrites) = sent - written
    /\ \A i \in 1..Len(pendingWrites) : pendingWrites[i] = written + i
    /\ ~writePending /\ ~closeRequested => pendingWrites = <<>>

ServerInv ==
    /\ Connection!TypeOK /\ Connection!OpsCounted /\ Connection!NothingLeft
    /\ ServerPhases /\ MessagesQueued

\* The initial state satisfies the inductive invariant.
LEMMA ServerInitInv == Connection!Init => ServerInv
<1> SUFFICES ASSUME Connection!Init PROVE ServerInv
  OBVIOUS
<1> USE WebSocketAssumption DEF WebSocketAssumption, Connection!Init, Connection!Idle,
     Connection!Operations, Connection!Results
<1>1. Connection!TypeOK
  <2>1. /\ sop \in [Connection!Operations -> Connection!Results]
        /\ pendingWrites \in Seq(1..MaxSends)
    OBVIOUS
  <2>2. /\ accepted \in BOOLEAN /\ closeRequested \in BOOLEAN /\ closeReported \in BOOLEAN
        /\ writePending \in BOOLEAN /\ owned \in BOOLEAN /\ linked \in BOOLEAN /\ deleted \in BOOLEAN
    OBVIOUS
  <2>3. /\ outstanding \in Nat /\ received \in Nat
        /\ sent \in 0..MaxSends /\ written \in 0..MaxSends
    OBVIOUS
  <2>4. busy = "no" /\ sheard = "nothing"
    OBVIOUS
  <2> QED BY <2>1, <2>2, <2>3, <2>4 DEF Connection!TypeOK
<1>2. Connection!OpsCounted
  BY DEF Connection!OpsCounted
<1>3. Connection!NothingLeft /\ ServerPhases
  BY DEF Connection!NothingLeft, ServerPhases
<1>4. MessagesQueued
  BY DEF MessagesQueued
<1> QED BY <1>1, <1>2, <1>3, <1>4 DEF ServerInv

\* Ending operations, by cancel, close or themselves, leaves their handlers to
\* be called.
LEMMA ServerEnding ==
  ASSUME NEW f \in [Connection!Operations -> Connection!Results], NEW g,
         \/ g \in Connection!Cancelled(f) \/ g = Connection!Closed(f)
         \/ \E o \in Connection!Operations :
               /\ f[o] = "pending"
               /\ g = [f EXCEPT ![o] = "done"] \/ g = [f EXCEPT ![o] = "failed"]
  PROVE  /\ g \in [Connection!Operations -> Connection!Results]
         /\ \A o \in Connection!Operations : g[o] = "none" <=> f[o] = "none"
BY DEF Connection!Cancelled, Connection!Closed, Connection!Operations, Connection!Results

\* What a CheckClose does that finds the close not reported and n operations
\* left: it reports the close, and unlinks the handle, if nothing is left.
LEMMA ServerChecked ==
  ASSUME NEW n \in Nat, NEW req \in BOOLEAN, NEW wp \in BOOLEAN, NEW own \in BOOLEAN,
         Connection!CheckClose(n, req, wp, own, own), closeReported = FALSE, n = 0 => ~wp
  PROVE  /\ closeReported' \in BOOLEAN /\ owned' \in BOOLEAN /\ linked' = owned'
         /\ closeReported' <=> (req /\ n = 0)
         /\ closeReported' => ~owned'
<1>1. CASE req /\ n = 0
  BY <1>1 DEF Connection!CheckClose
<1>2. CASE ~(req /\ n = 0)
  <2>1. closeReported' = closeReported /\ owned' = own /\ linked' = own
    BY <1>2 DEF Connection!CheckClose
  <2> QED BY <1>2, <2>1
<1> QED BY <1>1, <1>2

\* While an operation is left the close has not been reported.
LEMMA ServerUnreported ==
  ASSUME ServerInv, NEW o \in Connection!Operations, sop[o] # "none"
  PROVE  closeReported = FALSE /\ outstanding \in Nat /\ outstanding > 0
BY DEF ServerInv, Connection!TypeOK, Connection!OpsCounted, Connection!NothingLeft,
   Connection!Operations

\* A handler that lets operation o end without another keeps the count, and
\* reports the error or the close.
LEMMA ServerEnded ==
  ASSUME ServerInv, NEW o \in Connection!Operations, busy = "no", sop[o] # "none",
         sop' = [sop EXCEPT ![o] = "none"], outstanding' = outstanding - 1,
         writePending' \in BOOLEAN, writePending' <=> sop'["write"] # "none",
         UNCHANGED deleted,
         \/ Connection!ReportError(outstanding', writePending')
         \/ /\ Connection!CheckClose(outstanding', closeRequested, writePending', owned, linked)
            /\ UNCHANGED <<busy, sheard, closeRequested>>
  PROVE  /\ Connection!OpsCounted' /\ Connection!NothingLeft'
         /\ closeRequested' \in BOOLEAN /\ closeReported' \in BOOLEAN
         /\ owned' \in BOOLEAN /\ linked' \in BOOLEAN
         /\ busy' \in {"no", "error"} /\ sheard' \in {"nothing", "opened", "lost"}
         /\ busy' = "error" => closeRequested'
         /\ closeRequested => closeRequested'
<1>1. /\ sop \in [Connection!Operations -> Connection!Results]
      /\ outstanding \in Nat /\ closeRequested \in BOOLEAN
         /\ owned \in BOOLEAN /\ linked = owned /\ deleted \in BOOLEAN
         /\ sheard \in {"nothing", "opened", "lost"} /\ (deleted => closeReported)
  BY DEF ServerInv, Connection!TypeOK, Connection!NothingLeft
<1>2. closeReported = FALSE /\ outstanding \in Nat /\ outstanding > 0
  BY ServerUnreported
<1>3. outstanding' \in Nat
  BY <1>1, <1>2
<1>4. Connection!OpsCounted'
  BY <1>1 DEF ServerInv, Connection!OpsCounted, Connection!Operations
<1>5. outstanding' = 0 => ~writePending'
  BY <1>1, <1>4 DEF Connection!OpsCounted
<1>6. CASE closeRequested = FALSE /\ Connection!ReportError(outstanding', writePending')
  BY <1>1, <1>2, <1>4, <1>6 DEF Connection!ReportError, Connection!NothingLeft,
     Connection!link
<1>7. CASE /\ Connection!CheckClose(outstanding', closeRequested, writePending', owned, linked)
           /\ UNCHANGED <<busy, sheard, closeRequested>>
  <2>1. /\ closeReported' \in BOOLEAN /\ owned' \in BOOLEAN /\ linked' = owned'
        /\ closeReported' <=> (closeRequested /\ outstanding' = 0)
        /\ closeReported' => ~owned'
    BY <1>1, <1>2, <1>3, <1>5, <1>7, ServerChecked
  <2> QED BY <1>1, <1>2, <1>4, <1>7, <2>1 DEF Connection!NothingLeft
<1> QED BY <1>1, <1>6, <1>7 DEF Connection!ReportError

-----------------------------------------------------------------------------
\* The accept's handler keeps the inductive invariant.
LEMMA ServerOnAcceptInv == ServerInv /\ Connection!OnAccept => ServerInv'
<1> SUFFICES ASSUME ServerInv, Connection!OnAccept PROVE ServerInv'
  OBVIOUS
<1> USE DEF ServerInv, Connection!out
<1>1. /\ busy = "no" /\ sop["open"] \in {"done", "failed"} /\ accepted = FALSE
      /\ sop["read"] = "none" /\ sop["write"] = "none" /\ writePending = FALSE
      /\ sop \in [Connection!Operations -> Connection!Results]
      /\ UNCHANGED <<writePending, pendingWrites, sent, written, deleted, received>>
  BY DEF Connection!OnAccept, ServerPhases, Connection!TypeOK, Connection!OpsCounted
<1>2. closeReported = FALSE /\ outstanding \in Nat /\ outstanding > 0
  BY <1>1, ServerUnreported DEF Connection!Operations
<1>3. CASE sop["open"] = "done" /\ ~closeRequested
  <2>1. /\ accepted' = TRUE /\ sop' = [sop EXCEPT !["open"] = "none", !["read"] = "pending"]
        /\ busy' = "state" /\ sheard' = "opened"
        /\ UNCHANGED <<outstanding, closeRequested, owned, linked, closeReported>>
    BY <1>3 DEF Connection!OnAccept, Connection!link
  <2>2. Connection!TypeOK'
    BY <1>1, <2>1 DEF Connection!TypeOK, Connection!Operations, Connection!Results
  <2>3. Connection!OpsCounted'
    BY <1>1, <2>1 DEF Connection!OpsCounted, Connection!Operations
  <2>4. Connection!NothingLeft'
    BY <1>1, <1>2, <2>1 DEF Connection!NothingLeft, Connection!TypeOK
  <2>5. ServerPhases'
    BY <1>1, <2>1 DEF ServerPhases, Connection!Operations
  <2>6. MessagesQueued'
    BY <1>1, <2>1 DEF MessagesQueued
  <2> QED BY <2>2, <2>3, <2>4, <2>5, <2>6
<1>4. CASE ~(sop["open"] = "done" /\ ~closeRequested)
  <2>1. /\ sop' = [sop EXCEPT !["open"] = "none"] /\ outstanding' = outstanding - 1
        /\ accepted' = FALSE
        /\ \/ Connection!ReportError(outstanding', writePending')
           \/ /\ Connection!CheckClose(outstanding', closeRequested, writePending', owned, linked)
              /\ UNCHANGED <<busy, sheard, closeRequested>>
    BY <1>1, <1>4 DEF Connection!OnAccept
  <2>2. writePending' \in BOOLEAN /\ (writePending' <=> sop'["write"] # "none")
    BY <1>1, <2>1 DEF Connection!Operations
  <2>3. /\ Connection!OpsCounted' /\ Connection!NothingLeft'
        /\ closeRequested' \in BOOLEAN /\ closeReported' \in BOOLEAN
        /\ owned' \in BOOLEAN /\ linked' \in BOOLEAN
        /\ busy' \in {"no", "error"} /\ sheard' \in {"nothing", "opened", "lost"}
        /\ busy' = "error" => closeRequested'
        /\ closeRequested => closeRequested'
    BY <1>1, <2>1, <2>2, ServerEnded DEF Connection!Operations
  <2>4. sop' \in [Connection!Operations -> Connection!Results] /\ outstanding' \in Nat
    <3>1. outstanding' \in Nat
      BY <1>2, <2>1
    <3> QED BY <1>1, <2>1, <3>1 DEF Connection!Results
  <2>5. Connection!TypeOK'
    BY <1>1, <2>1, <2>2, <2>3, <2>4 DEF Connection!TypeOK
  <2>6. ServerPhases'
    BY <1>1, <2>1, <2>3 DEF ServerPhases, Connection!Operations
  <2>7. MessagesQueued'
    BY <1>1, <2>3 DEF MessagesQueued, Connection!TypeOK
  <2> QED BY <2>3, <2>5, <2>6, <2>7
<1> QED BY <1>3, <1>4

\* So does the read's, whatever it has read.
LEMMA ServerOnReadInv == ServerInv /\ Connection!OnRead => ServerInv'
<1> SUFFICES ASSUME ServerInv, Connection!OnRead PROVE ServerInv'
  OBVIOUS
<1> USE DEF ServerInv, Connection!out
<1>1. /\ busy = "no" /\ sop["read"] \in {"done", "failed"} /\ accepted = TRUE
      /\ sop["open"] = "none" /\ sop \in [Connection!Operations -> Connection!Results]
      /\ UNCHANGED <<accepted, writePending, pendingWrites, sent, written, deleted>>
  BY DEF Connection!OnRead, ServerPhases, Connection!TypeOK
<1>2. closeReported = FALSE /\ outstanding \in Nat /\ outstanding > 0
  BY <1>1, ServerUnreported DEF Connection!Operations
<1>3. CASE sop["read"] = "done" /\ ~closeRequested
  <2> DEFINE again == [sop EXCEPT !["read"] = "pending"]
  <2>1. again \in [Connection!Operations -> Connection!Results]
    BY <1>1 DEF Connection!Results
  <2>2. UNCHANGED <<outstanding, sheard>> /\ closeRequested = FALSE
    BY <1>3 DEF Connection!OnRead, Connection!TypeOK
  <2>3. \/ /\ received' = received + 1 /\ busy' = "receive" /\ sop' = again
           /\ UNCHANGED <<closeRequested, owned, linked, closeReported>>
        \/ /\ sop' \in Connection!Cancelled(again) /\ closeRequested' = TRUE
           /\ Connection!CheckClose(outstanding, TRUE, writePending, owned, linked)
           /\ UNCHANGED <<busy, received>>
    BY <1>3 DEF Connection!OnRead, Connection!link
  <2>4. /\ sop' \in [Connection!Operations -> Connection!Results]
        /\ \A o \in Connection!Operations : sop'[o] = "none" <=> sop[o] = "none"
    <3>1. \A o \in Connection!Operations : again[o] = "none" <=> sop[o] = "none"
      BY <1>1 DEF Connection!Operations
    <3>2. CASE sop' = again
      BY <2>1, <3>1, <3>2
    <3>3. CASE sop' \in Connection!Cancelled(again)
      BY <2>1, <3>1, <3>3, ServerEnding
    <3> QED BY <2>3, <3>2, <3>3
  <2>5. Connection!OpsCounted'
    BY <1>1, <2>2, <2>4 DEF Connection!OpsCounted, Connection!Operations
  <2>6. /\ closeReported' \in BOOLEAN /\ owned' \in BOOLEAN /\ linked' = owned'
        /\ closeReported' => owned' = FALSE
        /\ closeReported' = FALSE
    <3>1. CASE UNCHANGED <<closeRequested, owned, linked, closeReported>>
      BY <1>2, <3>1 DEF Connection!TypeOK, Connection!NothingLeft
    <3>2. CASE Connection!CheckClose(outstanding, TRUE, writePending, owned, linked)
      BY <1>2, <3>2 DEF Connection!CheckClose, Connection!TypeOK, Connection!NothingLeft
    <3> QED BY <2>3, <3>1, <3>2
  <2>7. closeRequested' \in BOOLEAN /\ busy' \in {"no", "receive"} /\ received' \in Nat
    <3>1. received \in Nat
      BY DEF Connection!TypeOK
    <3>2. received' = received + 1 \/ received' = received
      BY <2>3
    <3>3. received' \in Nat
      BY <3>1, <3>2
    <3>4. closeRequested' \in BOOLEAN /\ busy' \in {"no", "receive"}
      BY <1>1, <2>2, <2>3
    <3> QED BY <3>3, <3>4
  <2>8. Connection!TypeOK'
    BY <1>1, <2>2, <2>4, <2>6, <2>7 DEF Connection!TypeOK
  <2>9. Connection!NothingLeft'
    BY <1>1, <1>2, <2>2, <2>6 DEF Connection!NothingLeft, Connection!TypeOK
  <2>10. ServerPhases'
    BY <1>1, <2>4, <2>7 DEF ServerPhases, Connection!Operations
  <2>11. MessagesQueued'
    BY <1>1, <2>2, <2>3 DEF MessagesQueued
  <2> QED BY <2>5, <2>8, <2>9, <2>10, <2>11
<1>4. CASE ~(sop["read"] = "done" /\ ~closeRequested)
  <2>1. /\ sop' = [sop EXCEPT !["read"] = "none"] /\ outstanding' = outstanding - 1
        /\ received' = received
        /\ \/ Connection!ReportError(outstanding', writePending')
           \/ /\ Connection!CheckClose(outstanding', closeRequested, writePending', owned, linked)
              /\ UNCHANGED <<busy, sheard, closeRequested>>
    BY <1>1, <1>4 DEF Connection!OnRead
  <2>2. writePending' \in BOOLEAN /\ (writePending' <=> sop'["write"] # "none")
    BY <1>1, <2>1 DEF Connection!Operations, Connection!OpsCounted, Connection!TypeOK
  <2>3. /\ Connection!OpsCounted' /\ Connection!NothingLeft'
        /\ closeRequested' \in BOOLEAN /\ closeReported' \in BOOLEAN
        /\ owned' \in BOOLEAN /\ linked' \in BOOLEAN
        /\ busy' \in {"no", "error"} /\ sheard' \in {"nothing", "opened", "lost"}
        /\ busy' = "error" => closeRequested'
        /\ closeRequested => closeRequested'
    BY <1>1, <2>1, <2>2, ServerEnded DEF Connection!Operations
  <2>4. sop' \in [Connection!Operations -> Connection!Results] /\ outstanding' \in Nat
    <3>1. outstanding' \in Nat
      BY <1>2, <2>1
    <3> QED BY <1>1, <2>1, <3>1 DEF Connection!Results
  <2>5. Connection!TypeOK'
    BY <1>1, <2>1, <2>2, <2>3, <2>4 DEF Connection!TypeOK
  <2>6. ServerPhases'
    BY <1>1, <2>1, <2>3 DEF ServerPhases, Connection!Operations
  <2>7. MessagesQueued'
    BY <1>1, <2>3 DEF MessagesQueued, Connection!TypeOK
  <2> QED BY <2>3, <2>5, <2>6, <2>7
<1> QED BY <1>3, <1>4

\* What is left when the first message is taken from a queue.
LEMMA Taking ==
  ASSUME NEW S, NEW s \in Seq(S), s # <<>>
  PROVE  /\ Tail(s) \in Seq(S) /\ Len(Tail(s)) = Len(s) - 1 /\ Len(s) > 0
         /\ Head(s) = s[1] /\ Head(s) \in S
         /\ \A i \in 1..Len(Tail(s)) : Tail(s)[i] = s[i + 1]
<1>1. Len(s) \in Nat /\ Len(s) > 0
  OBVIOUS
<1>2. Head(s) = s[1] /\ Head(s) \in S
  BY <1>1
<1>3. Tail(s) \in Seq(S) /\ Len(Tail(s)) = Len(s) - 1
  BY <1>1
<1>4. \A i \in 1..Len(Tail(s)) : Tail(s)[i] = s[i + 1]
  BY <1>1, <1>3
<1> QED BY <1>1, <1>2, <1>3, <1>4

\* So does the write's, which takes the next message from the queue.
LEMMA ServerOnWriteInv == ServerInv /\ Connection!OnWrite => ServerInv'
<1> SUFFICES ASSUME ServerInv, Connection!OnWrite PROVE ServerInv'
  OBVIOUS
<1> USE DEF ServerInv
<1>1. /\ busy = "no" /\ sop["write"] \in {"done", "failed"} /\ accepted = TRUE
      /\ sop["open"] = "none" /\ sop \in [Connection!Operations -> Connection!Results] /\ writePending = TRUE
      /\ UNCHANGED <<accepted, sent, deleted, received>>
  BY DEF Connection!OnWrite, ServerPhases, Connection!TypeOK, Connection!OpsCounted
<1>2. closeReported = FALSE /\ outstanding \in Nat /\ outstanding > 0
  BY <1>1, ServerUnreported DEF Connection!Operations
<1>3. pendingWrites \in Seq(1..MaxSends) /\ sent \in 0..MaxSends /\ written \in 0..MaxSends
  BY DEF Connection!TypeOK
<1>4. CASE sop["write"] = "done" /\ ~closeRequested /\ pendingWrites # <<>>
  <2>1. /\ written' = Head(pendingWrites) /\ pendingWrites' = Tail(pendingWrites)
        /\ sop' = [sop EXCEPT !["write"] = "pending"]
        /\ UNCHANGED <<outstanding, writePending, closeRequested, owned, linked, closeReported, busy, sheard>>
    BY <1>4 DEF Connection!OnWrite, Connection!link
  <2>2. /\ Len(pendingWrites') = Len(pendingWrites) - 1
        /\ \A i \in 1..Len(pendingWrites') : pendingWrites'[i] = pendingWrites[i + 1]
        /\ written' \in 1..MaxSends /\ pendingWrites' \in Seq(1..MaxSends)
        /\ written' = pendingWrites[1] /\ Len(pendingWrites) > 0
    BY <1>3, <1>4, <2>1, Taking
  <2>3. /\ Len(pendingWrites) = sent - written
        /\ \A i \in 1..Len(pendingWrites) : pendingWrites[i] = written + i
    BY DEF MessagesQueued
  <2>4. written' = written + 1
    BY <1>3, <2>2, <2>3
  <2>5. /\ Len(pendingWrites') = sent' - written'
        /\ \A i \in 1..Len(pendingWrites') : pendingWrites'[i] = written' + i
    BY <1>1, <1>3, <2>2, <2>3, <2>4
  <2>6. MessagesQueued'
    BY <1>1, <2>1, <2>5 DEF MessagesQueued
  <2>7. /\ sop' \in [Connection!Operations -> Connection!Results]
        /\ \A o \in Connection!Operations : sop'[o] = "none" <=> sop[o] = "none"
    BY <1>1, <2>1 DEF Connection!Results
  <2>8. Connection!TypeOK'
    BY <1>1, <1>3, <2>1, <2>2, <2>7 DEF Connection!TypeOK
  <2>9. Connection!OpsCounted' /\ ServerPhases'
    BY <1>1, <2>1, <2>7 DEF Connection!OpsCounted, ServerPhases, Connection!Operations
  <2>10. Connection!NothingLeft'
    BY <1>1, <2>1 DEF Connection!NothingLeft
  <2> QED BY <2>6, <2>8, <2>9, <2>10
<1>5. CASE ~(sop["write"] = "done" /\ ~closeRequested /\ pendingWrites # <<>>)
  <2>1. /\ sop' = [sop EXCEPT !["write"] = "none"] /\ outstanding' = outstanding - 1
        /\ writePending' = FALSE
        /\ UNCHANGED <<written, pendingWrites>>
        /\ \/ Connection!ReportError(outstanding', writePending')
           \/ /\ Connection!CheckClose(outstanding', closeRequested, writePending', owned, linked)
              /\ UNCHANGED <<busy, sheard, closeRequested>>
    BY <1>5 DEF Connection!OnWrite
  <2>2. writePending' \in BOOLEAN /\ (writePending' <=> sop'["write"] # "none")
    BY <1>1, <2>1 DEF Connection!Operations
  <2>3. /\ Connection!OpsCounted' /\ Connection!NothingLeft'
        /\ closeRequested' \in BOOLEAN /\ closeReported' \in BOOLEAN
        /\ owned' \in BOOLEAN /\ linked' \in BOOLEAN
        /\ busy' \in {"no", "error"} /\ sheard' \in {"nothing", "opened", "lost"}
        /\ busy' = "error" => closeRequested'
        /\ closeRequested => closeRequested'
    BY <1>1, <2>1, <2>2, ServerEnded DEF Connection!Operations
  <2>4. sop' \in [Connection!Operations -> Connection!Results] /\ outstanding' \in Nat
    <3>1. outstanding' \in Nat
      BY <1>2, <2>1
    <3> QED BY <1>1, <2>1, <3>1 DEF Connection!Results
  <2>5. Connection!TypeOK'
    BY <1>1, <2>1, <2>2, <2>3, <2>4 DEF Connection!TypeOK
  <2>6. ServerPhases'
    BY <1>1, <2>1, <2>3 DEF ServerPhases, Connection!Operations
  <2>7. closeRequested' \/ pendingWrites' = <<>>
    <3>1. CASE sop["write"] = "failed"
      BY <1>5, <3>1, <2>1, <2>3 DEF Connection!OnWrite, Connection!ReportError
    <3>2. CASE sop["write"] = "done"
      BY <1>5, <3>2, <2>1, <2>3
    <3> QED BY <1>1, <3>1, <3>2
  <2>8. MessagesQueued'
    BY <1>1, <2>1, <2>7 DEF MessagesQueued
  <2> QED BY <2>3, <2>5, <2>6, <2>8
<1> QED BY <1>4, <1>5

\* So do the sends and the closes of the owner and of the server.
LEMMA ServerSendInv == ServerInv /\ Connection!Send => ServerInv'
<1> SUFFICES ASSUME ServerInv, Connection!Send PROVE ServerInv'
  OBVIOUS
<1> USE WebSocketAssumption DEF WebSocketAssumption, ServerInv
<1>1. /\ linked /\ accepted /\ closeRequested = FALSE /\ sent < MaxSends /\ sent' = sent + 1
      /\ UNCHANGED <<accepted, closeRequested, owned, linked, closeReported, deleted, busy, sheard, received>>
  BY DEF Connection!Send, Connection!flags, Connection!link, Connection!TypeOK
<1>2. /\ sop \in [Connection!Operations -> Connection!Results] /\ outstanding \in Nat /\ pendingWrites \in Seq(1..MaxSends)
      /\ sent \in 0..MaxSends /\ written \in 0..MaxSends
  BY DEF Connection!TypeOK
<1>3. closeReported = FALSE /\ deleted = FALSE
  BY <1>1 DEF Connection!NothingLeft, Connection!TypeOK
<1>4. CASE writePending
  <2>1. /\ pendingWrites' = Append(pendingWrites, sent + 1)
        /\ UNCHANGED <<sop, outstanding, writePending, written>>
    BY <1>1, <1>4 DEF Connection!Send
  <2>2. pendingWrites' \in Seq(1..MaxSends) /\ sent' \in 0..MaxSends
    BY <1>1, <1>2, <2>1
  <2>3. MessagesQueued'
    BY <1>1, <1>2, <1>4, <2>1 DEF MessagesQueued
  <2>4. Connection!TypeOK'
    BY <1>1, <1>2, <2>1, <2>2 DEF Connection!TypeOK
  <2>5. Connection!OpsCounted' /\ Connection!NothingLeft' /\ ServerPhases'
    BY <1>1, <2>1 DEF Connection!OpsCounted, Connection!NothingLeft, ServerPhases
  <2> QED BY <2>3, <2>4, <2>5
<1>5. CASE ~writePending
  <2>1. /\ written' = sent + 1 /\ writePending' = TRUE
        /\ sop' = [sop EXCEPT !["write"] = "pending"] /\ outstanding' = outstanding + 1
        /\ pendingWrites' = pendingWrites
    BY <1>1, <1>5 DEF Connection!Send
  <2>2. sop' \in [Connection!Operations -> Connection!Results] /\ sop["write"] = "none"
    BY <1>2, <1>5, <2>1 DEF Connection!OpsCounted, Connection!Results
  <2>3. sent' \in 0..MaxSends /\ written' \in 0..MaxSends /\ outstanding' \in Nat
    BY <1>1, <1>2, <2>1
  <2>4. Connection!TypeOK'
    BY <1>1, <2>1, <2>2, <2>3 DEF Connection!TypeOK
  <2>5. pendingWrites = <<>>
    BY <1>1, <1>5 DEF MessagesQueued
  <2>6. MessagesQueued'
    BY <1>1, <1>2, <2>1, <2>5 DEF MessagesQueued
  <2>7. Connection!OpsCounted'
    BY <1>2, <2>1, <2>2 DEF Connection!OpsCounted, Connection!Operations
  <2>8. Connection!NothingLeft'
    BY <1>1, <1>3 DEF Connection!NothingLeft
  <2>9. ServerPhases'
    BY <1>1, <1>2, <2>1 DEF ServerPhases, Connection!Operations
  <2> QED BY <2>4, <2>6, <2>7, <2>8, <2>9
<1> QED BY <1>4, <1>5

\* A close by either of them: own tells whether the handle is still there.
LEMMA ServerCloseInv ==
  ASSUME ServerInv, NEW own \in BOOLEAN, Connection!Close(own, own), own \in {owned, FALSE},
         own = owned => busy = "no",
         UNCHANGED <<outstanding, accepted, Connection!out, deleted, busy, sheard, received>>
  PROVE  ServerInv'
<1> USE DEF ServerInv, Connection!out
<1>1. /\ sop \in [Connection!Operations -> Connection!Results] /\ closeReported \in BOOLEAN /\ outstanding \in Nat
      /\ closeRequested \in BOOLEAN /\ writePending \in BOOLEAN
  BY DEF Connection!TypeOK
<1>2. CASE closeRequested
  <2>1. /\ closeReported' = closeReported /\ owned' = own
        /\ linked' = own /\ UNCHANGED <<sop, closeRequested>>
    BY <1>2 DEF Connection!Close
  <2>2. Connection!TypeOK'
    BY <2>1 DEF Connection!TypeOK
  <2>3. Connection!NothingLeft'
    BY <2>1 DEF Connection!NothingLeft, Connection!TypeOK
  <2>4. Connection!OpsCounted' /\ ServerPhases' /\ MessagesQueued'
    BY <2>1 DEF Connection!OpsCounted, ServerPhases, MessagesQueued
  <2> QED BY <2>2, <2>3, <2>4
<1>3. CASE ~closeRequested
  <2>1. /\ closeRequested' = TRUE
        /\ sop' \in Connection!Cancelled(sop) /\ Connection!CheckClose(outstanding, TRUE, writePending, own, own)
    BY <1>3 DEF Connection!Close
  <2>2. /\ sop' \in [Connection!Operations -> Connection!Results]
        /\ \A o \in Connection!Operations : sop'[o] = "none" <=> sop[o] = "none"
    BY <1>1, <2>1, ServerEnding
  <2>3. closeReported = FALSE /\ deleted = FALSE /\ (outstanding = 0 => ~writePending)
    BY <1>1, <1>3 DEF Connection!NothingLeft, Connection!OpsCounted, Connection!TypeOK
  <2>4. /\ closeReported' \in BOOLEAN /\ owned' \in BOOLEAN /\ linked' = owned'
        /\ closeReported' <=> outstanding = 0
        /\ closeReported' => ~owned'
    BY <1>1, <2>1, <2>3, ServerChecked
  <2>5. outstanding = 0 => busy = "no"
    BY <1>1, <1>3 DEF Connection!OpsCounted, ServerPhases, Connection!Operations,
       Connection!TypeOK
  <2>6. Connection!TypeOK'
    BY <2>1, <2>2, <2>4 DEF Connection!TypeOK
  <2>7. Connection!OpsCounted' /\ ServerPhases' /\ MessagesQueued'
    BY <2>1, <2>2 DEF Connection!OpsCounted, ServerPhases, MessagesQueued,
       Connection!Operations
  <2>8. Connection!NothingLeft'
    BY <2>1, <2>3, <2>4, <2>5 DEF Connection!NothingLeft
  <2> QED BY <2>6, <2>7, <2>8
<1> QED BY <1>2, <1>3

\* A callback that returns closes the socket after an error, and checks.
LEMMA ServerReturnInv == ServerInv /\ Connection!Return => ServerInv'
<1> SUFFICES ASSUME ServerInv, Connection!Return PROVE ServerInv'
  OBVIOUS
<1> USE DEF ServerInv, Connection!out, Connection!flags
<1>1. /\ busy # "no" /\ busy' = "no" /\ sop' \in {sop, Connection!Closed(sop)}
      /\ Connection!CheckClose(outstanding, closeRequested, writePending, owned, linked)
      /\ UNCHANGED <<outstanding, accepted, closeRequested, writePending, pendingWrites, sent, written,
                     deleted, sheard, received>>
  BY DEF Connection!Return
<1>2. /\ sop \in [Connection!Operations -> Connection!Results] /\ closeReported = FALSE /\ deleted = FALSE /\ linked = owned
      /\ outstanding \in Nat /\ closeRequested \in BOOLEAN /\ writePending \in BOOLEAN /\ owned \in BOOLEAN
      /\ outstanding = 0 => ~writePending
  BY <1>1 DEF Connection!TypeOK, Connection!NothingLeft, Connection!OpsCounted
<1>3. /\ sop' \in [Connection!Operations -> Connection!Results]
      /\ \A o \in Connection!Operations : sop'[o] = "none" <=> sop[o] = "none"
  <2>1. CASE sop' = sop
    BY <1>2, <2>1
  <2>2. CASE sop' = Connection!Closed(sop)
    BY <1>2, <2>2, ServerEnding
  <2> QED BY <1>1, <2>1, <2>2
<1>4. /\ closeReported' \in BOOLEAN /\ owned' \in BOOLEAN /\ linked' = owned'
      /\ closeReported' <=> (closeRequested /\ outstanding = 0)
      /\ closeReported' => ~owned'
  BY <1>1, <1>2, ServerChecked
<1>5. Connection!TypeOK'
  BY <1>1, <1>3, <1>4 DEF Connection!TypeOK
<1>6. Connection!OpsCounted' /\ ServerPhases' /\ MessagesQueued'
  BY <1>1, <1>3 DEF Connection!OpsCounted, ServerPhases, MessagesQueued,
     Connection!Operations
<1>7. Connection!NothingLeft'
  BY <1>1, <1>2, <1>4 DEF Connection!NothingLeft
<1> QED BY <1>5, <1>6, <1>7

\* Every step keeps the inductive invariant.
LEMMA ServerNextInv == ServerInv /\ [Connection!Next]_(Connection!vars) => ServerInv'
<1> SUFFICES ASSUME ServerInv, [Connection!Next]_(Connection!vars) PROVE ServerInv'
  OBVIOUS
<1>1. ASSUME NEW o \in Connection!Operations, Connection!Complete(o) PROVE ServerInv'
  <2> USE DEF ServerInv, Connection!out, Connection!flags, Connection!link
  <2>1. /\ sop \in [Connection!Operations -> Connection!Results] /\ sop[o] = "pending"
        /\ sop' = [sop EXCEPT ![o] = "done"] \/ sop' = [sop EXCEPT ![o] = "failed"]
        /\ UNCHANGED <<outstanding, Connection!flags, Connection!link, Connection!out, deleted, busy, sheard, received>>
    BY <1>1 DEF Connection!Complete, Connection!TypeOK
  <2>2. /\ sop' \in [Connection!Operations -> Connection!Results]
        /\ \A p \in Connection!Operations : sop'[p] = "none" <=> sop[p] = "none"
    BY <2>1, ServerEnding
  <2>3. Connection!TypeOK'
    BY <2>1, <2>2 DEF Connection!TypeOK
  <2>4. /\ Connection!OpsCounted' /\ ServerPhases'
        /\ MessagesQueued' /\ Connection!NothingLeft'
    BY <2>1, <2>2 DEF Connection!OpsCounted, ServerPhases, MessagesQueued,
       Connection!NothingLeft, Connection!Operations
  <2> QED BY <2>3, <2>4
<1>2. CASE Connection!OnAccept \/ Connection!OnRead \/ Connection!OnWrite \/ Connection!Return \/ Connection!Send
  BY <1>2, ServerOnAcceptInv, ServerOnReadInv, ServerOnWriteInv, ServerReturnInv,
     ServerSendInv
<1>3. CASE Connection!Delete
  BY <1>3 DEF Connection!Delete, ServerInv, Connection!TypeOK, Connection!OpsCounted,
     Connection!NothingLeft, ServerPhases, MessagesQueued, Connection!flags, Connection!link, Connection!out
<1>4. CASE Connection!OwnerCloses
  <2>1. CASE owned = FALSE
    BY <1>4, <2>1 DEF Connection!OwnerCloses, ServerInv, Connection!NothingLeft,
       Connection!TypeOK
  <2>2. CASE owned # FALSE
    BY <1>4, <2>2, ServerCloseInv DEF Connection!OwnerCloses
  <2> QED BY <2>1, <2>2
<1>5. CASE Connection!ServerCloses
  <2>1. owned \in BOOLEAN /\ linked = owned
    BY DEF ServerInv, Connection!TypeOK, Connection!NothingLeft
  <2> QED BY <1>5, <2>1, ServerCloseInv DEF Connection!ServerCloses
<1>6. CASE UNCHANGED Connection!vars
  BY <1>6 DEF Connection!vars, ServerInv, Connection!TypeOK, Connection!OpsCounted,
     Connection!NothingLeft, ServerPhases, MessagesQueued, Connection!flags, Connection!link, Connection!out
<1> QED BY <1>1, <1>2, <1>3, <1>4, <1>5, <1>6 DEF Connection!Next, Connection!Handler

\* The inductive invariant holds in every behaviour.
THEOREM ServerInvariance == Connection!Spec => []ServerInv
  BY ServerInitInv, ServerNextInv, PTL DEF Connection!Spec

\* The counters, the flags and the handle agree, and a close is reported
\* exactly when nothing is left that could use the connection (CheckClose).
THEOREM ServerStaysConsistent == Connection!Spec => []Connection!Consistent
<1>1. ServerInv => Connection!Consistent
  BY DEF ServerInv, Connection!Consistent
<1> QED BY <1>1, ServerInvariance, PTL

-----------------------------------------------------------------------------
\* The initial state is one of the Channel.
LEMMA ServerInitRefines == Connection!Init => Connection!Owner!Init
  BY DEF Connection!Init, Connection!Owner!Init, Connection!state

\* A handler that ends an operation tells the owner of its error, or nothing.
LEMMA ServerReportRefines ==
  ASSUME ServerInv, NEW n, NEW wp, deleted = FALSE,
         \/ Connection!ReportError(n, wp)
         \/ UNCHANGED <<busy, sheard, closeRequested>>,
         UNCHANGED <<accepted, deleted, received, sent, written>>
  PROVE  [Connection!Owner!Next]_<<Connection!state, sheard, received, sent, written>>
<1>1. CASE closeRequested = FALSE /\ Connection!ReportError(n, wp)
  <2>1. sheard' = "lost" /\ closeRequested' = TRUE
    BY <1>1 DEF Connection!ReportError
  <2>2. Connection!Owner!Lose
    BY <1>1, <2>1 DEF Connection!Owner!Lose, Connection!state
  <2> QED BY <2>2 DEF Connection!Owner!Next
<1>2. CASE UNCHANGED <<sheard, closeRequested>>
  BY <1>2 DEF Connection!state
<1>3. closeRequested \in BOOLEAN
  BY DEF ServerInv, Connection!TypeOK
<1> QED BY <1>1, <1>2, <1>3 DEF Connection!ReportError

\* Every step is one of the Channel or leaves what the owner sees alone.
LEMMA ServerNextRefines ==
  ServerInv /\ [Connection!Next]_(Connection!vars)
      => [Connection!Owner!Next]_<<Connection!state, sheard, received, sent, written>>
<1> DEFINE view == <<Connection!state, sheard, received, sent, written>>
<1> SUFFICES ASSUME ServerInv, [Connection!Next]_(Connection!vars)
             PROVE  Connection!Owner!Next \/ UNCHANGED view
  OBVIOUS
<1> USE DEF Connection!flags, Connection!link, Connection!out
<1>0. /\ accepted \in BOOLEAN /\ closeRequested \in BOOLEAN /\ deleted \in BOOLEAN
      /\ deleted => closeRequested
  BY DEF ServerInv, Connection!TypeOK, Connection!NothingLeft
<1>1. ASSUME NEW o \in Connection!Operations, Connection!Complete(o) PROVE UNCHANGED view
  BY <1>1 DEF Connection!Complete, Connection!state
<1>2. ASSUME NEW o \in Connection!Operations, sop[o] # "none" PROVE deleted = FALSE
  BY <1>0, <1>2, ServerUnreported DEF ServerInv, Connection!NothingLeft
<1>3. CASE Connection!OnAccept
  <2>1. sop["open"] # "none" /\ deleted = FALSE
    BY <1>2, <1>3 DEF Connection!OnAccept, Connection!Operations
  <2>2. CASE sop["open"] = "done" /\ ~closeRequested
    <3>1. accepted = FALSE
      BY <1>0, <2>1 DEF ServerInv, ServerPhases
    <3>2. Connection!Owner!Open
      BY <1>3, <2>1, <2>2, <3>1 DEF Connection!OnAccept, Connection!Owner!Open,
         Connection!state
    <3> QED BY <3>2 DEF Connection!Owner!Next
  <2>3. CASE ~(sop["open"] = "done" /\ ~closeRequested)
    <3>1. Connection!ReportError(outstanding', writePending) \/ UNCHANGED <<busy, sheard, closeRequested>>
      BY <1>3, <2>3 DEF Connection!OnAccept
    <3>2. UNCHANGED <<accepted, deleted, received, sent, written>>
      BY <1>3, <2>3 DEF Connection!OnAccept
    <3> QED BY <2>1, <3>1, <3>2, ServerReportRefines
  <2> QED BY <2>2, <2>3
<1>4. CASE Connection!OnRead
  <2>1. sop["read"] # "none" /\ deleted = FALSE /\ accepted = TRUE
    BY <1>0, <1>2, <1>4 DEF Connection!OnRead, Connection!Operations, ServerInv,
       ServerPhases
  <2>2. CASE sop["read"] = "done" /\ ~closeRequested
    <3>1. UNCHANGED <<accepted, deleted, sent, written, sheard>>
      BY <1>4, <2>2 DEF Connection!OnRead
    <3>2. CASE received' = received + 1 /\ closeRequested' = closeRequested
      <4>1. Connection!Owner!Receive
        BY <2>1, <2>2, <3>1, <3>2 DEF Connection!Owner!Receive, Connection!state
      <4> QED BY <4>1 DEF Connection!Owner!Next
    <3>3. CASE received' = received /\ closeRequested' = TRUE
      <4>1. Connection!Owner!Close
        BY <2>1, <2>2, <3>1, <3>3 DEF Connection!Owner!Close, Connection!state
      <4> QED BY <4>1 DEF Connection!Owner!Next
    <3> QED BY <1>4, <2>2, <3>2, <3>3 DEF Connection!OnRead
  <2>3. CASE ~(sop["read"] = "done" /\ ~closeRequested)
    <3>1. Connection!ReportError(outstanding', writePending) \/ UNCHANGED <<busy, sheard, closeRequested>>
      BY <1>4, <2>3 DEF Connection!OnRead
    <3>2. UNCHANGED <<accepted, deleted, received, sent, written>>
      BY <1>4, <2>3 DEF Connection!OnRead
    <3> QED BY <2>1, <3>1, <3>2, ServerReportRefines
  <2> QED BY <2>2, <2>3
<1>5. CASE Connection!OnWrite
  <2>1. sop["write"] # "none" /\ deleted = FALSE /\ accepted = TRUE
    BY <1>0, <1>2, <1>5 DEF Connection!OnWrite, Connection!Operations, ServerInv,
       ServerPhases
  <2>2. CASE sop["write"] = "done" /\ ~closeRequested /\ pendingWrites # <<>>
    <3>1. /\ written' = Head(pendingWrites)
          /\ UNCHANGED <<accepted, closeRequested, deleted, sent, received, sheard>>
      BY <1>5, <2>2 DEF Connection!OnWrite
    <3>2. /\ pendingWrites \in Seq(1..MaxSends) /\ sent \in Nat /\ written \in Nat
          /\ Len(pendingWrites) = sent - written
          /\ \A i \in 1..Len(pendingWrites) : pendingWrites[i] = written + i
      BY WebSocketAssumption DEF WebSocketAssumption, ServerInv, Connection!TypeOK,
         MessagesQueued
    <3>3. /\ Len(pendingWrites) > 0
          /\ Len(pendingWrites) \in Nat /\ Head(pendingWrites) = pendingWrites[1]
      BY <2>2, <3>2, Taking
    <3>4. written < sent /\ written' = written + 1
      BY <3>1, <3>2, <3>3
    <3>5. Connection!Owner!Write
      BY <2>1, <2>2, <3>1, <3>4 DEF Connection!Owner!Write, Connection!state
    <3> QED BY <3>5 DEF Connection!Owner!Next
  <2>3. CASE ~(sop["write"] = "done" /\ ~closeRequested /\ pendingWrites # <<>>)
    <3>1. Connection!ReportError(outstanding', FALSE) \/ UNCHANGED <<busy, sheard, closeRequested>>
      BY <1>5, <2>3 DEF Connection!OnWrite
    <3>2. UNCHANGED <<accepted, deleted, received, sent, written>>
      BY <1>5, <2>3 DEF Connection!OnWrite
    <3> QED BY <2>1, <3>1, <3>2, ServerReportRefines
  <2> QED BY <2>2, <2>3
<1>6. CASE Connection!Return
  BY <1>6 DEF Connection!Return, Connection!state
<1>7. CASE Connection!Delete
  <2>1. Connection!Owner!Destroy
    BY <1>0, <1>7 DEF Connection!Delete, Connection!Owner!Destroy, ServerInv,
       Connection!NothingLeft, Connection!state
  <2> QED BY <2>1 DEF Connection!Owner!Next
<1>8. CASE Connection!Send
  <2>1. /\ accepted /\ closeRequested = FALSE /\ deleted = FALSE /\ sent' = sent + 1
        /\ UNCHANGED <<accepted, closeRequested, deleted, sheard, received>>
    BY <1>0, <1>8 DEF Connection!Send
  <2>2. written' = written \/ (written = sent /\ written' = sent')
    <3>1. CASE writePending
      BY <1>8, <3>1 DEF Connection!Send
    <3>2. CASE ~writePending
      <4>1. /\ pendingWrites = <<>> /\ sent \in Nat /\ written \in Nat
            /\ Len(pendingWrites) = sent - written
        BY <2>1, <3>2, WebSocketAssumption DEF WebSocketAssumption, ServerInv,
           Connection!TypeOK, MessagesQueued
      <4>2. written = sent
        BY <4>1
      <4> QED BY <1>8, <3>2, <4>2 DEF Connection!Send
    <3> QED BY <3>1, <3>2
  <2>3. Connection!Owner!Send
    BY <2>1, <2>2 DEF Connection!Owner!Send, Connection!state
  <2> QED BY <2>3 DEF Connection!Owner!Next
<1>9. CASE Connection!OwnerCloses \/ Connection!ServerCloses
  <2>1. UNCHANGED <<accepted, deleted, sheard, received, sent, written>>
    BY <1>9 DEF Connection!OwnerCloses, Connection!ServerCloses
  <2>2. CASE closeRequested' = closeRequested
    BY <2>1, <2>2 DEF Connection!state
  <2>3. CASE closeRequested = FALSE /\ closeRequested' = TRUE
    <3>1. Connection!Owner!Close
      BY <1>0, <2>1, <2>3 DEF Connection!Owner!Close, Connection!state
    <3> QED BY <3>1 DEF Connection!Owner!Next
  <2> QED BY <1>0, <1>9, <2>2, <2>3 DEF Connection!OwnerCloses, Connection!ServerCloses,
       Connection!Close
<1>10. CASE UNCHANGED Connection!vars
  BY <1>10 DEF Connection!vars, Connection!state
<1> QED BY <1>1, <1>3, <1>4, <1>5, <1>6, <1>7, <1>8, <1>9, <1>10 DEF Connection!Next,
     Connection!Handler

\* A connection implements the safety part of a Channel: whatever operations
\* end around a close, in whatever order, the owner hears nothing after it, and
\* its messages are written in the order they were sent.
THEOREM ServerImplementsSafety == Connection!Spec => Connection!KeepsPromise
<1>1. Connection!Init => Connection!Owner!Init
  BY ServerInitRefines
<1>2. ServerInv /\ [Connection!Next]_(Connection!vars)
        => [Connection!Owner!Next]_<<Connection!state, sheard, received, sent, written>>
  BY ServerNextRefines
<1> QED BY <1>1, <1>2, ServerInvariance, PTL DEF Connection!Spec,
     Connection!KeepsPromise, Connection!Owner!Safety, Connection!Owner!vars

-----------------------------------------------------------------------------
\* A sign's client.

\* Before it starts nothing is under way, and when it stops no frame comes any more.
SignPhases ==
    /\ flevel = "CONSTRUCTED" => ~reconnecting /\ fop = "none" /\ ~open /\ render = "waiting"
    /\ flevel \in {"STOPPING", "STOPPED"} => render = "stopped"

\* A connection is only made for a frame, and a write has the latest frame, or a
\* later one waits for its end.
FramesFollow ==
    /\ reconnecting /\ framed => pending = "latest"
    /\ fop = "connect" => pending = "latest"
    /\ fop = "write" => writing # "none"
    /\ fop = "write" /\ pending = "none" =>
           writing = "latest" /\ (result = "ok" => lights = "latest")

SignInv == Sign!Consistent /\ SignPhases /\ FramesFollow

\* The initial state satisfies the inductive invariant.
LEMMA SignInitInv == Sign!Init => SignInv
<1> SUFFICES ASSUME Sign!Init PROVE SignInv
  OBVIOUS
<1> USE DEF Sign!Init
<1>1. Sign!TypeOK
  BY DEF Sign!TypeOK
<1>2. Sign!OneOfThree /\ Sign!FramesArrive
  BY DEF Sign!OneOfThree, Sign!FramesArrive
<1>3. SignPhases /\ FramesFollow
  BY DEF SignPhases, FramesFollow
<1> QED BY <1>1, <1>2, <1>3 DEF SignInv, Sign!Consistent

\* Every step of the client, of its socket and of the RenderService keeps the types ...
LEMMA SignTyped == SignInv /\ [Sign!Next]_(Sign!vars) => Sign!TypeOK'
<1> SUFFICES ASSUME SignInv, [Sign!Next]_(Sign!vars) PROVE Sign!TypeOK'
  OBVIOUS
<1> USE DEF SignInv, Sign!Consistent, Sign!TypeOK, Sign!asio, Sign!data
<1>0. fop # "none" => ops = 1
  BY DEF Sign!OneOfThree
<1>1. CASE Sign!HandleStarting
  BY <1>1 DEF Sign!HandleStarting, Sign!StartTimer
<1>2. CASE Sign!RenderStarting \/ Sign!RenderStopping
  BY <1>2 DEF Sign!RenderStarting, Sign!RenderStopping
<1>3. CASE Sign!UpdateLeds
  <2> USE <1>3 DEF Sign!UpdateLeds, Sign!CanWrite, Sign!Begin
  <2>1. ops' \in Nat
    OBVIOUS
  <2>2. fop' \in {"none", "connect", "write"} /\ result' \in {"none", "ok", "error"}
    OBVIOUS
  <2>3. pending' \in {"none", "latest"} /\ writing' \in {"none", "latest", "older"}
    OBVIOUS
  <2>4. lights' \in {"latest", "older"} /\ lost' \in BOOLEAN
    OBVIOUS
  <2>5. framed' \in BOOLEAN /\ open' \in BOOLEAN
    OBVIOUS
  <2> QED BY <2>1, <2>2, <2>3, <2>4, <2>5
<1>4. CASE Sign!ReconnectTimeout
  <2> USE <1>4 DEF Sign!ReconnectTimeout, Sign!Begin
  <2>1. ops' \in Nat
    OBVIOUS
  <2>2. /\ flevel' \in {"CONSTRUCTED", "RUNNING", "STOPPING", "STOPPED"} /\ UNCHANGED render
        /\ UNCHANGED stopping
    OBVIOUS
  <2>3. reconnecting' \in BOOLEAN /\ framed' \in BOOLEAN
    OBVIOUS
  <2>4. open' \in BOOLEAN /\ lost' \in BOOLEAN
    OBVIOUS
  <2>5. fop' \in {"none", "connect", "write"} /\ result' \in {"none", "ok", "error"}
    OBVIOUS
  <2>6. /\ pending' \in {"none", "latest"} /\ writing' \in {"none", "latest", "older"}
        /\ lights' \in {"latest", "older"}
    OBVIOUS
  <2> HIDE <1>4
  <2> QED BY <2>1, <2>2, <2>3, <2>4, <2>5, <2>6
<1>5. ASSUME NEW r \in {"ok", "error"}, Sign!Complete(r) PROVE Sign!TypeOK'
  BY <1>5 DEF Sign!Complete, FramesFollow
<1>6. CASE Sign!ConnectFails
  <2> USE <1>0, <1>6 DEF Sign!ConnectFails, Sign!Ended, Sign!Checked, Sign!StartTimer
  <2>1. ops' \in Nat
    OBVIOUS
  <2>2. /\ flevel' \in {"CONSTRUCTED", "RUNNING", "STOPPING", "STOPPED"} /\ UNCHANGED render
        /\ UNCHANGED stopping
    OBVIOUS
  <2>3. reconnecting' \in BOOLEAN /\ framed' \in BOOLEAN
    OBVIOUS
  <2>4. open' \in BOOLEAN /\ lost' \in BOOLEAN
    OBVIOUS
  <2>5. fop' \in {"none", "connect", "write"} /\ result' \in {"none", "ok", "error"}
    OBVIOUS
  <2>6. /\ pending' \in {"none", "latest"} /\ writing' \in {"none", "latest", "older"}
        /\ lights' \in {"latest", "older"}
    OBVIOUS
  <2> HIDE <1>6
  <2> QED BY <2>1, <2>2, <2>3, <2>4, <2>5, <2>6
<1>7. CASE Sign!Connected
  BY <1>0, <1>7 DEF Sign!Connected, Sign!Ended, Sign!Follow
<1>8. CASE Sign!WriteFails
  <2> USE <1>0, <1>8 DEF Sign!WriteFails, Sign!Ended, Sign!Checked, Sign!StartTimer
  <2>1. ops' \in Nat
    OBVIOUS
  <2>2. /\ flevel' \in {"CONSTRUCTED", "RUNNING", "STOPPING", "STOPPED"} /\ UNCHANGED render
        /\ UNCHANGED stopping
    OBVIOUS
  <2>3. reconnecting' \in BOOLEAN /\ framed' \in BOOLEAN
    OBVIOUS
  <2>4. open' \in BOOLEAN /\ lost' \in BOOLEAN
    OBVIOUS
  <2>5. fop' \in {"none", "connect", "write"} /\ result' \in {"none", "ok", "error"}
    OBVIOUS
  <2>6. /\ pending' \in {"none", "latest"} /\ writing' \in {"none", "latest", "older"}
        /\ lights' \in {"latest", "older"}
    OBVIOUS
  <2> HIDE <1>8
  <2> QED BY <2>1, <2>2, <2>3, <2>4, <2>5, <2>6
<1>9. CASE Sign!Written
  BY <1>0, <1>9 DEF Sign!Written, Sign!Ended, Sign!Follow, Sign!Checked
<1>10. CASE Sign!RequestStop
  BY <1>10 DEF Sign!RequestStop
<1>11. CASE Sign!HandleStopping
  BY <1>11 DEF Sign!HandleStopping
<1>12. CASE Sign!Stopped \/ UNCHANGED Sign!vars
  BY <1>12 DEF Sign!Stopped, Sign!vars
<1> QED BY <1>1, <1>2, <1>3, <1>4, <1>5, <1>6, <1>7, <1>8, <1>9, <1>10, <1>11, <1>12
     DEF Sign!Next, Sign!ConnectComplete, Sign!WriteComplete

\* ... and how they follow each other.
LEMMA SignNextInv == SignInv /\ [Sign!Next]_(Sign!vars) => SignInv'
<1> SUFFICES ASSUME SignInv, [Sign!Next]_(Sign!vars)
             PROVE  /\ Sign!OneOfThree' /\ Sign!FramesArrive' /\ SignPhases' /\ FramesFollow'
  BY SignTyped DEF SignInv, Sign!Consistent
<1> USE DEF SignInv, Sign!Consistent, Sign!TypeOK, Sign!OneOfThree, Sign!FramesArrive,
            SignPhases, FramesFollow, Sign!asio, Sign!data
<1>1. CASE Sign!HandleStarting
  BY <1>1 DEF Sign!HandleStarting, Sign!StartTimer
<1>2. CASE Sign!RenderStarting \/ Sign!RenderStopping
  BY <1>2 DEF Sign!RenderStarting, Sign!RenderStopping
<1>3. CASE Sign!UpdateLeds
  <2> USE <1>3 DEF Sign!UpdateLeds, Sign!CanWrite, Sign!Begin
  <2>1. flevel = "RUNNING"
    OBVIOUS
  <2>2. Sign!OneOfThree'
    BY <2>1
  <2>3. Sign!FramesArrive'
    BY <2>1
  <2>4. SignPhases'
    BY <2>1
  <2>5. FramesFollow'
    BY <2>1
  <2> QED BY <2>1, <2>2, <2>3, <2>4, <2>5
<1>4. CASE Sign!ReconnectTimeout
  BY <1>4 DEF Sign!ReconnectTimeout, Sign!Begin
<1>5. ASSUME NEW r \in {"ok", "error"}, Sign!Complete(r) PROVE Sign!OneOfThree' /\ Sign!FramesArrive' /\ SignPhases' /\ FramesFollow'
  BY <1>5 DEF Sign!Complete
<1>6. CASE Sign!ConnectFails
  BY <1>6 DEF Sign!ConnectFails, Sign!Ended, Sign!Checked, Sign!StartTimer
<1>7. CASE Sign!Connected
  BY <1>7 DEF Sign!Connected, Sign!Ended, Sign!Follow
<1>8. CASE Sign!WriteFails
  BY <1>8 DEF Sign!WriteFails, Sign!Ended, Sign!Checked, Sign!StartTimer
<1>9. CASE Sign!Written
  BY <1>9 DEF Sign!Written, Sign!Ended, Sign!Follow, Sign!Checked
<1>10. CASE Sign!RequestStop
  BY <1>10 DEF Sign!RequestStop
<1>11. CASE Sign!HandleStopping
  BY <1>11 DEF Sign!HandleStopping
<1>12. CASE Sign!Stopped \/ UNCHANGED Sign!vars
  BY <1>12 DEF Sign!Stopped, Sign!vars
<1> QED BY <1>1, <1>2, <1>3, <1>4, <1>5, <1>6, <1>7, <1>8, <1>9, <1>10, <1>11, <1>12
     DEF Sign!Next, Sign!ConnectComplete, Sign!WriteComplete

\* A running client of a sign waits to connect, connects or is connected, one of them
\* only; one that stops has the operation it waits for, one that has stopped has none;
\* and no frame is left lying on an open connection that nothing is written to.
THEOREM SignStaysConsistent == Sign!Spec => []Sign!Consistent
<1>1. SignInv => Sign!Consistent
  BY DEF SignInv
<1> QED BY <1>1, SignInitInv, SignNextInv, PTL DEF Sign!Spec

-----------------------------------------------------------------------------
\* Every behaviour of the three together is one of each.

\* It is one of the client and of a server's connection.
LEMMA BehavesAsEnds == MCSpec => Spec /\ Connection!Spec
<1>1. MCInit => Init /\ Connection!Init
  BY DEF MCInit
<1>2. [MCNext]_allVars => [Next]_vars
  BY DEF MCNext, Client, Server, Leds, allVars, vars
<1>3. [MCNext]_allVars => [Connection!Next]_(Connection!vars)
  BY DEF MCNext, Client, Server, Leds, allVars, server, Connection!vars, Connection!flags,
         Connection!link, Connection!out
<1> QED BY <1>1, <1>2, <1>3, PTL DEF MCSpec, Spec, Connection!Spec

\* It is one of a sign's client.
LEMMA BehavesAsSign == MCSpec => Sign!Spec
<1>1. MCInit => Sign!Init
  BY DEF MCInit
<1>2. [MCNext]_allVars => [Sign!Next]_(Sign!vars)
  BY DEF MCNext, Client, Server, Leds, allVars, sign, Sign!vars, Sign!asio, Sign!data
<1> QED BY <1>1, <1>2, PTL DEF MCSpec, Sign!Spec

\* Whichever of the three runs, a server's connection and a sign's client keep their
\* invariants: the counters, flags and handle of the one agree, and so do the
\* operations, levels and frames of the other.
THEOREM OthersStayConsistent == MCSpec => []OthersConsistent
<1>1. Connection!Consistent /\ Sign!Consistent => OthersConsistent
  BY DEF OthersConsistent
<1> QED BY <1>1, BehavesAsEnds, BehavesAsSign, ServerStaysConsistent, SignStaysConsistent, PTL
=============================================================================

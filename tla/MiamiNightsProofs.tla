-------------------------- MODULE MiamiNightsProofs ---------------------------
(***************************************************************************)
(* Proofs about MiamiNights, for any buttons and colours, any number of    *)
(* broken connections and any number of messages under way.                *)
(*                                                                         *)
(* That the three sides agree once nothing is under way is a matter of     *)
(* what is: as long as both connections are there, what a side does not    *)
(* know yet is in the message that is sent last, in one that will be       *)
(* passed on, or will be sent because a client has been or will be told to *)
(* send again.  That an emulator has the screen is one token that the page *)
(* and the server pass to each other: StartEmulator under way, the         *)
(* emulator, or EmulatorCompleted under way.                               *)
(*                                                                         *)
(* The game of Tetris that the pages start follows the cabinet.            *)
(***************************************************************************)
EXTENDS MCMiamiNights, FiniteSetTheorems, SequenceTheorems, TLAPS

-----------------------------------------------------------------------------
\* What is in a queue of messages.

Has(p, t) == \E i \in 1 .. Len(p) : p[i].type = t

\* The last message of type t carries v.
Latest(p, t, v) ==
    \E i \in 1 .. Len(p) :
        /\ p[i].type = t /\ p[i].value = v
        /\ \A j \in 1 .. Len(p) : j > i => p[j].type # t

Once(p, t) == \A i, j \in 1 .. Len(p) : p[i].type = t /\ p[j].type = t => i = j

\* The empty queue.
LEMMA NothingIn == \A t, v : ~Has(<<>>, t) /\ ~Latest(<<>>, t, v) /\ Once(<<>>, t)
  BY DEF Has, Latest, Once

LEMMA LatestIsIn ==
    ASSUME NEW p, NEW t, NEW v, Latest(p, t, v)
    PROVE  Has(p, t)
  BY DEF Latest, Has

\* A message is sent.
LEMMA Sent ==
    ASSUME NEW M, NEW p \in Seq(M), NEW m \in M, NEW q, q = p \o <<m>>
    PROVE  /\ q \in Seq(M) /\ q # <<>> /\ (p # <<>> => Head(q) = Head(p))
           /\ \A t : Has(q, t) <=> Has(p, t) \/ m.type = t
           /\ \A t : Once(p, t) /\ (m.type = t => ~Has(p, t)) => Once(q, t)
<1> DEFINE n == Len(p)
<1>1. /\ n \in Nat /\ q \in Seq(M) /\ Len(q) = n + 1 /\ q[n + 1] = m
      /\ \A i \in 1 .. n : q[i] = p[i]
  OBVIOUS
<1>2. \A i \in 1 .. n + 1 : i \in 1 .. n \/ i = n + 1
  BY <1>1
<1>3. \A i \in 1 .. n : i \in 1 .. n + 1 /\ n + 1 > i /\ ~(i > n + 1)
  BY <1>1
<1>4. n + 1 \in 1 .. n + 1 /\ ~(n + 1 > n + 1)
  BY <1>1
<1>5. q # <<>> /\ (p # <<>> => Head(q) = Head(p))
  OBVIOUS
<1> HIDE DEF n
<1>6. \A t : Has(q, t) <=> Has(p, t) \/ m.type = t
  BY <1>1, <1>2, <1>3, <1>4 DEF Has, n
<1>7. ASSUME NEW t, Once(p, t), m.type = t => ~Has(p, t)
      PROVE  Once(q, t)
  BY <1>1, <1>2, <1>7 DEF Once, Has, n
<1> QED BY <1>1, <1>5, <1>6, <1>7

\* It is the last of its type.
LEMMA SentLast ==
    ASSUME NEW M, NEW p \in Seq(M), NEW m \in M, NEW q, q = p \o <<m>>, NEW t, NEW v
    PROVE  /\ m.type = t => (Latest(q, t, v) <=> m.value = v)
           /\ m.type # t => (Latest(q, t, v) <=> Latest(p, t, v))
<1> DEFINE n == Len(p)
<1>1. /\ n \in Nat /\ q \in Seq(M) /\ Len(q) = n + 1 /\ q[n + 1] = m
      /\ \A i \in 1 .. n : q[i] = p[i]
  OBVIOUS
<1>2. \A i \in 1 .. n + 1 : i \in 1 .. n \/ i = n + 1
  BY <1>1
<1>3. \A i \in 1 .. n : i \in 1 .. n + 1 /\ n + 1 > i /\ ~(i > n + 1)
  BY <1>1
<1>4. n + 1 \in 1 .. n + 1 /\ ~(n + 1 > n + 1)
  BY <1>1
<1> HIDE DEF n
<1>5. ASSUME m.type = t
      PROVE  Latest(q, t, v) <=> m.value = v
  <2>1. ASSUME Latest(q, t, v) PROVE m.value = v
    <3>1. PICK i \in 1 .. n + 1 : /\ q[i].type = t /\ q[i].value = v
                                  /\ \A j \in 1 .. n + 1 : j > i => q[j].type # t
      BY <1>1, <2>1 DEF Latest
    <3>2. i = n + 1
      BY <1>1, <1>2, <1>3, <1>4, <1>5, <3>1
    <3> QED BY <1>1, <3>1, <3>2
  <2>2. ASSUME m.value = v PROVE Latest(q, t, v)
    <3>1. \A j \in 1 .. n + 1 : ~(j > n + 1)
      BY <1>1
    <3> QED BY <1>1, <1>4, <1>5, <2>2, <3>1 DEF Latest
  <2> QED BY <2>1, <2>2
<1>6. ASSUME m.type # t
      PROVE  Latest(q, t, v) <=> Latest(p, t, v)
  <2>1. ASSUME Latest(q, t, v) PROVE Latest(p, t, v)
    <3>1. PICK i \in 1 .. n + 1 : /\ q[i].type = t /\ q[i].value = v
                                  /\ \A j \in 1 .. n + 1 : j > i => q[j].type # t
      BY <1>1, <2>1 DEF Latest
    <3>2. i \in 1 .. n
      BY <1>1, <1>2, <1>6, <3>1
    <3> QED BY <1>1, <1>3, <3>1, <3>2 DEF Latest, n
  <2>2. ASSUME Latest(p, t, v) PROVE Latest(q, t, v)
    <3>1. PICK i \in 1 .. n : /\ p[i].type = t /\ p[i].value = v
                              /\ \A j \in 1 .. n : j > i => p[j].type # t
      BY <2>2 DEF Latest, n
    <3>2. \A j \in 1 .. n + 1 : j > i => q[j].type # t
      BY <1>1, <1>2, <1>6, <3>1
    <3> QED BY <1>1, <1>3, <3>1, <3>2 DEF Latest
  <2> QED BY <2>1, <2>2
<1> QED BY <1>5, <1>6

\* Two are sent one after the other.
LEMMA TwoMore ==
    ASSUME NEW M, NEW p \in Seq(M), NEW m \in M, NEW k \in M
    PROVE  p \o <<m, k>> = (p \o <<m>>) \o <<k>>
<1>1. PICK s, t, u : s = <<m>> /\ t = <<k>> /\ u = <<m, k>>
  OBVIOUS
<1>2. /\ s \in Seq(M) /\ Len(s) = 1 /\ s[1] = m
      /\ t \in Seq(M) /\ Len(t) = 1 /\ t[1] = k
      /\ u \in Seq(M) /\ Len(u) = 2 /\ u[1] = m /\ u[2] = k
  BY <1>1
<1>3. /\ s \o t \in Seq(M) /\ Len(s \o t) = Len(u)
      /\ \A i \in 1 .. Len(u) : (s \o t)[i] = u[i]
  <2>1. \A i \in 1 .. 2 : i = 1 \/ i = 2
    OBVIOUS
  <2>2. /\ s \o t \in Seq(M) /\ Len(s \o t) = 1 + 1
        /\ \A i \in 1 .. 1 + 1 : (s \o t)[i] = IF i <= 1 THEN s[i] ELSE t[i - 1]
    BY SMTT(30), <1>2, ConcatProperties
  <2>3. (s \o t)[1] = m /\ (s \o t)[2] = k
    BY <1>2, <2>2
  <2> QED BY <1>2, <2>1, <2>2, <2>3
<1>4. s \o t = u
  BY <1>2, <1>3, SeqEqual
<1>5. (p \o s) \o t = p \o (s \o t)
  BY SMTT(30), <1>2, ConcatAssociative
<1> QED BY <1>1, <1>4, <1>5

\* The first message has its turn.
LEMMA Taken ==
    ASSUME NEW M, NEW p \in Seq(M), p # <<>>, NEW q, q = Tail(p)
    PROVE  /\ q \in Seq(M) /\ Head(p) \in M
           /\ \A t : Has(p, t) <=> Head(p).type = t \/ Has(q, t)
           /\ \A t, v : Latest(p, t, v)
                  <=> Latest(q, t, v) \/ (~Has(q, t) /\ Head(p).type = t /\ Head(p).value = v)
           /\ \A t : Once(p, t) => Once(q, t) /\ (Head(p).type = t => ~Has(q, t))
<1> DEFINE n == Len(p)
           m == Head(p)
<1>1. /\ n \in Nat \ {0} /\ q \in Seq(M) /\ Len(q) = n - 1 /\ m = p[1] /\ m \in M
      /\ \A i \in 1 .. n - 1 : q[i] = p[i + 1]
  OBVIOUS
<1>2. /\ \A i \in 1 .. n - 1 : i \in 1 .. n /\ i + 1 \in 1 .. n /\ i + 1 # 1
      /\ \A i \in 1 .. n : i # 1 => i - 1 \in 1 .. n - 1 /\ (i - 1) + 1 = i /\ i > 1
      /\ 1 \in 1 .. n
      /\ \A i, j \in 1 .. n - 1 : (i + 1 = j + 1 => i = j) /\ (i + 1 > j + 1 <=> i > j)
  BY <1>1
<1> HIDE DEF n, m
<1>3. \A i \in 1 .. n : i # 1 => q[i - 1] = p[i]
  BY <1>1, <1>2
<1>4. ASSUME NEW t PROVE Has(p, t) <=> m.type = t \/ Has(q, t)
  <2>1. ASSUME Has(p, t), m.type # t PROVE Has(q, t)
    <3>1. PICK i \in 1 .. n : p[i].type = t
      BY <2>1 DEF Has, n
    <3>2. i - 1 \in 1 .. n - 1 /\ q[i - 1].type = t
      BY <1>1, <1>2, <1>3, <2>1, <3>1
    <3> QED BY <1>1, <3>2 DEF Has
  <2>2. ASSUME Has(q, t) PROVE Has(p, t)
    <3>1. PICK i \in 1 .. n - 1 : q[i].type = t
      BY <1>1, <2>2 DEF Has
    <3>2. i + 1 \in 1 .. n /\ p[i + 1].type = t
      BY <1>1, <1>2, <3>1
    <3> QED BY <3>2 DEF Has, n
  <2>3. ASSUME m.type = t PROVE Has(p, t)
    BY <1>1, <1>2, <2>3 DEF Has, n
  <2> QED BY <2>1, <2>2, <2>3
<1>5. ASSUME NEW t, NEW v
      PROVE  Latest(p, t, v) <=> Latest(q, t, v) \/ (~Has(q, t) /\ m.type = t /\ m.value = v)
  <2>1. ASSUME Latest(q, t, v) PROVE Latest(p, t, v)
    <3>1. PICK i \in 1 .. n - 1 : /\ q[i].type = t /\ q[i].value = v
                                  /\ \A j \in 1 .. n - 1 : j > i => q[j].type # t
      BY <1>1, <2>1 DEF Latest
    <3>2. i + 1 \in 1 .. n /\ p[i + 1].type = t /\ p[i + 1].value = v
      BY <1>1, <1>2, <3>1
    <3>3. ASSUME NEW j \in 1 .. n, j > i + 1 PROVE p[j].type # t
      <4>1. j - 1 \in 1 .. n - 1 /\ j - 1 > i /\ q[j - 1] = p[j]
        BY <1>1, <1>2, <1>3, <3>3
      <4> QED BY <3>1, <4>1
    <3> QED BY <3>2, <3>3 DEF Latest, n
  <2>2. ASSUME ~Has(q, t), m.type = t, m.value = v PROVE Latest(p, t, v)
    <3>1. ASSUME NEW j \in 1 .. n, j > 1 PROVE p[j].type # t
      <4>1. j - 1 \in 1 .. n - 1 /\ q[j - 1] = p[j]
        BY <1>1, <1>2, <1>3, <3>1
      <4> QED BY <1>1, <2>2, <4>1 DEF Has
    <3> QED BY <1>1, <1>2, <2>2, <3>1 DEF Latest, n
  <2>3. ASSUME Latest(p, t, v), ~Latest(q, t, v) PROVE ~Has(q, t) /\ m.type = t /\ m.value = v
    <3>1. PICK i \in 1 .. n : /\ p[i].type = t /\ p[i].value = v
                              /\ \A j \in 1 .. n : j > i => p[j].type # t
      BY <2>3 DEF Latest, n
    <3>2. ASSUME i # 1 PROVE FALSE
      <4>1. i - 1 \in 1 .. n - 1 /\ q[i - 1].type = t /\ q[i - 1].value = v
        BY <1>2, <1>3, <3>1, <3>2
      <4>2. ASSUME NEW j \in 1 .. n - 1, j > i - 1 PROVE q[j].type # t
        <5>1. j + 1 \in 1 .. n /\ j + 1 > i /\ q[j] = p[j + 1]
          BY <1>1, <1>2, <4>2
        <5> QED BY <3>1, <5>1
      <4> QED BY <1>1, <2>3, <4>1, <4>2 DEF Latest
    <3>3. ASSUME Has(q, t) PROVE FALSE
      <4>1. PICK j \in 1 .. n - 1 : q[j].type = t
        BY <1>1, <3>3 DEF Has
      <4>2. j + 1 \in 1 .. n /\ j + 1 > 1 /\ p[j + 1].type = t
        BY <1>1, <1>2, <4>1
      <4> QED BY <3>1, <3>2, <4>2
    <3> QED BY <1>1, <3>1, <3>2, <3>3
  <2> QED BY <2>1, <2>2, <2>3
<1>6. ASSUME NEW t, Once(p, t) PROVE Once(q, t) /\ (m.type = t => ~Has(q, t))
  <2>1. ASSUME NEW i \in 1 .. n - 1, NEW j \in 1 .. n - 1, q[i].type = t, q[j].type = t PROVE i = j
    <3>1. p[i + 1].type = t /\ p[j + 1].type = t /\ i + 1 \in 1 .. n /\ j + 1 \in 1 .. n
      BY <1>1, <1>2, <2>1
    <3>2. i + 1 = j + 1
      BY <1>6, <3>1 DEF Once, n
    <3> QED BY <1>2, <3>2
  <2>2. ASSUME m.type = t, NEW i \in 1 .. n - 1, q[i].type = t PROVE FALSE
    <3>1. p[i + 1].type = t /\ p[1].type = t /\ i + 1 \in 1 .. n /\ 1 \in 1 .. n
      BY <1>1, <1>2, <2>2
    <3>2. i + 1 = 1
      BY <1>6, <3>1 DEF Once, n
    <3> QED BY <1>2, <3>2
  <2> QED BY <1>1, <2>1, <2>2 DEF Once, Has
<1> QED BY <1>1, <1>4, <1>5, <1>6 DEF m

-----------------------------------------------------------------------------
\* The messages and who sends them.

LEMMA Messages ==
    /\ \A s : States(s).type = "ButtonStates" /\ States(s).value = s
    /\ \A c : ButtonColors(c).type = "ButtonColors" /\ ButtonColors(c).value = c
    /\ \A t : Signal(t).type = t
  BY DEF States, ButtonColors, Signal

LEMMA MayBeSent ==
    /\ \A s \in SUBSET Buttons : States(s) \in FromClient("box") /\ States(s) \in FromServer("app")
    /\ \A c \in Colors : ButtonColors(c) \in FromClient("app") /\ ButtonColors(c) \in FromServer("box")
    /\ Signal("StartEmulator") \in FromClient("app") /\ Signal("EmulatorCompleted") \in FromServer("app")
    /\ \A e \in Ends : Signal("opened") \in FromServer(e) /\ Signal("RetransmitRequired") \in FromServer(e)
  BY DEF FromClient, FromServer, Ends

LEMMA Understood ==
    /\ \A m \in FromClient("box") : m.type = "ButtonStates" /\ m.value \in SUBSET Buttons
    /\ \A m \in FromClient("app") :
          (m.type = "ButtonColors" /\ m.value \in Colors) \/ m.type = "StartEmulator"
    /\ \A m \in FromServer("box") :
          m.type \in {"opened", "RetransmitRequired"} \/ (m.type = "ButtonColors" /\ m.value \in Colors)
    /\ \A m \in FromServer("app") :
          \/ m.type \in {"opened", "RetransmitRequired", "EmulatorCompleted"}
          \/ m.type = "ButtonStates" /\ m.value \in SUBSET Buttons
<1> USE Messages
<1>1. \A m \in FromClient("box") : m.type = "ButtonStates" /\ m.value \in SUBSET Buttons
  BY DEF FromClient
<1>2. \A m \in FromClient("app") :
          (m.type = "ButtonColors" /\ m.value \in Colors) \/ m.type = "StartEmulator"
  BY DEF FromClient
<1>3. \A m \in FromServer("box") :
          m.type \in {"opened", "RetransmitRequired"} \/ (m.type = "ButtonColors" /\ m.value \in Colors)
  BY DEF FromServer
<1>4. \A m \in FromServer("app") :
          \/ m.type \in {"opened", "RetransmitRequired", "EmulatorCompleted"}
          \/ m.type = "ButtonStates" /\ m.value \in SUBSET Buttons
  BY DEF FromServer
<1> QED BY <1>1, <1>2, <1>3, <1>4

\* The two ends.
LEMMA TwoEnds == Ends = {"box", "app"} /\ "box" # "app" /\ "box" \in Ends /\ "app" \in Ends
  BY DEF Ends

\* All messages under way are understood where they arrive.
Queues ==
    /\ DOMAIN toServer = Ends /\ \A e \in Ends : toServer[e] \in Seq(FromClient(e))
    /\ DOMAIN toClient = Ends /\ \A e \in Ends : toClient[e] \in Seq(FromServer(e))

LEMMA SendsTo ==
    ASSUME Queues, NEW e \in Ends, NEW ms, Sends(e, ms)
    PROVE  /\ DOMAIN toClient' = Ends /\ \A f \in Ends : f # e => toClient'[f] = toClient[f]
           /\ toClient'[e] = IF server[e] = "open" /\ e \in up THEN toClient[e] \o ms ELSE toClient[e]
  BY DEF Sends, Queues

LEMMA ReportsTo ==
    ASSUME Queues, NEW e \in Ends, NEW m, Reports(e, m)
    PROVE  /\ DOMAIN toServer' = Ends /\ \A f \in Ends : f # e => toServer'[f] = toServer[f]
           /\ toServer'[e] = IF client[e] = "open" /\ e \in up THEN toServer[e] \o <<m>> ELSE toServer[e]
<1>1. ASSUME NEW p \in Seq(FromClient(e)) PROVE Append(p, m) = p \o <<m>>
  OBVIOUS
<1> QED BY <1>1 DEF Reports, Queues

\* Sending what is understood.
LEMMA SendsTyped ==
    ASSUME Queues, NEW e \in Ends, NEW ms \in Seq(FromServer(e)), Sends(e, ms)
    PROVE  DOMAIN toClient' = Ends /\ \A f \in Ends : toClient'[f] \in Seq(FromServer(f))
<1>1. ASSUME NEW f \in Ends PROVE toClient'[f] \in Seq(FromServer(f))
  <2>1. CASE f = e
    <3>1. toClient[e] \in Seq(FromServer(e))
      BY DEF Queues
    <3>2. toClient[e] \o ms \in Seq(FromServer(e))
      BY <3>1
    <3> QED BY <2>1, <3>1, <3>2, SendsTo
  <2>2. CASE f # e
    BY <2>2, SendsTo DEF Queues
  <2> QED BY <2>1, <2>2
<1> QED BY <1>1, SendsTo

LEMMA ReportsTyped ==
    ASSUME Queues, NEW e \in Ends, NEW m \in FromClient(e), Reports(e, m)
    PROVE  DOMAIN toServer' = Ends /\ \A f \in Ends : toServer'[f] \in Seq(FromClient(f))
<1>1. ASSUME NEW f \in Ends PROVE toServer'[f] \in Seq(FromClient(f))
  <2>1. CASE f = e
    <3>1. <<m>> \in Seq(FromClient(e))
      OBVIOUS
    <3>2. toServer[e] \in Seq(FromClient(e))
      BY DEF Queues
    <3>3. toServer[e] \o <<m>> \in Seq(FromClient(e))
      BY <3>1, <3>2
    <3> QED BY <2>1, <3>2, <3>3, ReportsTo
  <2>2. CASE f # e
    BY <2>2, ReportsTo DEF Queues
  <2> QED BY <2>1, <2>2
<1> QED BY <1>1, ReportsTo

-----------------------------------------------------------------------------
\* The joystick.

Joysticks == [states : SUBSET Buttons, running : BOOLEAN, expired : BOOLEAN, acquired : BOOLEAN]

\* The types of all but the queues, in parts.
ConnectionsTyped ==
    /\ client \in [Ends -> {"closed", "connecting", "open"}]
    /\ server \in [Ends -> {"closed", "open"}] /\ up \subseteq Ends
    /\ level \in {"up", "stopping", "stopped"} /\ emulator \in {"none", "running", "ended"}

KnownTyped ==
    /\ pressed \subseteq Buttons /\ boxStates \subseteq Buttons /\ states \subseteq Buttons
    /\ appStates \subseteq Buttons /\ clicked \subseteq Buttons
    /\ boxColors \in Colors \cup {rainbow} /\ colors \in Colors

PagesTyped ==
    /\ sendTimer \in BOOLEAN /\ music \in BOOLEAN /\ orphan \in BOOLEAN
    /\ screen \in {"logo", "menu", "game", "none"} /\ selected \in {"no", "game", "emulator"}
    /\ presses \in Nat /\ paints \in Nat /\ breaks \in Nat

JoystickTyped ==
    /\ joystick \in Joysticks /\ device \in SUBSET Buttons /\ failures \in Nat /\ timer \in BOOLEAN

Plain == ConnectionsTyped /\ KnownTyped /\ PagesTyped /\ JoystickTyped

LEMMA TypesArePlain == TypeOK <=> Plain /\ Queues
  BY DEF TypeOK, Plain, ConnectionsTyped, KnownTyped, PagesTyped, JoystickTyped, Queues, Joysticks

LEMMA BackIsButton == back \in Buttons
  BY MiamiNightsAssumption

LEMMA WantedTyped ==
    ASSUME NEW j \in Joysticks
    PROVE  Wanted(j) \in SUBSET Buttons
  BY BackIsButton DEF Wanted, Joysticks

\* An update leaves the joystick as it was told, and the device with it, or not
\* acquired.
LEMMA UpdateIs ==
    ASSUME NEW j \in Joysticks, NEW earlier \in SUBSET Buttons, device \in SUBSET Buttons,
           failures \in Nat, Update(j, earlier)
    PROVE  /\ joystick' \in Joysticks /\ device' \in SUBSET Buttons /\ failures' \in Nat
           /\ joystick'.states = j.states /\ joystick'.running = j.running
           /\ joystick'.acquired => device' = Wanted(joystick')
<1>1. CASE joystick' = [j EXCEPT !.acquired = TRUE] /\ device' = Wanted(j) /\ UNCHANGED failures
  <2>1. /\ joystick'.states = j.states /\ joystick'.running = j.running
        /\ joystick'.expired = j.expired /\ joystick' \in Joysticks
    BY <1>1 DEF Joysticks
  <2>2. Wanted(joystick') = Wanted(j)
    BY <2>1 DEF Wanted
  <2> QED BY <1>1, <2>1, <2>2, WantedTyped
<1>2. CASE /\ failures' = failures + 1 /\ joystick' = [j EXCEPT !.acquired = FALSE]
           /\ device' \in {device, earlier}
  <2>1. /\ joystick'.states = j.states /\ joystick'.running = j.running
        /\ joystick'.acquired = FALSE /\ joystick' \in Joysticks
    BY <1>2 DEF Joysticks
  <2> QED BY <1>2, <2>1
<1> QED BY <1>1, <1>2 DEF Update

\* SetStates shows other states.
LEMMA SetStatesIs ==
    ASSUME Plain, NEW s \in SUBSET Buttons, SetStates(s)
    PROVE  /\ joystick' \in Joysticks /\ device' \in SUBSET Buttons /\ failures' \in Nat
           /\ joystick'.states = s /\ joystick'.running = joystick.running
           /\ level = "up" => /\ joystick'.acquired => device' = Wanted(joystick')
                              /\ timer' = (timer \/ joystick.running)
           /\ timer' \in BOOLEAN
<1> DEFINE j == [joystick EXCEPT !.states = s]
<1>1. j \in Joysticks /\ j.states = s /\ j.running = joystick.running
  BY DEF Plain, JoystickTyped, Joysticks
<1>2. device \in SUBSET Buttons /\ failures \in Nat /\ timer \in BOOLEAN /\ joystick.running \in BOOLEAN
  BY DEF Plain, JoystickTyped, Joysticks
<1> HIDE DEF j
<1>3. CASE level = "up"
  <2>1. Update(j, device) /\ timer' = (timer \/ j.running)
    BY <1>3 DEF SetStates, j
  <2> QED BY <1>1, <1>2, <2>1, UpdateIs
<1>4. CASE level # "up"
  <2>1. joystick' = j /\ UNCHANGED <<timer, device, failures>>
    BY <1>4 DEF SetStates, j
  <2> QED BY <1>1, <1>2, <1>4, <2>1
<1> QED BY <1>3, <1>4

\* Switch starts and stops the emulator's use of it.
LEMMA SwitchIs ==
    ASSUME Plain, NEW running \in BOOLEAN, NEW s \in SUBSET Buttons, Switch(running, s)
    PROVE  /\ joystick' \in Joysticks /\ device' \in SUBSET Buttons /\ failures' \in Nat
           /\ joystick'.states = s /\ joystick'.running = running
           /\ level = "up" => /\ joystick'.acquired => device' = Wanted(joystick')
                              /\ timer' = running
           /\ timer' \in BOOLEAN
<1> DEFINE j == [joystick EXCEPT !.running = running,
                                 !.expired = IF running # joystick.running THEN FALSE ELSE @]
           k == [j EXCEPT !.states = s]
<1>1. j \in Joysticks /\ k \in Joysticks /\ k.states = s /\ k.running = running
  BY DEF Plain, JoystickTyped, Joysticks
<1>2. device \in SUBSET Buttons /\ failures \in Nat /\ timer \in BOOLEAN
  BY DEF Plain, JoystickTyped
<1>3. Wanted(j) \in SUBSET Buttons
  BY <1>1, WantedTyped
<1>4. IF level = "up" THEN Update(k, Wanted(j)) /\ timer' = running
      ELSE joystick' = k /\ UNCHANGED <<timer, device, failures>>
  BY DEF Switch
<1> HIDE DEF j, k
<1>5. CASE level = "up"
  BY <1>1, <1>2, <1>3, <1>4, <1>5, UpdateIs
<1>6. CASE level # "up"
  BY <1>1, <1>2, <1>4, <1>6
<1> QED BY <1>5, <1>6

-----------------------------------------------------------------------------
\* The joystick is the emulator's, and the variables have their types.

Typed == Plain /\ Queues

\* What the server receives, and from whom.
LEMMA ReceivesIs ==
    ASSUME Typed, NEW e \in Ends, ServerReceives(e)
    PROVE  /\ toServer[e] # <<>> /\ Head(toServer[e]) \in FromClient(e)
           /\ LET m == Head(toServer[e]) IN
                 \/ /\ e = "box" /\ m.type = "ButtonStates" /\ m.value \in SUBSET Buttons
                    /\ HandleButtonStates(m.value)
                 \/ /\ e = "app" /\ m.type = "ButtonColors" /\ m.value \in Colors
                    /\ HandleButtonColors(m.value)
                 \/ e = "app" /\ m.type = "StartEmulator" /\ HandleStartEmulator
<1>1. toServer[e] # <<>> /\ toServer[e] \in Seq(FromClient(e))
  BY DEF ServerReceives, Typed, Queues
<1>2. Head(toServer[e]) \in FromClient(e)
  BY <1>1
<1> DEFINE m == Head(toServer[e])
<1>3. \/ m.type = "ButtonStates" /\ HandleButtonStates(m.value)
      \/ m.type = "ButtonColors" /\ HandleButtonColors(m.value)
      \/ m.type = "StartEmulator" /\ HandleStartEmulator
  BY DEF ServerReceives
<1> HIDE DEF m
<1>4. CASE e = "box"
  <2>1. m.type = "ButtonStates" /\ m.value \in SUBSET Buttons
    BY <1>2, <1>4, Understood DEF m
  <2> QED BY <1>1, <1>2, <1>3, <1>4, <2>1 DEF m
<1>5. CASE e = "app"
  <2>1. (m.type = "ButtonColors" /\ m.value \in Colors) \/ m.type = "StartEmulator"
    BY <1>2, <1>5, Understood DEF m
  <2> QED BY <1>1, <1>2, <1>3, <1>5, <2>1 DEF m
<1> QED BY <1>4, <1>5, TwoEnds

\* Every step keeps the joystick the emulator's.
LEMMA NextJoystick ==
    ASSUME Typed, JoystickFollows, [Next]_vars
    PROVE  JoystickFollows' /\ JoystickTyped'
<1> USE DEF JoystickTyped
<1>0. /\ joystick \in Joysticks /\ device \in SUBSET Buttons /\ failures \in Nat /\ timer \in BOOLEAN
      /\ states \in SUBSET Buttons /\ joystick.running \in BOOLEAN
      /\ emulator \in {"none", "running", "ended"} /\ level \in {"up", "stopping", "stopped"}
  BY DEF Typed, Plain, ConnectionsTyped, KnownTyped, Joysticks
<1>1. CASE UNCHANGED <<joy, level, states, emulator>>
  BY <1>0, <1>1 DEF JoystickFollows, Wanted, joy
<1>2. ASSUME NEW e \in Ends, ServerReceives(e), ~UNCHANGED <<joy, level, states, emulator>>
      PROVE  JoystickFollows' /\ JoystickTyped'
  <2> DEFINE m == Head(toServer[e])
  <2>0. level' = level
    BY <1>2 DEF ServerReceives
  <2>1. CASE m.type = "ButtonStates" /\ m.value \in SUBSET Buttons /\ HandleButtonStates(m.value)
    <3>1. states' = m.value /\ emulator' = emulator
      BY <2>1 DEF HandleButtonStates
    <3>2. CASE emulator # "none"
      <4>1. SetStates(m.value)
        BY <2>1, <3>2 DEF HandleButtonStates
      <4>2. /\ joystick' \in Joysticks /\ device' \in SUBSET Buttons /\ failures' \in Nat
            /\ joystick'.states = m.value /\ joystick'.running = joystick.running
            /\ level = "up" => /\ joystick'.acquired => device' = Wanted(joystick')
                               /\ timer' = (timer \/ joystick.running)
            /\ timer' \in BOOLEAN
        BY <2>1, <4>1, SetStatesIs DEF Typed
      <4>3. joystick.running = TRUE
        BY <3>2 DEF JoystickFollows
      <4>4. Wanted(joystick)' = Wanted(joystick')
        BY DEF Wanted
      <4> QED BY <2>0, <3>1, <3>2, <4>2, <4>3, <4>4 DEF JoystickFollows
    <3>3. CASE emulator = "none"
      <4>1. UNCHANGED joy /\ joystick.running = FALSE
        BY <2>1, <3>3 DEF HandleButtonStates, JoystickFollows
      <4> QED BY <1>0, <2>0, <3>1, <3>3, <4>1 DEF JoystickFollows, Wanted, joy
    <3> QED BY <3>2, <3>3
  <2>2. CASE HandleButtonColors(m.value)
    BY <1>2, <2>0, <2>2 DEF HandleButtonColors
  <2>3. CASE HandleStartEmulator
    <3>1. Switch(TRUE, states) /\ states' = states /\ emulator' # "none"
      BY <1>0, <2>3 DEF HandleStartEmulator
    <3>2. /\ joystick' \in Joysticks /\ device' \in SUBSET Buttons /\ failures' \in Nat
          /\ joystick'.states = states /\ joystick'.running = TRUE
          /\ level = "up" => /\ joystick'.acquired => device' = Wanted(joystick')
                             /\ timer' = TRUE
          /\ timer' \in BOOLEAN
      BY <1>0, <3>1, SwitchIs DEF Typed
    <3>3. Wanted(joystick)' = Wanted(joystick')
      BY DEF Wanted
    <3> QED BY <2>0, <3>1, <3>2, <3>3 DEF JoystickFollows
  <2> HIDE DEF m
  <2> QED BY <1>2, <2>1, <2>2, <2>3, ReceivesIs DEF m
<1>3. CASE IdleTimeout
  <2> DEFINE j == [joystick EXCEPT !.expired = TRUE]
  <2>1. Update(j, device) /\ timer' = joystick.running /\ UNCHANGED srv
    BY <1>3 DEF IdleTimeout
  <2>2. j \in Joysticks /\ j.states = joystick.states /\ j.running = joystick.running
    BY <1>0 DEF Joysticks
  <2> HIDE DEF j
  <2>3. /\ joystick' \in Joysticks /\ device' \in SUBSET Buttons /\ failures' \in Nat
        /\ joystick'.states = joystick.states /\ joystick'.running = joystick.running
        /\ joystick'.acquired => device' = Wanted(joystick')
    BY <1>0, <2>1, <2>2, UpdateIs
  <2>4. Wanted(joystick)' = Wanted(joystick')
    BY DEF Wanted
  <2> QED BY <1>0, <2>1, <2>3, <2>4 DEF JoystickFollows, srv
<1>4. CASE EmulatorEnds
  BY <1>0, <1>4 DEF EmulatorEnds, JoystickFollows, Wanted, joy
<1>5. CASE ProcessCompleted
  <2>1. Switch(FALSE, {}) /\ emulator' = "none" /\ (level' = "up" => level = "up") /\ states' = states
    BY <1>0, <1>5 DEF ProcessCompleted
  <2>2. /\ joystick' \in Joysticks /\ device' \in SUBSET Buttons /\ failures' \in Nat
        /\ joystick'.states = {} /\ joystick'.running = FALSE
        /\ level = "up" => /\ joystick'.acquired => device' = Wanted(joystick')
                           /\ timer' = FALSE
        /\ timer' \in BOOLEAN
    BY <2>1, SwitchIs DEF Typed
  <2>3. Wanted(joystick)' = Wanted(joystick')
    BY DEF Wanted
  <2> QED BY <2>1, <2>2, <2>3 DEF JoystickFollows
<1>6. CASE HandleStopping
  BY <1>0, <1>6 DEF HandleStopping, JoystickFollows
<1> QED BY <1>1, <1>2, <1>3, <1>4, <1>5, <1>6
        DEF Next, vars, srv, Connect, Break, ServerNotices, Press, Render, BoxReceives, BoxNotices,
            Frame, MusicEnds, Paint, SendTimerExpired, AppReceives, AppNotices, Stopped

\* Every step keeps the other types.
LEMMA NextConnections ==
    ASSUME Typed, [Next]_vars
    PROVE  ConnectionsTyped'
<1> USE DEF ConnectionsTyped
<1>1. ConnectionsTyped
  BY DEF Typed, Plain
<1>2. ASSUME NEW e \in Ends, ServerReceives(e) PROVE ConnectionsTyped'
  <2>1. UNCHANGED <<client, server, up, level>>
    BY <1>2 DEF ServerReceives
  <2>2. emulator' \in {"none", "running", "ended"}
    BY <1>1, <1>2, ReceivesIs DEF HandleButtonStates, HandleButtonColors, HandleStartEmulator
  <2> QED BY <1>1, <2>1, <2>2
<1>3. ASSUME NEW e \in Ends, Connect(e) \/ Break(e) \/ ServerNotices(e) PROVE ConnectionsTyped'
  BY <1>1, <1>3 DEF Connect, Break, ServerNotices, srv
<1>4. CASE BoxReceives \/ BoxNotices \/ AppReceives \/ AppNotices
  BY <1>1, <1>4 DEF BoxReceives, BoxNotices, AppReceives, AppNotices, srv
<1>5. CASE EmulatorEnds \/ ProcessCompleted \/ HandleStopping
  BY <1>1, <1>5 DEF EmulatorEnds, ProcessCompleted, HandleStopping, link
<1>6. CASE Press \/ Render \/ IdleTimeout \/ Frame \/ MusicEnds \/ Paint \/ SendTimerExpired
           \/ Stopped \/ UNCHANGED vars
  <2>1. UNCHANGED <<client, server, up, level, emulator>>
    BY <1>6 DEF Press, Render, IdleTimeout, Frame, MusicEnds, Paint, SendTimerExpired, Stopped, vars,
                link, srv
  <2> QED BY <1>1, <2>1
<1> QED BY <1>2, <1>3, <1>4, <1>5, <1>6 DEF Next

LEMMA NextKnown ==
    ASSUME Typed, [Next]_vars
    PROVE  KnownTyped'
<1> USE DEF KnownTyped
<1>1. KnownTyped
  BY DEF Typed, Plain
<1>2. ASSUME NEW e \in Ends, ServerReceives(e) PROVE KnownTyped'
  <2>1. UNCHANGED <<pressed, boxStates, boxColors, appStates, clicked, colors>>
    BY <1>2 DEF ServerReceives, box, pads, lights
  <2>2. states' \in SUBSET Buttons
    BY <1>1, <1>2, ReceivesIs DEF HandleButtonStates, HandleButtonColors, HandleStartEmulator
  <2> QED BY <1>1, <2>1, <2>2
<1>3. CASE Press
  BY <1>1, <1>3 DEF Press, box, srv, pads, lights
<1>4. CASE Render
  BY <1>1, <1>4 DEF Render, srv, pads, lights
<1>5. CASE BoxReceives
  <2>1. Head(toClient["box"]) \in FromServer("box")
    BY <1>5, TwoEnds DEF BoxReceives, Typed, Queues
  <2>2. boxColors' \in Colors \cup {rainbow}
    BY <1>1, <1>5, <2>1, Understood DEF BoxReceives
  <2> QED BY <1>1, <1>5, <2>2 DEF BoxReceives, srv, pads, lights
<1>6. CASE AppReceives
  <2> DEFINE m == Head(toClient["app"])
  <2>1. m \in FromServer("app")
    BY <1>6, TwoEnds DEF AppReceives, Typed, Queues
  <2>2. m.type = "ButtonStates" => m.value \in SUBSET Buttons
    BY <2>1, Understood
  <2>3. /\ appStates' = (IF m.type = "ButtonStates" THEN m.value ELSE appStates)
        /\ clicked' = (IF m.type = "ButtonStates" THEN Clicks(m.value)
                       ELSE IF m.type = "EmulatorCompleted" THEN {} ELSE clicked)
        /\ UNCHANGED <<pressed, boxStates, boxColors, states, colors>>
    BY <1>6 DEF AppReceives, box, srv, lights
  <2> HIDE DEF m
  <2>4. Clicks(m.value) \in SUBSET Buttons \/ m.type # "ButtonStates"
    BY <1>1, <2>2 DEF Clicks
  <2> QED BY <1>1, <2>2, <2>3, <2>4
<1>7. CASE AppNotices
  BY <1>1, <1>7 DEF AppNotices, box, srv, lights
<1>8. CASE Frame \/ MusicEnds
  BY <1>1, <1>8 DEF Frame, MusicEnds, box, srv, lights
<1>9. CASE Paint
  BY <1>1, <1>9 DEF Paint, box, srv, pads
<1>10. CASE (\E e \in Ends : Connect(e) \/ Break(e) \/ ServerNotices(e)) \/ BoxNotices \/ IdleTimeout
            \/ EmulatorEnds \/ ProcessCompleted \/ HandleStopping \/ SendTimerExpired
            \/ Stopped \/ UNCHANGED vars
  <2>1. UNCHANGED <<pressed, boxStates, boxColors, states, appStates, clicked, colors>>
    BY <1>10 DEF Connect, Break, ServerNotices, BoxNotices, IdleTimeout, EmulatorEnds, ProcessCompleted,
                 HandleStopping, SendTimerExpired, Stopped, vars, box, srv, pads, lights
  <2> QED BY <1>1, <2>1
<1> QED BY <1>2, <1>3, <1>4, <1>5, <1>6, <1>7, <1>8, <1>9, <1>10 DEF Next

LEMMA ShowTyped ==
    ASSUME PagesTyped, NEW s \in {"logo", "menu", "game", "none"}, NEW plays \in BOOLEAN, Show(s, plays)
    PROVE  /\ music' \in BOOLEAN /\ orphan' \in BOOLEAN
           /\ screen' \in {"logo", "menu", "game", "none"} /\ selected' \in {"no", "game", "emulator"}
  BY DEF PagesTyped, Show

\* What one frame does to the page that is shown.
LEMMA FrameIs ==
    ASSUME Frame
    PROVE  \/ UNCHANGED <<pages, toServer>>
           \/ /\ screen = "menu" /\ selected' \in {"game", "emulator"}
              /\ UNCHANGED <<screen, music, orphan, toServer>>
           \/ \E s \in {"logo", "menu", "game"} : Show(s, FALSE) /\ UNCHANGED toServer
           \/ client["app"] = "open" /\ Show("none", FALSE) /\ Reports("app", Signal("StartEmulator"))
  BY DEF Frame, ShowSelected

LEMMA NextPages ==
    ASSUME Typed, [Next]_vars
    PROVE  PagesTyped'
<1>1. PagesTyped
  BY DEF Typed, Plain
<1>2. CASE Frame
  <2>1. UNCHANGED <<sendTimer, presses, paints, breaks>>
    BY <1>2 DEF Frame, lights, budgets
  <2>2. /\ music' \in BOOLEAN /\ orphan' \in BOOLEAN
        /\ screen' \in {"logo", "menu", "game", "none"} /\ selected' \in {"no", "game", "emulator"}
    <3>1. CASE UNCHANGED <<pages, toServer>>
      BY <1>1, <3>1 DEF PagesTyped, pages
    <3>2. CASE selected' \in {"game", "emulator"} /\ UNCHANGED <<screen, music, orphan, toServer>>
      BY <1>1, <3>2 DEF PagesTyped
    <3>3. ASSUME NEW s \in {"logo", "menu", "game", "none"}, Show(s, FALSE)
          PROVE  /\ music' \in BOOLEAN /\ orphan' \in BOOLEAN
                 /\ screen' \in {"logo", "menu", "game", "none"}
                 /\ selected' \in {"no", "game", "emulator"}
      BY <1>1, <3>3, ShowTyped
    <3> QED BY <1>2, <3>1, <3>2, <3>3, FrameIs
  <2> QED BY <1>1, <2>1, <2>2 DEF PagesTyped
<1>3. CASE MusicEnds
  BY <1>1, <1>3 DEF MusicEnds, Show, PagesTyped, lights, budgets
<1>4. CASE AppReceives
  <2>1. UNCHANGED <<sendTimer, presses, paints, breaks>>
    BY <1>4 DEF AppReceives, lights, budgets
  <2>2. CASE UNCHANGED pages
    BY <1>1, <2>1, <2>2 DEF PagesTyped, pages
  <2>3. CASE Show("menu", music)
    BY <1>1, <2>1, <2>3, ShowTyped DEF PagesTyped
  <2> QED BY <1>4, <2>2, <2>3 DEF AppReceives
<1>5. CASE AppNotices
  <2>1. UNCHANGED <<sendTimer, presses, paints, breaks>>
    BY <1>5 DEF AppNotices, lights, budgets
  <2>2. CASE UNCHANGED pages
    BY <1>1, <2>1, <2>2 DEF PagesTyped, pages
  <2>3. CASE Show("logo", FALSE)
    BY <1>1, <2>1, <2>3, ShowTyped DEF PagesTyped
  <2> QED BY <1>5, <2>2, <2>3 DEF AppNotices
<1>6. CASE Press \/ (\E e \in Ends : Break(e))
  BY <1>1, <1>6 DEF Press, Break, PagesTyped, lights, pages
<1>7. CASE Paint \/ SendTimerExpired
  <2>1. paints' \in Nat
    BY <1>1, <1>7 DEF Paint, SendTimerExpired, PagesTyped, budgets
  <2>2. sendTimer' \in BOOLEAN
    BY <1>7 DEF Paint, SendTimerExpired
  <2>3. UNCHANGED <<music, orphan, screen, selected, presses, breaks>>
    BY <1>7 DEF Paint, SendTimerExpired, pages, budgets
  <2> QED BY <1>1, <2>1, <2>2, <2>3 DEF PagesTyped
<1>8. CASE (\E e \in Ends : Connect(e) \/ ServerNotices(e) \/ ServerReceives(e)) \/ Render \/ BoxReceives
           \/ BoxNotices \/ IdleTimeout \/ EmulatorEnds \/ ProcessCompleted \/ HandleStopping
           \/ Stopped \/ UNCHANGED vars
  <2>1. UNCHANGED <<sendTimer, music, orphan, screen, selected, presses, paints, breaks>>
    BY <1>8 DEF Connect, ServerNotices, ServerReceives, Render, BoxReceives, BoxNotices, IdleTimeout,
                EmulatorEnds, ProcessCompleted, HandleStopping, Stopped, vars, lights, pages, budgets
  <2> QED BY <1>1, <2>1 DEF PagesTyped
<1> QED BY <1>2, <1>3, <1>4, <1>5, <1>6, <1>7, <1>8 DEF Next

\* Every step keeps the messages understood.
LEMMA TakenTyped ==
    ASSUME Queues, NEW e \in Ends
    PROVE  /\ toServer[e] # <<>> => Tail(toServer[e]) \in Seq(FromClient(e))
           /\ toClient[e] # <<>> => Tail(toClient[e]) \in Seq(FromServer(e))
<1>1. toServer[e] \in Seq(FromClient(e)) /\ toClient[e] \in Seq(FromServer(e))
  BY DEF Queues
<1> QED BY <1>1

\* A prefix of a queue.
LEMMA CutTyped ==
    ASSUME NEW M, NEW p \in Seq(M), NEW n \in 0 .. Len(p)
    PROVE  SubSeq(p, 1, n) \in Seq(M)
  OBVIOUS

LEMMA NextQueues ==
    ASSUME Typed, [Next]_vars
    PROVE  Queues'
<1> DEFINE Servers == DOMAIN toServer' = Ends /\ \A f \in Ends : toServer'[f] \in Seq(FromClient(f))
           Clients == DOMAIN toClient' = Ends /\ \A f \in Ends : toClient'[f] \in Seq(FromServer(f))
<1>0. Queues /\ KnownTyped /\ (Servers /\ Clients => Queues')
  BY DEF Typed, Plain, Queues, FromClient, FromServer
<1>1. \A S : <<>> \in Seq(S)
  OBVIOUS
<1>2. UNCHANGED toServer => Servers
  BY <1>0 DEF Queues
<1>3. UNCHANGED toClient => Clients
  BY <1>0 DEF Queues
<1>4. ASSUME NEW e \in Ends, toServer' = [toServer EXCEPT ![e] = <<>>] PROVE Servers
  BY <1>0, <1>1, <1>4 DEF Queues
<1>5. ASSUME NEW e \in Ends, toClient' = [toClient EXCEPT ![e] = <<>>] PROVE Clients
  BY <1>0, <1>1, <1>5 DEF Queues
<1>6. ASSUME NEW e \in Ends, toServer[e] # <<>>, toServer' = [toServer EXCEPT ![e] = Tail(@)] PROVE Servers
  BY <1>0, <1>6, TakenTyped DEF Queues
<1>7. ASSUME NEW e \in Ends, toClient[e] # <<>>, toClient' = [toClient EXCEPT ![e] = Tail(@)] PROVE Clients
  BY <1>0, <1>7, TakenTyped DEF Queues
<1>8. ASSUME NEW e \in Ends, NEW m \in FromClient(e), Reports(e, m) PROVE Servers
  BY <1>0, <1>8, ReportsTyped
<1>9. ASSUME NEW e \in Ends, NEW ms \in Seq(FromServer(e)), Sends(e, ms) PROVE Clients
  BY <1>0, <1>9, SendsTyped
<1> SUFFICES Servers /\ Clients
  BY <1>0
<1> HIDE DEF Servers, Clients
<1>10. ASSUME NEW e \in Ends, Connect(e) PROVE Servers /\ Clients
  <2>1. Servers
    BY <1>4, <1>10 DEF Connect
  <2>2. Signal("opened") \in FromServer(e)
    BY MayBeSent
  <2>3. ASSUME NEW f \in Ends PROVE toClient'[f] \in Seq(FromServer(f))
    <3> DEFINE before == IF f = e THEN <<Signal("opened")>> ELSE toClient[f]
               after == IF f \in up' /\ \A g \in Ends : server'[g] = "open"
                        THEN <<Signal("RetransmitRequired")>> ELSE <<>>
    <3>1. toClient'[f] = before \o after
      BY <1>10 DEF Connect
    <3>2. before \in Seq(FromServer(f))
      <4>1. <<Signal("opened")>> \in Seq(FromServer(e)) /\ toClient[f] \in Seq(FromServer(f))
        BY <1>0, <2>2 DEF Queues
      <4> QED BY <4>1
    <3>3. after \in Seq(FromServer(f))
      <4>1. Signal("RetransmitRequired") \in FromServer(f)
        BY MayBeSent
      <4>2. <<Signal("RetransmitRequired")>> \in Seq(FromServer(f))
        BY <4>1
      <4> QED BY <1>1, <4>2
    <3> HIDE DEF before, after
    <3> QED BY <3>1, <3>2, <3>3
  <2>4. DOMAIN toClient' = Ends
    BY <1>10 DEF Connect
  <2> QED BY <2>1, <2>3, <2>4 DEF Clients
<1>11. ASSUME NEW e \in Ends, Break(e) PROVE Servers /\ Clients
  <2>1. PICK n \in 0 .. Len(toServer[e]) : toServer' = [toServer EXCEPT ![e] = SubSeq(@, 1, n)]
    BY <1>11 DEF Break
  <2>2. PICK k \in 0 .. Len(toClient[e]) : toClient' = [toClient EXCEPT ![e] = SubSeq(@, 1, k)]
    BY <1>11 DEF Break
  <2>3. toServer[e] \in Seq(FromClient(e)) /\ toClient[e] \in Seq(FromServer(e))
    BY <1>0 DEF Queues
  <2>4. SubSeq(toServer[e], 1, n) \in Seq(FromClient(e)) /\ SubSeq(toClient[e], 1, k) \in Seq(FromServer(e))
    BY <2>3, CutTyped
  <2>5. Servers
    BY <1>0, <2>1, <2>4 DEF Servers, Queues
  <2>6. Clients
    BY <1>0, <2>2, <2>4 DEF Clients, Queues
  <2> QED BY <2>5, <2>6
<1>12. ASSUME NEW e \in Ends, ServerNotices(e) PROVE Servers /\ Clients
  BY <1>3, <1>4, <1>12 DEF ServerNotices
<1>13. ASSUME NEW e \in Ends, ServerReceives(e) PROVE Servers /\ Clients
  <2>1. toServer[e] # <<>> /\ toServer' = [toServer EXCEPT ![e] = Tail(@)]
    BY <1>13 DEF ServerReceives
  <2>2. Servers
    BY <1>6, <2>1
  <2>3. ASSUME NEW s \in SUBSET Buttons, Sends("app", <<States(s)>>) PROVE Clients
    <3>1. States(s) \in FromServer("app")
      BY MayBeSent
    <3>2. <<States(s)>> \in Seq(FromServer("app"))
      BY <3>1
    <3> QED BY <1>9, <2>3, <3>2, TwoEnds
  <2>4. ASSUME NEW c \in Colors, Sends("box", <<ButtonColors(c)>>) PROVE Clients
    <3>1. ButtonColors(c) \in FromServer("box")
      BY MayBeSent
    <3>2. <<ButtonColors(c)>> \in Seq(FromServer("box"))
      BY <3>1
    <3> QED BY <1>9, <2>4, <3>2, TwoEnds
  <2>5. Clients
    <3>1. \/ UNCHANGED toClient
          \/ \E s \in SUBSET Buttons : Sends("app", <<States(s)>>)
          \/ \E c \in Colors : Sends("box", <<ButtonColors(c)>>)
      BY <1>13, ReceivesIs DEF HandleButtonStates, HandleButtonColors, HandleStartEmulator
    <3> QED BY <1>3, <2>3, <2>4, <3>1
  <2> QED BY <2>2, <2>5
<1>14. CASE Render \/ BoxReceives
  <2>1. ASSUME NEW s \in SUBSET Buttons, Reports("box", States(s)) PROVE Servers
    BY <1>8, <2>1, MayBeSent, TwoEnds
  <2>2. Servers
    <3>1. UNCHANGED toServer \/ \E s \in SUBSET Buttons : Reports("box", States(s))
      BY <1>0, <1>14 DEF Render, BoxReceives, KnownTyped
    <3> QED BY <1>2, <2>1, <3>1
  <2>3. Clients
    BY <1>3, <1>7, <1>14, TwoEnds DEF Render, BoxReceives
  <2> QED BY <2>2, <2>3
<1>15. CASE BoxNotices \/ AppNotices
  BY <1>2, <1>5, <1>15, TwoEnds DEF BoxNotices, AppNotices
<1>16. CASE ProcessCompleted
  <2>1. Signal("EmulatorCompleted") \in FromServer("app") /\ States(states) \in FromServer("app")
    BY <1>0, MayBeSent DEF KnownTyped
  <2>2. <<Signal("EmulatorCompleted"), States(states)>> \in Seq(FromServer("app"))
    BY <2>1
  <2> QED BY <1>2, <1>9, <1>16, <2>2, TwoEnds DEF ProcessCompleted
<1>17. CASE HandleStopping
  BY <1>1, <1>3, <1>17 DEF HandleStopping, Servers
<1>18. CASE Frame
  <2>1. UNCHANGED toServer \/ Reports("app", Signal("StartEmulator"))
    BY <1>18, FrameIs
  <2>2. UNCHANGED toClient
    BY <1>18 DEF Frame
  <2> QED BY <1>2, <1>3, <1>8, <2>1, <2>2, MayBeSent, TwoEnds
<1>19. CASE SendTimerExpired \/ AppReceives
  <2>1. Servers
    <3>1. ButtonColors(colors) \in FromClient("app")
      BY <1>0, MayBeSent DEF KnownTyped
    <3>2. UNCHANGED toServer \/ Reports("app", ButtonColors(colors))
      BY <1>19 DEF SendTimerExpired, AppReceives
    <3> QED BY <1>2, <1>8, <3>1, <3>2, TwoEnds
  <2>2. Clients
    BY <1>3, <1>7, <1>19, TwoEnds DEF SendTimerExpired, AppReceives
  <2> QED BY <2>1, <2>2
<1>20. CASE Press \/ IdleTimeout \/ EmulatorEnds \/ MusicEnds \/ Paint \/ Stopped \/ UNCHANGED vars
  BY <1>2, <1>3, <1>20 DEF Press, IdleTimeout, EmulatorEnds, MusicEnds, Paint, Stopped, vars, link
<1> QED BY <1>10, <1>11, <1>12, <1>13, <1>14, <1>15, <1>16, <1>17, <1>18, <1>19, <1>20 DEF Next

\* The initial states have the types, and the joystick let go.
LEMMA InitTyped == Init => Typed /\ JoystickFollows
<1> SUFFICES ASSUME Init PROVE Typed /\ JoystickFollows
  OBVIOUS
<1>1. ConnectionsTyped
  BY DEF Init, ConnectionsTyped
<1>2. KnownTyped
  BY MiamiNightsAssumption DEF Init, KnownTyped
<1>3. PagesTyped
  BY DEF Init, PagesTyped
<1>4. JoystickTyped
  BY DEF Init, JoystickTyped, Joysticks
<1>5. Queues
  BY DEF Init, Queues
<1>6. JoystickFollows
  BY DEF Init, JoystickFollows
<1> QED BY <1>1, <1>2, <1>3, <1>4, <1>5, <1>6 DEF Typed, Plain

LEMMA NextTyped == Typed /\ JoystickFollows /\ [Next]_vars => (Typed /\ JoystickFollows)'
  BY NextConnections, NextKnown, NextPages, NextJoystick, NextQueues DEF Typed, Plain

\* The joystick is used by an emulator that runs and by nothing else, and shows
\* what the server knows: idle, it is let go and no timer is left to press it.
THEOREM StaysConsistent == Spec => []Consistent
<1>1. Typed /\ JoystickFollows => Consistent
  BY TypesArePlain DEF Typed, Consistent
<1> QED BY <1>1, InitTyped, NextTyped, PTL DEF Spec

-----------------------------------------------------------------------------
\* The connections.

\* A connection that is not broken is open at the server's end; the client's
\* finds out first.  There is none once the server stops.
Links ==
    /\ level # "up" => up = {} /\ \A e \in Ends : server[e] = "closed"
    /\ \A e \in up : server[e] = "open" /\ client[e] # "closed"
    /\ \A e \in up : client[e] = "connecting" =>
                         toClient[e] # <<>> /\ Head(toClient[e]).type = "opened"

\* A client may be told to send again.
LEMMA MaybeTold ==
    ASSUME NEW f \in Ends, NEW p \in Seq(FromServer(f)), NEW b \in BOOLEAN,
           NEW q, q = p \o IF b THEN <<Signal("RetransmitRequired")>> ELSE <<>>
    PROVE  /\ p # <<>> => q # <<>> /\ Head(q) = Head(p)
           /\ \A t : t # "RetransmitRequired" =>
                 (Has(q, t) <=> Has(p, t)) /\ (Once(p, t) => Once(q, t))
           /\ b => Has(q, "RetransmitRequired")
<1>1. Signal("RetransmitRequired") \in FromServer(f)
  BY MayBeSent
<1>2. Signal("RetransmitRequired").type = "RetransmitRequired"
  BY Messages
<1>3. CASE b
  <2>1. PICK m \in FromServer(f) : m.type = "RetransmitRequired" /\ q = p \o <<m>>
    BY <1>1, <1>2, <1>3
  <2>2. q # <<>> /\ (p # <<>> => Head(q) = Head(p))
    BY <2>1, Sent
  <2>3. \A t : Has(q, t) <=> Has(p, t) \/ m.type = t
    BY <2>1, Sent
  <2>4. \A t : t # "RetransmitRequired" => (Once(p, t) => Once(q, t))
    BY <2>1, Sent
  <2> QED BY <2>1, <2>2, <2>3, <2>4
<1>4. CASE ~b
  <2>1. q = p
    BY <1>4
  <2> QED BY <1>4, <2>1
<1> QED BY <1>3, <1>4

\* A queue of one message.
LEMMA OnlyOne ==
    ASSUME NEW m
    PROVE  /\ <<m>> # <<>> /\ Head(<<m>>) = m
           /\ \A t : Once(<<m>>, t) /\ (Has(<<m>>, t) <=> t = m.type)
<1>1. Len(<<m>>) = 1 /\ <<m>>[1] = m /\ \A i \in 1 .. 1 : i = 1
  OBVIOUS
<1>2. 1 \in 1 .. 1
  OBVIOUS
<1> QED BY <1>1, <1>2 DEF Once, Has

\* A connection starts with "opened", and when both are there both clients are
\* told to send again.
LEMMA ConnectIs ==
    ASSUME Typed, Links, NEW e \in Ends, Connect(e)
    PROVE  /\ toClient'[e] # <<>> /\ Head(toClient'[e]).type = "opened"
           /\ \A t : t \notin {"opened", "RetransmitRequired"} => ~Has(toClient'[e], t) /\ Once(toClient'[e], t)
           /\ \A f \in Ends : f # e =>
                 /\ toClient[f] # <<>> => toClient'[f] # <<>> /\ Head(toClient'[f]) = Head(toClient[f])
                 /\ \A t : t # "RetransmitRequired" =>
                       (Has(toClient'[f], t) <=> Has(toClient[f], t)) /\ (Once(toClient[f], t) => Once(toClient'[f], t))
           /\ up' = Ends => \A f \in Ends : Has(toClient'[f], "RetransmitRequired")
<1> DEFINE both == \A g \in Ends : server'[g] = "open"
           told(f) == f \in up' /\ both
<1>0. Queues /\ server \in [Ends -> {"closed", "open"}] /\ both \in BOOLEAN /\ \A f \in Ends : told(f) \in BOOLEAN
  BY DEF Typed, Plain, ConnectionsTyped
<1>1. up' = up \cup {e} /\ \A g \in Ends : server'[g] = IF g = e THEN "open" ELSE server[g]
  BY <1>0 DEF Connect
<1>2. up' = Ends => \A f \in Ends : told(f)
  BY <1>1 DEF Links
<1>3. \A f \in Ends : toClient'[f] = (IF f = e THEN <<Signal("opened")>> ELSE toClient[f])
                                     \o IF told(f) THEN <<Signal("RetransmitRequired")>> ELSE <<>>
  BY DEF Connect
<1>4. /\ \A f \in Ends : Signal("opened") \in FromServer(f) /\ Signal("RetransmitRequired") \in FromServer(f)
      /\ Signal("opened").type = "opened" /\ Signal("RetransmitRequired").type = "RetransmitRequired"
  BY MayBeSent, Messages
<1> HIDE DEF told
<1>5. /\ toClient'[e] # <<>> /\ Head(toClient'[e]).type = "opened"
      /\ \A t : t \notin {"opened", "RetransmitRequired"} => ~Has(toClient'[e], t) /\ Once(toClient'[e], t)
      /\ told(e) => Has(toClient'[e], "RetransmitRequired")
  <2>1. PICK p : p = <<Signal("opened")>>
    OBVIOUS
  <2>2. p \in Seq(FromServer(e)) /\ p # <<>> /\ Head(p).type = "opened"
    BY <1>4, <2>1
  <2>3. \A t : Once(p, t) /\ (Has(p, t) <=> t = "opened")
    BY <1>4, <2>1, OnlyOne
  <2>4. toClient'[e] = p \o IF told(e) THEN <<Signal("RetransmitRequired")>> ELSE <<>>
    BY <1>3, <2>1
  <2>5. /\ toClient'[e] # <<>> /\ Head(toClient'[e]) = Head(p)
        /\ \A t : t # "RetransmitRequired" =>
              (Has(toClient'[e], t) <=> Has(p, t)) /\ (Once(p, t) => Once(toClient'[e], t))
        /\ told(e) => Has(toClient'[e], "RetransmitRequired")
    BY <1>0, <2>2, <2>4, MaybeTold
  <2>6. ASSUME NEW t, t \notin {"opened", "RetransmitRequired"}
        PROVE  ~Has(toClient'[e], t) /\ Once(toClient'[e], t)
    BY <2>3, <2>5, <2>6
  <2> QED BY <2>2, <2>5, <2>6
<1>6. ASSUME NEW f \in Ends, f # e
      PROVE  /\ toClient[f] # <<>> => toClient'[f] # <<>> /\ Head(toClient'[f]) = Head(toClient[f])
             /\ \A t : t # "RetransmitRequired" =>
                   (Has(toClient'[f], t) <=> Has(toClient[f], t)) /\ (Once(toClient[f], t) => Once(toClient'[f], t))
             /\ told(f) => Has(toClient'[f], "RetransmitRequired")
  <2>1. toClient'[f] = toClient[f] \o IF told(f) THEN <<Signal("RetransmitRequired")>> ELSE <<>>
    BY <1>3, <1>6
  <2>2. toClient[f] \in Seq(FromServer(f))
    BY <1>0 DEF Queues
  <2> QED BY <1>0, <2>1, <2>2, MaybeTold
<1> QED BY <1>2, <1>5, <1>6

\* What the server sends comes after what is under way.
LEMMA SendsKeepFirst ==
    ASSUME Queues, NEW e \in Ends, NEW ms \in Seq(FromServer(e)), Sends(e, ms),
           NEW f \in Ends, toClient[f] # <<>>
    PROVE  toClient'[f] # <<>> /\ Head(toClient'[f]) = Head(toClient[f])
<1>1. ASSUME NEW p \in Seq(FromServer(e)), p # <<>> PROVE p \o ms # <<>> /\ Head(p \o ms) = Head(p)
  BY <1>1
<1>2. toClient[e] \in Seq(FromServer(e))
  BY DEF Queues
<1>3. CASE f = e
  BY <1>1, <1>2, <1>3, SendsTo
<1>4. CASE f # e
  BY <1>4, SendsTo
<1> QED BY <1>3, <1>4

\* What the server's handlers send, if anything.
LEMMA ServerSends ==
    ASSUME Typed, (\E e \in Ends : ServerReceives(e)) \/ ProcessCompleted
    PROVE  UNCHANGED toClient \/ \E f \in Ends : \E ms \in Seq(FromServer(f)) : Sends(f, ms)
<1>0. states \in SUBSET Buttons
  BY DEF Typed, Plain, KnownTyped
<1>1. ASSUME NEW s \in SUBSET Buttons, Sends("app", <<States(s)>>)
      PROVE  \E f \in Ends : \E ms \in Seq(FromServer(f)) : Sends(f, ms)
  <2>1. States(s) \in FromServer("app")
    BY MayBeSent
  <2>2. <<States(s)>> \in Seq(FromServer("app"))
    BY <2>1
  <2> QED BY <1>1, <2>2, TwoEnds
<1>2. ASSUME NEW c \in Colors, Sends("box", <<ButtonColors(c)>>)
      PROVE  \E f \in Ends : \E ms \in Seq(FromServer(f)) : Sends(f, ms)
  <2>1. ButtonColors(c) \in FromServer("box")
    BY MayBeSent
  <2>2. <<ButtonColors(c)>> \in Seq(FromServer("box"))
    BY <2>1
  <2> QED BY <1>2, <2>2, TwoEnds
<1>3. ASSUME NEW e \in Ends, ServerReceives(e)
      PROVE  UNCHANGED toClient \/ \E f \in Ends : \E ms \in Seq(FromServer(f)) : Sends(f, ms)
  <2>1. \/ UNCHANGED toClient
        \/ \E s \in SUBSET Buttons : Sends("app", <<States(s)>>)
        \/ \E c \in Colors : Sends("box", <<ButtonColors(c)>>)
    BY <1>3, ReceivesIs DEF HandleButtonStates, HandleButtonColors, HandleStartEmulator
  <2> QED BY <1>1, <1>2, <2>1
<1>4. CASE ProcessCompleted
  <2>1. Signal("EmulatorCompleted") \in FromServer("app") /\ States(states) \in FromServer("app")
    BY <1>0, MayBeSent
  <2>2. <<Signal("EmulatorCompleted"), States(states)>> \in Seq(FromServer("app"))
    BY <2>1
  <2> QED BY <1>4, <2>2, TwoEnds DEF ProcessCompleted
<1> QED BY <1>3, <1>4

\* Every step keeps the connections so.
LEMMA NextLinks ==
    ASSUME Typed, Links, [Next]_vars
    PROVE  Links'
<1>0. /\ Queues /\ client \in [Ends -> {"closed", "connecting", "open"}]
      /\ server \in [Ends -> {"closed", "open"}] /\ up \subseteq Ends
  BY DEF Typed, Plain, ConnectionsTyped
<1>1. ASSUME NEW e \in Ends, Connect(e) PROVE Links'
  <2>1. /\ level = "up" /\ up' = up \cup {e} /\ level' = level
        /\ \A f \in Ends : f # e => client'[f] = client[f] /\ server'[f] = server[f]
        /\ client'[e] = "connecting" /\ server'[e] = "open"
    BY <1>0, <1>1 DEF Connect, srv
  <2>2. toClient'[e] # <<>> /\ Head(toClient'[e]).type = "opened"
    BY <1>1, ConnectIs
  <2>3. \A f \in Ends : f # e /\ toClient[f] # <<>> =>
            toClient'[f] # <<>> /\ Head(toClient'[f]) = Head(toClient[f])
    BY <1>1, ConnectIs
  <2> QED BY <1>0, <2>1, <2>2, <2>3 DEF Links
<1>2. ASSUME NEW e \in Ends, Break(e) PROVE Links'
  <2>1. /\ up' = up \ {e} /\ UNCHANGED <<client, server, level>>
        /\ \A f \in Ends : f # e => toClient'[f] = toClient[f]
    BY <1>0, <1>2 DEF Break, srv, Queues
  <2> QED BY <1>0, <2>1 DEF Links
<1>3. ASSUME NEW e \in Ends, ServerNotices(e) PROVE Links'
  BY <1>0, <1>3 DEF ServerNotices, Links, srv
<1>4. CASE (\E e \in Ends : ServerReceives(e)) \/ ProcessCompleted
  <2>1. /\ UNCHANGED <<client, server, up>>
        /\ level' # "up" => level # "up"
    BY <1>4 DEF ServerReceives, ProcessCompleted
  <2>2. \A f \in Ends : toClient[f] # <<>> => toClient'[f] # <<>> /\ Head(toClient'[f]) = Head(toClient[f])
    BY <1>0, <1>4, ServerSends, SendsKeepFirst
  <2> QED BY <1>0, <2>1, <2>2 DEF Links
<1>5. ASSUME NEW e \in Ends, toClient' = [toClient EXCEPT ![e] = Tail(@)],
             client' = (IF Head(toClient[e]).type = "opened" THEN [client EXCEPT ![e] = "open"] ELSE client),
             UNCHANGED <<server, up, level>>
      PROVE  Links'
  <2>1. \A f \in Ends : f # e => client'[f] = client[f] /\ toClient'[f] = toClient[f]
    BY <1>0, <1>5 DEF Queues
  <2>2. client'[e] = "open" \/ (client'[e] = client[e] /\ Head(toClient[e]).type # "opened")
    BY <1>0, <1>5
  <2> QED BY <1>0, <1>5, <2>1, <2>2 DEF Links
<1>6. CASE BoxReceives
  BY <1>5, <1>6, TwoEnds DEF BoxReceives, srv
<1>7. CASE AppReceives
  BY <1>5, <1>7, TwoEnds DEF AppReceives, srv
<1>8. ASSUME NEW e \in Ends, e \notin up, client' = [client EXCEPT ![e] = "closed"],
             toClient' = [toClient EXCEPT ![e] = <<>>], UNCHANGED <<server, up, level>>
      PROVE  Links'
  BY <1>0, <1>8 DEF Links, Queues
<1>9. CASE BoxNotices \/ AppNotices
  BY <1>8, <1>9, TwoEnds DEF BoxNotices, AppNotices, srv
<1>10. CASE HandleStopping
  BY <1>0, <1>10 DEF HandleStopping, Links
<1>11. CASE Press \/ Render \/ IdleTimeout \/ EmulatorEnds \/ Frame \/ MusicEnds \/ Paint \/ SendTimerExpired
            \/ Stopped \/ UNCHANGED vars
  <2>1. UNCHANGED <<client, server, up, toClient, level>>
    BY <1>11 DEF Press, Render, IdleTimeout, EmulatorEnds, Frame, MusicEnds, Paint, SendTimerExpired,
                 Stopped, vars, link, srv
  <2> QED BY <2>1 DEF Links
<1> QED BY <1>1, <1>2, <1>3, <1>4, <1>6, <1>7, <1>9, <1>10, <1>11 DEF Next

-----------------------------------------------------------------------------
\* What is not known yet is on its way.

ToldAgain(e) == Has(toClient[e], "RetransmitRequired")

\* A client that has not opened yet will be told to send again, after it has.
Asked == \A e \in Ends : client[e] = "connecting" => ToldAgain(e)

\* The server knows the buttons, or will.
StatesCome ==
    \/ ToldAgain("box")
    \/ Latest(toServer["box"], "ButtonStates", boxStates)
    \/ ~Has(toServer["box"], "ButtonStates") /\ states = boxStates

\* The pages know what the server knows of the buttons, or will, or the server
\* does not know it yet.
PagesCome ==
    emulator = "none" =>
        \/ ToldAgain("box") \/ Has(toServer["box"], "ButtonStates")
        \/ Latest(toClient["app"], "ButtonStates", states)
        \/ ~Has(toClient["app"], "ButtonStates") /\ appStates = states

\* The box has the pages' colours, or will.
ColorsCome ==
    \/ ToldAgain("app") \/ sendTimer
    \/ Latest(toServer["app"], "ButtonColors", colors)
    \/ /\ ~Has(toServer["app"], "ButtonColors")
       /\ \/ Latest(toClient["box"], "ButtonColors", colors)
          \/ ~Has(toClient["box"], "ButtonColors") /\ boxColors = colors

\* The colours of a box that has not opened yet do not last.
RainbowGoes ==
    client["box"] = "connecting" =>
        \/ ToldAgain("app") \/ Has(toServer["app"], "ButtonColors") \/ Has(toClient["box"], "ButtonColors")

AllCome == Asked /\ StatesCome /\ PagesCome /\ ColorsCome /\ RainbowGoes

Coming == up = Ends => AllCome

\* With both connections there, the ends and the queues are in use.
LEMMA BothUp ==
    ASSUME Typed, Links, up = Ends
    PROVE  /\ level = "up" /\ \A e \in Ends : server[e] = "open" /\ client[e] \in {"connecting", "open"}
           /\ \A e \in Ends : client[e] = "connecting" => Head(toClient[e]).type = "opened"
           /\ toServer["box"] \in Seq(FromClient("box")) /\ toServer["app"] \in Seq(FromClient("app"))
           /\ toClient["box"] \in Seq(FromServer("box")) /\ toClient["app"] \in Seq(FromServer("app"))
  BY TwoEnds DEF Typed, Plain, ConnectionsTyped, Queues, Links

\* One message sent by the server while both are.
LEMMA SendsNow ==
    ASSUME Typed, Links, up = Ends, NEW e \in Ends, NEW m \in FromServer(e), Sends(e, <<m>>)
    PROVE  /\ \A f \in Ends : f # e => toClient'[f] = toClient[f]
           /\ \A t : Has(toClient'[e], t) <=> Has(toClient[e], t) \/ m.type = t
           /\ \A t, v : /\ m.type = t => (Latest(toClient'[e], t, v) <=> m.value = v)
                        /\ m.type # t => (Latest(toClient'[e], t, v) <=> Latest(toClient[e], t, v))
<1>1. /\ \A f \in Ends : f # e => toClient'[f] = toClient[f]
      /\ toClient'[e] = toClient[e] \o <<m>> /\ toClient[e] \in Seq(FromServer(e))
  BY BothUp, SendsTo DEF Typed, Queues
<1>2. \A t : Has(toClient'[e], t) <=> Has(toClient[e], t) \/ m.type = t
  <2> SUFFICES ASSUME NEW p \in Seq(FromServer(e)), NEW q, q = p \o <<m>>
               PROVE  \A t : Has(q, t) <=> Has(p, t) \/ m.type = t
    BY <1>1
  <2> QED BY Sent
<1>3. ASSUME NEW t, NEW v
      PROVE  /\ m.type = t => (Latest(toClient'[e], t, v) <=> m.value = v)
             /\ m.type # t => (Latest(toClient'[e], t, v) <=> Latest(toClient[e], t, v))
  <2>1. PICK M, p, q : M = FromServer(e) /\ p = toClient[e] /\ q = toClient'[e]
    OBVIOUS
  <2>2. p \in Seq(M) /\ m \in M /\ q = p \o <<m>>
    BY <1>1, <2>1
  <2>3. /\ m.type = t => (Latest(q, t, v) <=> m.value = v)
        /\ m.type # t => (Latest(q, t, v) <=> Latest(p, t, v))
    BY ONLY <2>2, SentLast
  <2> QED BY <2>1, <2>3
<1> QED BY <1>1, <1>2, <1>3

\* One message sent by a client that has opened.
LEMMA ReportsNow ==
    ASSUME Typed, Links, up = Ends, NEW e \in Ends, NEW m \in FromClient(e), client[e] = "open", Reports(e, m)
    PROVE  /\ \A f \in Ends : f # e => toServer'[f] = toServer[f]
           /\ \A t : Has(toServer'[e], t) <=> Has(toServer[e], t) \/ m.type = t
           /\ \A t, v : /\ m.type = t => (Latest(toServer'[e], t, v) <=> m.value = v)
                        /\ m.type # t => (Latest(toServer'[e], t, v) <=> Latest(toServer[e], t, v))
<1>1. /\ \A f \in Ends : f # e => toServer'[f] = toServer[f]
      /\ toServer'[e] = toServer[e] \o <<m>> /\ toServer[e] \in Seq(FromClient(e))
  BY ReportsTo DEF Typed, Queues
<1>2. \A t : Has(toServer'[e], t) <=> Has(toServer[e], t) \/ m.type = t
  <2> SUFFICES ASSUME NEW p \in Seq(FromClient(e)), NEW q, q = p \o <<m>>
               PROVE  \A t : Has(q, t) <=> Has(p, t) \/ m.type = t
    BY <1>1
  <2> QED BY Sent
<1>3. ASSUME NEW t, NEW v
      PROVE  /\ m.type = t => (Latest(toServer'[e], t, v) <=> m.value = v)
             /\ m.type # t => (Latest(toServer'[e], t, v) <=> Latest(toServer[e], t, v))
  <2>1. PICK M, p, q : M = FromClient(e) /\ p = toServer[e] /\ q = toServer'[e]
    OBVIOUS
  <2>2. p \in Seq(M) /\ m \in M /\ q = p \o <<m>>
    BY <1>1, <2>1
  <2>3. /\ m.type = t => (Latest(q, t, v) <=> m.value = v)
        /\ m.type # t => (Latest(q, t, v) <=> Latest(p, t, v))
    BY ONLY <2>2, SentLast
  <2> QED BY <2>1, <2>3
<1> QED BY <1>1, <1>2, <1>3

\* One that has not sends nothing.
LEMMA ReportsNothing ==
    ASSUME NEW e, NEW m, client[e] # "open", Reports(e, m)
    PROVE  toServer' = toServer
  BY DEF Reports

\* The next message is taken from one of the queues.
LEMMA TakenNow ==
    ASSUME Typed, NEW e \in Ends
    PROVE  /\ toServer[e] # <<>> =>
                 LET m == Head(toServer[e])
                     q == Tail(toServer[e])
                 IN  /\ \A t : Has(toServer[e], t) <=> m.type = t \/ Has(q, t)
                     /\ \A t, v : Latest(toServer[e], t, v)
                            <=> Latest(q, t, v) \/ (~Has(q, t) /\ m.type = t /\ m.value = v)
           /\ toClient[e] # <<>> =>
                 LET m == Head(toClient[e])
                     q == Tail(toClient[e])
                 IN  /\ \A t : Has(toClient[e], t) <=> m.type = t \/ Has(q, t)
                     /\ \A t, v : Latest(toClient[e], t, v)
                            <=> Latest(q, t, v) \/ (~Has(q, t) /\ m.type = t /\ m.value = v)
<1>1. toServer[e] \in Seq(FromClient(e)) /\ toClient[e] \in Seq(FromServer(e))
  BY DEF Typed, Queues
<1>2. ASSUME NEW M, NEW p \in Seq(M), p # <<>>
      PROVE  /\ \A t : Has(p, t) <=> Head(p).type = t \/ Has(Tail(p), t)
             /\ \A t, v : Latest(p, t, v)
                    <=> Latest(Tail(p), t, v) \/ (~Has(Tail(p), t) /\ Head(p).type = t /\ Head(p).value = v)
  <2>1. \A t : Has(p, t) <=> Head(p).type = t \/ Has(Tail(p), t)
    BY <1>2, Taken
  <2>2. \A t, v : Latest(p, t, v)
            <=> Latest(Tail(p), t, v) \/ (~Has(Tail(p), t) /\ Head(p).type = t /\ Head(p).value = v)
    BY <1>2, Taken
  <2> QED BY <2>1, <2>2
<1> QED BY <1>1, <1>2

\* What is coming depends on this alone.
KnownUnchanged == UNCHANGED <<client, toServer, toClient, boxStates, boxColors, states, appStates, colors, sendTimer>>

LEMMA NothingNew ==
    ASSUME AllCome, KnownUnchanged, emulator' = "none" <=> emulator = "none"
    PROVE  AllCome'
  BY DEF AllCome, KnownUnchanged, Asked, StatesCome, PagesCome, ColorsCome, RainbowGoes, ToldAgain

\* A connection that comes back: both clients are told.
LEMMA ConnectComes ==
    ASSUME Typed, Links, NEW e \in Ends, Connect(e), up' = Ends
    PROVE  AllCome'
<1>1. \A f \in Ends : ToldAgain(f)'
  BY ConnectIs DEF ToldAgain
<1> QED BY <1>1, TwoEnds DEF AllCome, Asked, StatesCome, PagesCome, ColorsCome, RainbowGoes

\* The box reports its buttons; one that has not opened drops its colours.
LEMMA RenderComes ==
    ASSUME Typed, Links, up = Ends, AllCome, Render
    PROVE  AllCome'
<1>1. /\ UNCHANGED <<client, toClient, states, emulator, appStates, colors, sendTimer>>
      /\ boxStates' = pressed
      /\ boxColors' = IF client["box"] = "open" THEN boxColors ELSE rainbow
  BY DEF Render, srv, pads, lights
<1>2. client["box"] \in {"connecting", "open"}
  BY BothUp, TwoEnds
<1>3. CASE client["box"] = "connecting"
  <2>1. toServer' = toServer
    BY <1>3, ReportsNothing DEF Render
  <2>2. ToldAgain("box")
    BY <1>3, TwoEnds DEF AllCome, Asked
  <2> QED BY <1>1, <1>3, <2>1, <2>2, LatestIsIn
          DEF AllCome, Asked, StatesCome, PagesCome, ColorsCome, RainbowGoes, ToldAgain
<1>4. CASE client["box"] = "open" /\ pressed = boxStates
  <2>1. KnownUnchanged
    BY <1>1, <1>4 DEF Render, KnownUnchanged
  <2> QED BY <1>1, <2>1, NothingNew
<1>5. CASE client["box"] = "open" /\ pressed # boxStates
  <2>1. PICK m \in FromClient("box") : m.type = "ButtonStates" /\ m.value = pressed /\ Reports("box", m)
    BY <1>5, MayBeSent, Messages DEF Render, Typed, Plain, KnownTyped
  <2>2. toServer'["app"] = toServer["app"]
    BY <1>5, <2>1, ReportsNow, TwoEnds
  <2>3. Has(toServer'["box"], "ButtonStates")
    BY <1>5, <2>1, ReportsNow, TwoEnds
  <2>4. Latest(toServer'["box"], "ButtonStates", pressed)
    BY <1>5, <2>1, ReportsNow, TwoEnds
  <2> QED BY <1>1, <1>5, <2>2, <2>3, <2>4
          DEF AllCome, Asked, StatesCome, PagesCome, ColorsCome, RainbowGoes, ToldAgain
<1> QED BY <1>2, <1>3, <1>4, <1>5

\* The box opens, shows the colours, or reports its buttons again.
LEMMA BoxReceivesComes ==
    ASSUME Typed, Links, up = Ends, AllCome, BoxReceives
    PROVE  AllCome'
<1> DEFINE m == Head(toClient["box"])
           q == Tail(toClient["box"])
<1>1. /\ UNCHANGED <<boxStates, states, emulator, appStates, colors, sendTimer>>
      /\ toClient["box"] # <<>>
      /\ boxColors' = IF m.type = "ButtonColors" THEN m.value ELSE boxColors
      /\ IF m.type = "RetransmitRequired" THEN Reports("box", States(boxStates)) ELSE toServer' = toServer
  BY DEF BoxReceives, srv, pads, lights
<1>2. /\ toClient'["box"] = q /\ toClient'["app"] = toClient["app"]
      /\ client'["app"] = client["app"]
      /\ client'["box"] = IF m.type = "opened" THEN "open" ELSE client["box"]
  BY TwoEnds DEF BoxReceives, Typed, Plain, Queues, ConnectionsTyped
<1>3. \A t : Has(toClient["box"], t) <=> m.type = t \/ Has(q, t)
  BY <1>1, TakenNow, TwoEnds
<1>4. \A t, v : Latest(toClient["box"], t, v)
          <=> Latest(q, t, v) \/ (~Has(q, t) /\ m.type = t /\ m.value = v)
  BY <1>1, TakenNow, TwoEnds
<1>5. m.type \in {"opened", "RetransmitRequired", "ButtonColors"}
  BY <1>1, BothUp, Understood
<1>6. client["box"] = "connecting" => m.type = "opened"
  BY BothUp, TwoEnds
<1>7. client["box"] \in {"connecting", "open"}
  BY BothUp, TwoEnds
<1> HIDE DEF m, q
<1>8. CASE m.type # "RetransmitRequired"
  <2>1. toServer' = toServer
    BY <1>1, <1>8
  <2> QED BY <1>1, <1>2, <1>3, <1>4, <1>5, <1>6, <1>7, <1>8, <2>1, TwoEnds
          DEF AllCome, Asked, StatesCome, PagesCome, ColorsCome, RainbowGoes, ToldAgain
<1>9. CASE m.type = "RetransmitRequired"
  <2>0. client["box"] = "open"
    BY <1>6, <1>7, <1>9
  <2>1. PICK k \in FromClient("box") : k.type = "ButtonStates" /\ k.value = boxStates /\ Reports("box", k)
    BY <1>1, <1>9, MayBeSent, Messages DEF Typed, Plain, KnownTyped
  <2>2. toServer'["app"] = toServer["app"]
    BY <2>0, <2>1, ReportsNow, TwoEnds
  <2>3. Has(toServer'["box"], "ButtonStates")
    BY <2>0, <2>1, ReportsNow, TwoEnds
  <2>4. Latest(toServer'["box"], "ButtonStates", boxStates)
    BY <2>0, <2>1, ReportsNow, TwoEnds
  <2> QED BY <1>1, <1>2, <1>3, <1>4, <1>9, <2>0, <2>2, <2>3, <2>4, TwoEnds
          DEF AllCome, Asked, StatesCome, PagesCome, ColorsCome, RainbowGoes, ToldAgain
<1> QED BY <1>8, <1>9

\* The server passes on what it gets.
LEMMA ServerReceivesComes ==
    ASSUME Typed, Links, up = Ends, AllCome, NEW e \in Ends, ServerReceives(e)
    PROVE  AllCome'
<1> DEFINE m == Head(toServer[e])
           q == Tail(toServer[e])
<1>1. /\ UNCHANGED <<client, boxStates, boxColors, appStates, colors, sendTimer>>
      /\ toServer[e] # <<>>
      /\ toServer'[e] = q /\ \A f \in Ends : f # e => toServer'[f] = toServer[f]
  BY DEF ServerReceives, box, pads, lights, Typed, Plain, Queues
<1>2. \A t : Has(toServer[e], t) <=> m.type = t \/ Has(q, t)
  BY <1>1, TakenNow
<1>3. \A t, v : Latest(toServer[e], t, v)
          <=> Latest(q, t, v) \/ (~Has(q, t) /\ m.type = t /\ m.value = v)
  BY <1>1, TakenNow
<1>4. \/ /\ e = "box" /\ m.type = "ButtonStates" /\ m.value \in SUBSET Buttons
         /\ HandleButtonStates(m.value)
      \/ /\ e = "app" /\ m.type = "ButtonColors" /\ m.value \in Colors
         /\ HandleButtonColors(m.value)
      \/ e = "app" /\ m.type = "StartEmulator" /\ HandleStartEmulator
  BY ReceivesIs
<1> HIDE DEF m, q
<1>5. CASE e = "box" /\ m.type = "ButtonStates" /\ m.value \in SUBSET Buttons /\ HandleButtonStates(m.value)
  <2>1. states' = m.value /\ emulator' = emulator
    BY <1>5 DEF HandleButtonStates
  <2>2. CASE emulator # "none"
    <3>1. toClient' = toClient
      BY <1>5, <2>2 DEF HandleButtonStates
    <3> QED BY <1>1, <1>2, <1>3, <1>5, <2>1, <2>2, <3>1, TwoEnds
            DEF AllCome, Asked, StatesCome, PagesCome, ColorsCome, RainbowGoes, ToldAgain
  <2>3. CASE emulator = "none"
    <3>1. PICK k \in FromServer("app") :
              k.type = "ButtonStates" /\ k.value = m.value /\ Sends("app", <<k>>)
      BY <1>5, <2>3, MayBeSent, Messages DEF HandleButtonStates
    <3>2. toClient'["box"] = toClient["box"]
      BY <3>1, SendsNow, TwoEnds
    <3>3. Has(toClient'["app"], "RetransmitRequired") <=> Has(toClient["app"], "RetransmitRequired")
      BY <3>1, SendsNow, TwoEnds
    <3>4. Latest(toClient'["app"], "ButtonStates", m.value)
      BY <3>1, SendsNow, TwoEnds
    <3> QED BY <1>1, <1>2, <1>3, <1>5, <2>1, <2>3, <3>2, <3>3, <3>4, TwoEnds
            DEF AllCome, Asked, StatesCome, PagesCome, ColorsCome, RainbowGoes, ToldAgain
  <2> QED BY <2>2, <2>3
<1>6. CASE e = "app" /\ m.type = "ButtonColors" /\ m.value \in Colors /\ HandleButtonColors(m.value)
  <2>1. states' = states /\ emulator' = emulator
    BY <1>6 DEF HandleButtonColors
  <2>2. PICK k \in FromServer("box") :
            k.type = "ButtonColors" /\ k.value = m.value /\ Sends("box", <<k>>)
    BY <1>6, MayBeSent, Messages DEF HandleButtonColors
  <2>3. toClient'["app"] = toClient["app"]
    BY <2>2, SendsNow, TwoEnds
  <2>4. /\ Has(toClient'["box"], "RetransmitRequired") <=> Has(toClient["box"], "RetransmitRequired")
        /\ Has(toClient'["box"], "ButtonColors")
    BY <2>2, SendsNow, TwoEnds
  <2>5. Latest(toClient'["box"], "ButtonColors", m.value)
    BY <2>2, SendsNow, TwoEnds
  <2> QED BY <1>1, <1>2, <1>3, <1>6, <2>1, <2>3, <2>4, <2>5, TwoEnds
          DEF AllCome, Asked, StatesCome, PagesCome, ColorsCome, RainbowGoes, ToldAgain
<1>7. CASE e = "app" /\ m.type = "StartEmulator" /\ HandleStartEmulator
  <2>1. states' = states /\ emulator' # "none"
    BY <1>7 DEF HandleStartEmulator
  <2>2. PICK k \in FromServer("app") : k.type = "ButtonStates" /\ Sends("app", <<k>>)
    BY <1>7, MayBeSent, Messages DEF HandleStartEmulator
  <2>3. toClient'["box"] = toClient["box"]
    BY <2>2, SendsNow, TwoEnds
  <2>4. Has(toClient'["app"], "RetransmitRequired") <=> Has(toClient["app"], "RetransmitRequired")
    BY <2>2, SendsNow, TwoEnds
  <2> QED BY <1>1, <1>2, <1>3, <1>7, <2>1, <2>3, <2>4, TwoEnds
          DEF AllCome, Asked, StatesCome, PagesCome, ColorsCome, RainbowGoes, ToldAgain
<1> QED BY <1>4, <1>5, <1>6, <1>7

\* The pages are told the end of an emulator, and then the buttons.
LEMMA CompletedSends ==
    ASSUME Typed, Links, up = Ends, ProcessCompleted
    PROVE  /\ toClient'["box"] = toClient["box"]
           /\ Has(toClient'["app"], "RetransmitRequired") <=> Has(toClient["app"], "RetransmitRequired")
           /\ Has(toClient'["app"], "ButtonStates")
           /\ Latest(toClient'["app"], "ButtonStates", states)
<1>1. PICK M, p, m, k : /\ M = FromServer("app") /\ p = toClient["app"]
                        /\ m = Signal("EmulatorCompleted") /\ k = States(states)
  OBVIOUS
<1>2. m.type = "EmulatorCompleted" /\ k.type = "ButtonStates" /\ k.value = states
  BY <1>1, Messages
<1>3. p \in Seq(M) /\ m \in M /\ k \in M
  BY <1>1, BothUp, MayBeSent DEF Typed, Plain, KnownTyped
<1>4. /\ toClient'["box"] = toClient["box"]
      /\ toClient'["app"] = p \o <<m, k>>
  BY <1>1, BothUp, SendsTo, TwoEnds DEF ProcessCompleted, Typed
<1>5. PICK r : r = p \o <<m>>
  OBVIOUS
<1>6. p \o <<m, k>> = r \o <<k>>
  <2>1. p \in Seq(M) /\ m \in M /\ k \in M
    BY <1>3
  <2>2. p \o <<m, k>> = (p \o <<m>>) \o <<k>>
    BY ONLY <2>1, TwoMore
  <2> QED BY <1>5, <2>2
<1>7. PICK q : q = toClient'["app"] /\ q = r \o <<k>>
  BY <1>4, <1>6
<1>8. r \in Seq(M) /\ \A t : Has(r, t) <=> Has(p, t) \/ m.type = t
  BY <1>3, <1>5, Sent
<1>9. \A t : Has(q, t) <=> Has(r, t) \/ k.type = t
  BY <1>3, <1>7, <1>8, Sent
<1>10. Latest(q, "ButtonStates", states)
  <2>1. r \in Seq(M) /\ k \in M /\ q = r \o <<k>>
    BY <1>3, <1>7, <1>8
  <2>2. k.type = "ButtonStates" => (Latest(q, "ButtonStates", states) <=> k.value = states)
    BY ONLY ZenonT(60), <2>1, SentLast
  <2> QED BY <1>2, <2>2
<1> QED BY <1>1, <1>2, <1>4, <1>7, <1>8, <1>9, <1>10

LEMMA CompletedComes ==
    ASSUME Typed, Links, up = Ends, AllCome, ProcessCompleted
    PROVE  AllCome'
<1>1. UNCHANGED <<client, toServer, boxStates, boxColors, states, appStates, colors, sendTimer>>
  BY DEF ProcessCompleted, box, pads, lights
<1>2. /\ toClient'["box"] = toClient["box"]
      /\ Has(toClient'["app"], "RetransmitRequired") <=> Has(toClient["app"], "RetransmitRequired")
      /\ Has(toClient'["app"], "ButtonStates")
      /\ Latest(toClient'["app"], "ButtonStates", states)
  BY CompletedSends
<1> QED BY <1>1, <1>2, TwoEnds DEF AllCome, Asked, StatesCome, PagesCome, ColorsCome, RainbowGoes, ToldAgain

\* The pages start an emulator.
LEMMA FrameComes ==
    ASSUME Typed, Links, up = Ends, AllCome, Frame
    PROVE  AllCome'
<1>1. UNCHANGED <<client, toClient, boxStates, boxColors, states, emulator, appStates, colors, sendTimer>>
  BY DEF Frame, box, srv, lights
<1>2. CASE toServer' = toServer
  BY <1>1, <1>2, NothingNew DEF KnownUnchanged
<1>3. CASE client["app"] = "open" /\ Reports("app", Signal("StartEmulator"))
  <2>1. PICK m \in FromClient("app") : m.type = "StartEmulator" /\ Reports("app", m)
    BY <1>3, MayBeSent, Messages
  <2>2. toServer'["box"] = toServer["box"]
    BY <1>3, <2>1, ReportsNow, TwoEnds
  <2>3. Has(toServer'["app"], "ButtonColors") <=> Has(toServer["app"], "ButtonColors")
    BY <1>3, <2>1, ReportsNow, TwoEnds
  <2>4. Latest(toServer'["app"], "ButtonColors", colors) <=> Latest(toServer["app"], "ButtonColors", colors)
    BY <1>3, <2>1, ReportsNow, TwoEnds
  <2> QED BY <1>1, <2>2, <2>3, <2>4, TwoEnds
          DEF AllCome, Asked, StatesCome, PagesCome, ColorsCome, RainbowGoes, ToldAgain
<1> QED BY <1>2, <1>3, FrameIs

\* The pages change their colours, and send them.
LEMMA PaintComes ==
    ASSUME AllCome, Paint
    PROVE  AllCome'
<1>1. /\ UNCHANGED <<client, toServer, toClient, boxStates, boxColors, states, emulator, appStates>>
      /\ sendTimer'
  BY DEF Paint, link, box, srv, pads
<1> QED BY <1>1 DEF AllCome, Asked, StatesCome, PagesCome, ColorsCome, RainbowGoes, ToldAgain

LEMMA ColorsSent ==
    ASSUME Typed, Links, up = Ends, client["app"] = "open", Reports("app", ButtonColors(colors))
    PROVE  /\ toServer'["box"] = toServer["box"]
           /\ Has(toServer'["app"], "ButtonColors")
           /\ Latest(toServer'["app"], "ButtonColors", colors)
<1>1. PICK m \in FromClient("app") : m.type = "ButtonColors" /\ m.value = colors /\ Reports("app", m)
  BY MayBeSent, Messages DEF Typed, Plain, KnownTyped
<1>2. toServer'["box"] = toServer["box"]
  BY <1>1, ReportsNow, TwoEnds
<1>3. Has(toServer'["app"], "ButtonColors")
  BY <1>1, ReportsNow, TwoEnds
<1>4. Latest(toServer'["app"], "ButtonColors", colors)
  BY <1>1, ReportsNow, TwoEnds
<1> QED BY <1>2, <1>3, <1>4

LEMMA SendTimerComes ==
    ASSUME Typed, Links, up = Ends, AllCome, SendTimerExpired
    PROVE  AllCome'
<1>1. UNCHANGED <<client, toClient, boxStates, boxColors, states, emulator, appStates, colors>>
  BY DEF SendTimerExpired, box, srv, pads
<1>2. client["app"] \in {"connecting", "open"}
  BY BothUp, TwoEnds
<1>3. CASE client["app"] = "connecting"
  <2>1. ToldAgain("app")
    BY <1>3, TwoEnds DEF AllCome, Asked
  <2>2. toServer' = toServer
    BY <1>3, ReportsNothing DEF SendTimerExpired
  <2> QED BY <1>1, <2>1, <2>2, TwoEnds
          DEF AllCome, Asked, StatesCome, PagesCome, ColorsCome, RainbowGoes, ToldAgain
<1>4. CASE client["app"] = "open"
  <2>1. /\ toServer'["box"] = toServer["box"]
        /\ Has(toServer'["app"], "ButtonColors")
        /\ Latest(toServer'["app"], "ButtonColors", colors)
    BY <1>4, ColorsSent DEF SendTimerExpired
  <2> QED BY <1>1, <2>1, TwoEnds
          DEF AllCome, Asked, StatesCome, PagesCome, ColorsCome, RainbowGoes, ToldAgain
<1> QED BY <1>2, <1>3, <1>4

\* The pages open, know the buttons, or send their colours again.
LEMMA AppReceivesComes ==
    ASSUME Typed, Links, up = Ends, AllCome, AppReceives
    PROVE  AllCome'
<1> DEFINE m == Head(toClient["app"])
           q == Tail(toClient["app"])
<1>1. /\ UNCHANGED <<boxStates, boxColors, states, emulator, colors, sendTimer>>
      /\ toClient["app"] # <<>>
      /\ appStates' = IF m.type = "ButtonStates" THEN m.value ELSE appStates
      /\ IF m.type = "RetransmitRequired" THEN Reports("app", ButtonColors(colors)) ELSE toServer' = toServer
  BY DEF AppReceives, box, srv, lights
<1>2. /\ toClient'["app"] = q /\ toClient'["box"] = toClient["box"]
      /\ client'["box"] = client["box"]
      /\ client'["app"] = IF m.type = "opened" THEN "open" ELSE client["app"]
  BY TwoEnds DEF AppReceives, Typed, Plain, Queues, ConnectionsTyped
<1>3. \A t : Has(toClient["app"], t) <=> m.type = t \/ Has(q, t)
  BY <1>1, TakenNow, TwoEnds
<1>4. \A t, v : Latest(toClient["app"], t, v)
          <=> Latest(q, t, v) \/ (~Has(q, t) /\ m.type = t /\ m.value = v)
  BY <1>1, TakenNow, TwoEnds
<1>5. client["app"] = "connecting" => m.type = "opened"
  BY BothUp, TwoEnds
<1>6. client["app"] \in {"connecting", "open"}
  BY BothUp, TwoEnds
<1> HIDE DEF m, q
<1>7. CASE m.type # "RetransmitRequired"
  <2>1. toServer' = toServer
    BY <1>1, <1>7
  <2>2. Has(q, "RetransmitRequired") <=> Has(toClient["app"], "RetransmitRequired")
    BY <1>3, <1>7
  <2>3. Asked'
    BY <1>2, <1>5, <1>6, <2>2, TwoEnds DEF AllCome, Asked, ToldAgain
  <2>4. StatesCome' /\ ColorsCome' /\ RainbowGoes'
    BY <1>1, <1>2, <2>1, <2>2 DEF AllCome, StatesCome, ColorsCome, RainbowGoes, ToldAgain
  <2>5. PagesCome'
    <3>1. Latest(toClient["app"], "ButtonStates", states) =>
              \/ Latest(q, "ButtonStates", states)
              \/ ~Has(q, "ButtonStates") /\ m.type = "ButtonStates" /\ m.value = states
      BY <1>4
    <3>2. m.type # "ButtonStates" => /\ Latest(q, "ButtonStates", states) <=> Latest(toClient["app"], "ButtonStates", states)
                                     /\ Has(q, "ButtonStates") <=> Has(toClient["app"], "ButtonStates")
      BY <1>3, <1>4
    <3>3. m.type = "ButtonStates" => Has(toClient["app"], "ButtonStates")
      BY <1>3
    <3> QED BY <1>1, <1>2, <2>1, <3>1, <3>2, <3>3 DEF AllCome, PagesCome, ToldAgain
  <2> QED BY <2>3, <2>4, <2>5 DEF AllCome
<1>8. CASE m.type = "RetransmitRequired"
  <2>1. client["app"] = "open"
    BY <1>5, <1>6, <1>8
  <2>2. /\ toServer'["box"] = toServer["box"]
        /\ Has(toServer'["app"], "ButtonColors")
        /\ Latest(toServer'["app"], "ButtonColors", colors)
    BY <1>1, <1>8, <2>1, ColorsSent
  <2>3. /\ Latest(q, "ButtonStates", states) <=> Latest(toClient["app"], "ButtonStates", states)
        /\ Has(q, "ButtonStates") <=> Has(toClient["app"], "ButtonStates")
    BY <1>3, <1>4, <1>8
  <2> QED BY <1>1, <1>2, <1>8, <2>1, <2>2, <2>3, TwoEnds
          DEF AllCome, Asked, StatesCome, PagesCome, ColorsCome, RainbowGoes, ToldAgain
<1> QED BY <1>7, <1>8

\* Every step keeps what is not known coming.
LEMMA NextComing ==
    ASSUME Typed, Links, Coming, [Next]_vars
    PROVE  Coming'
<1> SUFFICES ASSUME up' = Ends PROVE AllCome'
  BY DEF Coming
<1>1. CASE \E e \in Ends : Connect(e)
  BY <1>1, ConnectComes
<1>2. CASE \/ \E e \in Ends : Break(e) \/ ServerNotices(e)
           \/ BoxNotices \/ AppNotices \/ HandleStopping
  BY <1>2, TwoEnds DEF Break, ServerNotices, BoxNotices, AppNotices, HandleStopping
<1>3. ASSUME up' = up PROVE up = Ends /\ AllCome
  BY <1>3 DEF Coming
<1>4. CASE \E e \in Ends : ServerReceives(e)
  <2>1. up = Ends /\ AllCome
    BY <1>3, <1>4 DEF ServerReceives
  <2> QED BY <1>4, <2>1, ServerReceivesComes
<1>5. CASE Render
  <2>1. up = Ends /\ AllCome
    BY <1>3, <1>5 DEF Render
  <2> QED BY <1>5, <2>1, RenderComes
<1>6. CASE BoxReceives
  <2>1. up = Ends /\ AllCome
    BY <1>3, <1>6 DEF BoxReceives
  <2> QED BY <1>6, <2>1, BoxReceivesComes
<1>7. CASE ProcessCompleted
  <2>1. up = Ends /\ AllCome
    BY <1>3, <1>7 DEF ProcessCompleted
  <2> QED BY <1>7, <2>1, CompletedComes
<1>8. CASE Frame
  <2>1. up = Ends /\ AllCome
    BY <1>3, <1>8 DEF Frame
  <2> QED BY <1>8, <2>1, FrameComes
<1>9. CASE Paint
  <2>1. up = Ends /\ AllCome
    BY <1>3, <1>9 DEF Paint, link
  <2> QED BY <1>9, <2>1, PaintComes
<1>10. CASE SendTimerExpired
  <2>1. up = Ends /\ AllCome
    BY <1>3, <1>10 DEF SendTimerExpired
  <2> QED BY <1>10, <2>1, SendTimerComes
<1>11. CASE AppReceives
  <2>1. up = Ends /\ AllCome
    BY <1>3, <1>11 DEF AppReceives
  <2> QED BY <1>11, <2>1, AppReceivesComes
<1>12. CASE Press \/ IdleTimeout \/ EmulatorEnds \/ MusicEnds \/ Stopped \/ UNCHANGED vars
  <2>1. up' = up /\ KnownUnchanged /\ (emulator' = "none" <=> emulator = "none")
    BY <1>12 DEF Press, IdleTimeout, EmulatorEnds, MusicEnds, Stopped, vars, link, box, srv, pads, lights,
                 KnownUnchanged
  <2> QED BY <1>3, <2>1, NothingNew
<1> QED BY <1>1, <1>2, <1>4, <1>5, <1>6, <1>7, <1>8, <1>9, <1>10, <1>11, <1>12 DEF Next

LEMMA InitComes == Init => Links /\ Coming
  BY TwoEnds DEF Init, Links, Coming

LEMMA QuietAgrees == Coming => AgreeWhenQuiet
<1> SUFFICES ASSUME Coming, Quiet PROVE Agreed
  BY DEF AgreeWhenQuiet
<1>1. AllCome /\ boxStates = pressed /\ ~sendTimer
  BY DEF Quiet, Coming
<1>2. toServer["box"] = <<>> /\ toServer["app"] = <<>> /\ toClient["box"] = <<>> /\ toClient["app"] = <<>>
  BY TwoEnds DEF Quiet
<1>3. \A t, v : /\ ~Has(toServer["box"], t) /\ ~Has(toServer["app"], t)
                /\ ~Has(toClient["box"], t) /\ ~Has(toClient["app"], t)
                /\ ~Latest(toServer["box"], t, v) /\ ~Latest(toServer["app"], t, v)
                /\ ~Latest(toClient["box"], t, v) /\ ~Latest(toClient["app"], t, v)
  BY <1>2, NothingIn
<1> QED BY <1>1, <1>3 DEF AllCome, StatesCome, PagesCome, ColorsCome, ToldAgain, Agreed

\* Whatever was lost or comes late, once nothing is under way the server knows
\* the buttons, the pages do unless an emulator runs, and the box shows the
\* pages' colours.
THEOREM AgreesWhenQuiet == Spec => []AgreeWhenQuiet
<1> DEFINE Inv == Typed /\ JoystickFollows /\ Links /\ Coming
<1>1. Init => Inv
  BY InitTyped, InitComes
<1>2. Inv /\ [Next]_vars => Inv'
  BY NextTyped, NextLinks, NextComing
<1>3. Inv => AgreeWhenQuiet
  BY QuietAgrees
<1> QED BY <1>1, <1>2, <1>3, PTL DEF Spec

-----------------------------------------------------------------------------
\* An emulator has the screen.

Starting == Has(toServer["app"], "StartEmulator")
Completing == Has(toClient["app"], "EmulatorCompleted")

\* The pages and the server pass one token: while a page is shown it is the
\* pages', and otherwise it is StartEmulator or EmulatorCompleted under way or
\* an emulator, one of them and once.
OneHasScreen ==
    /\ screen # "none" => ~Starting /\ emulator = "none" /\ ~Completing
    /\ screen = "none" => client["app"] = "open"
    /\ Starting => emulator = "none" /\ ~Completing
    /\ Completing => emulator = "none"
    /\ Once(toServer["app"], "StartEmulator") /\ Once(toClient["app"], "EmulatorCompleted")

\* As long as the server is up and no connection was broken, the pages notice
\* none and no music was left playing.
Token ==
    /\ music => screen = "menu"
    /\ level = "up" /\ breaks = 0 =>
          /\ OneHasScreen /\ ~orphan
          /\ client["app"] # "closed" => "app" \in up

\* Nothing else is an emulator's.
LEMMA TokenKept ==
    ASSUME OneHasScreen, UNCHANGED <<screen, emulator>>,
           screen = "none" => client'["app"] = "open",
           Starting' => Starting, Completing' => Completing,
           Once(toServer'["app"], "StartEmulator"), Once(toClient'["app"], "EmulatorCompleted")
    PROVE  OneHasScreen'
  BY DEF OneHasScreen

\* What the pages send.
LEMMA PagesSend ==
    ASSUME Queues, NEW m \in FromClient("app"), Reports("app", m)
    PROVE  /\ Starting' => Starting \/ m.type = "StartEmulator"
           /\ Once(toServer["app"], "StartEmulator") /\ (m.type = "StartEmulator" => ~Starting)
                => Once(toServer'["app"], "StartEmulator")
<1>1. PICK M, p, q : M = FromClient("app") /\ p = toServer["app"] /\ q = toServer'["app"]
  OBVIOUS
<1>2. p \in Seq(M) /\ m \in M /\ (q = p \/ q = p \o <<m>>)
  BY <1>1, ReportsTo, TwoEnds DEF Queues
<1>3. CASE q = p
  BY <1>1, <1>3 DEF Starting
<1>4. CASE q = p \o <<m>>
  <2>1. \A t : Has(q, t) <=> Has(p, t) \/ m.type = t
    BY ONLY <1>2, <1>4, Sent
  <2>2. \A t : Once(p, t) /\ (m.type = t => ~Has(p, t)) => Once(q, t)
    BY ONLY <1>2, <1>4, Sent
  <2> QED BY <1>1, <2>1, <2>2 DEF Starting
<1> QED BY <1>2, <1>3, <1>4

\* What the pages are sent.
LEMMA PagesAreSent ==
    ASSUME Queues, NEW m \in FromServer("app"), Sends("app", <<m>>)
    PROVE  /\ Completing' => Completing \/ m.type = "EmulatorCompleted"
           /\ Once(toClient["app"], "EmulatorCompleted") /\ (m.type = "EmulatorCompleted" => ~Completing)
                => Once(toClient'["app"], "EmulatorCompleted")
<1>1. PICK M, p, q : M = FromServer("app") /\ p = toClient["app"] /\ q = toClient'["app"]
  OBVIOUS
<1>2. p \in Seq(M) /\ m \in M /\ (q = p \/ q = p \o <<m>>)
  BY <1>1, SendsTo, TwoEnds DEF Queues
<1>3. CASE q = p
  BY <1>1, <1>3 DEF Completing
<1>4. CASE q = p \o <<m>>
  <2>1. \A t : Has(q, t) <=> Has(p, t) \/ m.type = t
    BY ONLY <1>2, <1>4, Sent
  <2>2. \A t : Once(p, t) /\ (m.type = t => ~Has(p, t)) => Once(q, t)
    BY ONLY <1>2, <1>4, Sent
  <2> QED BY <1>1, <2>1, <2>2 DEF Completing
<1> QED BY <1>2, <1>3, <1>4

\* The server starts an emulator for the one that asks.
LEMMA ServerPasses ==
    ASSUME Typed, OneHasScreen, UNCHANGED <<screen, client>>, NEW e \in Ends, ServerReceives(e)
    PROVE  OneHasScreen'
<1>0. Queues
  BY DEF Typed
<1>1. /\ toServer[e] # <<>> /\ Head(toServer[e]) \in FromClient(e)
      /\ toServer'[e] = Tail(toServer[e]) /\ \A f \in Ends : f # e => toServer'[f] = toServer[f]
  BY <1>0, ReceivesIs DEF ServerReceives, Queues
<1>2. PICK M, p, q, m : M = FromClient(e) /\ p = toServer[e] /\ q = toServer'[e] /\ m = Head(toServer[e])
  OBVIOUS
<1>3. p \in Seq(M) /\ p # <<>> /\ q = Tail(p) /\ m = Head(p)
  BY <1>0, <1>1, <1>2 DEF Queues
<1>4. \A t : Has(p, t) <=> m.type = t \/ Has(q, t)
  BY ONLY <1>3, Taken
<1>5. \A t : Once(p, t) => Once(q, t) /\ (m.type = t => ~Has(q, t))
  BY ONLY <1>3, Taken
<1>6. (Starting' => Starting) /\ Once(toServer'["app"], "StartEmulator")
  BY <1>1, <1>2, <1>4, <1>5, TwoEnds DEF Starting, OneHasScreen
<1>7. \/ e = "box" /\ m.type = "ButtonStates" /\ m.value \in SUBSET Buttons /\ HandleButtonStates(m.value)
      \/ e = "app" /\ m.type = "ButtonColors" /\ m.value \in Colors /\ HandleButtonColors(m.value)
      \/ e = "app" /\ m.type = "StartEmulator" /\ HandleStartEmulator
  BY <1>2, ReceivesIs
<1>8. ASSUME NEW s \in SUBSET Buttons, Sends("app", <<States(s)>>)
      PROVE  (Completing' => Completing) /\ Once(toClient'["app"], "EmulatorCompleted")
  <2>1. PICK k \in FromServer("app") : k.type = "ButtonStates" /\ Sends("app", <<k>>)
    BY <1>8, MayBeSent, Messages
  <2> QED BY <1>0, <2>1, PagesAreSent DEF OneHasScreen
<1>9. CASE e = "box" /\ m.type = "ButtonStates" /\ m.value \in SUBSET Buttons /\ HandleButtonStates(m.value)
  <2>1. emulator' = emulator
    BY <1>9 DEF HandleButtonStates
  <2>2. (Completing' => Completing) /\ Once(toClient'["app"], "EmulatorCompleted")
    <3>1. toClient' = toClient \/ Sends("app", <<States(m.value)>>)
      BY <1>9 DEF HandleButtonStates
    <3> QED BY <1>8, <1>9, <3>1 DEF OneHasScreen, Completing
  <2> QED BY <1>6, <2>1, <2>2, TokenKept DEF OneHasScreen
<1>10. CASE e = "app" /\ m.type = "ButtonColors" /\ m.value \in Colors /\ HandleButtonColors(m.value)
  <2>1. emulator' = emulator /\ toClient'["app"] = toClient["app"]
    BY <1>0, <1>10, SendsTo, TwoEnds DEF HandleButtonColors
  <2> QED BY <1>6, <2>1, TokenKept DEF OneHasScreen, Completing
<1>11. CASE e = "app" /\ m.type = "StartEmulator" /\ HandleStartEmulator
  <2>1. Starting /\ ~Starting'
    BY <1>1, <1>2, <1>4, <1>5, <1>11 DEF Starting, OneHasScreen
  <2>2. (Completing' => Completing) /\ Once(toClient'["app"], "EmulatorCompleted")
    <3>1. Sends("app", <<States({})>>)
      BY <1>11 DEF HandleStartEmulator
    <3> QED BY <1>8, <3>1
  <2> QED BY <1>6, <2>1, <2>2 DEF OneHasScreen
<1> QED BY <1>7, <1>9, <1>10, <1>11

\* The end of an emulator is reported once.
LEMMA CompletedReports ==
    ASSUME Typed, OneHasScreen, ProcessCompleted
    PROVE  OneHasScreen'
<1>0. Queues
  BY DEF Typed
<1>1. UNCHANGED <<screen, client, toServer>> /\ emulator # "none" /\ emulator' = "none"
  BY DEF ProcessCompleted, pages
<1>2. screen = "none" /\ ~Starting /\ ~Completing
  BY <1>1 DEF OneHasScreen
<1>3. PICK M, p, q, m, k : /\ M = FromServer("app") /\ p = toClient["app"] /\ q = toClient'["app"]
                           /\ m = Signal("EmulatorCompleted") /\ k = States(states)
  OBVIOUS
<1>4. k.type = "ButtonStates" /\ p \in Seq(M) /\ m \in M /\ k \in M
  BY <1>0, <1>3, Messages, MayBeSent, TwoEnds DEF Queues, Typed, Plain, KnownTyped
<1>5. q = p \/ q = p \o <<m, k>>
  BY <1>0, <1>3, SendsTo, TwoEnds DEF ProcessCompleted
<1>6. CASE q = p
  BY <1>1, <1>2, <1>3, <1>6 DEF OneHasScreen, Completing, Starting
<1>7. CASE q = p \o <<m, k>>
  <2>1. PICK r : r = p \o <<m>> /\ q = r \o <<k>>
    <3>1. p \o <<m, k>> = (p \o <<m>>) \o <<k>>
      BY ONLY <1>4, TwoMore
    <3> QED BY <1>7, <3>1
  <2>2. r \in Seq(M)
    BY ONLY <1>4, <2>1, Sent
  <2>3. \A t : Once(p, t) /\ (m.type = t => ~Has(p, t)) => Once(r, t)
    BY ONLY <1>4, <2>1, Sent
  <2>4. \A t : Once(r, t) /\ (k.type = t => ~Has(r, t)) => Once(q, t)
    BY ONLY <1>4, <2>1, <2>2, Sent
  <2>5. Once(q, "EmulatorCompleted")
    BY <1>2, <1>3, <1>4, <2>3, <2>4 DEF OneHasScreen, Completing
  <2> QED BY <1>1, <1>2, <1>3, <2>5 DEF OneHasScreen, Starting
<1> QED BY <1>5, <1>6, <1>7

\* The page that was waiting is told once, and shows the menu.
LEMMA AppShows ==
    ASSUME Typed, OneHasScreen, music => screen = "menu", AppReceives
    PROVE  OneHasScreen' /\ (orphan' => orphan)
<1>0. Queues /\ KnownTyped
  BY DEF Typed, Plain
<1>1. /\ toClient["app"] # <<>> /\ toClient'["app"] = Tail(toClient["app"]) /\ emulator' = emulator
      /\ client'["app"] = "open" \/ client'["app"] = client["app"]
  BY <1>0, TwoEnds DEF AppReceives, srv, Queues, Typed, Plain, ConnectionsTyped
<1>2. PICK M, p, q, m : /\ M = FromServer("app") /\ p = toClient["app"] /\ q = toClient'["app"]
                        /\ m = Head(toClient["app"])
  OBVIOUS
<1>3. p \in Seq(M) /\ p # <<>> /\ q = Tail(p) /\ m = Head(p)
  BY <1>0, <1>1, <1>2, TwoEnds DEF Queues
<1>4. \A t : Has(p, t) <=> m.type = t \/ Has(q, t)
  BY ONLY <1>3, Taken
<1>5. \A t : Once(p, t) => Once(q, t) /\ (m.type = t => ~Has(q, t))
  BY ONLY <1>3, Taken
<1>6. /\ Completing' => Completing
      /\ m.type = "EmulatorCompleted" => Completing /\ ~Completing'
      /\ Once(toClient'["app"], "EmulatorCompleted")
  BY <1>2, <1>4, <1>5 DEF Completing, OneHasScreen
<1>7. (Starting' => Starting) /\ Once(toServer'["app"], "StartEmulator")
  <2>1. ASSUME Reports("app", ButtonColors(colors))
        PROVE  (Starting' => Starting) /\ Once(toServer'["app"], "StartEmulator")
    <3>1. PICK k \in FromClient("app") : k.type = "ButtonColors" /\ Reports("app", k)
      BY <1>0, <2>1, MayBeSent, Messages DEF KnownTyped
    <3> QED BY <1>0, <3>1, PagesSend DEF OneHasScreen
  <2>2. toServer' = toServer \/ Reports("app", ButtonColors(colors))
    BY DEF AppReceives
  <2> QED BY <2>1, <2>2 DEF OneHasScreen, Starting
<1>8. CASE m.type = "EmulatorCompleted"
  <2>1. Show("menu", music)
    BY <1>2, <1>8 DEF AppReceives
  <2>2. screen' = "menu" /\ orphan' = (orphan \/ music) /\ screen = "none"
    BY <1>6, <1>8, <2>1 DEF Show, OneHasScreen
  <2> QED BY <1>1, <1>6, <1>7, <1>8, <2>2 DEF OneHasScreen
<1>9. CASE m.type # "EmulatorCompleted"
  <2>1. UNCHANGED <<screen, orphan>>
    BY <1>2, <1>9 DEF AppReceives, pages
  <2> QED BY <1>1, <1>6, <1>7, <2>1, TokenKept DEF OneHasScreen
<1> QED BY <1>8, <1>9

\* A page is followed by another, or by StartEmulator.
LEMMA FramePasses ==
    ASSUME Typed, OneHasScreen, Frame
    PROVE  OneHasScreen' /\ (orphan' => orphan)
<1>0. Queues
  BY DEF Typed
<1>1. screen # "none" /\ UNCHANGED <<client, toClient, emulator>>
  BY DEF Frame, srv
<1>2. emulator = "none" /\ ~Starting /\ ~Completing /\ ~Completing'
  BY <1>1 DEF OneHasScreen, Completing
<1>3. /\ orphan' => orphan
      /\ \/ toServer' = toServer /\ screen' # "none"
         \/ client["app"] = "open" /\ screen' = "none" /\ Reports("app", Signal("StartEmulator"))
  <2>1. CASE UNCHANGED <<pages, toServer>>
    BY <1>1, <2>1 DEF pages
  <2>2. CASE UNCHANGED <<screen, music, orphan, toServer>>
    BY <1>1, <2>2
  <2>3. CASE \E s \in {"logo", "menu", "game"} : Show(s, FALSE) /\ UNCHANGED toServer
    BY <2>3 DEF Show
  <2>4. CASE client["app"] = "open" /\ Show("none", FALSE) /\ Reports("app", Signal("StartEmulator"))
    BY <2>4 DEF Show
  <2> QED BY <2>1, <2>2, <2>3, <2>4, FrameIs
<1>4. CASE toServer' = toServer /\ screen' # "none"
  BY <1>1, <1>2, <1>3, <1>4 DEF OneHasScreen, Starting
<1>5. CASE client["app"] = "open" /\ screen' = "none" /\ Reports("app", Signal("StartEmulator"))
  <2>1. Once(toServer'["app"], "StartEmulator")
    BY <1>0, <1>2, <1>5, PagesSend, MayBeSent DEF OneHasScreen
  <2> QED BY <1>1, <1>2, <1>3, <1>5, <2>1 DEF OneHasScreen, Completing
<1> QED BY <1>3, <1>4, <1>5

\* A client that comes back has nothing under way.
LEMMA ConnectPasses ==
    ASSUME Typed, Links, OneHasScreen, NEW e \in Ends, Connect(e)
    PROVE  OneHasScreen' /\ (client'["app"] # "closed" => "app" \in up' \/ client["app"] # "closed")
<1>0. Queues /\ client \in [Ends -> {"closed", "connecting", "open"}]
  BY DEF Typed, Plain, ConnectionsTyped
<1>1. /\ UNCHANGED <<screen, emulator>> /\ client[e] = "closed" /\ client'[e] = "connecting"
      /\ up' = up \cup {e} /\ \A f \in Ends : f # e => client'[f] = client[f] /\ toServer'[f] = toServer[f]
      /\ toServer'[e] = <<>>
  BY <1>0 DEF Connect, srv, pages, Queues
<1>2. CASE e = "app"
  <2>1. ~Has(toServer'["app"], "StartEmulator") /\ Once(toServer'["app"], "StartEmulator")
    BY <1>1, <1>2, NothingIn
  <2>2. ~Has(toClient'["app"], "EmulatorCompleted") /\ Once(toClient'["app"], "EmulatorCompleted")
    BY <1>2, ConnectIs
  <2> QED BY <1>1, <1>2, <2>1, <2>2 DEF OneHasScreen, Starting, Completing
<1>3. CASE e # "app"
  <2>1. /\ Has(toClient'["app"], "EmulatorCompleted") <=> Has(toClient["app"], "EmulatorCompleted")
        /\ Once(toClient["app"], "EmulatorCompleted") => Once(toClient'["app"], "EmulatorCompleted")
    BY <1>3, ConnectIs, TwoEnds
  <2> QED BY <1>1, <1>3, <2>1, TwoEnds, TokenKept DEF OneHasScreen, Starting, Completing
<1> QED BY <1>2, <1>3

\* Every step keeps the token.
LEMMA NextToken ==
    ASSUME Typed, Links, Token, [Next]_vars
    PROVE  Token'
<1>0. /\ Queues /\ client \in [Ends -> {"closed", "connecting", "open"}] /\ breaks \in Nat
      /\ level \in {"up", "stopping", "stopped"} /\ music \in BOOLEAN
  BY DEF Typed, Plain, ConnectionsTyped, KnownTyped, JoystickTyped, PagesTyped
<1>1. music' => screen' = "menu"
  <2>1. \/ UNCHANGED <<screen, music>>
        \/ \E s, plays : Show(s, plays)
        \/ music' = FALSE
    <3>1. CASE Frame
      BY <3>1, FrameIs DEF pages
    <3>2. CASE MusicEnds
      BY <3>2 DEF MusicEnds
    <3>3. CASE AppReceives \/ AppNotices
      BY <3>3 DEF AppReceives, AppNotices, pages
    <3>4. CASE ~(Frame \/ MusicEnds \/ AppReceives \/ AppNotices)
      BY <3>4 DEF Next, vars, pages, Connect, Break, ServerNotices, ServerReceives, Press, Render, BoxReceives,
                  BoxNotices, IdleTimeout, EmulatorEnds, ProcessCompleted, HandleStopping, Paint,
                  SendTimerExpired, Stopped
    <3> QED BY <3>1, <3>2, <3>3, <3>4
  <2> QED BY <2>1 DEF Show, Token
<1> SUFFICES ASSUME level' = "up", breaks' = 0
             PROVE  /\ OneHasScreen' /\ ~orphan'
                    /\ client'["app"] # "closed" => "app" \in up'
  BY <1>1 DEF Token
<1>2. ASSUME level = "up", breaks = 0
      PROVE  /\ OneHasScreen /\ ~orphan /\ (music => screen = "menu")
             /\ client["app"] # "closed" => "app" \in up
  BY <1>2 DEF Token
<1>3. CASE \E e \in Ends : Connect(e)
  <2>1. PICK e \in Ends : Connect(e)
    BY <1>3
  <2>2. level = "up" /\ breaks = 0 /\ orphan' = orphan /\ up \subseteq up'
    BY <2>1 DEF Connect, budgets, pages
  <2> QED BY <1>2, <2>1, <2>2, ConnectPasses
<1>4. CASE (\E e \in Ends : Break(e)) \/ HandleStopping
  BY <1>0, <1>4 DEF Break, HandleStopping
<1>5. CASE \E e \in Ends : ServerNotices(e)
  <2>1. PICK e \in Ends : ServerNotices(e)
    BY <1>5
  <2>2. level = "up" /\ breaks = 0 /\ UNCHANGED <<orphan, client, up, screen, emulator, toClient>>
    BY <2>1 DEF ServerNotices, budgets, pages, srv
  <2>3. toServer'["app"] = toServer["app"] \/ toServer'["app"] = <<>>
    BY <1>0, <2>1, TwoEnds DEF ServerNotices, Queues
  <2>4. (Starting' => Starting) /\ Once(toServer'["app"], "StartEmulator")
    BY <1>2, <2>2, <2>3, NothingIn DEF Starting, OneHasScreen
  <2> QED BY <1>2, <2>2, <2>4, TokenKept DEF OneHasScreen, Completing
<1>6. CASE \E e \in Ends : ServerReceives(e)
  <2>1. level = "up" /\ breaks = 0 /\ UNCHANGED <<orphan, client, up, screen>>
    BY <1>6 DEF ServerReceives, budgets, pages
  <2> QED BY <1>2, <1>6, <2>1, ServerPasses
<1>7. CASE ProcessCompleted
  <2>1. level = "up" /\ breaks = 0 /\ UNCHANGED <<orphan, client, up>>
    BY <1>7 DEF ProcessCompleted, budgets, pages
  <2> QED BY <1>2, <1>7, <2>1, CompletedReports
<1>8. CASE Frame
  <2>1. level = "up" /\ breaks = 0 /\ UNCHANGED <<client, up>>
    BY <1>8 DEF Frame, budgets, srv
  <2> QED BY <1>2, <1>8, <2>1, FramePasses
<1>9. CASE AppReceives
  <2>1. level = "up" /\ breaks = 0 /\ up' = up /\ client["app"] # "closed"
    BY <1>9 DEF AppReceives, budgets, srv
  <2> QED BY <1>2, <1>9, <2>1, AppShows
<1>10. CASE AppNotices
  <2>1. level = "up" /\ breaks = 0 /\ "app" \notin up /\ client["app"] # "closed"
    BY <1>10 DEF AppNotices, budgets, srv
  <2> QED BY <1>2, <2>1
<1>11. CASE MusicEnds
  <2>1. level = "up" /\ breaks = 0 /\ UNCHANGED <<client, up, toServer, toClient, emulator>>
    BY <1>11 DEF MusicEnds, budgets, srv, link
  <2>2. screen = "menu" /\ screen' # "none" /\ ~orphan'
    BY <1>2, <1>11, <2>1 DEF MusicEnds, Show
  <2> QED BY <1>2, <2>1, <2>2 DEF OneHasScreen, Starting, Completing
<1>12. CASE Render \/ SendTimerExpired
  <2>1. level = "up" /\ breaks = 0 /\ UNCHANGED <<client, up, toClient, emulator, screen, orphan>>
    BY <1>12 DEF Render, SendTimerExpired, budgets, srv, pages
  <2>2. (Starting' => Starting) /\ Once(toServer'["app"], "StartEmulator")
    <3>1. CASE Render
      <4>1. toServer'["app"] = toServer["app"]
        BY <1>0, <3>1, ReportsTo, TwoEnds DEF Render
      <4> QED BY <1>2, <2>1, <4>1 DEF OneHasScreen, Starting
    <3>2. CASE SendTimerExpired
      <4>1. PICK k \in FromClient("app") : k.type = "ButtonColors" /\ Reports("app", k)
        BY <3>2, MayBeSent, Messages DEF SendTimerExpired, Typed, Plain, KnownTyped
      <4> QED BY <1>0, <1>2, <2>1, <4>1, PagesSend DEF OneHasScreen
    <3> QED BY <1>12, <3>1, <3>2
  <2> QED BY <1>2, <2>1, <2>2, TokenKept DEF OneHasScreen, Completing
<1>13. CASE BoxReceives \/ BoxNotices
  <2>1. level = "up" /\ breaks = 0 /\ UNCHANGED <<up, emulator, screen, orphan>>
    BY <1>13 DEF BoxReceives, BoxNotices, budgets, srv, pages
  <2>2. client'["app"] = client["app"] /\ toClient'["app"] = toClient["app"]
    BY <1>0, <1>13, TwoEnds DEF BoxReceives, BoxNotices, Queues
  <2>3. toServer'["app"] = toServer["app"]
    BY <1>0, <1>13, ReportsTo, TwoEnds DEF BoxReceives, BoxNotices
  <2> QED BY <1>2, <2>1, <2>2, <2>3, TokenKept DEF OneHasScreen, Starting, Completing
<1>14. CASE EmulatorEnds
  <2>1. level = "up" /\ breaks = 0 /\ UNCHANGED <<client, up, toServer, toClient, screen, orphan>>
        /\ emulator # "none" /\ emulator' # "none"
    BY <1>14 DEF EmulatorEnds, budgets, link, pages
  <2> QED BY <1>2, <2>1 DEF OneHasScreen, Starting, Completing
<1>15. CASE Press \/ IdleTimeout \/ Paint \/ Stopped \/ UNCHANGED vars
  <2>1. level = "up" /\ breaks = 0 /\ UNCHANGED <<client, up, toServer, toClient, emulator, screen, orphan>>
    BY <1>15 DEF Press, IdleTimeout, Paint, Stopped, vars, budgets, link, srv, pages
  <2> QED BY <1>2, <2>1 DEF OneHasScreen, Starting, Completing
<1> QED BY <1>3, <1>4, <1>5, <1>6, <1>7, <1>8, <1>9, <1>10, <1>11, <1>12, <1>13, <1>14, <1>15 DEF Next

LEMMA InitToken == Init => Token
<1> SUFFICES ASSUME Init PROVE Token
  OBVIOUS
<1>1. toServer["app"] = <<>> /\ toClient["app"] = <<>>
  BY TwoEnds DEF Init
<1> QED BY <1>1, NothingIn, TwoEnds DEF Init, Token, OneHasScreen, Starting, Completing

\* Before a connection breaks no page is shown while an emulator runs.
THEOREM EmulatorStaysOnScreen == Spec => []EmulatorHasScreen
<1> DEFINE Inv == Typed /\ JoystickFollows /\ Links /\ Token
<1>1. Init => Inv
  BY InitTyped, InitComes, InitToken
<1>2. Inv /\ [Next]_vars => Inv'
  BY NextTyped, NextLinks, NextToken
<1>3. Inv => EmulatorHasScreen
  BY DEF Token, OneHasScreen, EmulatorHasScreen
<1> QED BY <1>1, <1>2, <1>3, PTL DEF Spec

-----------------------------------------------------------------------------
\* With the game of Tetris in the same build the cabinet does what it does
\* alone, and so has the same properties.
THEOREM BuiltIsCabinet == MCSpec => Spec
<1>1. MCInit => Init
  BY DEF MCInit
<1>2. [MCNext]_allVars => [Next]_vars
  BY DEF MCNext, allVars, Cabinet, Tetris
<1> QED BY <1>1, <1>2, PTL DEF MCSpec, Spec

-----------------------------------------------------------------------------
(***************************************************************************)
(* The game of Tetris, for any size of the board with two hidden rows or   *)
(* more, any pieces and any hands.  The loop of a frame works on a record; *)
(* Sound says what its board and piece have to do with those the frame     *)
(* began with, in every turn.  A held button drops the piece to the shadow *)
(* of an earlier frame, which the code takes to be there: ShadowFirst says *)
(* that it is.  That clearing rows loses no cell is counted by the map     *)
(* that takes each cell of a row that stays to where it comes down: it is  *)
(* a bijection, because rows that stay keep their order.                   *)
(***************************************************************************)

Columns == 0 .. NumCols - 1
Rows == 0 .. NumRows - 1

\* The parts of a piece lie at four different places, those of a new one
\* within two columns to the left and one to the right, and a row up.
PlacesOf(off) ==
    /\ off \in [1 .. 4 -> Int \X Int]
    /\ \A i, j \in 1 .. 4 : off[i] = off[j] => i = j

NewPlaces(off) == \A i \in 1 .. 4 : off[i][1] \in -2 .. 1 /\ off[i][2] \in -1 .. 0

\* So are the offsets of every kind of piece, however it is turned.
LEMMA PartsPlaced ==
    ASSUME NEW k \in 0 .. 6, NEW r \in 0 .. 3
    PROVE  /\ PlacesOf(Game!Offsets[k + 1][r + 1])
           /\ r = 0 => NewPlaces(Game!Offsets[k + 1][r + 1])
<1>1. \A j \in 0 .. 6 : j = 0 \/ j = 1 \/ j = 2 \/ j = 3 \/ j = 4 \/ j = 5 \/ j = 6
  OBVIOUS
<1>2. \A j \in 0 .. 3 : j = 0 \/ j = 1 \/ j = 2 \/ j = 3
  OBVIOUS
<1>3. CASE k = 0
  BY <1>2, <1>3 DEF Game!Offsets, PlacesOf, NewPlaces
<1>4. CASE k = 1
  BY <1>2, <1>4 DEF Game!Offsets, PlacesOf, NewPlaces
<1>5. CASE k = 2
  BY <1>2, <1>5 DEF Game!Offsets, PlacesOf, NewPlaces
<1>6. CASE k = 3
  BY <1>2, <1>6 DEF Game!Offsets, PlacesOf, NewPlaces
<1>7. CASE k = 4
  BY <1>2, <1>7 DEF Game!Offsets, PlacesOf, NewPlaces
<1>8. CASE k = 5
  BY <1>2, <1>8 DEF Game!Offsets, PlacesOf, NewPlaces
<1>9. CASE k = 6
  BY <1>2, <1>9 DEF Game!Offsets, PlacesOf, NewPlaces
<1> QED BY <1>1, <1>3, <1>4, <1>5, <1>6, <1>7, <1>8, <1>9

\* The kicks of a turn are whole numbers of cells.
LEMMA KicksTyped ==
    ASSUME NEW p \in Game!Pieces
    PROVE  /\ DOMAIN Game!Kicks(p) \in SUBSET Nat
           /\ \A i \in DOMAIN Game!Kicks(p) : Game!Kicks(p)[i][1] \in Int /\ Game!Kicks(p)[i][2] \in Int
<1> SUFFICES ASSUME NEW i \in DOMAIN Game!Kicks(p)
             PROVE  i \in Nat /\ Game!Kicks(p)[i][1] \in Int /\ Game!Kicks(p)[i][2] \in Int
  OBVIOUS
<1>1. p.kind \in 0 .. 6 /\ (p.rotation = 0 \/ p.rotation = 1 \/ p.rotation = 2 \/ p.rotation = 3)
  BY DEF Game!Pieces
<1>2. CASE p.kind = 0
  BY <1>1, <1>2 DEF Game!Kicks
<1>3. CASE p.kind = 1
  BY <1>1, <1>3 DEF Game!Kicks
<1>4. CASE p.kind # 0 /\ p.kind # 1
  <2>1. Game!Kicks(p) = <<
           <<<<0, 0>>, <<-1, 0>>, <<-1, 1>>, <<0, -2>>, <<-1, -2>>>>,  <<<<0, 0>>, <<-1, 0>>, <<-1, -1>>, <<0, 2>>, <<-1, 2>>>>,
           <<<<0, 0>>, <<1, 0>>, <<1, 1>>, <<0, -2>>, <<1, -2>>>>,  <<<<0, 0>>, <<1, 0>>, <<1, -1>>, <<0, 2>>, <<1, 2>>>>
         >>[p.rotation + 1]
    BY <1>4 DEF Game!Kicks
  <2> QED BY <1>1, <2>1
<1> QED BY <1>2, <1>3, <1>4

\* Where the parts of a piece are.
LEMMA PartsOf ==
    ASSUME NEW p \in Game!Pieces
    PROVE  /\ Game!Parts(p) \in [1 .. 4 -> Int \X Int]
           /\ \A i, j \in 1 .. 4 : Game!Parts(p)[i] = Game!Parts(p)[j] => i = j
<1> DEFINE off == Game!Offsets[p.kind + 1][p.rotation + 1]
<1>1. p.kind \in 0 .. 6 /\ p.rotation \in 0 .. 3 /\ p.x \in Int /\ p.y \in Int
  BY DEF Game!Pieces
<1>2. PlacesOf(off)
  BY <1>1, PartsPlaced
<1>3. Game!Parts(p) = [i \in 1 .. 4 |-> <<p.x + off[i][1], p.y + off[i][2]>>]
  BY DEF Game!Parts
<1> HIDE DEF off
<1>4. \A i \in 1 .. 4 : off[i][1] \in Int /\ off[i][2] \in Int /\ off[i] = <<off[i][1], off[i][2]>>
  BY <1>2 DEF PlacesOf
<1>5. ASSUME NEW i \in 1 .. 4, NEW j \in 1 .. 4, Game!Parts(p)[i] = Game!Parts(p)[j]
      PROVE  i = j
  <2>1. off[i][1] = off[j][1] /\ off[i][2] = off[j][2]
    BY <1>1, <1>3, <1>4, <1>5
  <2> QED BY <1>2, <1>4, <2>1 DEF PlacesOf
<1> QED BY <1>1, <1>3, <1>4, <1>5

\* A piece that moves or turns is a piece, and moves with all its parts.
LEMMA MovedPiece ==
    ASSUME NEW p \in Game!Pieces, NEW x \in Int, NEW y \in Int
    PROVE  /\ Game!Move(p, x, y) \in Game!Pieces /\ Game!Rotate(p) \in Game!Pieces
           /\ Game!Move(p, 0, 0) = p
           /\ \A i \in 1 .. 4 :
                 Game!Parts(Game!Move(p, x, y))[i] = <<Game!Parts(p)[i][1] + x, Game!Parts(p)[i][2] + y>>
<1> DEFINE q == Game!Move(p, x, y)
<1>0. /\ p.kind \in 0 .. 6 /\ p.x \in Int /\ p.y \in Int /\ p.rotation \in 0 .. 3
      /\ p = [kind |-> p.kind, x |-> p.x, y |-> p.y, rotation |-> p.rotation]
  BY DEF Game!Pieces
<1>1. /\ q = [kind |-> p.kind, x |-> p.x + x, y |-> p.y + y, rotation |-> p.rotation]
      /\ Game!Move(p, 0, 0) = [kind |-> p.kind, x |-> p.x + 0, y |-> p.y + 0, rotation |-> p.rotation]
  <2>1. ASSUME NEW a \in Int, NEW b \in Int
        PROVE  Game!Move(p, a, b) = [kind |-> p.kind, x |-> p.x + a, y |-> p.y + b, rotation |-> p.rotation]
    <3> DEFINE f == [p EXCEPT !.x = p.x + a]
    <3>1. f = [kind |-> p.kind, x |-> p.x + a, y |-> p.y, rotation |-> p.rotation]
      BY <1>0
    <3>2. Game!Move(p, a, b) = [f EXCEPT !.y = f.y + b]
      BY DEF Game!Move
    <3> HIDE DEF f
    <3> QED BY <3>1, <3>2
  <2> QED BY <2>1
<1>2. q \in Game!Pieces /\ Game!Move(p, 0, 0) = p
  <2>1. p.x + 0 = p.x /\ p.y + 0 = p.y /\ p.x + x \in Int /\ p.y + y \in Int
    BY <1>0
  <2> QED BY <1>0, <1>1, <2>1 DEF Game!Pieces
<1>3. Game!Rotate(p) \in Game!Pieces
  <2>1. (p.rotation + 1) % 4 \in 0 .. 3
    BY DEF Game!Pieces
  <2> QED BY <2>1 DEF Game!Pieces, Game!Rotate
<1>4. ASSUME NEW i \in 1 .. 4
      PROVE  Game!Parts(q)[i] = <<Game!Parts(p)[i][1] + x, Game!Parts(p)[i][2] + y>>
  <2> DEFINE off == Game!Offsets[p.kind + 1][p.rotation + 1]
  <2>1. PlacesOf(off) /\ p.x \in Int /\ p.y \in Int
    BY PartsPlaced DEF Game!Pieces
  <2>2. Game!Parts(q)[i] = <<p.x + x + off[i][1], p.y + y + off[i][2]>>
    <3>1. q.kind = p.kind /\ q.rotation = p.rotation /\ q.x = p.x + x /\ q.y = p.y + y
      BY <1>1
    <3> HIDE DEF q
    <3> QED BY <3>1 DEF Game!Parts
  <2>3. Game!Parts(p)[i] = <<p.x + off[i][1], p.y + off[i][2]>>
    BY DEF Game!Parts
  <2> HIDE DEF off
  <2>4. off[i][1] \in Int /\ off[i][2] \in Int
    BY <2>1 DEF PlacesOf
  <2> QED BY <2>1, <2>2, <2>3, <2>4
<1> QED BY <1>2, <1>3, <1>4

\* It is a piece wherever it moves.
LEMMA StaysPiece ==
    \A p \in Game!Pieces, x \in Int, y \in Int :
        Game!Move(p, x, y) \in Game!Pieces /\ Game!Rotate(p) \in Game!Pieces
  BY MovedPiece

\* The constants and the cells of the board.
Cells == (0 .. NumCols - 1) \X (0 .. NumRows - 1)

\* What TetrisAssumption says of the constants.
LEMMA BoardSize ==
    /\ NumRows \in Nat \ {0} /\ HiddenRows \in 2 .. NumRows - 1 /\ NumCols \in Nat /\ NumCols >= 4
    /\ SPEED \in Nat \ {0} /\ HOLD_TIME \in Nat /\ RECLICK_TIME \in Nat
    /\ Kinds \subseteq 0 .. 6 /\ Gaps \subseteq 0 .. SPEED
    /\ \A hand \in Hands, b \in {"left", "right", "other"} :
          hand[b].clicked \in BOOLEAN /\ hand[b].pressed \in BOOLEAN
  BY MCMiamiNightsAssumption DEF MCMiamiNightsAssumption, Game!TetrisAssumption, Game!Controls

\* A set of natural numbers has a least one.
LEMMA LeastOf ==
    ASSUME NEW S \in SUBSET Nat, S # {}
    PROVE  Game!Min(S) \in S /\ \A n \in S : Game!Min(S) <= n
<1>1. PICK m \in S : \A n \in S : <<n, m>> \notin OpToRel(<, Nat)
  BY NatLessThanWellFounded, WFMin
<1>2. ASSUME NEW n \in S PROVE m <= n
  <2>1. n \in Nat /\ m \in Nat /\ <<n, m>> \notin {ss \in Nat \X Nat : ss[1] < ss[2]}
    BY <1>1 DEF OpToRel
  <2>2. <<n, m>> \in Nat \X Nat /\ <<n, m>>[1] = n /\ <<n, m>>[2] = m
    BY <2>1
  <2>3. ~(n < m)
    BY ONLY <2>1, <2>2
  <2> QED BY ONLY <2>1, <2>3
<1> QED BY <1>2 DEF Game!Min

\* fits, of one part and of all.
LEMMA Fitting ==
    ASSUME NEW cells, NEW p \in Game!Pieces
    PROVE  Game!Fits(cells, p) <=> \A i \in 1 .. 4 : Game!Parts(p)[i] \in Cells \ cells
<1>1. ASSUME NEW c \in Int \X Int
      PROVE  Game!At(cells, c) = "free" <=> c \in Cells \ cells
  BY BoardSize DEF Game!At, Cells
<1>2. \A i \in 1 .. 4 : Game!Parts(p)[i] \in Int \X Int
  BY PartsOf
<1> QED BY <1>1, <1>2 DEF Game!Fits

\* A look that is neither blocked nor fails says that the piece fits.
LEMMA Looking ==
    ASSUME NEW cells, NEW p, Game!Look(cells, p) # "blocked", Game!Look(cells, p) # "fails"
    PROVE  Game!Fits(cells, p)
<1> DEFINE bad == {i \in 1 .. 4 : Game!At(cells, Game!Parts(p)[i]) # "free"}
<1>1. CASE bad = {}
  BY <1>1 DEF Game!Fits
<1>2. CASE bad # {}
  <2>1. Game!Min(bad) \in bad
    BY <1>2, LeastOf
  <2>2. Game!Look(cells, p) = Game!At(cells, Game!Parts(p)[Game!Min(bad)])
    BY <1>2 DEF Game!Look
  <2> QED BY <2>1, <2>2 DEF Game!At
<1> QED BY <1>1, <1>2

\* The shadow of a piece that fits is where it comes to rest; that of a piece
\* that ends the game is somewhere, too.
LEMMA Dropping ==
    ASSUME NEW cells, NEW p \in Game!Pieces, \A i \in 1 .. 4 : Game!Parts(p)[i][2] >= 0
    PROVE  /\ Game!Dropped(cells, p) \in Game!Pieces
           /\ Game!Fits(cells, p) => Game!Fits(cells, Game!Dropped(cells, p))
<1> DEFINE stops == {d \in 1 .. NumRows : ~Game!Fits(cells, Game!Move(p, 0, d))}
           m == Game!Min(stops)
<1>1. NumRows \in stops
  <2>1. NumRows \in 1 .. NumRows /\ NumRows \in Int /\ 1 \in 1 .. 4
    BY BoardSize
  <2>2. Game!Move(p, 0, NumRows) \in Game!Pieces
           /\ Game!Parts(Game!Move(p, 0, NumRows))[1] = <<Game!Parts(p)[1][1] + 0, Game!Parts(p)[1][2] + NumRows>>
    BY <2>1, MovedPiece
  <2>3. Game!Parts(p)[1][2] \in Nat
    BY <2>1, PartsOf
  <2>4. Game!Parts(Game!Move(p, 0, NumRows))[1] \notin Cells
    BY <2>1, <2>2, <2>3 DEF Cells
  <2> QED BY <2>1, <2>2, <2>4, Fitting
<1>2. m \in 1 .. NumRows /\ m \in stops /\ \A d \in stops : m <= d
  <2>1. stops \in SUBSET Nat
    OBVIOUS
  <2> QED BY <1>1, <2>1, LeastOf
<1>3. Game!Dropped(cells, p) = Game!Move(p, 0, m - 1)
  BY DEF Game!Dropped
<1> HIDE DEF m
<1>4. m - 1 \in Int /\ 0 \in Int
  BY <1>2
<1>5. Game!Dropped(cells, p) \in Game!Pieces
  BY <1>3, <1>4, MovedPiece
<1>6. ASSUME Game!Fits(cells, p)
      PROVE  Game!Fits(cells, Game!Move(p, 0, m - 1))
  <2>1. CASE m = 1
    BY <1>4, <1>6, <2>1, MovedPiece
  <2>2. CASE m # 1
    <3>1. m - 1 \in 1 .. NumRows /\ m - 1 \notin stops
      BY <1>2, <2>2, BoardSize
    <3> QED BY <3>1
  <2> QED BY <2>1, <2>2
<1> QED BY <1>3, <1>5, <1>6

\* A piece that fits fills four cells.
LEMMA PieceFills ==
    ASSUME NEW cells \in SUBSET Cells, NEW p \in Game!Pieces, Game!Fits(cells, p),
           NEW filled, filled = cells \cup Game!ToSet(Game!Parts(p))
    PROVE  /\ filled \in SUBSET Cells /\ IsFiniteSet(filled) /\ IsFiniteSet(cells)
           /\ Cardinality(filled) = Cardinality(cells) + 4
<1> DEFINE a == Game!Parts(p)[1]
           b == Game!Parts(p)[2]
           c == Game!Parts(p)[3]
           d == Game!Parts(p)[4]
<1>1. Game!ToSet(Game!Parts(p)) = {Game!Parts(p)[i] : i \in 1 .. 4}
  BY PartsOf DEF Game!ToSet
<1>2. 1 .. 4 = {1, 2, 3, 4}
  OBVIOUS
<1>3. /\ a \in Cells \ cells /\ b \in Cells \ cells /\ c \in Cells \ cells /\ d \in Cells \ cells
      /\ a # b /\ a # c /\ a # d /\ b # c /\ b # d /\ c # d
  BY <1>2, Fitting, PartsOf
<1>4. filled = (((cells \cup {a}) \cup {b}) \cup {c}) \cup {d}
  BY <1>1, <1>2
<1> HIDE DEF a, b, c, d
<1>5. IsFiniteSet(Cells) /\ IsFiniteSet(cells) /\ Cardinality(cells) \in Nat
  <2>1. IsFiniteSet(Columns) /\ IsFiniteSet(Rows)
    BY BoardSize, FS_Interval DEF Columns, Rows
  <2>2. IsFiniteSet(Cells)
    BY <2>1, FS_Product DEF Cells, Columns, Rows
  <2> QED BY <2>2, FS_Subset, FS_CardinalityType
<1>6. ASSUME NEW S, NEW x, IsFiniteSet(S), x \notin S, Cardinality(S) \in Nat
      PROVE  IsFiniteSet(S \cup {x}) /\ Cardinality(S \cup {x}) = Cardinality(S) + 1
  BY <1>6, FS_AddElement
<1> DEFINE s == cells \cup {a}
           t == s \cup {b}
           u == t \cup {c}
<1>7. IsFiniteSet(s) /\ Cardinality(s) = Cardinality(cells) + 1
  BY <1>3, <1>5, <1>6
<1>8. IsFiniteSet(t) /\ Cardinality(t) = Cardinality(s) + 1
  <2>1. b \notin s /\ Cardinality(s) \in Nat
    BY <1>3, <1>5, <1>7
  <2> HIDE DEF s
  <2> QED BY <1>6, <1>7, <2>1
<1>9. IsFiniteSet(u) /\ Cardinality(u) = Cardinality(t) + 1
  <2>1. c \notin t /\ Cardinality(t) \in Nat
    BY <1>3, <1>5, <1>7, <1>8
  <2> HIDE DEF t
  <2> QED BY <1>6, <1>8, <2>1
<1>10. IsFiniteSet(filled) /\ Cardinality(filled) = Cardinality(u) + 1
  <2>1. d \notin u /\ Cardinality(u) \in Nat /\ filled = u \cup {d}
    BY <1>3, <1>4, <1>5, <1>7, <1>8, <1>9
  <2> HIDE DEF u
  <2> QED BY <1>6, <1>9, <2>1
<1>11. filled \in SUBSET Cells
  BY <1>3, <1>4
<1> HIDE DEF s, t, u
<1> QED BY <1>5, <1>7, <1>8, <1>9, <1>10, <1>11

\* How far a row comes down when the rows below it are cleared.
Below(full, y) == {f \in full : f > y}
Down(full, y) == y + Cardinality(Below(full, y))

\* How many numbers there are from a to b.
LEMMA IntervalSize ==
    ASSUME NEW a \in Int, NEW b \in Int, a <= b + 1
    PROVE  IsFiniteSet(a .. b) /\ Cardinality(a .. b) = b - a + 1
  BY FS_Interval

\* Rows that are not cleared stay on the board and keep their order.
LEMMA RowsStayApart ==
    ASSUME NEW full \in SUBSET Rows
    PROVE  /\ IsFiniteSet(full) /\ Cardinality(full) \in Nat
           /\ \A y \in Rows : Down(full, y) \in Rows
           /\ \A y \in Rows, z \in Rows \ full : y < z => Down(full, y) < Down(full, z)
<1>1. IsFiniteSet(full) /\ Cardinality(full) \in Nat /\ NumRows \in Nat
  <2>1. IsFiniteSet(Rows)
    BY BoardSize, FS_Interval DEF Rows
  <2> QED BY <2>1, BoardSize, FS_Subset, FS_CardinalityType
<1>2. ASSUME NEW y \in Rows
      PROVE  IsFiniteSet(Below(full, y)) /\ Cardinality(Below(full, y)) \in Nat
  <2>1. Below(full, y) \in SUBSET full
    BY DEF Below
  <2> QED BY <1>1, <2>1, FS_Subset, FS_CardinalityType
<1>3. ASSUME NEW y \in Rows
      PROVE  Down(full, y) \in Rows
  <2> DEFINE a == y + 1
             b == NumRows - 1
             I == a .. b
  <2>1. y \in Nat /\ y < NumRows
    BY <1>1 DEF Rows
  <2>2. a \in Int /\ b \in Int /\ a <= b + 1 /\ b - a + 1 = NumRows - 1 - y
    BY <1>1, <2>1
  <2>3. Below(full, y) \in SUBSET I
    <3> SUFFICES ASSUME NEW f \in full, f > y PROVE f \in I
      BY DEF Below
    <3>1. f \in 0 .. NumRows - 1
      BY DEF Rows
    <3> QED BY <1>1, <2>1, <3>1
  <2> HIDE DEF a, b
  <2>4. IsFiniteSet(I) /\ Cardinality(I) = NumRows - 1 - y
    BY <2>2, IntervalSize
  <2> HIDE DEF I
  <2>5. Cardinality(Below(full, y)) <= NumRows - 1 - y
    BY <2>3, <2>4, FS_Subset
  <2> QED BY <1>1, <1>2, <2>1, <2>5 DEF Down, Rows
<1>4. ASSUME NEW y \in Rows, NEW z \in Rows \ full, y < z
      PROVE  Down(full, y) < Down(full, z)
  <2> DEFINE a == y + 1
             b == z - 1
             I == a .. b
             B == Below(full, z)
  <2>1. y \in Nat /\ z \in Nat
    BY <1>1, <1>4 DEF Rows
  <2>a. a \in Int /\ b \in Int /\ a <= b + 1 /\ b - a + 1 = z - 1 - y
    BY <1>4, <2>1
  <2>2. IsFiniteSet(I) /\ Cardinality(I) = z - 1 - y
    <3> HIDE DEF a, b
    <3> QED BY <2>a, IntervalSize
  <2>3. Below(full, y) \in SUBSET (B \cup I)
    <3> SUFFICES ASSUME NEW f \in full, f > y, ~(f > z) PROVE f \in I
      BY DEF Below
    <3>1. f \in Nat /\ f # z
      BY <1>1 DEF Rows
    <3> QED BY <2>1, <3>1
  <2>4. IsFiniteSet(B) /\ Cardinality(B) \in Nat
    BY <1>2
  <2> HIDE DEF I
  <2>5. IsFiniteSet(B \cup I) /\ Cardinality(B \cup I) = Cardinality(B) + Cardinality(I) - Cardinality(B \cap I)
    BY <2>2, <2>4, FS_Union
  <2>6. Cardinality(B \cap I) \in Nat
    BY <2>4, FS_Intersection, FS_CardinalityType
  <2>7. Cardinality(Below(full, y)) <= Cardinality(B \cup I)
    BY <2>3, <2>5, FS_Subset
  <2>8. Cardinality(Below(full, y)) \in Nat
    BY <1>2
  <2>9. Cardinality(Below(full, y)) <= Cardinality(B) + (z - 1 - y)
    BY <2>1, <2>2, <2>4, <2>5, <2>6, <2>7, <2>8
  <2> QED BY <2>1, <2>4, <2>8, <2>9 DEF Down
<1> QED BY <1>1, <1>3, <1>4

\* Clearing rows takes away these rows and nothing else, and leaves none.
LEMMA RowsCleared ==
    ASSUME NEW filled \in SUBSET Cells, IsFiniteSet(filled),
           NEW full, full = Game!FullRows(filled),
           NEW left, left = Game!ClearCompleteRows(filled)
    PROVE  /\ left \in SUBSET Cells /\ Game!FullRows(left) = {}
           /\ Cardinality(full) \in Nat
           /\ Cardinality(left) = Cardinality(filled) - NumCols * Cardinality(full)
<1> DEFINE rest == {c \in filled : c[2] \notin full}
           gone == Columns \X full
           f == [c \in rest |-> <<c[1], Down(full, c[2])>>]
<1>1. /\ full \in SUBSET Rows
      /\ \A y \in Rows : y \in full <=> \A x \in Columns : <<x, y>> \in filled
  BY DEF Game!FullRows, Rows, Columns
<1>2. /\ IsFiniteSet(full) /\ Cardinality(full) \in Nat
      /\ \A y \in Rows : Down(full, y) \in Rows
      /\ \A y \in Rows, z \in Rows \ full : y < z => Down(full, y) < Down(full, z)
  BY <1>1, RowsStayApart
<1>3. left = {f[c] : c \in rest}
  <2>1. \A S : Game!Cardinality(S) = Cardinality(S)
    BY DEF Game!Cardinality, Cardinality
  <2>2. left = {<<c[1], c[2] + Cardinality({y \in full : y > c[2]})>> : c \in rest}
    BY <2>1 DEF Game!ClearCompleteRows
  <2> QED BY <2>2 DEF Down, Below
<1>4. \A c \in rest : /\ c \in Columns \X Rows /\ c = <<c[1], c[2]>> /\ c[1] \in Columns
                      /\ c[2] \in Rows \ full
  BY DEF Cells, Columns, Rows
<1>5. left \in SUBSET Cells
  <2>1. \A c \in rest : f[c] \in Columns \X Rows
    BY <1>2, <1>4
  <2> QED BY <1>3, <2>1 DEF Cells, Columns, Rows
<1>6. \A y \in Rows \ full, z \in Rows \ full : Down(full, y) = Down(full, z) => y = z
  BY <1>2 DEF Rows
<1>7. Cardinality(left) = Cardinality(rest) /\ IsFiniteSet(rest)
  <2>1. IsFiniteSet(rest)
    BY FS_Subset
  <2>2. \A c, d \in rest : f[c] = f[d] => c = d
    BY <1>4, <1>6
  <2>3. f \in Bijection(rest, left)
    <3>1. f \in [rest -> left] /\ \A e \in left : \E c \in rest : f[c] = e
      BY <1>3
    <3> HIDE DEF f, rest
    <3> QED BY <2>2, <3>1 DEF Bijection, Injection, Surjection, IsInjective
  <2> HIDE DEF f, rest
  <2> QED BY <2>1, <2>3, FS_Bijection DEF ExistsBijection
<1>8. Cardinality(filled) = Cardinality(rest) + Cardinality(gone)
  <2>1. gone \in SUBSET filled /\ rest = filled \ gone
    BY <1>1 DEF Cells, Columns, Rows
  <2>2. filled \cap gone = gone
    BY <2>1
  <2>3. Cardinality(filled) \in Nat /\ Cardinality(gone) \in Nat
    BY <2>1, FS_Subset, FS_CardinalityType
  <2> HIDE DEF rest, gone
  <2>4. Cardinality(rest) = Cardinality(filled) - Cardinality(gone)
    BY <2>1, <2>2, FS_Difference
  <2> QED BY <2>3, <2>4
<1>9. Cardinality(gone) = NumCols * Cardinality(full)
  <2>1. IsFiniteSet(Columns) /\ Cardinality(Columns) = NumCols
    <3>1. NumCols - 1 \in Int /\ 0 <= NumCols - 1 + 1 /\ (NumCols - 1) - 0 + 1 = NumCols
      BY BoardSize
    <3> QED BY <3>1, IntervalSize DEF Columns
  <2> QED BY <1>2, <2>1, FS_Product
<1>10. Game!FullRows(left) = {}
  <2> SUFFICES ASSUME NEW y \in Rows, \A x \in Columns : <<x, y>> \in left PROVE FALSE
    BY DEF Game!FullRows, Rows, Columns
  <2>1. \A x \in Columns : \E c \in rest : c[1] = x /\ Down(full, c[2]) = y
    BY <1>3
  <2>2. 0 \in Columns
    BY BoardSize DEF Columns
  <2>3. PICK b \in rest : Down(full, b[2]) = y
    BY <2>1, <2>2
  <2>4. \A x \in Columns : <<x, b[2]>> \in filled
    BY <1>4, <1>6, <2>1, <2>3
  <2> QED BY <1>1, <1>4, <2>3, <2>4
<1>11. Cardinality(rest) \in Nat /\ Cardinality(gone) \in Nat
  BY <1>2, <1>7, <1>9, BoardSize, FS_CardinalityType
<1> HIDE DEF rest, gone, f
<1> QED BY <1>2, <1>5, <1>7, <1>8, <1>9, <1>10, <1>11

-----------------------------------------------------------------------------
\* The record of the loop.

\* The state of a button between frames.
Button == [pressed : BOOLEAN, held : BOOLEAN, waiting : BOOLEAN, since : Int, click : BOOLEAN]

ButtonStates == [Game!Controls -> Button]

\* The record that a turn of the loop works on.
Frames ==
    [board : SUBSET Cells, cur : Game!Pieces, next : Kinds, age : Nat, over : BOOLEAN, failed : BOOLEAN,
     lines : Nat, locked : Nat, fresh : BOOLEAN, lock : BOOLEAN, break : BOOLEAN, button : ButtonStates]

\* The fields of a frame, but for what handles the buttons.
SameBut(g, h) ==
    /\ h.next = g.next /\ h.over = g.over /\ h.lines = g.lines /\ h.locked = g.locked /\ h.break = g.break

\* The clicks of left and right are taken.
LEMMA ClicksCleared ==
    ASSUME NEW g \in Frames, NEW h,
           h = [g EXCEPT !.button["left"].click = FALSE, !.button["right"].click = FALSE]
    PROVE  /\ h \in Frames /\ SameBut(g, h) /\ h.board = g.board /\ h.cur = g.cur /\ h.age = g.age
           /\ h.failed = g.failed /\ h.fresh = g.fresh /\ h.lock = g.lock
           /\ h.button["other"] = g.button["other"]
<1> DEFINE l == [g.button["left"] EXCEPT !.click = FALSE]
           r == [g.button["right"] EXCEPT !.click = FALSE]
           bs == [g.button EXCEPT !["left"] = l, !["right"] = r]
<1>1. g.button \in ButtonStates /\ g.button["left"] \in Button /\ g.button["right"] \in Button
  BY DEF Frames, ButtonStates, Game!Controls
<1>2. l \in Button /\ r \in Button
  BY <1>1 DEF Button
<1>3. h = [g EXCEPT !.button = bs]
  BY <1>1 DEF ButtonStates, Game!Controls, Frames
<1> HIDE DEF l, r
<1>4. bs \in ButtonStates /\ bs["other"] = g.button["other"]
  BY <1>1, <1>2 DEF ButtonStates, Game!Controls
<1> HIDE DEF bs
<1>5. h \in Frames
  BY <1>3, <1>4 DEF Frames
<1> QED BY <1>3, <1>4, <1>5 DEF SameBut, Frames

\* No part of p reaches above the board.
OnScreen(p) == \A i \in 1 .. 4 : Game!Parts(p)[i][2] >= 0

\* What holds of the record in every turn of the loop.
Sound(g) ==
    /\ Game!FullRows(g.board) = {}
    /\ Cardinality(g.board) = Cardinality(board) + 4 * g.locked - NumCols * g.lines
    /\ ~g.failed => OnScreen(g.cur) /\ (~g.over => Game!Fits(g.board, g.cur))
    /\ g.failed \/ g.fresh \/ g.lock \/ (g.board = board /\ g.cur = cur)
    /\ g.button["other"].held => shadow # <<>> /\ g.board = board
    /\ g.age < 2 * SPEED /\ (g.over \/ g.break => g.age < SPEED)

\* A shadow that is there is a piece that fits.
ShadowKnown == shadow # <<>> => shadow[1] \in Game!Pieces /\ Game!Fits(board, shadow[1])

\* A piece that fits does not reach above the board.
LEMMA FitsOnScreen ==
    ASSUME NEW cells, NEW p \in Game!Pieces, Game!Fits(cells, p)
    PROVE  OnScreen(p)
  BY Fitting DEF OnScreen, Cells

\* The piece is somewhere else, or is about to become part of the board.
LEMMA PieceMoved ==
    ASSUME NEW g \in Frames, NEW h \in Frames, Sound(g), SameBut(g, h),
           h.board = g.board, h.failed = g.failed, h.fresh, Game!Fits(g.board, h.cur), h.age <= g.age,
           h.button["other"].held => g.button["other"].held
    PROVE  Sound(h)
<1>1. OnScreen(h.cur)
  BY FitsOnScreen DEF Frames
<1>2. h.age < 2 * SPEED /\ (h.over \/ h.break => h.age < SPEED)
  <2>1. g.age \in Nat /\ h.age \in Nat /\ SPEED \in Nat
    BY BoardSize DEF Frames
  <2> QED BY <2>1 DEF Sound, SameBut
<1> QED BY <1>1, <1>2 DEF Sound, SameBut

\* The record with its piece at a new place.
LEMMA FrameMoved ==
    ASSUME NEW g \in Frames, NEW c \in Game!Pieces
    PROVE  [g EXCEPT !.cur = c, !.age = 0, !.fresh = TRUE] \in Frames
<1> DEFINE h == [g EXCEPT !.cur = c]
           i == [h EXCEPT !.age = 0]
           j == [i EXCEPT !.fresh = TRUE]
<1>1. h \in Frames
  BY DEF Frames
<1>2. i \in Frames
  <2> HIDE DEF h
  <2> QED BY <1>1 DEF Frames
<1>3. j \in Frames
  <2> HIDE DEF i
  <2> QED BY <1>2 DEF Frames
<1> QED BY <1>3

\* A turn of the loop, part by part: left and right,
LEMMA SidewaysSound ==
    ASSUME NEW g \in Frames, Sound(g), ~g.failed, ~g.over, NEW h, h = Game!Sideways(g)
    PROVE  /\ h \in Frames /\ Sound(h) /\ SameBut(g, h) /\ ~h.failed /\ h.lock = g.lock
<1> DEFINE c == [g EXCEPT !.button["left"].click = FALSE, !.button["right"].click = FALSE]
<1>1. /\ c \in Frames /\ SameBut(g, c) /\ c.board = g.board /\ c.cur = g.cur /\ c.age = g.age
      /\ c.failed = g.failed /\ c.fresh = g.fresh /\ c.lock = g.lock
      /\ c.button["other"] = g.button["other"]
  BY ClicksCleared
<1> HIDE DEF c
<1>2. CASE h = c
  BY <1>1, <1>2 DEF Sound, SameBut
<1>3. CASE h # c
  <2>1. PICK moved : /\ moved \in Game!Pieces /\ Game!Fits(g.board, moved)
                     /\ h = [c EXCEPT !.cur = moved, !.age = 0, !.fresh = TRUE]
    <3>1. PICK x \in {-1, 1} : Game!Fits(g.board, Game!Move(g.cur, x, 0))
                     /\ h = [c EXCEPT !.cur = Game!Move(g.cur, x, 0), !.age = 0, !.fresh = TRUE]
      BY <1>3 DEF Game!Sideways, c
    <3>2. g.cur \in Game!Pieces /\ x \in Int
      BY DEF Frames
    <3>3. Game!Move(g.cur, x, 0) \in Game!Pieces
      BY <3>2, StaysPiece
    <3> QED BY <3>1, <3>3
  <2>2. /\ SameBut(c, h) /\ h.board = c.board /\ h.cur = moved /\ h.age = 0 /\ h.failed = c.failed
        /\ h.fresh /\ h.lock = c.lock /\ h.button = c.button
    BY <1>1, <2>1 DEF Frames, SameBut
  <2>3. h \in Frames
    BY <1>1, <2>1, FrameMoved DEF Frames
  <2>4. SameBut(g, h) /\ h.age <= g.age
    BY <1>1, <2>2 DEF SameBut, Frames
  <2>5. Sound(h)
    BY <1>1, <2>1, <2>2, <2>3, <2>4, PieceMoved
  <2> QED BY <1>1, <2>2, <2>3, <2>4, <2>5
<1> QED BY <1>2, <1>3

\* the piece turns,
LEMMA TurnedSound ==
    ASSUME NEW g \in Frames, Sound(g), ~g.failed, ~g.over, NEW h, h = Game!Turned(g)
    PROVE  /\ h \in Frames /\ Sound(h) /\ SameBut(g, h) /\ h.lock = g.lock
<1> DEFINE turned == Game!Rotate(g.cur)
           kicked(i) == Game!Move(turned, Game!Kicks(turned)[i][1], Game!Kicks(turned)[i][2])
           tried == {i \in DOMAIN Game!Kicks(turned) : Game!Look(g.board, kicked(i)) # "blocked"}
           k == kicked(Game!Min(tried))
<1>1. CASE tried = {}
  <2>1. h = g
    BY <1>1 DEF Game!Turned
  <2> QED BY <2>1 DEF SameBut
<1>2. CASE tried # {}
  <2>1. turned \in Game!Pieces
    BY MovedPiece DEF Frames
  <2>2. DOMAIN Game!Kicks(turned) \in SUBSET Nat
    BY <2>1, KicksTyped
  <2>3. Game!Min(tried) \in tried
    BY <1>2, <2>2, LeastOf
  <2>4. k \in Game!Pieces
    BY <2>1, <2>3, KicksTyped, MovedPiece
  <2>5. Game!Look(g.board, k) # "blocked"
    BY <2>3
  <2>6. IF Game!Look(g.board, k) = "fails"
        THEN h = [g EXCEPT !.cur = k, !.failed = TRUE]
        ELSE h = [g EXCEPT !.cur = k, !.age = 0, !.fresh = TRUE, !.button["other"].click = FALSE]
    BY <1>2 DEF Game!Turned
  <2> HIDE DEF k
  <2>7. CASE Game!Look(g.board, k) = "fails"
    <3>1. h = [g EXCEPT !.cur = k, !.failed = TRUE]
      BY <2>6, <2>7
    <3>2. /\ SameBut(g, h) /\ h.board = g.board /\ h.age = g.age /\ h.failed
          /\ h.fresh = g.fresh /\ h.lock = g.lock /\ h.button = g.button
      BY <3>1 DEF Frames, SameBut
    <3>3. h \in Frames
      <4> DEFINE m == [g EXCEPT !.cur = k]
      <4>1. m \in Frames
        BY <2>4 DEF Frames
      <4>2. h = [m EXCEPT !.failed = TRUE]
        BY <3>1
      <4> HIDE DEF m
      <4> QED BY <4>1, <4>2 DEF Frames
    <3> QED BY <3>2, <3>3 DEF Sound, SameBut
  <2>8. CASE Game!Look(g.board, k) # "fails"
    <3> DEFINE bs == [g.button EXCEPT !["other"] = [g.button["other"] EXCEPT !.click = FALSE]]
    <3>1. bs \in ButtonStates /\ bs["other"].held = g.button["other"].held
      BY DEF Frames, ButtonStates, Button, Game!Controls
    <3>2. h = [g EXCEPT !.cur = k, !.age = 0, !.fresh = TRUE, !.button = bs]
      BY <2>6, <2>8 DEF Frames
    <3> HIDE DEF bs
    <3>3. /\ SameBut(g, h) /\ h.board = g.board /\ h.cur = k /\ h.age = 0 /\ h.failed = g.failed
          /\ h.fresh /\ h.lock = g.lock /\ h.button = bs
      BY <3>2 DEF Frames, SameBut
    <3>4. h \in Frames
      <4> DEFINE m == [g EXCEPT !.cur = k, !.age = 0, !.fresh = TRUE]
      <4>1. m \in Frames
        BY <2>4, FrameMoved
      <4>2. h = [m EXCEPT !.button = bs]
        BY <3>2
      <4> HIDE DEF m
      <4> QED BY <3>1, <4>1, <4>2 DEF Frames
    <3>5. h.age <= g.age
      BY <3>3 DEF Frames
    <3>6. Game!Fits(g.board, k)
      BY <2>5, <2>8, Looking
    <3>7. Sound(h)
      BY <3>1, <3>3, <3>4, <3>5, <3>6, PieceMoved
    <3> QED BY <3>3, <3>4, <3>7
  <2> QED BY <2>7, <2>8
<1> QED BY <1>1, <1>2

\* it turns or drops to its shadow,
LEMMA DropOrTurnSound ==
    ASSUME NEW g \in Frames, Sound(g), ~g.failed, ~g.over, ShadowKnown,
           NEW h, h = Game!DropOrTurn(g)
    PROVE  /\ h \in Frames /\ Sound(h) /\ SameBut(g, h)
<1>1. CASE g.button["other"].held
  <2> DEFINE w == Game!WaitForRepress(g.button["other"])
             bs == [g.button EXCEPT !["other"] = w]
             d == [g EXCEPT !.cur = shadow[1]]
             l == [d EXCEPT !.lock = TRUE]
  <2>1. w \in Button /\ ~w.held
    BY DEF Frames, ButtonStates, Button, Game!Controls, Game!WaitForRepress
  <2>2. bs \in ButtonStates /\ ~bs["other"].held
    BY <2>1 DEF Frames, ButtonStates, Game!Controls
  <2>3. h = [l EXCEPT !.button = bs]
    BY <1>1 DEF Game!DropOrTurn, Frames
  <2> HIDE DEF bs
  <2>4. shadow[1] \in Game!Pieces /\ Game!Fits(g.board, shadow[1])
    BY <1>1 DEF ShadowKnown, Sound
  <2>5. d \in Frames
    BY <2>4 DEF Frames
  <2>6. l \in Frames
    <3> HIDE DEF d
    <3> QED BY <2>5 DEF Frames
  <2>7. h \in Frames
    <3> HIDE DEF l
    <3> QED BY <2>2, <2>3, <2>6 DEF Frames
  <2>8. /\ SameBut(g, h) /\ h.board = g.board /\ h.cur = shadow[1] /\ h.age = g.age /\ h.failed = g.failed
        /\ h.fresh = g.fresh /\ h.button = bs /\ h.lock
    BY <2>3 DEF Frames, SameBut
  <2>9. OnScreen(h.cur)
    BY <2>4, <2>8, FitsOnScreen
  <2> QED BY <2>2, <2>4, <2>7, <2>8, <2>9 DEF Sound, SameBut
<1>2. CASE ~g.button["other"].held
  <2>1. h = g \/ h = Game!Turned(g)
    BY <1>2 DEF Game!DropOrTurn
  <2>2. CASE h = g
    BY <2>2 DEF SameBut
  <2>3. CASE h = Game!Turned(g)
    BY <2>3, TurnedSound
  <2> QED BY <2>1, <2>2, <2>3
<1> QED BY <1>1, <1>2

\* it falls a row,
LEMMA FallSound ==
    ASSUME NEW g \in Frames, Sound(g), ~g.failed, ~g.over, ~g.break, NEW h, h = Game!Fall(g)
    PROVE  /\ h \in Frames /\ Sound(h) /\ ~h.failed /\ ~h.over /\ h.age < SPEED
           /\ h.next = g.next
<1> DEFINE later == [g EXCEPT !.age = g.age - SPEED]
           below == Game!Move(g.cur, 0, 1)
<1>1. g.age \in Nat /\ SPEED \in Nat \ {0} /\ g.age < 2 * SPEED
  BY BoardSize DEF Frames, Sound
<1>2. CASE g.age < SPEED
  <2>1. h = [g EXCEPT !.break = TRUE]
    BY <1>2 DEF Game!Fall
  <2>2. h \in Frames
    BY <2>1 DEF Frames
  <2>3. /\ h.board = g.board /\ h.cur = g.cur /\ h.age = g.age /\ h.failed = g.failed /\ h.fresh = g.fresh
        /\ h.lock = g.lock /\ h.button = g.button /\ h.over = g.over /\ h.next = g.next
        /\ h.lines = g.lines /\ h.locked = g.locked
    BY <2>1 DEF Frames
  <2> QED BY <1>2, <2>2, <2>3 DEF Sound
<1>3. CASE ~(g.age < SPEED)
  <2>1. later \in Frames /\ SameBut(g, later) /\ later.age = g.age - SPEED /\ later.age < SPEED /\ later.age <= g.age
    <3>1. g.age - SPEED \in Nat
      BY <1>1, <1>3
    <3> QED BY <1>1, <3>1 DEF Frames, SameBut
  <2>2. /\ later.board = g.board /\ later.cur = g.cur /\ later.failed = g.failed /\ later.fresh = g.fresh
        /\ later.lock = g.lock /\ later.button = g.button
    BY DEF Frames
  <2>3. \/ g.lock /\ h = later
        \/ Game!Fits(g.board, below) /\ h = [later EXCEPT !.cur = below, !.fresh = TRUE]
        \/ h = [later EXCEPT !.lock = TRUE, !.fresh = TRUE]
    BY <1>3 DEF Game!Fall
  <2>4. below \in Game!Pieces
    <3>1. g.cur \in Game!Pieces
      BY DEF Frames
    <3> QED BY <3>1, StaysPiece
  <2>5. Sound(later)
    BY <1>1, <2>1, <2>2 DEF Sound, SameBut
  <2> HIDE DEF later, below
  <2>6. CASE h = later
    BY <2>1, <2>2, <2>5, <2>6 DEF SameBut
  <2>7. CASE Game!Fits(g.board, below) /\ h = [later EXCEPT !.cur = below, !.fresh = TRUE]
    <3> DEFINE m == [later EXCEPT !.cur = below]
    <3>1. m \in Frames
      BY <2>1, <2>4 DEF Frames
    <3>2. h = [m EXCEPT !.fresh = TRUE]
      BY <2>7
    <3> HIDE DEF m
    <3>3. h \in Frames
      BY <3>1, <3>2 DEF Frames
    <3>4. /\ SameBut(later, h) /\ h.board = later.board /\ h.cur = below /\ h.age = later.age
          /\ h.failed = later.failed /\ h.fresh /\ h.lock = later.lock /\ h.button = later.button
      BY <2>1, <2>7 DEF Frames, SameBut
    <3>5. Sound(h)
      <4>1. h.age <= later.age
        BY <2>1, <3>4 DEF Frames
      <4> QED BY <2>1, <2>2, <2>5, <2>7, <3>3, <3>4, <4>1, PieceMoved
    <3> QED BY <2>1, <2>2, <3>3, <3>4, <3>5 DEF SameBut
  <2>8. CASE h = [later EXCEPT !.lock = TRUE, !.fresh = TRUE]
    <3> DEFINE m == [later EXCEPT !.lock = TRUE]
    <3>1. m \in Frames
      BY <2>1 DEF Frames
    <3>2. h = [m EXCEPT !.fresh = TRUE]
      BY <2>8
    <3> HIDE DEF m
    <3>3. h \in Frames
      BY <3>1, <3>2 DEF Frames
    <3>4. /\ SameBut(later, h) /\ h.board = later.board /\ h.cur = later.cur /\ h.age = later.age
          /\ h.failed = later.failed /\ h.fresh /\ h.button = later.button
      BY <2>1, <2>8 DEF Frames, SameBut
    <3> QED BY <2>1, <2>2, <2>5, <3>3, <3>4 DEF Sound, SameBut
  <2> QED BY <2>3, <2>6, <2>7, <2>8
<1> QED BY <1>2, <1>3

\* A new piece lies within the board, below its upper edge.
LEMMA NewPieceOnScreen ==
    ASSUME NEW kind \in Kinds
    PROVE  /\ Game!NewPiece(kind) \in Game!Pieces /\ OnScreen(Game!NewPiece(kind))
           /\ Game!Fits({}, Game!NewPiece(kind))
<1> DEFINE p == Game!NewPiece(kind)
           off == Game!Offsets[kind + 1][1]
<1>1. /\ p.kind = kind /\ p.x = NumCols \div 2 /\ p.y = HiddenRows - 1 /\ p.rotation = 0
      /\ kind \in 0 .. 6
  BY BoardSize DEF Game!NewPiece
<1>2. NumCols \div 2 \in 2 .. NumCols - 2
  BY BoardSize
<1>3. p \in Game!Pieces
  BY <1>1, <1>2, BoardSize DEF Game!NewPiece, Game!Pieces
<1>4. NewPlaces(off)
  <2>1. 0 \in 0 .. 3 /\ 0 + 1 = 1
    OBVIOUS
  <2> QED BY <1>1, <2>1, PartsPlaced
<1>5. \A i \in 1 .. 4 : Game!Parts(p)[i] = <<NumCols \div 2 + off[i][1], HiddenRows - 1 + off[i][2]>>
  <2> HIDE DEF p
  <2> QED BY <1>1 DEF Game!Parts
<1> HIDE DEF off, p
<1>6. \A i \in 1 .. 4 : Game!Parts(p)[i] \in Cells
  <2> SUFFICES ASSUME NEW i \in 1 .. 4 PROVE Game!Parts(p)[i] \in Cells
    OBVIOUS
  <2>1. off[i][1] \in -2 .. 1 /\ off[i][2] \in -1 .. 0
    BY <1>4 DEF NewPlaces
  <2> DEFINE x == NumCols \div 2 + off[i][1]
             y == HiddenRows - 1 + off[i][2]
  <2>2. x \in 0 .. NumCols - 1 /\ y \in 0 .. NumRows - 1
    BY <1>2, <2>1, BoardSize
  <2>3. Game!Parts(p)[i] = <<x, y>>
    BY <1>5
  <2> HIDE DEF x, y
  <2> QED BY <2>2, <2>3 DEF Cells
<1>7. Game!Fits({}, p)
  BY <1>3, <1>6, Fitting
<1> QED BY <1>3, <1>7, FitsOnScreen DEF p

\* and becomes part of the board, and the next one comes.
LEMMA LockSound ==
    ASSUME NEW g \in Frames, Sound(g), ~g.failed, ~g.over, g.age < SPEED,
           Cardinality(board) \in Nat, NEW h, h = Game!Lock(g)
    PROVE  /\ h \in Frames /\ Sound(h) /\ ~h.failed /\ h.age < SPEED /\ ~h.lock
<1>1. CASE ~g.lock
  BY <1>1 DEF Game!Lock
<1>2. CASE g.lock
  <2> DEFINE filled == g.board \cup Game!ToSet(Game!Parts(g.cur))
             full == Game!FullRows(filled)
             left == Game!ClearCompleteRows(filled)
             new == Game!NewPiece(g.next)
             onto == Game!Move(new, 0, 1)
             starts == Game!Fits(left, new) /\ Game!Fits(left, onto)
             k == Cardinality(full)
             piece == IF starts THEN onto ELSE new
             bs == [b \in Game!Controls |-> Game!WaitForRepress(g.button[b])]
  <2>1. /\ g.board \in SUBSET Cells /\ g.cur \in Game!Pieces /\ g.next \in Kinds /\ g.lines \in Nat /\ g.locked \in Nat
        /\ g.age \in Nat /\ g.button \in ButtonStates
    BY DEF Frames
  <2>2. Game!Fits(g.board, g.cur)
    BY DEF Sound
  <2>3. /\ filled \in SUBSET Cells /\ IsFiniteSet(filled) /\ IsFiniteSet(g.board)
        /\ Cardinality(filled) = Cardinality(g.board) + 4
    BY <2>1, <2>2, PieceFills
  <2>4. /\ left \in SUBSET Cells /\ Game!FullRows(left) = {} /\ k \in Nat
        /\ Cardinality(left) = Cardinality(filled) - NumCols * k
    <3> HIDE DEF filled
    <3> QED BY <2>3, RowsCleared
  <2>5. new \in Game!Pieces /\ OnScreen(new)
    BY <2>1, NewPieceOnScreen
  <2>6. onto \in Game!Pieces
    <3> HIDE DEF new
    <3> QED BY <2>5, StaysPiece
  <2>7. piece \in Game!Pieces /\ OnScreen(piece) /\ (starts => Game!Fits(left, piece))
    <3> HIDE DEF new, onto, left
    <3> QED BY <2>5, <2>6, FitsOnScreen
  <2>8. bs \in ButtonStates /\ ~bs["other"].held
    BY <2>1 DEF ButtonStates, Button, Game!Controls, Game!WaitForRepress
  <2>9. Game!Cardinality(full) = k
    BY DEF Game!Cardinality, Cardinality
  <2>10. h = [g EXCEPT !.board = left, !.lines = g.lines + k, !.cur = piece, !.over = ~starts,
                       !.locked = g.locked + 1, !.lock = FALSE, !.fresh = TRUE, !.button = bs]
    BY <1>2, <2>9 DEF Game!Lock
  <2> DEFINE out == ~starts
  <2>11. out \in BOOLEAN /\ (~out => Game!Fits(left, piece))
    BY <2>7
  <2> HIDE DEF filled, full, left, piece, bs, k, out, starts
  <2>12. /\ h.board = left /\ h.lines = g.lines + k /\ h.cur = piece /\ h.over = out /\ h.locked = g.locked + 1
         /\ h.lock = FALSE /\ h.fresh = TRUE /\ h.button = bs /\ h.age = g.age /\ h.failed = g.failed
         /\ h.next = g.next /\ h.break = g.break
    BY <2>10 DEF Frames, out
  <2>13. h = [board |-> h.board, cur |-> h.cur, next |-> h.next, age |-> h.age, over |-> h.over, failed |-> h.failed,
              lines |-> h.lines, locked |-> h.locked, fresh |-> h.fresh, lock |-> h.lock, break |-> h.break,
              button |-> h.button]
    BY <2>10 DEF Frames
  <2>14. h \in Frames
    <3>1. g.lines + k \in Nat /\ g.locked + 1 \in Nat
      BY <2>1, <2>4
    <3>2. g.failed \in BOOLEAN /\ g.break \in BOOLEAN
      BY DEF Frames
    <3> QED BY <2>1, <2>4, <2>7, <2>8, <2>11, <2>12, <2>13, <3>1, <3>2 DEF Frames
  <2>15. Cardinality(left) = Cardinality(board) + 4 * (g.locked + 1) - NumCols * (g.lines + k)
    <3>1. NumCols * (g.lines + k) = NumCols * g.lines + NumCols * k /\ NumCols * g.lines \in Nat /\ NumCols * k \in Nat
      BY <2>1, <2>4, BoardSize
    <3>2. Cardinality(g.board) \in Nat /\ Cardinality(g.board) = Cardinality(board) + 4 * g.locked - NumCols * g.lines
      BY <2>3, FS_CardinalityType DEF Sound
    <3> QED BY <2>1, <2>3, <2>4, <3>1, <3>2
  <2>16. Sound(h)
    BY <2>4, <2>7, <2>8, <2>11, <2>12, <2>15 DEF Sound
  <2> QED BY <2>12, <2>14, <2>16
<1> QED BY <1>1, <1>2

\* All of a turn: the loop's second turn begins as the first did.
LEMMA IterateSound ==
    ASSUME NEW g \in Frames, Sound(g), ~g.lock, ShadowKnown, Cardinality(board) \in Nat,
           NEW h, h = Game!Iterate(g)
    PROVE  /\ h \in Frames /\ Sound(h) /\ (h.failed \/ (h.age < SPEED /\ ~h.lock))
<1> DEFINE s == Game!Sideways(g)
           a == Game!DropOrTurn(s)
           f == Game!Fall(a)
<1>1. CASE g.break \/ g.over \/ g.failed
  <2>1. h = g
    BY <1>1 DEF Game!Iterate
  <2> QED BY <1>1, <2>1 DEF Sound
<1>2. CASE ~(g.break \/ g.over \/ g.failed)
  <2>1. h = IF a.failed THEN a ELSE Game!Lock(f)
    BY <1>2 DEF Game!Iterate
  <2>2. s \in Frames /\ Sound(s) /\ SameBut(g, s) /\ ~s.failed
    BY <1>2, SidewaysSound
  <2> HIDE DEF s
  <2>3. a \in Frames /\ Sound(a) /\ SameBut(s, a)
    BY <1>2, <2>2, DropOrTurnSound DEF SameBut
  <2>4. ~a.over /\ ~a.break
    BY <1>2, <2>2, <2>3 DEF SameBut
  <2> HIDE DEF a
  <2>5. CASE a.failed
    BY <2>1, <2>3, <2>5
  <2>6. CASE ~a.failed
    <3>1. f \in Frames /\ Sound(f) /\ ~f.failed /\ ~f.over /\ f.age < SPEED
      BY <2>3, <2>4, <2>6, FallSound
    <3> HIDE DEF f
    <3> QED BY <2>1, <2>6, <3>1, LockSound
  <2> QED BY <2>5, <2>6
<1> QED BY <1>1, <1>2

-----------------------------------------------------------------------------
\* A button is held only if it was pressed.
LEMMA Updating ==
    ASSUME NEW b \in Button, NEW want \in BOOLEAN, NEW gap \in Int,
           NEW hand, hand.clicked \in BOOLEAN, hand.pressed \in BOOLEAN,
           NEW u, u = Game!Updated(b, want, gap, hand)
    PROVE  u \in Button /\ (u.held => b.pressed)
<1> DEFINE since == b.since + gap
           pressed1 == hand.clicked \/ hand.pressed
           before == b.pressed /\ ~hand.clicked
           holds == ~b.held /\ since >= HOLD_TIME
           repeats == b.held /\ since >= RECLICK_TIME
<1>1. since \in Int /\ HOLD_TIME \in Int /\ RECLICK_TIME \in Int
  BY BoardSize DEF Button
<1>2. CASE b.waiting /\ hand.pressed
  <2>1. u = [Game!Released EXCEPT !.waiting = TRUE]
    BY <1>2 DEF Game!Updated
  <2>2. u = [pressed |-> FALSE, held |-> FALSE, waiting |-> TRUE, since |-> 0, click |-> FALSE]
    BY <2>1 DEF Game!Released
  <2> QED BY <2>2 DEF Button
<1>3. CASE ~(b.waiting /\ hand.pressed) /\ pressed1 /\ ~before
  <2>1. u = [Game!Released EXCEPT !.pressed = TRUE, !.click = ~want]
    BY <1>3 DEF Game!Updated
  <2>2. u = [pressed |-> TRUE, held |-> FALSE, waiting |-> FALSE, since |-> 0, click |-> ~want]
    BY <2>1 DEF Game!Released
  <2> QED BY <2>2 DEF Button
<1>4. CASE ~(b.waiting /\ hand.pressed) /\ pressed1 /\ before
  <2> DEFINE new == since - (IF holds THEN HOLD_TIME ELSE IF repeats THEN RECLICK_TIME ELSE 0)
  <2>1. u = [pressed |-> TRUE, held |-> b.held \/ holds, waiting |-> FALSE, since |-> new, click |-> holds \/ repeats]
    BY <1>4 DEF Game!Updated
  <2>2. new \in Int
    BY <1>1
  <2>3. (b.held \/ holds) \in BOOLEAN /\ (holds \/ repeats) \in BOOLEAN
    BY DEF Button
  <2> HIDE DEF new, holds, repeats
  <2> QED BY <1>4, <2>1, <2>2, <2>3 DEF Button
<1>5. CASE ~(b.waiting /\ hand.pressed) /\ ~pressed1
  <2>1. u = [Game!Released EXCEPT !.click = want /\ b.pressed]
    BY <1>5 DEF Game!Updated
  <2> DEFINE click == want /\ b.pressed
  <2>2. click \in BOOLEAN
    BY DEF Button
  <2>3. u = [pressed |-> FALSE, held |-> FALSE, waiting |-> FALSE, since |-> 0, click |-> click]
    BY <2>1 DEF Game!Released
  <2> HIDE DEF click
  <2> QED BY <2>2, <2>3 DEF Button
<1> QED BY <1>2, <1>3, <1>4, <1>5

-----------------------------------------------------------------------------
\* The shadow is somewhere, and it is there before a button can be held.
ShadowTyped == shadow = <<>> \/ \E p \in Game!Pieces : shadow = <<p>>
ShadowFirst == button \in ButtonStates /\ (shadow = <<>> /\ ~failed => ~button["other"].pressed)

\* The inductive invariant of the game.
TetrisInv == Game!Consistent /\ ShadowTyped /\ ShadowFirst

\* The board is a finite set of cells.
LEMMA TetrisTyped ==
    ASSUME TetrisInv
    PROVE  /\ board \in SUBSET Cells /\ IsFiniteSet(board) /\ Cardinality(board) \in Nat
           /\ Game!Cardinality(board) = Cardinality(board)
<1>1. board \in SUBSET Cells
  BY DEF TetrisInv, Game!Consistent, Game!TypeOK, Cells
<1>2. IsFiniteSet(Cells)
  <2>1. IsFiniteSet(Columns) /\ IsFiniteSet(Rows)
    BY BoardSize, FS_Interval DEF Columns, Rows
  <2> QED BY <2>1, FS_Product DEF Cells, Columns, Rows
<1>3. Game!Cardinality(board) = Cardinality(board)
  BY DEF Game!Cardinality, Cardinality
<1> QED BY <1>1, <1>2, <1>3, FS_Subset, FS_CardinalityType

\* It holds of a new game,
LEMMA TetrisInit == Game!Init => TetrisInv
<1> SUFFICES ASSUME Game!Init PROVE TetrisInv
  OBVIOUS
<1>1. /\ board = {} /\ next \in Kinds /\ shadow = <<>> /\ age = 0 /\ over = FALSE /\ failed = FALSE
      /\ pieces = 0 /\ lines = 0 /\ button = [b \in Game!Controls |-> Game!Released]
      /\ \E k \in Kinds : cur = Game!NewPiece(k)
  BY DEF Game!Init
<1>2. cur \in Game!Pieces /\ Game!Fits(board, cur)
  BY <1>1, NewPieceOnScreen
<1>3. Game!ToSet(shadow) = {} /\ Len(shadow) = 0
  BY <1>1 DEF Game!ToSet
<1>4. Game!TypeOK
  <2>1. board \subseteq (0 .. NumCols - 1) \X (0 .. NumRows - 1)
    BY <1>1
  <2>2. Len(shadow) <= 1 /\ Game!ToSet(shadow) \subseteq Game!Pieces
    BY <1>3
  <2>3. age \in Nat /\ over \in BOOLEAN /\ failed \in BOOLEAN /\ pieces \in Nat /\ lines \in Nat
    BY <1>1
  <2> QED BY <1>1, <1>2, <2>1, <2>2, <2>3 DEF Game!TypeOK
<1>5. Game!NothingLost
  <2>1. Game!Cardinality({}) = 0
    BY FS_EmptySet DEF Game!Cardinality, Cardinality
  <2>2. Game!FullRows({}) = {}
    BY BoardSize DEF Game!FullRows
  <2> QED BY <1>1, <2>1, <2>2, BoardSize DEF Game!NothingLost
<1>6. Game!ShadowBelow
  BY <1>1, <1>2, BoardSize DEF Game!ShadowBelow
<1>7. ShadowTyped /\ ShadowFirst
  BY <1>1 DEF ShadowTyped, ShadowFirst, ButtonStates, Button, Game!Controls, Game!Released
<1> QED BY <1>4, <1>5, <1>6, <1>7 DEF TetrisInv, Game!Consistent

\* The record with which a frame begins.
LEMMA FrameBegins ==
    ASSUME TetrisInv, ~over, ~failed, NEW gap \in Gaps, NEW hand \in Hands,
           NEW g, g = [board |-> board, cur |-> cur, next |-> next, age |-> age + gap, over |-> FALSE,
                       failed |-> FALSE, lines |-> 0, locked |-> 0, fresh |-> FALSE, lock |-> FALSE, break |-> FALSE,
                       button |-> [b \in Game!Controls |-> Game!Updated(button[b], b = "other", gap, hand[b])]]
    PROVE  g \in Frames /\ Sound(g) /\ ~g.lock /\ ShadowKnown
<1> DEFINE bs == [b \in Game!Controls |-> Game!Updated(button[b], b = "other", gap, hand[b])]
<1>1. /\ cur \in Game!Pieces /\ next \in Kinds /\ age \in Nat /\ age < SPEED /\ Game!Fits(board, cur)
      /\ Game!FullRows(board) = {}
  BY DEF TetrisInv, Game!Consistent, Game!TypeOK, Game!NothingLost, Game!ShadowBelow
<1>2. board \in SUBSET Cells /\ Cardinality(board) \in Nat
  BY TetrisTyped
<1>3. age + gap \in Nat /\ age + gap < 2 * SPEED /\ gap \in Int
  BY <1>1, BoardSize
<1>4. ASSUME NEW b \in Game!Controls
      PROVE  bs[b] \in Button /\ (bs[b].held => button[b].pressed)
  <2>1. /\ button[b] \in Button /\ (b = "other") \in BOOLEAN
        /\ hand[b].clicked \in BOOLEAN /\ hand[b].pressed \in BOOLEAN
    BY BoardSize DEF TetrisInv, ShadowFirst, ButtonStates, Game!Controls
  <2>2. bs[b] = Game!Updated(button[b], b = "other", gap, hand[b])
    OBVIOUS
  <2> HIDE DEF bs
  <2>3. PICK u, w, hd : u = button[b] /\ w = (b = "other") /\ hd = hand[b]
    OBVIOUS
  <2>4. /\ Game!Updated(u, w, gap, hd) \in Button
        /\ Game!Updated(u, w, gap, hd).held => u.pressed
    <3>1. u \in Button /\ w \in BOOLEAN /\ hd.clicked \in BOOLEAN /\ hd.pressed \in BOOLEAN
      BY <2>1, <2>3
    <3>2. gap \in Int
      BY <1>3
    <3> DEFINE v == Game!Updated(u, w, gap, hd)
    <3>3. v = Game!Updated(u, w, gap, hd)
      OBVIOUS
    <3> HIDE DEF v
    <3>4. v \in Button /\ (v.held => u.pressed)
      BY <3>1, <3>2, <3>3, Updating
    <3> QED BY <3>3, <3>4
  <2> QED BY <2>2, <2>3, <2>4
<1>5. bs \in ButtonStates /\ (bs["other"].held => shadow # <<>>)
  BY <1>4 DEF ButtonStates, TetrisInv, ShadowFirst, Game!Controls
<1> HIDE DEF bs
<1>6. /\ g.board = board /\ g.cur = cur /\ g.age = age + gap /\ ~g.over /\ ~g.failed /\ g.lines = 0 /\ g.locked = 0
      /\ ~g.lock /\ ~g.break /\ g.button = bs
  BY DEF bs
<1>7. g \in Frames
  BY <1>1, <1>2, <1>3, <1>5 DEF Frames, bs
<1>8. OnScreen(cur)
  BY <1>1, FitsOnScreen
<1>9. Cardinality(board) = Cardinality(board) + 4 * 0 - NumCols * 0
  BY <1>2, BoardSize
<1>10. Sound(g)
  BY <1>1, <1>3, <1>5, <1>6, <1>8, <1>9 DEF Sound
<1>11. ShadowKnown
  <2> SUFFICES ASSUME shadow # <<>> PROVE shadow[1] \in Game!Pieces /\ Game!Fits(board, shadow[1])
    BY DEF ShadowKnown
  <2>1. shadow[1] = Game!Dropped(board, cur)
    BY DEF TetrisInv, Game!Consistent, Game!ShadowBelow
  <2> QED BY <1>1, <1>8, <2>1, Dropping DEF OnScreen
<1> QED BY <1>6, <1>7, <1>10, <1>11

\* A frame.
LEMMA FrameKeeps ==
    ASSUME TetrisInv, NEW gap \in Gaps, NEW hand \in Hands, Game!HandleButtons(gap, hand)
    PROVE  TetrisInv'
<1> DEFINE g0 == [board |-> board, cur |-> cur, next |-> next, age |-> age + gap, over |-> FALSE,
                  failed |-> FALSE, lines |-> 0, locked |-> 0, fresh |-> FALSE, lock |-> FALSE, break |-> FALSE,
                  button |-> [b \in Game!Controls |-> Game!Updated(button[b], b = "other", gap, hand[b])]]
           g1 == Game!Iterate(g0)
           g == Game!Iterate(g1)
           seen == Game!Dropped(g.board, g.cur)
<1>1. ~over /\ ~failed
  BY DEF Game!HandleButtons
<1>2. /\ board' = g.board /\ cur' = g.cur /\ next' \in (IF g.locked = 0 THEN {next} ELSE Kinds) /\ age' = g.age
      /\ over' = g.over /\ failed' = g.failed
      /\ pieces' = pieces + g.locked /\ lines' = lines + g.lines
      /\ button' = [b \in Game!Controls |-> [g.button[b] EXCEPT !.click = FALSE]]
      /\ shadow' = IF ~g.failed /\ (shadow = <<>> \/ g.fresh) THEN <<seen>> ELSE shadow
  BY DEF Game!HandleButtons
<1>3. g0 \in Frames /\ Sound(g0) /\ ~g0.lock /\ ShadowKnown
  BY <1>1, FrameBegins
<1>4. Cardinality(board) \in Nat
  BY TetrisTyped
<1> HIDE DEF g0
<1>5. g1 \in Frames /\ Sound(g1) /\ (g1.failed \/ (g1.age < SPEED /\ ~g1.lock))
  BY <1>3, <1>4, IterateSound
<1>6. g \in Frames /\ Sound(g) /\ (g.failed \/ (g.age < SPEED /\ ~g.lock))
  <2> HIDE DEF g1
  <2>1. CASE g1.failed
    <3>1. g = g1
      BY <2>1 DEF Game!Iterate
    <3> QED BY <1>5, <2>1, <3>1
  <2>2. CASE ~g1.failed
    BY <1>3, <1>4, <1>5, <2>2, IterateSound
  <2> QED BY <2>1, <2>2
<1> HIDE DEF g
<1>7. /\ g.board \in SUBSET Cells /\ g.cur \in Game!Pieces /\ g.age \in Nat /\ g.over \in BOOLEAN /\ g.failed \in BOOLEAN
      /\ g.lines \in Nat /\ g.locked \in Nat /\ g.button \in ButtonStates
  BY <1>6 DEF Frames
<1>8. /\ next \in Kinds /\ pieces \in Nat /\ lines \in Nat /\ Cardinality(board) = 4 * pieces - NumCols * lines
      /\ (shadow # <<>> => shadow[1] = Game!Dropped(board, cur))
  BY <1>1, TetrisTyped DEF TetrisInv, Game!Consistent, Game!TypeOK, Game!NothingLost, Game!ShadowBelow
<1>9. ~g.failed => seen \in Game!Pieces
  <2> SUFFICES ASSUME ~g.failed PROVE seen \in Game!Pieces
    OBVIOUS
  <2>1. \A i \in 1 .. 4 : Game!Parts(g.cur)[i][2] >= 0
    BY <1>6 DEF Sound, OnScreen
  <2> QED BY <1>7, <2>1, Dropping
<1> HIDE DEF seen
<1>10. ShadowTyped'
  <2>1. shadow' = shadow \/ (~g.failed /\ shadow' = <<seen>>)
    BY <1>2
  <2> QED BY <1>9, <2>1 DEF TetrisInv, ShadowTyped
<1>11. ShadowFirst'
  <2>1. ~g.failed => shadow' # <<>>
    BY <1>2
  <2>2. button' \in ButtonStates
    BY <1>2, <1>7 DEF ButtonStates, Button
  <2> QED BY <1>2, <2>1, <2>2 DEF ShadowFirst
<1>12. Game!TypeOK'
  <2>1. Len(shadow') <= 1 /\ Game!ToSet(shadow') \subseteq Game!Pieces
    <3>1. CASE shadow' = <<>>
      BY <3>1 DEF Game!ToSet
    <3>2. CASE shadow' # <<>>
      <4>1. Len(shadow') = 1 /\ DOMAIN shadow' = {1} /\ shadow'[1] \in Game!Pieces
        BY <1>10, <3>2 DEF ShadowTyped
      <4> QED BY <4>1 DEF Game!ToSet
    <3> QED BY <3>1, <3>2
  <2>2. pieces' \in Nat /\ lines' \in Nat /\ next' \in Kinds
    BY <1>2, <1>7, <1>8
  <2> QED BY <1>2, <1>7, <2>1, <2>2 DEF Game!TypeOK, Cells
<1>13. Game!NothingLost'
  <2>1. Cardinality(g.board) = Cardinality(board) + 4 * g.locked - NumCols * g.lines /\ Game!FullRows(g.board) = {}
    BY <1>6 DEF Sound
  <2>2. /\ NumCols * (lines + g.lines) = NumCols * lines + NumCols * g.lines
        /\ NumCols * lines \in Nat /\ NumCols * g.lines \in Nat
    BY <1>7, <1>8, BoardSize
  <2>3. Cardinality(g.board) = 4 * (pieces + g.locked) - NumCols * (lines + g.lines)
    BY <1>7, <1>8, <2>1, <2>2
  <2>4. Game!Cardinality(g.board) = Cardinality(g.board)
    BY DEF Game!Cardinality, Cardinality
  <2> QED BY <1>2, <2>1, <2>3, <2>4 DEF Game!NothingLost
<1>14. Game!ShadowBelow'
  <2>1. ~g.failed => g.age < SPEED /\ (~g.over => Game!Fits(g.board, g.cur))
                     /\ (g.fresh \/ (g.board = board /\ g.cur = cur))
    BY <1>6 DEF Sound
  <2>2. ASSUME ~g.failed PROVE shadow'[1] = seen
    <3>1. CASE shadow = <<>> \/ g.fresh
      BY <1>2, <2>2, <3>1
    <3>2. CASE ~(shadow = <<>> \/ g.fresh)
      BY <1>2, <1>8, <2>1, <2>2, <3>2 DEF seen
    <3> QED BY <3>1, <3>2
  <2> QED BY <1>2, <2>1, <2>2 DEF Game!ShadowBelow, seen
<1> QED BY <1>10, <1>11, <1>12, <1>13, <1>14 DEF TetrisInv, Game!Consistent

\* and of every step.
LEMMA TetrisNext == TetrisInv /\ [Game!Next]_game => TetrisInv'
<1> SUFFICES ASSUME TetrisInv, [Game!Next]_game PROVE TetrisInv'
  OBVIOUS
<1>1. ASSUME NEW gap \in Gaps, NEW hand \in Hands, Game!HandleButtons(gap, hand) PROVE TetrisInv'
  BY <1>1, FrameKeeps
<1>2. CASE UNCHANGED game
  BY <1>2 DEF game, TetrisInv, ShadowTyped, ShadowFirst, Game!Consistent, Game!TypeOK, Game!NothingLost, Game!ShadowBelow
<1>3. CASE Game!Done
  BY <1>2, <1>3 DEF Game!Done, Game!vars, game
<1> QED BY <1>1, <1>2, <1>3 DEF Game!Next

\* In every game, of any size, with any pieces and any hands: no cell is filled
\* twice or lost, a full row is cleared at once and nothing else with it, and the
\* shadow is where the piece comes to rest (handleButtons, clearCompleteRows).
THEOREM GameStaysConsistent == Game!Spec => []Game!Consistent
<1>1. TetrisInv => Game!Consistent
  BY DEF TetrisInv
<1>2. TetrisInv /\ [Game!Next]_Game!vars => TetrisInv'
  BY TetrisNext DEF game, Game!vars
<1> QED BY <1>1, <1>2, TetrisInit, PTL DEF Game!Spec

\* The same of the instance in MCSpec, which has the cabinet beside it.
THEOREM TetrisStaysConsistent == MCSpec => []TetrisConsistent
<1> DEFINE I == build = "tetris" => TetrisInv
<1>1. MCInit => I
  BY TetrisInit DEF MCInit
<1>2. I /\ [MCNext]_allVars => I'
  <2> SUFFICES ASSUME I, [MCNext]_allVars, build' = "tetris" PROVE TetrisInv'
    OBVIOUS
  <2>1. build = "tetris" /\ [Game!Next]_game
    BY DEF MCNext, allVars, Cabinet, Tetris
  <2> QED BY <2>1, TetrisNext
<1>3. I => TetrisConsistent
  BY DEF TetrisInv, TetrisConsistent
<1> QED BY <1>1, <1>2, <1>3, PTL DEF MCSpec
=============================================================================

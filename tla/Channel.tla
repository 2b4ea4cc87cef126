------------------------------- MODULE Channel -------------------------------
(***************************************************************************)
(* What a web socket promises its owner: it opens or is lost, and says so  *)
(* once each; while it is open it passes messages on and writes the        *)
(* owner's messages in the order they were sent; once it is closed or lost *)
(* it says nothing more and starts no write, and it is destroyed.          *)
(***************************************************************************)
EXTENDS Naturals

VARIABLES state,    \* "accepting", "open", "closed" or "gone"
          heard,    \* the last report of its state
          received, \* messages passed on
          sent,     \* messages the owner has sent
          written   \* the last of them whose write has started

vars == <<state, heard, received, sent, written>>

Init == state = "accepting" /\ heard = "nothing" /\ received = 0 /\ sent = 0 /\ written = 0

Open ==
    /\ state = "accepting" /\ state' = "open" /\ heard' = "opened"
    /\ UNCHANGED <<received, sent, written>>

Receive ==
    /\ state = "open" /\ received' = received + 1
    /\ UNCHANGED <<state, heard, sent, written>>

\* A write starts at once if no other message is waiting.
Send ==
    /\ state = "open" /\ sent' = sent + 1
    /\ \/ UNCHANGED written
       \/ written = sent /\ written' = sent'
    /\ UNCHANGED <<state, heard, received>>

Write ==
    /\ state = "open" /\ written < sent /\ written' = written + 1
    /\ UNCHANGED <<state, heard, received, sent>>

\* An error is reported as the channel is lost.
Lose ==
    /\ state \in {"accepting", "open"} /\ state' = "closed" /\ heard' = "lost"
    /\ UNCHANGED <<received, sent, written>>

Close ==
    /\ state \in {"accepting", "open"} /\ state' = "closed"
    /\ UNCHANGED <<heard, received, sent, written>>

Destroy ==
    /\ state = "closed" /\ state' = "gone"
    /\ UNCHANGED <<heard, received, sent, written>>

Next == Open \/ Receive \/ Send \/ Write \/ Lose \/ Close \/ Destroy

\* What it never does, and what it does in the end.
Safety == Init /\ [][Next]_vars
Promise == Safety /\ (state = "closed" ~> state = "gone")
=============================================================================

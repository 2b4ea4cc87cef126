---------------------------- MODULE MCMiamiNights -----------------------------
(***************************************************************************)
(* The cabinet: the back button and one other, two colours, up to two      *)
(* broken connections and a failed call of the joystick's driver; or a     *)
(* game of Tetris with two pieces on a board of five rows, two of them     *)
(* hidden.  The variables of what is not in the build keep their initial   *)
(* values.                                                                 *)
(***************************************************************************)
EXTENDS MiamiNights

CONSTANTS NumRows, HiddenRows, NumCols, SPEED, HOLD_TIME, RECLICK_TIME, Kinds, Gaps, Hands, MaxPieces

VARIABLES build, board, cur, next, shadow, age, button, over, failed, pieces, lines

\* A frame's buttons: none, one of them tapped, the left one or the one that turns
\* held down, or that one held down while left is tapped.
MCHands ==
    LET idle == [b \in {"left", "right", "other"} |-> [clicked |-> FALSE, pressed |-> FALSE]]
        tapped(hand, b) == [hand EXCEPT ![b].clicked = TRUE]
        down(b) == [idle EXCEPT ![b].pressed = TRUE]
    IN  {idle, down("left"), down("other"), tapped(down("other"), "left")}
            \cup {tapped(idle, b) : b \in {"left", "right", "other"}}

Game == INSTANCE Tetris

ASSUME MCMiamiNightsAssumption == Game!TetrisAssumption

game == <<board, cur, next, shadow, age, button, over, failed, pieces, lines>>
allVars == <<build, vars, game>>

Cabinet(A) == build = "cabinet" /\ A /\ UNCHANGED <<build, game>>
Tetris(A) == build = "tetris" /\ A /\ UNCHANGED <<build, vars>>

MCInit ==
    /\ build \in {"cabinet", "tetris"} /\ Init /\ Game!Init
    /\ build = "cabinet" => cur.kind = 0 /\ next = 0

MCNext == Cabinet(Next) \/ Tetris(Game!Next)

\* The fairness of FairSpec, in the cabinet.
MCSpec ==
    /\ MCInit /\ [][MCNext]_allVars
    /\ \A e \in Ends :
          /\ WF_allVars(Cabinet(Connect(e))) /\ WF_allVars(Cabinet(ServerNotices(e)))
          /\ WF_allVars(Cabinet(ServerReceives(e)))
    /\ WF_allVars(Cabinet(Render)) /\ WF_allVars(Cabinet(BoxReceives)) /\ WF_allVars(Cabinet(BoxNotices))
    /\ WF_allVars(Cabinet(SendTimerExpired)) /\ WF_allVars(Cabinet(AppReceives))
    /\ WF_allVars(Cabinet(AppNotices)) /\ WF_allVars(Cabinet(IdleTimeout))
    /\ WF_allVars(Cabinet(ProcessCompleted)) /\ WF_allVars(Cabinet(back \in device /\ EmulatorEnds))

-----------------------------------------------------------------------------
\* The board of the game of Tetris, the pieces that were played and the rows
\* that were cleared agree, and the piece that is played with its shadow.
TetrisConsistent == build = "tetris" => Game!Consistent

\* In the cabinet, the box, the server and the pages come to agree whenever what
\* happens to them has happened.
CabinetConverges == []<>(build = "tetris" \/ level # "up" \/ Agreed)
=============================================================================

-------------------------------- MODULE Tetris ---------------------------------
(***************************************************************************)
(* A game of TetrisGame, as one player of Miami Nights has it: in every    *)
(* frame the three buttons are updated and handleButtons moves, turns and  *)
(* drops the piece, as often as the time that has passed asks for.  A      *)
(* frame is one step.  Times are kept as ages, in any unit, since the code *)
(* only compares and adds them; a cell is filled or not.                   *)
(*                                                                         *)
(* fits looks at board.cells[y][x] for a y above the board too, which is   *)
(* a TypeError: the frame is left where it is, with the piece turned and   *)
(* kicked.  The model ends there (failed), the program goes on with the    *)
(* next frame.                                                             *)
(***************************************************************************)
EXTENDS Integers, FiniteSetsExt, SequencesExt

CONSTANTS
    NumRows, HiddenRows, NumCols,   \* of GameBoard
    SPEED, HOLD_TIME, RECLICK_TIME, \* of TetrisButton
    Kinds,                          \* the kinds of piece newPiece chooses from, 0 .. 6
    Gaps,                           \* bound: the times between two frames, which lock one piece at most
    Hands,                          \* what the buttons may be reported to do in a frame
    MaxPieces                       \* bound on the pieces of a game

Controls == {"left", "right", "other"}

TetrisAssumption ==
    /\ NumRows \in Nat /\ HiddenRows \in Nat /\ HiddenRows < NumRows
    /\ HiddenRows >= 2   \* or a new piece would reach above the board
    /\ NumCols \in Nat /\ NumCols >= 4
    /\ SPEED \in Nat \ {0} /\ HOLD_TIME \in Nat /\ RECLICK_TIME \in Nat
    /\ Kinds \subseteq 0 .. 6 /\ Gaps \subseteq 0 .. SPEED /\ MaxPieces \in Nat
    /\ Hands \subseteq [Controls -> [clicked : BOOLEAN, pressed : BOOLEAN]]

VARIABLES
    board,   \* the filled cells, <<x, y>> with y downwards
    cur,     \* curPiece
    next,    \* the kind of nextPiece
    shadow,  \* shadowPiece, at most one
    age,     \* ms - lastMoveMs
    button,  \* left_btn, right_btn and other_btn
    over,    \* gameOver
    failed,  \* an exception has left handleButtons
    pieces,  \* history: the pieces that have been locked
    lines    \* history: the rows that have been cleared

vars == <<board, cur, next, shadow, age, button, over, failed, pieces, lines>>

-----------------------------------------------------------------------------
\* PART_OFFSETS, by kind and rotation.
Offsets == <<
    << <<<<-2, 0>>, <<-1, 0>>, <<0, 0>>, <<1, 0>>>>,  <<<<0, -1>>, <<0, 0>>, <<0, 1>>, <<0, 2>>>>,
       <<<<1, 1>>, <<0, 1>>, <<-1, 1>>, <<-2, 1>>>>,  <<<<-1, 2>>, <<-1, 1>>, <<-1, 0>>, <<-1, -1>>>> >>,
    << <<<<-1, -1>>, <<0, -1>>, <<0, 0>>, <<-1, 0>>>>,  <<<<0, -1>>, <<0, 0>>, <<-1, 0>>, <<-1, -1>>>>,
       <<<<0, 0>>, <<-1, 0>>, <<-1, -1>>, <<0, -1>>>>,  <<<<-1, 0>>, <<-1, -1>>, <<0, -1>>, <<0, 0>>>> >>,
    << <<<<-2, 0>>, <<-1, 0>>, <<0, 0>>, <<-1, -1>>>>,  <<<<-1, -1>>, <<-1, 0>>, <<-1, 1>>, <<0, 0>>>>,
       <<<<0, 0>>, <<-1, 0>>, <<-2, 0>>, <<-1, 1>>>>,  <<<<-1, 1>>, <<-1, 0>>, <<-1, -1>>, <<-2, 0>>>> >>,
    << <<<<-2, 0>>, <<-1, 0>>, <<-1, -1>>, <<0, -1>>>>,  <<<<-1, -1>>, <<-1, 0>>, <<0, 0>>, <<0, 1>>>>,
       <<<<0, 0>>, <<-1, 0>>, <<-1, 1>>, <<-2, 1>>>>,  <<<<-1, 1>>, <<-1, 0>>, <<-2, 0>>, <<-2, -1>>>> >>,
    << <<<<-2, -1>>, <<-1, -1>>, <<-1, 0>>, <<0, 0>>>>,  <<<<0, -1>>, <<0, 0>>, <<-1, 0>>, <<-1, 1>>>>,
       <<<<0, 1>>, <<-1, 1>>, <<-1, 0>>, <<-2, 0>>>>,  <<<<-2, 1>>, <<-2, 0>>, <<-1, 0>>, <<-1, -1>>>> >>,
    << <<<<-2, -1>>, <<-2, 0>>, <<-1, 0>>, <<0, 0>>>>,  <<<<0, -1>>, <<-1, -1>>, <<-1, 0>>, <<-1, 1>>>>,
       <<<<0, 1>>, <<0, 0>>, <<-1, 0>>, <<-2, 0>>>>,  <<<<-2, 1>>, <<-1, 1>>, <<-1, 0>>, <<-1, -1>>>> >>,
    << <<<<-2, 0>>, <<-1, 0>>, <<0, 0>>, <<0, -1>>>>,  <<<<-1, -1>>, <<-1, 0>>, <<-1, 1>>, <<0, 1>>>>,
       <<<<0, 0>>, <<-1, 0>>, <<-2, 0>>, <<-2, 1>>>>,  <<<<-1, 1>>, <<-1, 0>>, <<-1, -1>>, <<-2, -1>>>> >> >>

\* getKickData: I_KICKS, O_KICKS or OTHER_KICKS, by the new rotation.
Kicks(p) ==
    CASE p.kind = 0 -> <<
           <<<<0, 0>>, <<1, 0>>, <<-2, 0>>, <<1, 2>>, <<-2, -1>>>>,  <<<<0, 0>>, <<-2, 0>>, <<1, 0>>, <<-2, 1>>, <<1, -2>>>>,
           <<<<0, 0>>, <<-1, 0>>, <<2, 0>>, <<-1, -2>>, <<2, 1>>>>,  <<<<0, 0>>, <<2, 0>>, <<-1, 0>>, <<2, -1>>, <<-1, 2>>>>
         >>[p.rotation + 1]
      [] p.kind = 1 -> <<<<0, 0>>>>
      [] OTHER -> <<
           <<<<0, 0>>, <<-1, 0>>, <<-1, 1>>, <<0, -2>>, <<-1, -2>>>>,  <<<<0, 0>>, <<-1, 0>>, <<-1, -1>>, <<0, 2>>, <<-1, 2>>>>,
           <<<<0, 0>>, <<1, 0>>, <<1, 1>>, <<0, -2>>, <<1, -2>>>>,  <<<<0, 0>>, <<1, 0>>, <<1, -1>>, <<0, 2>>, <<1, 2>>>>
         >>[p.rotation + 1]

\* new Piece(num).
NewPiece(kind) == [kind |-> kind, x |-> NumCols \div 2, y |-> HiddenRows - 1, rotation |-> 0]

Move(p, x, y) == [p EXCEPT !.x = @ + x, !.y = @ + y]

Rotate(p) == [p EXCEPT !.rotation = (@ + 1) % 4]

\* The cells of a piece, in the order of its parts.
Parts(p) ==
    LET off == Offsets[p.kind + 1][p.rotation + 1]
    IN  [i \in 1 .. 4 |-> <<p.x + off[i][1], p.y + off[i][2]>>]

At(cells, c) ==
    IF c[1] \notin 0 .. NumCols - 1 \/ c[2] >= NumRows THEN "blocked"
    ELSE IF c[2] < 0 THEN "fails"
    ELSE IF c \in cells THEN "blocked" ELSE "free"

\* fits looks at part after part until one does not: "free", "blocked" or "fails".
Look(cells, p) ==
    LET parts == Parts(p)
        bad == {i \in 1 .. 4 : At(cells, parts[i]) # "free"}
    IN  IF bad = {} THEN "free" ELSE At(cells, parts[Min(bad)])

Fits(cells, p) == LET parts == Parts(p) IN \A i \in 1 .. 4 : At(cells, parts[i]) = "free"

FullRows(cells) == {y \in 0 .. NumRows - 1 : \A x \in 0 .. NumCols - 1 : <<x, y>> \in cells}

\* clearCompleteRows; a piece completes four at most, where the code stops too.
ClearCompleteRows(cells) ==
    LET full == FullRows(cells)
    IN  {<<c[1], c[2] + Cardinality({y \in full : y > c[2]})>> : c \in {d \in cells : d[2] \notin full}}

\* Where the shadow of a piece lies.
Dropped(cells, p) == Move(p, 0, Min({d \in 1 .. NumRows : ~Fits(cells, Move(p, 0, d))}) - 1)

-----------------------------------------------------------------------------
Released == [pressed |-> FALSE, held |-> FALSE, waiting |-> FALSE, since |-> 0, click |-> FALSE]

WaitForRepress(b) == [b EXCEPT !.waiting = TRUE, !.click = FALSE, !.held = FALSE]

\* TetrisButton.update.  since is ms - last_click_ms, which is ms - down_time too
\* until the button is held; it is not read while the button is up.
Updated(b, wantHeld, gap, hand) ==
    LET since == b.since + gap
        pressed == hand.clicked \/ hand.pressed
        before == b.pressed /\ ~hand.clicked
        holds == ~b.held /\ since >= HOLD_TIME
        repeats == b.held /\ since >= RECLICK_TIME
    IN  CASE b.waiting /\ hand.pressed -> [Released EXCEPT !.waiting = TRUE]
          [] ~(b.waiting /\ hand.pressed) /\ pressed /\ ~before ->
                [Released EXCEPT !.pressed = TRUE, !.click = ~wantHeld]
          [] ~(b.waiting /\ hand.pressed) /\ pressed /\ before ->
                [pressed |-> TRUE, held |-> b.held \/ holds, waiting |-> FALSE,
                 since |-> since - (IF holds THEN HOLD_TIME ELSE IF repeats THEN RECLICK_TIME ELSE 0),
                 click |-> holds \/ repeats]
          [] ~pressed -> [Released EXCEPT !.click = wantHeld /\ b.pressed]

-----------------------------------------------------------------------------
\* The loop of handleButtons, on a record g of what it changes and its locals:
\* lock and break are need_lock and need_break, fresh is need_new_shadow.

\* The left and the right button.
Sideways(g) ==
    LET l == g.button["left"].click
        r == g.button["right"].click
        moved == Move(g.cur, IF l THEN -1 ELSE 1, 0)
        cleared == [g EXCEPT !.button["left"].click = FALSE, !.button["right"].click = FALSE]
    IN  IF l # r /\ Fits(g.board, moved)
        THEN [cleared EXCEPT !.cur = moved, !.age = 0, !.fresh = TRUE]
        ELSE cleared

\* Mutant: a turn that no kick makes fit is not taken back.
TurnedForGood(g) ==
    LET turned == Rotate(g.cur)
        kicked(i) == Move(turned, Kicks(turned)[i][1], Kicks(turned)[i][2])
        tried == {i \in DOMAIN Kicks(turned) : Look(g.board, kicked(i)) # "blocked"}
    IN  IF tried = {} THEN [g EXCEPT !.cur = turned]
        ELSE [g EXCEPT !.cur = kicked(Min(tried)), !.age = 0, !.fresh = TRUE,
                       !.failed = Look(g.board, kicked(Min(tried))) = "fails",
                       !.button["other"].click = FALSE]

\* The first kick after which the piece fits; a kick that looks above the board
\* fails before any later one.
Turned(g) ==
    LET turned == Rotate(g.cur)
        kicked(i) == Move(turned, Kicks(turned)[i][1], Kicks(turned)[i][2])
        tried == {i \in DOMAIN Kicks(turned) : Look(g.board, kicked(i)) # "blocked"}
    IN  IF tried = {} THEN g
        ELSE IF Look(g.board, kicked(Min(tried))) = "fails"
        THEN [g EXCEPT !.cur = kicked(Min(tried)), !.failed = TRUE]
        ELSE [g EXCEPT !.cur = kicked(Min(tried)), !.age = 0, !.fresh = TRUE,
                       !.button["other"].click = FALSE]

\* The other button: held it drops the piece to where its shadow is.
DropOrTurn(g) ==
    IF g.button["other"].held
    THEN [g EXCEPT !.cur = shadow[1], !.lock = TRUE, !.button["other"] = WaitForRepress(@)]
    ELSE IF g.button["other"].click THEN Turned(g) ELSE g

Fall(g) ==
    LET below == Move(g.cur, 0, 1)
        later == [g EXCEPT !.age = @ - SPEED]
    IN  IF g.age < SPEED THEN [g EXCEPT !.break = TRUE]
        ELSE IF g.lock THEN later
        ELSE IF Fits(g.board, below) THEN [later EXCEPT !.cur = below, !.fresh = TRUE]
        ELSE [later EXCEPT !.lock = TRUE, !.fresh = TRUE]

\* The piece becomes part of the board, and the next one comes onto the screen
\* if it can.
Lock(g) ==
    LET filled == g.board \cup ToSet(Parts(g.cur))
        left == ClearCompleteRows(filled)
        new == NewPiece(g.next)
        onto == Move(new, 0, 1)
        starts == Fits(left, new) /\ Fits(left, onto)
    IN  IF ~g.lock THEN g
        ELSE [g EXCEPT !.board = left, !.lines = @ + Cardinality(FullRows(filled)),
                       !.cur = IF starts THEN onto ELSE new, !.over = ~starts,
                       !.locked = @ + 1, !.lock = FALSE, !.fresh = TRUE,
                       !.button = [b \in Controls |-> WaitForRepress(g.button[b])]]

Iterate(g) ==
    LET acted == DropOrTurn(Sideways(g))
    IN  IF g.break \/ g.over \/ g.failed THEN g
        ELSE IF acted.failed THEN acted ELSE Lock(Fall(acted))

-----------------------------------------------------------------------------
Init ==
    /\ board = {} /\ \E k \in Kinds : cur = NewPiece(k)
    /\ next \in Kinds /\ shadow = <<>> /\ age = 0
    /\ button = [b \in Controls |-> Released]
    /\ over = FALSE /\ failed = FALSE /\ pieces = 0 /\ lines = 0

\* handleButtons, gap after the last frame.  The second turn of the loop, if there
\* is one, ends it, as the gap is SPEED at most; newPiece is called once at most.
HandleButtons(gap, hand) ==
    LET g0 == [board |-> board, cur |-> cur, next |-> next, age |-> age + gap, over |-> FALSE,
               failed |-> FALSE, lines |-> 0, locked |-> 0, fresh |-> FALSE, lock |-> FALSE, break |-> FALSE,
               button |-> [b \in Controls |-> Updated(button[b], b = "other", gap, hand[b])]]
    IN  /\ ~over /\ ~failed /\ pieces < MaxPieces
        /\ \E g \in {Iterate(Iterate(g0))} :
              /\ board' = g.board /\ cur' = g.cur /\ next' \in (IF g.locked = 0 THEN {next} ELSE Kinds) /\ age' = g.age
              /\ over' = g.over /\ failed' = g.failed
              /\ pieces' = pieces + g.locked /\ lines' = lines + g.lines
              /\ button' = [b \in Controls |-> [g.button[b] EXCEPT !.click = FALSE]]
              /\ shadow' = IF ~g.failed /\ (shadow = <<>> \/ g.fresh)
                           THEN <<Dropped(g.board, g.cur)>> ELSE shadow

Done == (over \/ failed \/ pieces >= MaxPieces) /\ UNCHANGED vars

Next ==
    \/ \E gap \in Gaps, hand \in Hands : HandleButtons(gap, hand)
    \/ Done

Spec == Init /\ [][Next]_vars

-----------------------------------------------------------------------------
Pieces == [kind : 0 .. 6, x : Int, y : Int, rotation : 0 .. 3]

\* The variables have their types.
TypeOK ==
    /\ board \subseteq (0 .. NumCols - 1) \X (0 .. NumRows - 1)
    /\ cur \in Pieces /\ next \in Kinds /\ Len(shadow) <= 1 /\ ToSet(shadow) \subseteq Pieces
    /\ age \in Nat /\ over \in BOOLEAN /\ failed \in BOOLEAN /\ pieces \in Nat /\ lines \in Nat

\* A piece is locked onto four free cells and a row that is complete is cleared
\* at once, and nothing else with it.
NothingLost ==
    /\ Cardinality(board) = 4 * pieces - NumCols * lines
    /\ FullRows(board) = {}

\* The piece that is played lies where it may, above its shadow, which is where
\* it would come to rest.
ShadowBelow ==
    /\ ~over /\ ~failed => Fits(board, cur) /\ age < SPEED
    /\ shadow # <<>> /\ ~over /\ ~failed => shadow[1] = Dropped(board, cur)

Consistent == TypeOK /\ NothingLost /\ ShadowBelow
=============================================================================

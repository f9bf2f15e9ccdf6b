------------------------------- MODULE Gomoku -------------------------------
(***************************************************************************)
(* The board of AiGame and the pure functions on it.  BOARD_SIZE is 15 and *)
(* the winning length 5 in the code; both are parameters here.             *)
(***************************************************************************)
EXTENDS Integers, FiniteSets

CONSTANTS BOARD_SIZE, WinLength

ASSUME GomokuAssumption ==
    /\ BOARD_SIZE \in Nat \ {0}
    /\ WinLength \in Nat \ {0}

EMPTY == "empty"
AI_PLAYER == "white"
HUMAN_PLAYER == "black"
Player == {AI_PLAYER, HUMAN_PLAYER}

Coordinate == 0..BOARD_SIZE - 1
Cell  == Coordinate \X Coordinate
Board == [Cell -> Player \cup {EMPTY}]
EmptyBoard == [c \in Cell |-> EMPTY]

\* The cell that loops over r and c, in this order, visit k-th, from 0.
CellAt(k) == <<k \div BOARD_SIZE, k % BOARD_SIZE>>
Number(c) == c[1] * BOARD_SIZE + c[2]
CellCount == BOARD_SIZE * BOARD_SIZE

IsInBoard(c) == c \in Cell
Occupied(board) == {c \in Cell : board[c] # EMPTY}
IsFull(board) == Occupied(board) = Cell

---------------------------------------------------------------------------
(* checkWin.                                                               *)

\* The i-th cell from c in the direction of dx[dir], dy[dir].
Step(c, dir, i) == <<c[1] + i * dir[1], c[2] + i * dir[2]>>
Opposite(dir) == <<-dir[1], -dir[2]>>
Directions == {<<1, 0>>, <<0, 1>>, <<1, 1>>, <<1, -1>>}

Holds(board, c, player) == IsInBoard(c) /\ board[c] = player

\* How many stones of player follow c without a gap, WinLength - 1 at most.
Run(board, c, dir, player) ==
    Cardinality({i \in 1..WinLength - 1 :
                    \A j \in 1..i : Holds(board, Step(c, dir, j), player)})

\* Bug: the opposite direction is forgotten.
CheckWinOneWay(board, c, player) ==
    \E dir \in Directions : 1 + Run(board, c, dir, player) >= WinLength

\* c itself counts as a stone of player, whatever lies there.
checkWin(board, c, player) ==
    \E dir \in Directions :
        1 + Run(board, c, dir, player) + Run(board, c, Opposite(dir), player) >= WinLength

\* The rule of the game, as a reference: WinLength stones in a row.
HasLine(board, player) ==
    \E c \in Cell, dir \in Directions :
        \A i \in 0..WinLength - 1 : Holds(board, Step(c, dir, i), player)

---------------------------------------------------------------------------
(* The other functions of getBestMove.                                     *)

isNearOccupied(board, c) ==
    \E dir \in {-1, 0, 1} \X {-1, 0, 1} :
        /\ dir # <<0, 0>>
        /\ Step(c, dir, 1) \in Occupied(board)

\* The stones of the human within two steps of c, in one sense of each of the
\* four directions; every direction counts c as one of them.
evaluateThreat(board, c) ==
    4 + Cardinality({p \in Directions \X (1..2) :
                        Holds(board, Step(c, p[1], p[2]), HUMAN_PLAYER)})
=============================================================================

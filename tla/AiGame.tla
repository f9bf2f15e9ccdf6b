------------------------------- MODULE AiGame -------------------------------
(***************************************************************************)
(* One AiGame and the threads that call humanMove and aiMove on it.        *)
(*                                                                         *)
(* humanMove tests the move without the mutex and makes it with the mutex; *)
(* aiMove takes the mutex for its first test only, sleeps, tries stones on *)
(* the real board and makes its move, all without it.  Every write of a    *)
(* member, the two halves of moveCount_++, every call of checkWin and the  *)
(* look at one cell in a scan of the board is a step of its own, and       *)
(* between any two of them other threads run.                              *)
(* The handlers that call these functions are not in the repository: every *)
(* order of calls by every thread is allowed.                              *)
(***************************************************************************)
EXTENDS Gomoku

CONSTANTS
    Thread,     \* threads with a request for this game
    MaxCalls    \* bound on the calls they make

ASSUME AiGameAssumption == MaxCalls \in Nat

VARIABLES
    board, gameOver, winner, moveCount, lastMove,   \* the members of AiGame
    pc,        \* pc[t]: where thread t is
    stone,     \* stone[t]: what it moves with; EMPTY outside of a call
    target,    \* target[t]: x, y of humanMove, or the move of the AI
    cursor,    \* cursor[t]: number of the cell that getBestMove looks at
    best, threat, near,   \* bestMove, maxThreat and nearCells of getBestMove
    seen,      \* seen[t]: the moveCount_ it is about to increment
    calls,     \* calls made so far
    played     \* the moves that were completed (history)

game   == <<board, gameOver, winner, moveCount, lastMove>>
choice == <<best, threat, near>>
locals == <<stone, target, cursor, choice, seen>>
vars   == <<game, pc, locals, calls, played>>

NoMove == <<-1, -1>>

\* Where a thread is on its way through steps 1 to 4 of getBestMove and through
\* the end of either function, which is the same in both.
Trials == {"triedAi", "dropAi", "tryHuman", "triedHuman", "block", "dropHuman"}
Looks  == {"scan", "tryAi", "rate", "collect", "first", "take"}
Moving == {"count", "put", "last", "check", "over"}
PC == {"idle", "lock", "commit", "outOfBounds"} \cup Trials \cup Looks \cup Moving

\* The constructor.
Init ==
    /\ board = EmptyBoard
    /\ gameOver = FALSE
    /\ winner = "none"
    /\ moveCount = 0
    /\ lastMove = NoMove
    /\ pc     = [t \in Thread |-> "idle"]
    /\ stone  = [t \in Thread |-> EMPTY]
    /\ target = [t \in Thread |-> NoMove]
    /\ cursor = [t \in Thread |-> 0]
    /\ best   = [t \in Thread |-> NoMove]
    /\ threat = [t \in Thread |-> -1]
    /\ near   = [t \in Thread |-> {}]
    /\ seen   = [t \in Thread |-> 0]
    /\ calls = 0
    /\ played = {}

At(t, where)   == pc[t] = where
GoTo(t, where) == pc' = [pc EXCEPT ![t] = where]
Put(c, player) == board' = [board EXCEPT ![c] = player]
Here(t)        == CellAt(cursor[t])
NextCell(t)    == cursor' = [cursor EXCEPT ![t] = @ + 1]
FirstCell(t)   == cursor' = [cursor EXCEPT ![t] = 0]
Select(t, c)   == target' = [target EXCEPT ![t] = c]

\* getBestMove returns c, and its variables are gone.
Choose(t, c) ==
    /\ Select(t, c)
    /\ GoTo(t, "commit")
    /\ FirstCell(t)
    /\ best'   = [best   EXCEPT ![t] = NoMove]
    /\ threat' = [threat EXCEPT ![t] = -1]
    /\ near'   = [near   EXCEPT ![t] = {}]

\* board_[-1][-1] is taken to end the process.
Alive == \A t \in Thread : ~At(t, "outOfBounds")

\* The mutex is held from line 27 to line 37 only.
MutexIsFree == \A t \in Thread : pc[t] \in Moving => stone[t] # HUMAN_PLAYER

isDraw == moveCount >= CellCount

\* What a client may ask for: the cells, and the places just off the board.
Place == (-1..BOARD_SIZE) \X (-1..BOARD_SIZE)

\* Bugs: the bounds are not tested; the end of the game is not tested.
IsValidAnywhere(c) == ~gameOver /\ ~isDraw
IsValidAfterEnd(c) == IsInBoard(c) /\ board[c] = EMPTY

isValidMove(c) ==
    /\ IsInBoard(c)
    /\ board[c] = EMPTY
    /\ ~gameOver /\ ~isDraw

---------------------------------------------------------------------------
(* The tests at the beginning.                                             *)

\* A call begins; isDraw, the last test of both functions, takes the mutex.
Call(t, player, where) ==
    /\ At(t, "idle") /\ Alive /\ MutexIsFree
    /\ calls < MaxCalls
    /\ calls' = calls + 1
    /\ stone' = [stone EXCEPT ![t] = player]
    /\ GoTo(t, where)
    /\ UNCHANGED <<game, cursor, choice, seen, played>>

\* A move that is not valid returns false and changes nothing.
HumanMoveTest(t, c) ==
    /\ isValidMove(c)
    /\ Select(t, c)
    /\ Call(t, HUMAN_PLAYER, "lock")

\* if(gameOver_ || isDraw()) return; and then half a second of sleep.
AiMoveTest(t) ==
    /\ ~gameOver /\ ~isDraw
    /\ Call(t, AI_PLAYER, "scan")
    /\ UNCHANGED target

---------------------------------------------------------------------------
(* getBestMove, step 1.                                                    *)

\* Is the cell empty?
LookAt(t) ==
    /\ At(t, "scan") /\ cursor[t] < CellCount
    /\ IF board[Here(t)] = EMPTY
       THEN GoTo(t, "tryAi") /\ UNCHANGED cursor
       ELSE NextCell(t) /\ UNCHANGED pc
    /\ UNCHANGED <<game, stone, target, choice, seen, calls, played>>

\* A stone is put on the cell, or taken back.
Write(t, from, what, to) ==
    /\ At(t, from)
    /\ Put(Here(t), what)
    /\ GoTo(t, to)
    /\ UNCHANGED <<gameOver, winner, moveCount, lastMove, stone, target, choice, seen, calls, played>>

TryAi(t)    == Write(t, "tryAi", AI_PLAYER, "triedAi") /\ UNCHANGED cursor
DropAi(t)   == Write(t, "dropAi", EMPTY, "tryHuman") /\ UNCHANGED cursor
TryHuman(t) == Write(t, "tryHuman", HUMAN_PLAYER, "triedHuman") /\ UNCHANGED cursor

\* The AI's stone on the cell that is returned.
Take(t, c) ==
    /\ Put(c, AI_PLAYER)
    /\ Choose(t, c)
    /\ UNCHANGED <<gameOver, winner, moveCount, lastMove, stone, seen, calls, played>>

\* The AI would win there: that is the move.
CheckAi(t) ==
    /\ At(t, "triedAi")
    /\ IF checkWin(board, Here(t), AI_PLAYER)
       THEN Choose(t, Here(t))
       ELSE GoTo(t, "dropAi") /\ UNCHANGED <<target, cursor, choice>>
    /\ UNCHANGED <<game, stone, seen, calls, played>>

\* Bug: the wrong side is asked for.
WouldLoseOwn(b, c) == checkWin(b, c, AI_PLAYER)

WouldLose(b, c) == checkWin(b, c, HUMAN_PLAYER)

\* The human would win there: block.
CheckHuman(t) ==
    /\ At(t, "triedHuman")
    /\ GoTo(t, IF WouldLose(board, Here(t)) THEN "block" ELSE "dropHuman")
    /\ UNCHANGED <<game, locals, calls, played>>

Block(t) == At(t, "block") /\ Take(t, Here(t))

\* Bugs: the stone is not taken back; the loop does not go on.
DropHumanForgotten(t) ==
    /\ At(t, "dropHuman") /\ GoTo(t, "scan") /\ NextCell(t)
    /\ UNCHANGED <<game, stone, target, choice, seen, calls, played>>
DropHumanAndRetry(t) == Write(t, "dropHuman", EMPTY, "scan") /\ UNCHANGED cursor

DropHuman(t) == Write(t, "dropHuman", EMPTY, "scan") /\ NextCell(t)

---------------------------------------------------------------------------
(* getBestMove, steps 2 to 4.                                              *)

\* The end of one of the loops.
EndOfLoop(t, from, to) ==
    /\ At(t, from) /\ cursor[t] = CellCount
    /\ GoTo(t, to)
    /\ FirstCell(t)
    /\ UNCHANGED <<game, stone, target, choice, seen, calls, played>>

\* Step 2 looks for the empty cell with the greatest threat.
RateCell(t) ==
    /\ At(t, "rate") /\ cursor[t] < CellCount
    /\ LET level == evaluateThreat(board, Here(t))
       IN  IF board[Here(t)] = EMPTY /\ level > threat[t]
           THEN /\ threat' = [threat EXCEPT ![t] = level]
                /\ best' = [best EXCEPT ![t] = Here(t)]
           ELSE UNCHANGED <<threat, best>>
    /\ NextCell(t)
    /\ UNCHANGED <<game, pc, stone, target, near, seen, calls, played>>

\* Step 3, if step 2 has found none: its test should have been for EMPTY.
CollectCell(t) ==
    /\ At(t, "collect") /\ cursor[t] < CellCount
    /\ near' = IF board[Here(t)] # EMPTY /\ isNearOccupied(board, Here(t))
               THEN [near EXCEPT ![t] = @ \cup {Here(t)}]
               ELSE near
    /\ NextCell(t)
    /\ UNCHANGED <<game, pc, stone, target, best, threat, seen, calls, played>>

TakeNear(t) ==
    /\ At(t, "collect") /\ cursor[t] = CellCount
    /\ \E c \in near[t] : Take(t, c)

\* Step 4 takes the first empty cell, whatever step 2 has found.
LookForEmpty(t) ==
    /\ At(t, "first") /\ cursor[t] < CellCount
    /\ IF board[Here(t)] = EMPTY
       THEN GoTo(t, "take") /\ UNCHANGED cursor
       ELSE NextCell(t) /\ UNCHANGED pc
    /\ UNCHANGED <<game, stone, target, choice, seen, calls, played>>

TakeEmpty(t) == At(t, "take") /\ Take(t, Here(t))

\* There was none: the cell of step 2 although it is taken by now, or, if step 2
\* had found none either, board_[-1][-1].
TakeBest(t) ==
    /\ At(t, "first") /\ cursor[t] = CellCount
    /\ IF best[t] = NoMove
       THEN GoTo(t, "outOfBounds") /\ UNCHANGED <<game, locals, calls, played>>
       ELSE Take(t, best[t])

StepTwo(t)   == EndOfLoop(t, "scan", "rate")
StepThree(t) == best[t] = NoMove /\ EndOfLoop(t, "rate", "collect")
StepFour(t)  ==
    \/ best[t] # NoMove /\ EndOfLoop(t, "rate", "first")
    \/ near[t] = {} /\ EndOfLoop(t, "collect", "first")

---------------------------------------------------------------------------
(* The end of humanMove, with the mutex, and of aiMove, without it.        *)

\* moveCount_++: the old value is read ...
ReadCount(t) ==
    /\ \/ At(t, "lock") /\ MutexIsFree
       \/ At(t, "commit")
    /\ seen' = [seen EXCEPT ![t] = moveCount]
    /\ GoTo(t, "count")
    /\ UNCHANGED <<game, stone, target, cursor, choice, calls, played>>

\* ... and the new one is written, over whatever was counted in between.
WriteCount(t) ==
    /\ At(t, "count")
    /\ moveCount' = seen[t] + 1
    /\ seen' = [seen EXCEPT ![t] = 0]
    /\ GoTo(t, "put")
    /\ UNCHANGED <<board, gameOver, winner, lastMove, stone, target, cursor, choice, calls, played>>

PutStone(t) ==
    /\ At(t, "put")
    /\ Put(target[t], stone[t])
    /\ GoTo(t, "last")
    /\ UNCHANGED <<gameOver, winner, moveCount, lastMove, locals, calls, played>>

SetLastMove(t) ==
    /\ At(t, "last")
    /\ lastMove' = target[t]
    /\ GoTo(t, "check")
    /\ UNCHANGED <<board, gameOver, winner, moveCount, locals, calls, played>>

\* The function returns.
Return(t) ==
    /\ GoTo(t, "idle")
    /\ stone'  = [stone  EXCEPT ![t] = EMPTY]
    /\ target' = [target EXCEPT ![t] = NoMove]
    /\ played' = played \cup {<<target[t], stone[t]>>}
    /\ UNCHANGED <<board, moveCount, lastMove, cursor, choice, seen, calls>>

\* checkWin(x, y, HUMAN_PLAYER), in both functions.
CheckWinner(t) ==
    /\ At(t, "check")
    /\ IF checkWin(board, target[t], HUMAN_PLAYER)
       THEN GoTo(t, "over") /\ UNCHANGED <<game, locals, calls, played>>
       ELSE Return(t) /\ UNCHANGED <<gameOver, winner>>

SetGameOver(t) ==
    /\ At(t, "over")
    /\ gameOver' = TRUE
    /\ winner' = IF stone[t] = HUMAN_PLAYER THEN "human" ELSE "ai"
    /\ Return(t)

---------------------------------------------------------------------------
getBestMove(t) ==
    \/ LookAt(t) \/ TryAi(t) \/ CheckAi(t) \/ DropAi(t)
    \/ TryHuman(t) \/ CheckHuman(t) \/ Block(t) \/ DropHuman(t)
    \/ StepTwo(t) \/ RateCell(t)
    \/ StepThree(t) \/ CollectCell(t) \/ TakeNear(t)
    \/ StepFour(t) \/ LookForEmpty(t) \/ TakeEmpty(t) \/ TakeBest(t)

MakeMove(t) ==
    ReadCount(t) \/ WriteCount(t) \/ PutStone(t) \/ SetLastMove(t) \/ CheckWinner(t) \/ SetGameOver(t)

\* What a thread that is inside a call does next.
Continue(t) == Alive /\ (getBestMove(t) \/ MakeMove(t))

Next ==
    \E t \in Thread :
        \/ \E c \in Place : HumanMoveTest(t, c)
        \/ AiMoveTest(t)
        \/ Continue(t)

Spec == Init /\ [][Next]_vars

\* A thread inside a call keeps running.
FairSpec == Spec /\ \A t \in Thread : WF_vars(Continue(t))

---------------------------------------------------------------------------
(* Properties.                                                             *)

HasTarget == {"lock", "commit"} \cup Moving

\* Every variable has its type; no move is made, and no stone tried, off the
\* board, whatever a client asks for.
TypeOK ==
    /\ board \in Board
    /\ gameOver \in BOOLEAN
    /\ winner \in {"none", "human", "ai"}
    /\ moveCount \in 0..MaxCalls
    /\ lastMove \in Cell \cup {NoMove}
    /\ pc \in [Thread -> PC]
    /\ stone \in [Thread -> Player \cup {EMPTY}]
    /\ target \in [Thread -> Cell \cup {NoMove}]
    /\ cursor \in [Thread -> 0..CellCount]
    /\ best \in [Thread -> Cell \cup {NoMove}]
    /\ threat \in [Thread -> Int]
    /\ near \in [Thread -> SUBSET Cell]
    /\ seen \in [Thread -> Nat]
    /\ calls \in 0..MaxCalls
    /\ played \subseteq Cell \X Player
    /\ \A t \in Thread :
          /\ pc[t] \in HasTarget => target[t] \in Cell /\ stone[t] \in Player
          /\ pc[t] \in Trials \cup {"tryAi", "take"} => cursor[t] < CellCount

Quiet == \A t \in Thread : At(t, "idle")

\* Between calls the board is exactly the moves that were made: nothing that
\* getBestMove tried is left on it, no stone was lost or replaced, and the
\* count that decides a draw is the number of stones.  (One thread.)
BoardIsTheMoves ==
    Quiet => /\ played = {<<c, board[c]>> : c \in Occupied(board)}
             /\ moveCount = Cardinality(played)

\* The human is declared the winner exactly when a line of the human's stones
\* is on the board: checkWin looks at the lines through the last stone only,
\* and that is enough.  (One thread.)
HumanWinIsALine == Quiet => (winner = "human" <=> HasLine(board, HUMAN_PLAYER))

\* A cell that step 1 is there to find: a stone on it makes a line, of either side.
Decisive(b, c) ==
    /\ b[c] = EMPTY
    /\ \E player \in Player : checkWin([b EXCEPT ![c] = player], c, player)

\* The AI never overlooks a cell that would win for it or for the human: if
\* there was one when it was to move, its stone lies on the first of them.
\* (One thread.)
AiMeetsThreats ==
    (Quiet /\ lastMove # NoMove /\ board[lastMove] = AI_PLAYER) =>
        LET before == [board EXCEPT ![lastMove] = EMPTY]
        IN  \A c \in Cell : Decisive(before, c) =>
               Decisive(before, lastMove) /\ Number(lastMove) <= Number(c)

\* Once the game is over nothing of it changes, whoever calls what.  (One thread.)
GameOverIsFinal == [][gameOver => UNCHANGED game]_vars

\* Threads that work on the board at once lose each other's stones, and put
\* theirs over them; but whatever they do to each other's trials, a stone that
\* is on the board between calls is one that somebody has played, in its colour.
StonesWerePlayed == Quiet => \A c \in Occupied(board) : <<c, board[c]>> \in played

\* Every call returns, also when other threads change the board under it, unless
\* one of them writes board_[-1][-1].
CallsReturn == \A t \in Thread : ~At(t, "idle") ~> (At(t, "idle") \/ ~Alive)

---------------------------------------------------------------------------
(* What the repository says and the code does not do.                      *)

\* AiGame.cpp:61: fewer than five in a row do not satisfy the winning
\* condition, whatever the AI is trying at that moment.
HumanNeedsALine == winner = "human" => HasLine(board, HUMAN_PLAYER)
=============================================================================

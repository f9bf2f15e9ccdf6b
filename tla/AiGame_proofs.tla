---------------------------- MODULE AiGame_proofs ----------------------------
(***************************************************************************)
(* Proofs about AiGame, for a board of any size, lines of any length and   *)
(* any number of calls: what holds for any number of threads, and what     *)
(* holds if there is one.                                                  *)
(***************************************************************************)
EXTENDS AiGame, Gomoku_proofs

---------------------------------------------------------------------------
(* Types.                                                                  *)

\* Where the cell that the cursor is at is being worked on.
OnCell == Trials \cup {"tryAi", "take"}

\* TypeOK without the bound of moveCount, which follows from CountInv.
Types ==
    /\ board \in Board
    /\ gameOver \in BOOLEAN
    /\ winner \in {"none", "human", "ai"}
    /\ moveCount \in Nat
    /\ lastMove \in Cell \cup {NoMove}
    /\ pc \in [Thread -> PC]
    /\ stone \in [Thread -> Stone]
    /\ target \in [Thread -> Cell \cup {NoMove}]
    /\ cursor \in [Thread -> 0..CellCount]
    /\ best \in [Thread -> Cell \cup {NoMove}]
    /\ threat \in [Thread -> Int]
    /\ near \in [Thread -> SUBSET Cell]
    /\ seen \in [Thread -> Nat]
    /\ calls \in 0..MaxCalls
    /\ played \subseteq Cell \X Player
    /\ \A t \in Thread :
          /\ pc[t] \in HasTarget => target[t] \in Cell /\ stone[t] \in Player
          /\ pc[t] \in OnCell => cursor[t] < CellCount
          /\ pc[t] \in Looks \cup Trials => stone[t] \in Player

\* The states of a thread, by name.
LEMMA PcNames ==
    /\ PC = {"idle", "lock", "commit", "outOfBounds", "triedAi", "dropAi", "tryHuman", "triedHuman",
             "block", "dropHuman", "scan", "tryAi", "rate", "collect", "first", "take",
             "count", "put", "last", "check", "over"}
    /\ HasTarget = {"lock", "commit", "count", "put", "last", "check", "over"}
    /\ OnCell = {"triedAi", "dropAi", "tryHuman", "triedHuman", "block", "dropHuman", "tryAi", "take"}
    /\ Looks \cup Trials = {"triedAi", "dropAi", "tryHuman", "triedHuman", "block", "dropHuman",
                            "scan", "tryAi", "rate", "collect", "first", "take"}
BY DEF PC, HasTarget, OnCell, Trials, Looks, Moving

LEMMA StoneNames == AI_PLAYER \in Player /\ HUMAN_PLAYER \in Player /\ Player \subseteq Stone /\ EMPTY \in Stone
BY DEF Player, Stone

\* The thread that makes a step, and the ones that do not.
Moves(t, where) ==
    /\ pc' \in [Thread -> PC]
    /\ pc'[t] = where
    /\ \A u \in Thread : u # t => pc'[u] = pc[u]

OthersKeep(t) ==
    \A u \in Thread : u # t =>
        /\ pc'[u] = pc[u] /\ stone'[u] = stone[u] /\ target'[u] = target[u]
        /\ cursor'[u] = cursor[u] /\ seen'[u] = seen[u]

LEMMA GoToMoves ==
    ASSUME Types, NEW t \in Thread, NEW where \in PC, GoTo(t, where)
    PROVE  Moves(t, where)
BY DEF GoTo, Types, Moves

\* The cell that a loop is at.
LEMMA HereIsCell ==
    ASSUME Types, NEW t \in Thread, cursor[t] < CellCount
    PROVE  /\ Here(t) \in Cell /\ board[Here(t)] \in Stone
           /\ cursor[t] \in 0..CellCount - 1
           /\ cursor[t] + 1 \in 0..CellCount
<1>1. cursor[t] \in 0..CellCount /\ CellCount \in Nat
  BY CellCountType DEF Types
<1>2. PICK k \in 0..CellCount - 1 : k = cursor[t]
  BY <1>1
<1>3. Here(t) \in Cell
  BY <1>2, CellAtIsCell DEF Here
<1>4. cursor[t] + 1 \in 0..CellCount
  BY <1>1, <1>2
<1> QED
  BY <1>2, <1>3, <1>4 DEF Types, Board, Stone

\* A stone that is put on a cell leaves a board.
LEMMA PutType ==
    ASSUME NEW c \in Cell, NEW what \in Stone, board \in Board, Put(c, what)
    PROVE  board' \in Board /\ board' = Placed(board, c, what)
BY PlacedType DEF Put, Placed

\* A step of one thread keeps the types if what it changes has its type.
LEMMA StepTypes ==
    ASSUME Types, NEW t \in Thread, NEW where \in PC, Moves(t, where), OthersKeep(t),
           board' \in Board, gameOver' \in BOOLEAN, winner' \in {"none", "human", "ai"},
           moveCount' \in Nat, lastMove' \in Cell \cup {NoMove},
           stone' \in [Thread -> Stone], target' \in [Thread -> Cell \cup {NoMove}],
           cursor' \in [Thread -> 0..CellCount], best' \in [Thread -> Cell \cup {NoMove}],
           threat' \in [Thread -> Int], near' \in [Thread -> SUBSET Cell],
           seen' \in [Thread -> Nat], calls' \in 0..MaxCalls, played' \subseteq Cell \X Player,
           where \in HasTarget => target'[t] \in Cell /\ stone'[t] \in Player,
           where \in OnCell => cursor'[t] < CellCount,
           where \in Looks \cup Trials => stone'[t] \in Player
    PROVE  Types'
<1>1. \A u \in Thread :
          /\ pc'[u] \in HasTarget => target'[u] \in Cell /\ stone'[u] \in Player
          /\ pc'[u] \in OnCell => cursor'[u] < CellCount
          /\ pc'[u] \in Looks \cup Trials => stone'[u] \in Player
  <2> SUFFICES ASSUME NEW u \in Thread
               PROVE  /\ pc'[u] \in HasTarget => target'[u] \in Cell /\ stone'[u] \in Player
                      /\ pc'[u] \in OnCell => cursor'[u] < CellCount
                      /\ pc'[u] \in Looks \cup Trials => stone'[u] \in Player
    OBVIOUS
  <2>1. CASE u = t
    BY <2>1 DEF Moves
  <2>2. CASE u # t
    BY <2>2 DEF OthersKeep, Types
  <2> QED
    BY <2>1, <2>2
<1> QED
  BY <1>1 DEF Types, Moves

\* What one thread may change of its own.
LEMMA StonesOf ==
    ASSUME Types, NEW t \in Thread, NEW what \in Stone, stone' = [stone EXCEPT ![t] = what]
    PROVE  /\ stone' \in [Thread -> Stone] /\ stone'[t] = what
           /\ \A u \in Thread : u # t => stone'[u] = stone[u]
BY DEF Types

LEMMA TargetsOf ==
    ASSUME Types, NEW t \in Thread, NEW c \in Cell \cup {NoMove}, target' = [target EXCEPT ![t] = c]
    PROVE  /\ target' \in [Thread -> Cell \cup {NoMove}] /\ target'[t] = c
           /\ \A u \in Thread : u # t => target'[u] = target[u]
BY DEF Types

LEMMA CursorsOf ==
    ASSUME Types, NEW t \in Thread, NEW k \in 0..CellCount, cursor' = [cursor EXCEPT ![t] = k]
    PROVE  /\ cursor' \in [Thread -> 0..CellCount] /\ cursor'[t] = k
           /\ \A u \in Thread : u # t => cursor'[u] = cursor[u]
BY DEF Types

\* The loop goes on to the next cell, or starts again.
LEMMA CursorAdvances ==
    ASSUME Types, NEW t \in Thread, cursor[t] < CellCount, NextCell(t)
    PROVE  /\ cursor' \in [Thread -> 0..CellCount] /\ cursor'[t] = cursor[t] + 1
           /\ \A u \in Thread : u # t => cursor'[u] = cursor[u]
<1>1. cursor[t] + 1 \in 0..CellCount
  BY HereIsCell
<1>2. PICK k \in 0..CellCount : k = cursor[t] + 1
  BY <1>1
<1>3. cursor' = [cursor EXCEPT ![t] = k]
  BY <1>2 DEF NextCell, Types
<1> QED
  BY <1>2, <1>3, CursorsOf

LEMMA CursorRestarts ==
    ASSUME Types, NEW t \in Thread, FirstCell(t)
    PROVE  /\ cursor' \in [Thread -> 0..CellCount] /\ cursor'[t] = 0
           /\ \A u \in Thread : u # t => cursor'[u] = cursor[u]
<1>1. 0 \in 0..CellCount
  BY CellCountType
<1> QED
  BY <1>1, CursorsOf DEF FirstCell

\* A call that begins.
LEMMA CallTypes ==
    ASSUME Types, NEW t \in Thread, NEW player \in Player, NEW where \in PC,
           Call(t, player, where), target' \in [Thread -> Cell \cup {NoMove}],
           \A u \in Thread : u # t => target'[u] = target[u],
           where \in HasTarget => target'[t] \in Cell,
           where \notin OnCell
    PROVE  Types'
<1>1. calls' \in 0..MaxCalls
  BY AiGameAssumption DEF Call, Types
<1>2. UNCHANGED <<board, gameOver, winner, moveCount, lastMove, cursor, best, threat, near, seen, played>>
  BY DEF Call, game, choice
<1>3. Moves(t, where)
  BY GoToMoves DEF Call
<1>4. /\ stone' \in [Thread -> Stone] /\ stone'[t] = player
      /\ \A u \in Thread : u # t => stone'[u] = stone[u]
  BY StonesOf, StoneNames DEF Call
<1>5. OthersKeep(t)
  BY <1>2, <1>3, <1>4 DEF OthersKeep, Moves
<1> QED
  BY <1>1, <1>2, <1>3, <1>4, <1>5, StepTypes DEF Types

\* A step within getBestMove that changes at most the board, the cursor and
\* what the scans have found.
LEMMA ScanTypes ==
    ASSUME Types, NEW t \in Thread, NEW where \in PC, Moves(t, where), board' \in Board,
           UNCHANGED <<gameOver, winner, moveCount, lastMove, stone, target, seen, calls, played>>,
           cursor' \in [Thread -> 0..CellCount],
           \A u \in Thread : u # t => cursor'[u] = cursor[u],
           best' \in [Thread -> Cell \cup {NoMove}], threat' \in [Thread -> Int],
           near' \in [Thread -> SUBSET Cell],
           pc[t] \in Looks \cup Trials, where \in Looks \cup Trials \cup {"outOfBounds"},
           where \in OnCell => cursor'[t] < CellCount
    PROVE  Types'
<1>1. OthersKeep(t)
  BY DEF OthersKeep, Moves
<1>2. where \notin HasTarget
  BY PcNames
<1>3. stone'[t] \in Player
  BY DEF Types
<1> QED
  BY <1>1, <1>2, <1>3, StepTypes DEF Types

\* getBestMove returns.
LEMMA ChooseTypes ==
    ASSUME Types, NEW t \in Thread, NEW c \in Cell, Choose(t, c), board' \in Board,
           pc[t] \in Looks \cup Trials,
           UNCHANGED <<gameOver, winner, moveCount, lastMove, stone, seen, calls, played>>
    PROVE  Types' /\ OthersKeep(t) /\ Moves(t, "commit") /\ target'[t] = c
<1>1. "commit" \in PC /\ "commit" \notin OnCell /\ "commit" \notin Looks \cup Trials
  BY PcNames
<1>2. Moves(t, "commit")
  BY <1>1, GoToMoves DEF Choose
<1>3. /\ target' \in [Thread -> Cell \cup {NoMove}] /\ target'[t] = c
      /\ \A u \in Thread : u # t => target'[u] = target[u]
  BY TargetsOf DEF Choose, Select
<1>4. /\ cursor' \in [Thread -> 0..CellCount]
      /\ \A u \in Thread : u # t => cursor'[u] = cursor[u]
  BY CursorRestarts DEF Choose
<1>5. /\ best' \in [Thread -> Cell \cup {NoMove}] /\ threat' \in [Thread -> Int]
      /\ near' \in [Thread -> SUBSET Cell]
  BY DEF Choose, Types
<1>6. OthersKeep(t)
  BY <1>2, <1>3, <1>4 DEF OthersKeep, Moves
<1>7. stone'[t] \in Player
  BY DEF Types
<1> QED
  BY <1>1, <1>2, <1>3, <1>4, <1>5, <1>6, <1>7, StepTypes DEF Types

LEMMA TakeTypes ==
    ASSUME Types, NEW t \in Thread, NEW c \in Cell, Take(t, c), pc[t] \in Looks \cup Trials
    PROVE  /\ Types' /\ OthersKeep(t) /\ Moves(t, "commit") /\ target'[t] = c
           /\ board' = Placed(board, c, AI_PLAYER)
<1>1. board' \in Board /\ board' = Placed(board, c, AI_PLAYER)
  BY PutType, StoneNames DEF Take, Types
<1> QED
  BY <1>1, ChooseTypes DEF Take

\* The end of a call: pc, and seen or what belongs to the game, change.
LEMMA MoveTypes ==
    ASSUME Types, NEW t \in Thread, NEW where \in PC, Moves(t, where),
           pc[t] \in HasTarget, where \in HasTarget,
           board' \in Board, gameOver' \in BOOLEAN, winner' \in {"none", "human", "ai"},
           moveCount' \in Nat, lastMove' \in Cell \cup {NoMove}, seen' \in [Thread -> Nat],
           \A u \in Thread : u # t => seen'[u] = seen[u],
           UNCHANGED <<stone, target, cursor, best, threat, near, calls, played>>
    PROVE  Types' /\ OthersKeep(t)
<1>1. OthersKeep(t)
  BY DEF OthersKeep, Moves
<1>2. where \notin OnCell /\ where \notin Looks \cup Trials
  BY PcNames
<1>3. target'[t] \in Cell /\ stone'[t] \in Player
  BY DEF Types
<1> QED
  BY <1>1, <1>2, <1>3, StepTypes DEF Types

LEMMA ReturnTypes ==
    ASSUME Types, NEW t \in Thread, Return(t), pc[t] \in HasTarget,
           gameOver' \in BOOLEAN, winner' \in {"none", "human", "ai"}
    PROVE  Types' /\ OthersKeep(t) /\ Moves(t, "idle")
<1>1. "idle" \in PC /\ "idle" \notin HasTarget /\ "idle" \notin OnCell /\ "idle" \notin Looks \cup Trials
  BY PcNames
<1>2. Moves(t, "idle")
  BY <1>1, GoToMoves DEF Return
<1>3. /\ stone' \in [Thread -> Stone] /\ \A u \in Thread : u # t => stone'[u] = stone[u]
  BY StonesOf, StoneNames DEF Return
<1>4. /\ target' \in [Thread -> Cell \cup {NoMove}] /\ \A u \in Thread : u # t => target'[u] = target[u]
  BY TargetsOf DEF Return
<1>5. UNCHANGED <<board, moveCount, lastMove, cursor, best, threat, near, seen, calls>>
  BY DEF Return, choice
<1>6. OthersKeep(t)
  BY <1>2, <1>3, <1>4, <1>5 DEF OthersKeep, Moves
<1>7. played' \subseteq Cell \X Player
  BY DEF Return, Types
<1> QED
  BY <1>1, <1>2, <1>3, <1>4, <1>5, <1>6, <1>7, StepTypes DEF Types

---------------------------------------------------------------------------
(* What every action does, in these terms.                                 *)

\* Nothing of the game but the board changes, and nothing is counted.
Within(t) ==
    /\ Types' /\ OthersKeep(t)
    /\ UNCHANGED <<gameOver, winner, moveCount, lastMove, calls, played, stone, seen>>

LEMMA HumanMoveTestDoes ==
    ASSUME Types, NEW t \in Thread, NEW c \in Place, HumanMoveTest(t, c)
    PROVE  /\ Types' /\ OthersKeep(t) /\ Moves(t, "lock") /\ pc[t] = "idle"
           /\ c \in Cell /\ board[c] = EMPTY /\ ~gameOver /\ moveCount < CellCount
           /\ target'[t] = c /\ stone'[t] = HUMAN_PLAYER /\ calls' = calls + 1
           /\ UNCHANGED <<board, gameOver, winner, moveCount, lastMove, cursor, best, threat, near, seen, played>>
<1>1. /\ c \in Cell /\ board[c] = EMPTY /\ ~gameOver /\ ~isDraw /\ pc[t] = "idle" /\ calls' = calls + 1
      /\ UNCHANGED <<board, gameOver, winner, moveCount, lastMove, cursor, best, threat, near, seen, played>>
  BY DEF HumanMoveTest, isValidMove, IsInBoard, Call, At, game, choice
<1>2. moveCount < CellCount
  BY <1>1, CellCountType DEF isDraw, Types
<1>3. /\ target' \in [Thread -> Cell \cup {NoMove}] /\ target'[t] = c
      /\ \A u \in Thread : u # t => target'[u] = target[u]
  BY <1>1, TargetsOf DEF HumanMoveTest, Select
<1>4. "lock" \in PC /\ "lock" \notin OnCell
  BY PcNames
<1>5. Call(t, HUMAN_PLAYER, "lock")
  BY DEF HumanMoveTest
<1>6. Moves(t, "lock")
  BY <1>4, <1>5, GoToMoves DEF Call
<1>7. stone'[t] = HUMAN_PLAYER /\ \A u \in Thread : u # t => stone'[u] = stone[u]
  BY <1>5, StonesOf, StoneNames DEF Call
<1>8. Types'
  BY <1>1, <1>3, <1>4, <1>5, StoneNames, CallTypes
<1>9. OthersKeep(t)
  BY <1>1, <1>3, <1>6, <1>7 DEF OthersKeep, Moves
<1> QED
  BY <1>1, <1>2, <1>3, <1>6, <1>7, <1>8, <1>9

LEMMA AiMoveTestDoes ==
    ASSUME Types, NEW t \in Thread, AiMoveTest(t)
    PROVE  /\ Types' /\ OthersKeep(t) /\ Moves(t, "scan") /\ pc[t] = "idle"
           /\ ~gameOver /\ moveCount < CellCount
           /\ stone'[t] = AI_PLAYER /\ calls' = calls + 1
           /\ UNCHANGED <<board, gameOver, winner, moveCount, lastMove, target, cursor, best, threat, near, seen, played>>
<1>1. /\ ~gameOver /\ ~isDraw /\ pc[t] = "idle" /\ calls' = calls + 1
      /\ UNCHANGED <<board, gameOver, winner, moveCount, lastMove, target, cursor, best, threat, near, seen, played>>
  BY DEF AiMoveTest, Call, At, game, choice
<1>2. moveCount < CellCount
  BY <1>1, CellCountType DEF isDraw, Types
<1>3. target' \in [Thread -> Cell \cup {NoMove}] /\ \A u \in Thread : target'[u] = target[u]
  BY <1>1 DEF Types
<1>4. "scan" \in PC /\ "scan" \notin OnCell /\ "scan" \notin HasTarget
  BY PcNames
<1>5. Call(t, AI_PLAYER, "scan")
  BY DEF AiMoveTest
<1>6. Moves(t, "scan")
  BY <1>4, <1>5, GoToMoves DEF Call
<1>7. stone'[t] = AI_PLAYER /\ \A u \in Thread : u # t => stone'[u] = stone[u]
  BY <1>5, StonesOf, StoneNames DEF Call
<1>8. Types'
  BY <1>1, <1>3, <1>4, <1>5, StoneNames, CallTypes
<1>9. OthersKeep(t)
  BY <1>1, <1>3, <1>6, <1>7 DEF OthersKeep, Moves
<1> QED
  BY <1>1, <1>2, <1>6, <1>7, <1>8, <1>9

\* A look at a cell: on to the next, or on with this one.
LEMMA LookDoes ==
    ASSUME Types, NEW t \in Thread, NEW there \in {"tryAi", "take"}, cursor[t] < CellCount,
           pc[t] \in {"scan", "first"},
           IF board[Here(t)] = EMPTY
           THEN GoTo(t, there) /\ UNCHANGED cursor
           ELSE NextCell(t) /\ UNCHANGED pc,
           UNCHANGED <<game, stone, target, choice, seen, calls, played>>
    PROVE  /\ Within(t) /\ UNCHANGED <<board, target, best, near>>
           /\ board[Here(t)] = EMPTY => Moves(t, there) /\ cursor'[t] = cursor[t]
           /\ board[Here(t)] # EMPTY => Moves(t, pc[t]) /\ cursor'[t] = cursor[t] + 1
<1>1. UNCHANGED <<board, gameOver, winner, moveCount, lastMove, stone, target, best, threat, near, seen, calls, played>>
  BY DEF game, choice
<1>2. pc[t] \in Looks \cup Trials /\ there \in Looks \cup Trials /\ there \in PC /\ pc[t] \in PC
      /\ pc[t] \notin OnCell
  BY PcNames
<1>3. CASE board[Here(t)] = EMPTY
  <2>1. Moves(t, there) /\ UNCHANGED cursor
    BY <1>2, <1>3, GoToMoves
  <2>2. Types'
    BY <1>1, <1>2, <2>1, ScanTypes DEF Types
  <2>3. OthersKeep(t)
    BY <1>1, <2>1 DEF OthersKeep, Moves
  <2> QED
    BY <1>1, <1>3, <2>1, <2>2, <2>3 DEF Within
<1>4. CASE board[Here(t)] # EMPTY
  <2>1. /\ cursor' \in [Thread -> 0..CellCount] /\ cursor'[t] = cursor[t] + 1
        /\ \A u \in Thread : u # t => cursor'[u] = cursor[u]
    BY <1>4, CursorAdvances
  <2>2. Moves(t, pc[t])
    BY <1>4 DEF Moves, Types
  <2>3. Types'
    BY <1>1, <1>2, <2>1, <2>2, ScanTypes DEF Types
  <2>4. OthersKeep(t)
    BY <1>1, <2>1, <2>2 DEF OthersKeep, Moves
  <2> QED
    BY <1>1, <1>4, <2>1, <2>2, <2>3, <2>4 DEF Within
<1> QED
  BY <1>3, <1>4

LEMMA LookAtDoes ==
    ASSUME Types, NEW t \in Thread, LookAt(t)
    PROVE  /\ Within(t) /\ UNCHANGED <<board, target, best, near>> /\ pc[t] = "scan" /\ cursor[t] < CellCount
           /\ board[Here(t)] = EMPTY => Moves(t, "tryAi") /\ cursor'[t] = cursor[t]
           /\ board[Here(t)] # EMPTY => Moves(t, "scan") /\ cursor'[t] = cursor[t] + 1
<1>1. pc[t] = "scan" /\ cursor[t] < CellCount
  BY DEF LookAt, At
<1> QED
  BY <1>1, LookDoes DEF LookAt

LEMMA LookForEmptyDoes ==
    ASSUME Types, NEW t \in Thread, LookForEmpty(t)
    PROVE  /\ Within(t) /\ UNCHANGED <<board, target, best, near>> /\ pc[t] = "first" /\ cursor[t] < CellCount
           /\ board[Here(t)] = EMPTY => Moves(t, "take") /\ cursor'[t] = cursor[t]
           /\ board[Here(t)] # EMPTY => Moves(t, "first") /\ cursor'[t] = cursor[t] + 1
<1>1. pc[t] = "first" /\ cursor[t] < CellCount
  BY DEF LookForEmpty, At
<1> QED
  BY <1>1, LookDoes DEF LookForEmpty

\* A write to the cell that is looked at.
LEMMA WriteDoes ==
    ASSUME Types, NEW t \in Thread, NEW from \in OnCell, NEW what \in Stone,
           NEW to \in Looks \cup Trials, Write(t, from, what, to),
           \/ UNCHANGED cursor
           \/ NextCell(t) /\ to \notin OnCell
    PROVE  /\ Within(t) /\ UNCHANGED <<target, best, near>> /\ Moves(t, to)
           /\ pc[t] = from /\ cursor[t] < CellCount
           /\ board' = Placed(board, Here(t), what)
<1>1. pc[t] = from /\ cursor[t] < CellCount
  BY DEF Write, At, Types
<1>2. Here(t) \in Cell
  BY <1>1, HereIsCell
<1>3. UNCHANGED <<gameOver, winner, moveCount, lastMove, stone, target, best, threat, near, seen, calls, played>>
  BY DEF Write, choice
<1>4. board' \in Board /\ board' = Placed(board, Here(t), what)
  BY <1>2, PutType DEF Write, Types
<1>5. to \in PC /\ pc[t] \in Looks \cup Trials
  BY <1>1 DEF PC, OnCell, Looks
<1>6. Moves(t, to)
  BY <1>5, GoToMoves DEF Write
<1>7. /\ cursor' \in [Thread -> 0..CellCount]
      /\ \A u \in Thread : u # t => cursor'[u] = cursor[u]
      /\ to \in OnCell => cursor'[t] < CellCount
  BY <1>1, CursorAdvances DEF Types
<1>8. OthersKeep(t)
  BY <1>3, <1>6, <1>7 DEF OthersKeep, Moves
<1>9. Types'
  BY <1>3, <1>4, <1>5, <1>6, <1>7, ScanTypes DEF Types
<1> QED
  BY <1>1, <1>3, <1>4, <1>6, <1>8, <1>9 DEF Within

LEMMA TryAiDoes ==
    ASSUME Types, NEW t \in Thread, TryAi(t)
    PROVE  /\ Within(t) /\ UNCHANGED <<target, cursor, best, near>> /\ Moves(t, "triedAi")
           /\ pc[t] = "tryAi" /\ cursor[t] < CellCount /\ board' = Placed(board, Here(t), AI_PLAYER)
<1>1. "tryAi" \in OnCell /\ "triedAi" \in Looks \cup Trials
  BY PcNames
<1> QED
  BY <1>1, WriteDoes, StoneNames DEF TryAi

LEMMA DropAiDoes ==
    ASSUME Types, NEW t \in Thread, DropAi(t)
    PROVE  /\ Within(t) /\ UNCHANGED <<target, cursor, best, near>> /\ Moves(t, "tryHuman")
           /\ pc[t] = "dropAi" /\ cursor[t] < CellCount /\ board' = Placed(board, Here(t), EMPTY)
<1>1. "dropAi" \in OnCell /\ "tryHuman" \in Looks \cup Trials
  BY PcNames
<1> QED
  BY <1>1, WriteDoes, StoneNames DEF DropAi

LEMMA TryHumanDoes ==
    ASSUME Types, NEW t \in Thread, TryHuman(t)
    PROVE  /\ Within(t) /\ UNCHANGED <<target, cursor, best, near>> /\ Moves(t, "triedHuman")
           /\ pc[t] = "tryHuman" /\ cursor[t] < CellCount /\ board' = Placed(board, Here(t), HUMAN_PLAYER)
<1>1. "tryHuman" \in OnCell /\ "triedHuman" \in Looks \cup Trials
  BY PcNames
<1> QED
  BY <1>1, WriteDoes, StoneNames DEF TryHuman

LEMMA DropHumanDoes ==
    ASSUME Types, NEW t \in Thread, DropHuman(t)
    PROVE  /\ Within(t) /\ UNCHANGED <<target, best, near>> /\ Moves(t, "scan")
           /\ pc[t] = "dropHuman" /\ cursor[t] < CellCount /\ cursor'[t] = cursor[t] + 1
           /\ board' = Placed(board, Here(t), EMPTY)
<1>1. "dropHuman" \in OnCell /\ "scan" \in Looks \cup Trials /\ "scan" \notin OnCell
  BY PcNames
<1>2. Within(t) /\ UNCHANGED <<target, best, near>> /\ Moves(t, "scan")
      /\ pc[t] = "dropHuman" /\ cursor[t] < CellCount /\ board' = Placed(board, Here(t), EMPTY)
  BY <1>1, WriteDoes, StoneNames DEF DropHuman
<1>3. cursor'[t] = cursor[t] + 1
  BY <1>2, CursorAdvances DEF DropHuman
<1> QED
  BY <1>2, <1>3

\* A cell is chosen, without a stone on it or with one.
LEMMA ChooseDoes ==
    ASSUME Types, NEW t \in Thread, NEW c \in Cell, Choose(t, c), UNCHANGED board,
           pc[t] \in Looks \cup Trials,
           UNCHANGED <<gameOver, winner, moveCount, lastMove, stone, seen, calls, played>>
    PROVE  Within(t) /\ Moves(t, "commit") /\ target'[t] = c
<1>1. board' \in Board
  BY DEF Types
<1> QED
  BY <1>1, ChooseTypes DEF Within

LEMMA TakeDoes ==
    ASSUME Types, NEW t \in Thread, NEW c \in Cell, Take(t, c), pc[t] \in Looks \cup Trials
    PROVE  /\ Within(t) /\ Moves(t, "commit") /\ target'[t] = c
           /\ board' = Placed(board, c, AI_PLAYER)
BY TakeTypes DEF Take, Within

\* A decision that changes pc only.
LEMMA DecideDoes ==
    ASSUME Types, NEW t \in Thread, NEW where \in PC, GoTo(t, where),
           where \in Trials \cup {"outOfBounds"}, pc[t] \in Looks \cup Trials,
           where \in Trials => cursor[t] < CellCount,
           UNCHANGED <<game, locals, calls, played>>
    PROVE  Within(t) /\ UNCHANGED <<board, target, cursor, best, near>> /\ Moves(t, where)
<1>1. UNCHANGED <<board, gameOver, winner, moveCount, lastMove, stone, target, cursor, best, threat, near, seen, calls, played>>
  BY DEF game, locals, choice
<1>2. Moves(t, where)
  BY GoToMoves
<1>3. where \in OnCell => where \in Trials
  BY PcNames
<1>4. Types'
  BY <1>1, <1>2, <1>3, ScanTypes DEF Types
<1>5. OthersKeep(t)
  BY <1>1, <1>2 DEF OthersKeep, Moves
<1> QED
  BY <1>1, <1>2, <1>4, <1>5 DEF Within

LEMMA CheckAiDoes ==
    ASSUME Types, NEW t \in Thread, CheckAi(t)
    PROVE  /\ Within(t) /\ UNCHANGED board /\ pc[t] = "triedAi" /\ cursor[t] < CellCount
           /\ checkWin(board, Here(t), AI_PLAYER) => Moves(t, "commit") /\ target'[t] = Here(t)
           /\ ~checkWin(board, Here(t), AI_PLAYER) => Moves(t, "dropAi") /\ UNCHANGED <<target, cursor>>
<1>1. /\ pc[t] = "triedAi" /\ UNCHANGED <<game, stone, seen, calls, played>>
      /\ "triedAi" \in OnCell /\ "triedAi" \in Looks \cup Trials /\ "dropAi" \in PC /\ "dropAi" \in Trials
  BY PcNames DEF CheckAi, At, Trials
<1>2. cursor[t] < CellCount /\ Here(t) \in Cell
  BY <1>1, HereIsCell DEF Types
<1>3. CASE checkWin(board, Here(t), AI_PLAYER)
  <2>1. Choose(t, Here(t)) /\ UNCHANGED <<board, gameOver, winner, moveCount, lastMove, stone, seen, calls, played>>
    BY <1>1, <1>3 DEF CheckAi, game
  <2> QED
    BY <1>1, <1>2, <1>3, <2>1, ChooseDoes
<1>4. CASE ~checkWin(board, Here(t), AI_PLAYER)
  <2>1. GoTo(t, "dropAi") /\ UNCHANGED <<game, locals, calls, played>>
    BY <1>1, <1>4 DEF CheckAi, locals
  <2> QED
    BY <1>1, <1>2, <1>4, <2>1, DecideDoes
<1> QED
  BY <1>3, <1>4

LEMMA CheckHumanDoes ==
    ASSUME Types, NEW t \in Thread, CheckHuman(t)
    PROVE  /\ Within(t) /\ UNCHANGED <<board, target, cursor>> /\ pc[t] = "triedHuman" /\ cursor[t] < CellCount
           /\ checkWin(board, Here(t), HUMAN_PLAYER) => Moves(t, "block")
           /\ ~checkWin(board, Here(t), HUMAN_PLAYER) => Moves(t, "dropHuman")
<1>1. /\ pc[t] = "triedHuman" /\ UNCHANGED <<game, locals, calls, played>>
      /\ "triedHuman" \in OnCell /\ "triedHuman" \in Looks \cup Trials
      /\ {"block", "dropHuman"} \subseteq PC /\ {"block", "dropHuman"} \subseteq Trials
  BY PcNames DEF CheckHuman, At, Trials
<1>2. cursor[t] < CellCount
  BY <1>1 DEF Types
<1>3. CASE checkWin(board, Here(t), HUMAN_PLAYER)
  <2>1. GoTo(t, "block")
    BY <1>3 DEF CheckHuman, WouldLose
  <2> QED
    BY <1>1, <1>2, <1>3, <2>1, DecideDoes
<1>4. CASE ~checkWin(board, Here(t), HUMAN_PLAYER)
  <2>1. GoTo(t, "dropHuman")
    BY <1>4 DEF CheckHuman, WouldLose
  <2> QED
    BY <1>1, <1>2, <1>4, <2>1, DecideDoes
<1> QED
  BY <1>3, <1>4

LEMMA BlockDoes ==
    ASSUME Types, NEW t \in Thread, Block(t)
    PROVE  /\ Within(t) /\ pc[t] = "block" /\ cursor[t] < CellCount /\ Moves(t, "commit")
           /\ target'[t] = Here(t) /\ board' = Placed(board, Here(t), AI_PLAYER)
<1>1. pc[t] = "block" /\ "block" \in OnCell /\ "block" \in Looks \cup Trials
  BY PcNames DEF Block, At
<1>2. cursor[t] < CellCount /\ Here(t) \in Cell
  BY <1>1, HereIsCell DEF Types
<1> QED
  BY <1>1, <1>2, TakeDoes DEF Block

LEMMA TakeEmptyDoes ==
    ASSUME Types, NEW t \in Thread, TakeEmpty(t)
    PROVE  /\ Within(t) /\ pc[t] = "take" /\ cursor[t] < CellCount /\ Moves(t, "commit")
           /\ target'[t] = Here(t) /\ board' = Placed(board, Here(t), AI_PLAYER)
<1>1. pc[t] = "take" /\ "take" \in OnCell /\ "take" \in Looks \cup Trials
  BY PcNames DEF TakeEmpty, At
<1>2. cursor[t] < CellCount /\ Here(t) \in Cell
  BY <1>1, HereIsCell DEF Types
<1> QED
  BY <1>1, <1>2, TakeDoes DEF TakeEmpty

LEMMA TakeNearDoes ==
    ASSUME Types, NEW t \in Thread, TakeNear(t)
    PROVE  /\ Within(t) /\ pc[t] = "collect" /\ Moves(t, "commit")
           /\ \E c \in near[t] : c \in Cell /\ target'[t] = c /\ board' = Placed(board, c, AI_PLAYER)
<1>1. pc[t] = "collect" /\ "collect" \in Looks \cup Trials
  BY PcNames DEF TakeNear, At
<1>2. PICK c \in near[t] : Take(t, c)
  BY DEF TakeNear
<1>3. c \in Cell
  BY DEF Types
<1> QED
  BY <1>1, <1>2, <1>3, TakeDoes

LEMMA TakeBestDoes ==
    ASSUME Types, NEW t \in Thread, TakeBest(t)
    PROVE  /\ Within(t) /\ pc[t] = "first" /\ cursor[t] = CellCount
           /\ best[t] # NoMove => /\ Moves(t, "commit") /\ best[t] \in Cell /\ target'[t] = best[t]
                                  /\ board' = Placed(board, best[t], AI_PLAYER)
           /\ best[t] = NoMove => Moves(t, "outOfBounds") /\ UNCHANGED board
<1>1. pc[t] = "first" /\ cursor[t] = CellCount /\ "first" \in Looks \cup Trials
      /\ "outOfBounds" \in PC /\ "outOfBounds" \notin Trials
  BY PcNames DEF TakeBest, At, Trials
<1>2. CASE best[t] # NoMove
  <2>1. best[t] \in Cell
    BY <1>2 DEF Types
  <2>2. PICK c \in Cell : c = best[t]
    BY <2>1
  <2>3. Take(t, c)
    BY <1>2, <2>2 DEF TakeBest
  <2>4. Within(t) /\ Moves(t, "commit") /\ target'[t] = c /\ board' = Placed(board, c, AI_PLAYER)
    BY <1>1, <2>3, TakeDoes
  <2> QED
    BY <1>1, <1>2, <2>2, <2>4
<1>3. CASE best[t] = NoMove
  <2>1. GoTo(t, "outOfBounds") /\ UNCHANGED <<game, locals, calls, played>>
    BY <1>3 DEF TakeBest
  <2> QED
    BY <1>1, <1>3, <2>1, DecideDoes
<1> QED
  BY <1>2, <1>3

LEMMA EndOfLoopDoes ==
    ASSUME Types, NEW t \in Thread, NEW from \in {"scan", "rate", "collect"},
           NEW to \in {"rate", "collect", "first"}, EndOfLoop(t, from, to)
    PROVE  /\ Within(t) /\ UNCHANGED <<board, target, best, near>> /\ pc[t] = from /\ Moves(t, to)
           /\ cursor[t] = CellCount /\ cursor'[t] = 0
<1>1. /\ pc[t] = from /\ cursor[t] = CellCount
      /\ UNCHANGED <<board, gameOver, winner, moveCount, lastMove, stone, target, best, threat, near, seen, calls, played>>
  BY DEF EndOfLoop, At, game, choice
<1>2. from \in Looks \cup Trials /\ to \in Looks \cup Trials /\ to \in PC /\ to \notin OnCell
  BY PcNames
<1>3. Moves(t, to)
  BY <1>2, GoToMoves DEF EndOfLoop
<1>4. /\ cursor' \in [Thread -> 0..CellCount] /\ cursor'[t] = 0
      /\ \A u \in Thread : u # t => cursor'[u] = cursor[u]
  BY CursorRestarts DEF EndOfLoop
<1>5. Types'
  BY <1>1, <1>2, <1>3, <1>4, ScanTypes DEF Types
<1>6. OthersKeep(t)
  BY <1>1, <1>3, <1>4 DEF OthersKeep, Moves
<1> QED
  BY <1>1, <1>3, <1>4, <1>5, <1>6 DEF Within

LEMMA StepsDo ==
    ASSUME Types, NEW t \in Thread, StepTwo(t) \/ StepThree(t) \/ StepFour(t)
    PROVE  /\ Within(t) /\ UNCHANGED <<board, target, best, near>>
           /\ cursor[t] = CellCount /\ cursor'[t] = 0
           /\ \/ pc[t] = "scan" /\ Moves(t, "rate")
              \/ pc[t] = "rate" /\ Moves(t, "collect") /\ best[t] = NoMove
              \/ pc[t] = "rate" /\ Moves(t, "first") /\ best[t] # NoMove
              \/ pc[t] = "collect" /\ Moves(t, "first") /\ near[t] = {}
<1>1. CASE StepTwo(t)
  BY <1>1, EndOfLoopDoes DEF StepTwo
<1>2. CASE StepThree(t)
  BY <1>2, EndOfLoopDoes DEF StepThree
<1>3. CASE StepFour(t)
  <2>1. CASE best[t] # NoMove /\ EndOfLoop(t, "rate", "first")
    BY <2>1, EndOfLoopDoes
  <2>2. CASE near[t] = {} /\ EndOfLoop(t, "collect", "first")
    BY <2>2, EndOfLoopDoes
  <2> QED
    BY <1>3, <2>1, <2>2 DEF StepFour
<1> QED
  BY <1>1, <1>2, <1>3

\* A cell is rated, or collected.
LEMMA LoopDoes ==
    ASSUME Types, NEW t \in Thread, cursor[t] < CellCount, pc[t] \in {"rate", "collect"},
           UNCHANGED <<game, pc, stone, target, seen, calls, played>>, NextCell(t),
           best' \in [Thread -> Cell \cup {NoMove}], threat' \in [Thread -> Int],
           near' \in [Thread -> SUBSET Cell]
    PROVE  Within(t) /\ UNCHANGED <<board, target>> /\ Moves(t, pc[t]) /\ cursor'[t] = cursor[t] + 1
<1>1. UNCHANGED <<board, gameOver, winner, moveCount, lastMove, stone, target, seen, calls, played>>
  BY DEF game
<1>2. pc[t] \in Looks \cup Trials /\ pc[t] \notin OnCell /\ pc[t] \in PC
  BY PcNames
<1>3. Moves(t, pc[t])
  BY DEF Moves, Types
<1>4. /\ cursor' \in [Thread -> 0..CellCount] /\ cursor'[t] = cursor[t] + 1
      /\ \A u \in Thread : u # t => cursor'[u] = cursor[u]
  BY CursorAdvances
<1>5. Types'
  BY <1>1, <1>2, <1>3, <1>4, ScanTypes DEF Types
<1>6. OthersKeep(t)
  BY <1>1, <1>3, <1>4 DEF OthersKeep, Moves
<1> QED
  BY <1>1, <1>3, <1>4, <1>5, <1>6 DEF Within

LEMMA RateCellDoes ==
    ASSUME Types, NEW t \in Thread, RateCell(t)
    PROVE  /\ Within(t) /\ UNCHANGED <<board, target, near>> /\ pc[t] = "rate" /\ Moves(t, "rate")
           /\ cursor[t] < CellCount /\ cursor'[t] = cursor[t] + 1
<1>1. /\ pc[t] = "rate" /\ cursor[t] < CellCount /\ NextCell(t)
      /\ UNCHANGED <<game, pc, stone, target, near, seen, calls, played>>
  BY DEF RateCell, At
<1>2. Here(t) \in Cell /\ evaluateThreat(board, Here(t)) \in Int
  BY <1>1, HereIsCell, ThreatType
<1>3. \/ UNCHANGED <<threat, best>>
      \/ /\ threat' = [threat EXCEPT ![t] = evaluateThreat(board, Here(t))]
         /\ best' = [best EXCEPT ![t] = Here(t)]
  BY DEF RateCell
<1>4. best' \in [Thread -> Cell \cup {NoMove}] /\ threat' \in [Thread -> Int] /\ near' \in [Thread -> SUBSET Cell]
  BY <1>1, <1>2, <1>3 DEF Types
<1> QED
  BY <1>1, <1>4, LoopDoes

LEMMA CollectCellDoes ==
    ASSUME Types, NEW t \in Thread, CollectCell(t)
    PROVE  /\ Within(t) /\ UNCHANGED <<board, target, best>> /\ pc[t] = "collect" /\ Moves(t, "collect")
           /\ cursor[t] < CellCount /\ cursor'[t] = cursor[t] + 1
<1>1. /\ pc[t] = "collect" /\ cursor[t] < CellCount /\ NextCell(t)
      /\ UNCHANGED <<game, pc, stone, target, best, threat, seen, calls, played>>
  BY DEF CollectCell, At
<1>2. Here(t) \in Cell
  BY <1>1, HereIsCell
<1>3. near' = near \/ near' = [near EXCEPT ![t] = near[t] \cup {Here(t)}]
  BY DEF CollectCell
<1>4. near[t] \cup {Here(t)} \in SUBSET Cell
  BY <1>2 DEF Types
<1>5. near' \in [Thread -> SUBSET Cell]
  BY <1>3, <1>4 DEF Types
<1>6. best' \in [Thread -> Cell \cup {NoMove}] /\ threat' \in [Thread -> Int]
  BY <1>1 DEF Types
<1> QED
  BY <1>1, <1>5, <1>6, LoopDoes

\* The two halves of moveCount_++.
LEMMA ReadCountDoes ==
    ASSUME Types, NEW t \in Thread, ReadCount(t)
    PROVE  /\ Types' /\ OthersKeep(t) /\ Moves(t, "count") /\ pc[t] \in {"lock", "commit"}
           /\ seen'[t] = moveCount
           /\ UNCHANGED <<board, gameOver, winner, moveCount, lastMove, stone, target, cursor, calls, played>>
<1>1. /\ pc[t] \in {"lock", "commit"} /\ seen' = [seen EXCEPT ![t] = moveCount]
      /\ UNCHANGED <<board, gameOver, winner, moveCount, lastMove, stone, target, cursor, best, threat, near, calls, played>>
  BY DEF ReadCount, At, game, choice
<1>2. pc[t] \in HasTarget /\ "count" \in HasTarget /\ "count" \in PC
  BY <1>1, PcNames
<1>3. Moves(t, "count")
  BY <1>2, GoToMoves DEF ReadCount
<1>4. seen' \in [Thread -> Nat] /\ seen'[t] = moveCount /\ \A u \in Thread : u # t => seen'[u] = seen[u]
  BY <1>1 DEF Types
<1>5. Types' /\ OthersKeep(t)
  BY <1>1, <1>2, <1>3, <1>4, MoveTypes DEF Types
<1> QED
  BY <1>1, <1>3, <1>4, <1>5

LEMMA WriteCountDoes ==
    ASSUME Types, NEW t \in Thread, WriteCount(t)
    PROVE  /\ Types' /\ OthersKeep(t) /\ Moves(t, "put") /\ pc[t] = "count"
           /\ moveCount' = seen[t] + 1
           /\ UNCHANGED <<board, gameOver, winner, lastMove, stone, target, cursor, calls, played>>
<1>1. /\ pc[t] = "count" /\ seen' = [seen EXCEPT ![t] = 0] /\ moveCount' = seen[t] + 1
      /\ UNCHANGED <<board, gameOver, winner, lastMove, stone, target, cursor, best, threat, near, calls, played>>
  BY DEF WriteCount, At, choice
<1>2. pc[t] \in HasTarget /\ "put" \in HasTarget /\ "put" \in PC
  BY <1>1, PcNames
<1>3. Moves(t, "put")
  BY <1>2, GoToMoves DEF WriteCount
<1>4. seen' \in [Thread -> Nat] /\ \A u \in Thread : u # t => seen'[u] = seen[u]
  BY <1>1 DEF Types
<1>5. moveCount' \in Nat
  BY <1>1 DEF Types
<1>6. Types' /\ OthersKeep(t)
  BY <1>1, <1>2, <1>3, <1>4, <1>5, MoveTypes DEF Types
<1> QED
  BY <1>1, <1>3, <1>6

LEMMA PutStoneDoes ==
    ASSUME Types, NEW t \in Thread, PutStone(t)
    PROVE  /\ Types' /\ OthersKeep(t) /\ Moves(t, "last") /\ pc[t] = "put"
           /\ target[t] \in Cell /\ stone[t] \in Player
           /\ board' = Placed(board, target[t], stone[t])
           /\ UNCHANGED <<gameOver, winner, moveCount, lastMove, stone, target, cursor, seen, calls, played>>
<1>1. /\ pc[t] = "put"
      /\ UNCHANGED <<gameOver, winner, moveCount, lastMove, stone, target, cursor, best, threat, near, seen, calls, played>>
  BY DEF PutStone, At, locals, choice
<1>2. pc[t] \in HasTarget /\ "last" \in HasTarget /\ "last" \in PC
  BY <1>1, PcNames
<1>3. Moves(t, "last")
  BY <1>2, GoToMoves DEF PutStone
<1>4. PICK c \in Cell, what \in Player : c = target[t] /\ what = stone[t]
  BY <1>2 DEF Types
<1>5. Put(c, what)
  BY <1>4 DEF PutStone
<1>6. board' \in Board /\ board' = Placed(board, c, what)
  BY <1>5, PutType, StoneNames DEF Types
<1>7. Types' /\ OthersKeep(t)
  BY <1>1, <1>2, <1>3, <1>6, MoveTypes DEF Types
<1> QED
  BY <1>1, <1>3, <1>4, <1>6, <1>7

LEMMA SetLastMoveDoes ==
    ASSUME Types, NEW t \in Thread, SetLastMove(t)
    PROVE  /\ Types' /\ OthersKeep(t) /\ Moves(t, "check") /\ pc[t] = "last"
           /\ lastMove' = target[t]
           /\ UNCHANGED <<board, gameOver, winner, moveCount, stone, target, cursor, seen, calls, played>>
<1>1. /\ pc[t] = "last" /\ lastMove' = target[t]
      /\ UNCHANGED <<board, gameOver, winner, moveCount, stone, target, cursor, best, threat, near, seen, calls, played>>
  BY DEF SetLastMove, At, locals, choice
<1>2. pc[t] \in HasTarget /\ "check" \in HasTarget /\ "check" \in PC
  BY <1>1, PcNames
<1>3. Moves(t, "check")
  BY <1>2, GoToMoves DEF SetLastMove
<1>4. lastMove' \in Cell \cup {NoMove}
  BY <1>1, <1>2 DEF Types
<1>5. Types' /\ OthersKeep(t)
  BY <1>1, <1>2, <1>3, <1>4, MoveTypes DEF Types
<1> QED
  BY <1>1, <1>3, <1>5

LEMMA ReturnDoes ==
    ASSUME Types, NEW t \in Thread, Return(t), pc[t] \in {"check", "over"},
           gameOver' \in BOOLEAN, winner' \in {"none", "human", "ai"}
    PROVE  /\ Types' /\ OthersKeep(t) /\ Moves(t, "idle")
           /\ played' = played \cup {<<target[t], stone[t]>>}
           /\ UNCHANGED <<board, moveCount, lastMove, calls>>
<1>1. pc[t] \in HasTarget
  BY PcNames
<1> QED
  BY <1>1, ReturnTypes DEF Return

LEMMA CheckWinnerDoes ==
    ASSUME Types, NEW t \in Thread, CheckWinner(t)
    PROVE  /\ Types' /\ OthersKeep(t) /\ pc[t] = "check"
           /\ UNCHANGED <<board, gameOver, winner, moveCount, lastMove, calls>>
           /\ checkWin(board, target[t], HUMAN_PLAYER) =>
                 Moves(t, "over") /\ UNCHANGED <<stone, target, played>>
           /\ ~checkWin(board, target[t], HUMAN_PLAYER) =>
                 Moves(t, "idle") /\ played' = played \cup {<<target[t], stone[t]>>}
<1>1. pc[t] = "check" /\ pc[t] \in HasTarget /\ "over" \in HasTarget /\ "over" \in PC
  BY PcNames DEF CheckWinner, At
<1>2. CASE checkWin(board, target[t], HUMAN_PLAYER)
  <2>1. GoTo(t, "over") /\ UNCHANGED <<board, gameOver, winner, moveCount, lastMove, stone, target, cursor, best, threat, near, seen, calls, played>>
    BY <1>2 DEF CheckWinner, game, locals, choice
  <2>2. Moves(t, "over")
    BY <1>1, <2>1, GoToMoves
  <2>3. Types' /\ OthersKeep(t)
    BY <1>1, <2>1, <2>2, MoveTypes DEF Types
  <2> QED
    BY <1>1, <1>2, <2>1, <2>2, <2>3
<1>3. CASE ~checkWin(board, target[t], HUMAN_PLAYER)
  <2>1. Return(t) /\ UNCHANGED <<gameOver, winner>>
    BY <1>3 DEF CheckWinner
  <2> QED
    BY <1>1, <1>3, <2>1, ReturnDoes DEF Types
<1> QED
  BY <1>2, <1>3

LEMMA SetGameOverDoes ==
    ASSUME Types, NEW t \in Thread, SetGameOver(t)
    PROVE  /\ Types' /\ OthersKeep(t) /\ pc[t] = "over" /\ Moves(t, "idle")
           /\ gameOver' = TRUE /\ winner' = (IF stone[t] = HUMAN_PLAYER THEN "human" ELSE "ai")
           /\ played' = played \cup {<<target[t], stone[t]>>}
           /\ UNCHANGED <<board, moveCount, lastMove, calls>>
<1>1. /\ pc[t] = "over" /\ gameOver' = TRUE /\ Return(t)
      /\ winner' = (IF stone[t] = HUMAN_PLAYER THEN "human" ELSE "ai")
  BY DEF SetGameOver, At
<1> QED
  BY <1>1, ReturnDoes

\* Any step of getBestMove.
LEMMA getBestMoveDoes ==
    ASSUME Types, NEW t \in Thread, getBestMove(t)
    PROVE  /\ Within(t) /\ pc[t] \in Looks \cup Trials
           /\ \E where \in Looks \cup Trials \cup {"commit", "outOfBounds"} : Moves(t, where)
<1>1. CASE LookAt(t) \/ LookForEmpty(t)
  BY <1>1, LookAtDoes, LookForEmptyDoes, PcNames
<1>2. CASE TryAi(t) \/ DropAi(t) \/ TryHuman(t) \/ DropHuman(t)
  BY <1>2, TryAiDoes, DropAiDoes, TryHumanDoes, DropHumanDoes, PcNames
<1>3. CASE CheckAi(t)
  BY <1>3, CheckAiDoes, PcNames
<1>4. CASE CheckHuman(t)
  BY <1>4, CheckHumanDoes, PcNames
<1>5. CASE Block(t) \/ TakeEmpty(t) \/ TakeNear(t)
  BY <1>5, BlockDoes, TakeEmptyDoes, TakeNearDoes, PcNames
<1>6. CASE TakeBest(t)
  BY <1>6, TakeBestDoes, PcNames
<1>7. CASE StepTwo(t) \/ StepThree(t) \/ StepFour(t)
  BY <1>7, StepsDo, PcNames
<1>8. CASE RateCell(t) \/ CollectCell(t)
  BY <1>8, RateCellDoes, CollectCellDoes, PcNames
<1> QED
  BY <1>1, <1>2, <1>3, <1>4, <1>5, <1>6, <1>7, <1>8 DEF getBestMove

LEMMA TypeStep == Types /\ [Next]_vars => Types'
<1> SUFFICES ASSUME Types, [Next]_vars PROVE Types'
  OBVIOUS
<1>1. ASSUME NEW t \in Thread, MakeMove(t) PROVE Types'
  BY <1>1, ReadCountDoes, WriteCountDoes, PutStoneDoes, SetLastMoveDoes, CheckWinnerDoes, SetGameOverDoes
  DEF MakeMove
<1>2. ASSUME NEW t \in Thread, getBestMove(t) PROVE Types'
  BY <1>2, getBestMoveDoes DEF Within
<1>3. CASE UNCHANGED vars
  BY <1>3 DEF vars, game, locals, choice, Types
<1> QED
  BY <1>1, <1>2, <1>3, HumanMoveTestDoes, AiMoveTestDoes DEF Next, Continue

LEMMA InitTypes == Init => Types
<1> SUFFICES ASSUME Init PROVE Types
  OBVIOUS
<1>1. EmptyBoard \in Board /\ 0 \in 0..CellCount /\ 0 \in 0..MaxCalls
  BY CellCountType, AiGameAssumption DEF EmptyBoard, Board
<1>2. "idle" \in PC /\ "idle" \notin HasTarget /\ "idle" \notin OnCell /\ "idle" \notin Looks \cup Trials
  BY PcNames
<1>3. /\ board \in Board /\ gameOver \in BOOLEAN /\ winner \in {"none", "human", "ai"}
      /\ moveCount \in Nat /\ lastMove \in Cell \cup {NoMove} /\ calls \in 0..MaxCalls
      /\ played \subseteq Cell \X Player
  BY <1>1 DEF Init
<1>4. /\ pc \in [Thread -> PC] /\ stone \in [Thread -> Stone]
      /\ target \in [Thread -> Cell \cup {NoMove}] /\ cursor \in [Thread -> 0..CellCount]
  BY <1>1, <1>2, StoneNames DEF Init
<1>5. /\ best \in [Thread -> Cell \cup {NoMove}] /\ threat \in [Thread -> Int]
      /\ near \in [Thread -> SUBSET Cell] /\ seen \in [Thread -> Nat]
  BY DEF Init
<1>6. \A t \in Thread : pc[t] = "idle"
  BY DEF Init
<1> QED
  BY <1>2, <1>3, <1>4, <1>5, <1>6 DEF Types

LEMMA TypesCorrect == Spec => []Types
<1> QED
  BY InitTypes, TypeStep, PTL DEF Spec

---------------------------------------------------------------------------
(* TypeOK: what is counted, or may still be counted, is no more than the   *)
(* calls.  Threads that count at once may count less than that.            *)

\* The threads that have not written moveCount_ yet.
Waits(where) == where \notin {"idle", "put", "last", "check", "over"}
Waiting == {t \in Thread : Waits(pc[t])}

CountInv ==
    /\ IsFiniteSet(Waiting)
    /\ moveCount + Cardinality(Waiting) <= calls
    /\ \A t \in Thread : pc[t] = "count" => seen[t] + Cardinality(Waiting) <= calls

\* A thread begins to wait, goes on waiting, or counts.
LEMMA WaitingChanges ==
    ASSUME IsFiniteSet(Waiting), NEW t \in Thread, NEW where, Moves(t, where)
    PROVE  /\ IsFiniteSet(Waiting') /\ Cardinality(Waiting) \in Nat
           /\ (Waits(pc[t]) <=> Waits(where)) => Waiting' = Waiting
           /\ ~Waits(pc[t]) /\ Waits(where) => Cardinality(Waiting') = Cardinality(Waiting) + 1
           /\ Waits(pc[t]) /\ ~Waits(where) => Cardinality(Waiting') = Cardinality(Waiting) - 1
<1>1. \A u \in Thread : pc'[u] = IF u = t THEN where ELSE pc[u]
  BY DEF Moves
<1>2. CASE Waits(pc[t]) <=> Waits(where)
  <2>1. Waiting' = Waiting
    BY <1>1, <1>2 DEF Waiting
  <2> QED
    BY <1>2, <2>1, FS_CardinalityType
<1>3. CASE ~Waits(pc[t]) /\ Waits(where)
  <2>1. Waiting' = Waiting \cup {t} /\ t \notin Waiting
    BY <1>1, <1>3 DEF Waiting
  <2> QED
    BY <1>3, <2>1, FS_AddElement, FS_CardinalityType
<1>4. CASE Waits(pc[t]) /\ ~Waits(where)
  <2>1. Waiting' = Waiting \ {t} /\ t \in Waiting
    BY <1>1, <1>4 DEF Waiting
  <2> QED
    BY <1>4, <2>1, FS_RemoveElement, FS_CardinalityType
<1> QED
  BY <1>2, <1>3, <1>4

\* A step that counts nothing.
LEMMA CountKept ==
    ASSUME Types, CountInv, NEW t \in Thread, NEW where, Moves(t, where), OthersKeep(t),
           Waits(pc[t]) <=> Waits(where), where = "count" => seen'[t] = moveCount,
           UNCHANGED <<moveCount, calls>>
    PROVE  CountInv'
<1>1. Waiting' = Waiting
  BY WaitingChanges DEF CountInv
<1>2. \A u \in Thread : pc'[u] = "count" => seen'[u] + Cardinality(Waiting') <= calls'
  <2> SUFFICES ASSUME NEW u \in Thread, pc'[u] = "count"
               PROVE  seen'[u] + Cardinality(Waiting') <= calls'
    OBVIOUS
  <2>1. CASE u = t
    BY <1>1, <2>1 DEF Moves, CountInv
  <2>2. CASE u # t
    BY <1>1, <2>2 DEF OthersKeep, CountInv
  <2> QED
    BY <2>1, <2>2
<1> QED
  BY <1>1, <1>2 DEF CountInv

\* A call begins.
LEMMA CallCounts ==
    ASSUME Types, CountInv, NEW t \in Thread, NEW where \in {"lock", "scan"}, Moves(t, where),
           OthersKeep(t), pc[t] = "idle", calls' = calls + 1, UNCHANGED moveCount
    PROVE  CountInv'
<1>1. ~Waits(pc[t]) /\ Waits(where) /\ where # "count"
  BY DEF Waits
<1>2. /\ IsFiniteSet(Waiting') /\ Cardinality(Waiting) \in Nat
      /\ Cardinality(Waiting') = Cardinality(Waiting) + 1
  BY <1>1, WaitingChanges DEF CountInv
<1>3. moveCount \in Nat /\ calls \in Nat
  BY AiGameAssumption DEF Types
<1>4. \A u \in Thread : pc'[u] = "count" => seen'[u] + Cardinality(Waiting') <= calls'
  <2> SUFFICES ASSUME NEW u \in Thread, pc'[u] = "count"
               PROVE  seen'[u] + Cardinality(Waiting') <= calls'
    OBVIOUS
  <2>1. u # t
    BY <1>1 DEF Moves
  <2>2. seen'[u] = seen[u] /\ pc[u] = "count" /\ seen[u] \in Nat
    BY <2>1 DEF OthersKeep, Types
  <2>3. seen[u] + Cardinality(Waiting) <= calls
    BY <2>2 DEF CountInv
  <2> QED
    BY <1>2, <1>3, <2>2, <2>3
<1> QED
  BY <1>2, <1>3, <1>4 DEF CountInv

LEMMA WriteCountCounts ==
    ASSUME Types, CountInv, NEW t \in Thread, WriteCount(t)
    PROVE  CountInv'
<1>1. /\ OthersKeep(t) /\ Moves(t, "put") /\ pc[t] = "count"
      /\ moveCount' = seen[t] + 1 /\ calls' = calls
  BY WriteCountDoes
<1>2. Waits(pc[t]) /\ ~Waits("put")
  BY <1>1 DEF Waits
<1>3. /\ IsFiniteSet(Waiting') /\ Cardinality(Waiting) \in Nat
      /\ Cardinality(Waiting') = Cardinality(Waiting) - 1
  BY <1>1, <1>2, WaitingChanges DEF CountInv
<1>4. seen[t] \in Nat /\ calls \in Nat /\ seen[t] + Cardinality(Waiting) <= calls
  BY <1>1, AiGameAssumption DEF Types, CountInv
<1>5. \A u \in Thread : pc'[u] = "count" => seen'[u] + Cardinality(Waiting') <= calls'
  <2> SUFFICES ASSUME NEW u \in Thread, pc'[u] = "count"
               PROVE  seen'[u] + Cardinality(Waiting') <= calls'
    OBVIOUS
  <2>1. u # t
    BY <1>1 DEF Moves
  <2>2. seen'[u] = seen[u] /\ pc[u] = "count" /\ seen[u] \in Nat
    BY <1>1, <2>1 DEF OthersKeep, Types
  <2>3. seen[u] + Cardinality(Waiting) <= calls
    BY <2>2 DEF CountInv
  <2> QED
    BY <1>1, <1>3, <1>4, <2>2, <2>3
<1> QED
  BY <1>1, <1>3, <1>4, <1>5 DEF CountInv

LEMMA CountStep == Types /\ CountInv /\ [Next]_vars => CountInv'
<1> SUFFICES ASSUME Types, CountInv, [Next]_vars PROVE CountInv'
  OBVIOUS
<1>1. ASSUME NEW t \in Thread, NEW c \in Place, HumanMoveTest(t, c) PROVE CountInv'
  BY <1>1, HumanMoveTestDoes, CallCounts
<1>2. ASSUME NEW t \in Thread, AiMoveTest(t) PROVE CountInv'
  BY <1>2, AiMoveTestDoes, CallCounts
<1>3. ASSUME NEW t \in Thread, getBestMove(t) PROVE CountInv'
  <2>1. /\ Within(t) /\ pc[t] \in Looks \cup Trials
        /\ \E where \in Looks \cup Trials \cup {"commit", "outOfBounds"} : Moves(t, where)
    BY <1>3, getBestMoveDoes
  <2>2. PICK where \in Looks \cup Trials \cup {"commit", "outOfBounds"} : Moves(t, where)
    BY <2>1
  <2>3. Waits(pc[t]) /\ Waits(where) /\ where # "count"
    BY <2>1, <2>2, PcNames DEF Waits
  <2> QED
    BY <2>1, <2>2, <2>3, CountKept DEF Within
<1>4. ASSUME NEW t \in Thread, ReadCount(t) PROVE CountInv'
  <2>1. /\ OthersKeep(t) /\ Moves(t, "count") /\ pc[t] \in {"lock", "commit"}
        /\ seen'[t] = moveCount /\ UNCHANGED <<moveCount, calls>>
    BY <1>4, ReadCountDoes
  <2>2. Waits(pc[t]) /\ Waits("count")
    BY <2>1 DEF Waits
  <2> QED
    BY <2>1, <2>2, CountKept
<1>5. ASSUME NEW t \in Thread, WriteCount(t) PROVE CountInv'
  BY <1>5, WriteCountCounts
<1>6. ASSUME NEW t \in Thread, PutStone(t) \/ SetLastMove(t) \/ CheckWinner(t) \/ SetGameOver(t)
      PROVE  CountInv'
  <2>1. /\ OthersKeep(t) /\ UNCHANGED <<moveCount, calls>> /\ pc[t] \in {"put", "last", "check", "over"}
        /\ \E where \in {"idle", "last", "check", "over"} : Moves(t, where)
    BY <1>6, PutStoneDoes, SetLastMoveDoes, CheckWinnerDoes, SetGameOverDoes
  <2>2. PICK where \in {"idle", "last", "check", "over"} : Moves(t, where)
    BY <2>1
  <2>3. ~Waits(pc[t]) /\ ~Waits(where) /\ where # "count"
    BY <2>1, <2>2 DEF Waits
  <2> QED
    BY <2>1, <2>2, <2>3, CountKept
<1>7. CASE UNCHANGED vars
  BY <1>7 DEF vars, game, locals, CountInv, Waiting
<1> QED
  BY <1>1, <1>2, <1>3, <1>4, <1>5, <1>6, <1>7 DEF Next, Continue, MakeMove

\* Every variable has its type: no move and no trial is off the board, and what
\* is counted is bounded by the calls.
THEOREM AiGameTypeCorrect == Spec => []TypeOK
<1>1. Init => CountInv
  <2> SUFFICES ASSUME Init PROVE CountInv
    OBVIOUS
  <2>1. Waiting = {}
    BY DEF Init, Waiting, Waits
  <2> QED
    BY <2>1, FS_EmptySet DEF Init, CountInv
<1>2. Types /\ CountInv => TypeOK
  <2> SUFFICES ASSUME Types, CountInv PROVE TypeOK
    OBVIOUS
  <2>1. Cardinality(Waiting) \in Nat
    BY FS_CardinalityType DEF CountInv
  <2>2. moveCount \in 0..MaxCalls
    BY <2>1, AiGameAssumption DEF CountInv, Types
  <2> QED
    BY <2>2 DEF Types, TypeOK, OnCell, Stone
<1> QED
  BY <1>1, <1>2, CountStep, TypesCorrect, PTL DEF Spec

---------------------------------------------------------------------------
(* StonesWerePlayed: a stone on the board was played, or some thread is    *)
(* still going to write over it, or to add it to the moves.                *)

\* The cell that a thread is going to write to.
WillWrite(t, c) ==
    \/ pc[t] \in Trials /\ Here(t) = c
    \/ pc[t] \in {"commit", "count", "put"} /\ target[t] = c

\* The cell that a thread has moved to, if its stone still lies there.
HasMoved(t, c) == pc[t] \in {"last", "check", "over"} /\ target[t] = c /\ stone[t] = board[c]

Covers(t, c) == WillWrite(t, c) \/ HasMoved(t, c)

CoverInv ==
    \A c \in Occupied(board) : <<c, board[c]>> \in played \/ \E t \in Thread : Covers(t, c)

\* A step keeps CoverInv if that is so for the stones that its thread covered and
\* the ones that it has changed.
LEMMA CoverKept ==
    ASSUME CoverInv, NEW t \in Thread, OthersKeep(t), played \subseteq played',
           \A c \in Occupied(board') :
              \/ c \in Occupied(board) /\ board'[c] = board[c] /\ ~Covers(t, c)
              \/ <<c, board'[c]>> \in played'
              \/ Covers(t, c)'
    PROVE  CoverInv'
<1> SUFFICES ASSUME NEW c \in Occupied(board'), <<c, board'[c]>> \notin played', ~Covers(t, c)'
             PROVE  \E u \in Thread : Covers(u, c)'
  BY DEF CoverInv
<1>1. c \in Occupied(board) /\ board'[c] = board[c] /\ ~Covers(t, c)
  OBVIOUS
<1>2. PICK u \in Thread : Covers(u, c)
  BY <1>1 DEF CoverInv
<1>3. pc'[u] = pc[u] /\ target'[u] = target[u] /\ stone'[u] = stone[u] /\ Here(u)' = Here(u)
  BY <1>1, <1>2 DEF OthersKeep, Here
<1>4. Covers(u, c)'
  BY <1>1, <1>2, <1>3 DEF Covers, WillWrite, HasMoved
<1> QED
  BY <1>4

\* One cell has changed.
LEMMA CoverPlaced ==
    ASSUME Types, CoverInv, NEW t \in Thread, OthersKeep(t), played \subseteq played',
           NEW c \in Cell, NEW what \in Stone, board' = Placed(board, c, what),
           \A d \in Cell : d # c => ~Covers(t, d),
           \/ what = EMPTY
           \/ board'[c] = what => Covers(t, c)'
    PROVE  CoverInv'
<1>1. board'[c] = what /\ \A d \in Cell : d # c => board'[d] = board[d]
  BY DEF Placed, Types, Board
<1>2. \A d \in Occupied(board') : d \in Cell /\ (d # c => d \in Occupied(board))
  BY <1>1 DEF Occupied
<1>3. c \in Occupied(board') => what # EMPTY
  BY <1>1 DEF Occupied
<1>4. \A d \in Occupied(board') :
         \/ d \in Occupied(board) /\ board'[d] = board[d] /\ ~Covers(t, d)
         \/ <<d, board'[d]>> \in played'
         \/ Covers(t, d)'
  BY <1>1, <1>2, <1>3
<1> QED
  BY <1>4, CoverKept

\* No cell has, and what the thread covered it still covers, or it was played.
LEMMA CoverUnchanged ==
    ASSUME CoverInv, NEW t \in Thread, OthersKeep(t), played \subseteq played', UNCHANGED board,
           \A c \in Cell : Covers(t, c) => Covers(t, c)' \/ <<c, board'[c]>> \in played'
    PROVE  CoverInv'
<1>1. \A c \in Occupied(board') : c \in Cell /\ c \in Occupied(board)
  BY DEF Occupied
<1> QED
  BY <1>1, CoverKept

LEMMA LooksCoverNothing ==
    ASSUME NEW t \in Thread, pc[t] \in Looks \cup {"idle", "lock"}
    PROVE  \A c : ~Covers(t, c)
BY DEF Covers, WillWrite, HasMoved, Looks, Trials

LEMMA TrialsCover ==
    ASSUME NEW t \in Thread, pc[t] \in Trials
    PROVE  \A c : Covers(t, c) <=> c = Here(t)
BY DEF Covers, WillWrite, HasMoved, Trials

LEMMA TrialCovered ==
    ASSUME NEW t \in Thread, pc'[t] \in Trials, cursor'[t] = cursor[t]
    PROVE  \A c : c = Here(t) => Covers(t, c)'
BY DEF Covers, WillWrite, Here

LEMMA TargetCovered ==
    ASSUME NEW t \in Thread, pc'[t] \in {"commit", "count", "put"}
    PROVE  \A c : target'[t] = c => Covers(t, c)'
BY DEF Covers, WillWrite

\* The steps of getBestMove.
LEMMA LookCovers ==
    ASSUME Types, CoverInv, NEW t \in Thread, Within(t), UNCHANGED board, pc[t] \in Looks
    PROVE  CoverInv'
BY LooksCoverNothing, CoverUnchanged DEF Within

LEMMA TakeCovers ==
    ASSUME Types, CoverInv, NEW t \in Thread, NEW c \in Cell, Within(t), Moves(t, "commit"),
           pc[t] \in Looks, target'[t] = c, board' = Placed(board, c, AI_PLAYER)
    PROVE  CoverInv'
<1>1. Covers(t, c)'
  BY TargetCovered DEF Moves
<1>2. \A d : ~Covers(t, d)
  BY LooksCoverNothing
<1> QED
  BY <1>1, <1>2, CoverPlaced, StoneNames DEF Within

LEMMA getBestMoveCovers ==
    ASSUME Types, CoverInv, NEW t \in Thread, getBestMove(t)
    PROVE  CoverInv'
<1>1. CASE LookAt(t) \/ LookForEmpty(t) \/ RateCell(t) \/ CollectCell(t)
  BY <1>1, LookAtDoes, LookForEmptyDoes, RateCellDoes, CollectCellDoes, LookCovers DEF Looks
<1>2. CASE StepTwo(t) \/ StepThree(t) \/ StepFour(t)
  BY <1>2, StepsDo, LookCovers DEF Looks
<1>3. CASE TryAi(t)
  <2>1. /\ Within(t) /\ pc[t] \in Looks /\ cursor[t] < CellCount /\ UNCHANGED cursor
        /\ pc'[t] \in Trials /\ board' = Placed(board, Here(t), AI_PLAYER)
    BY <1>3, TryAiDoes DEF Moves, Looks, Trials
  <2>2. Here(t) \in Cell /\ \A c : c = Here(t) => Covers(t, c)'
    BY <2>1, HereIsCell, TrialCovered
  <2>3. \A d : ~Covers(t, d)
    BY <2>1, LooksCoverNothing
  <2> QED
    BY <2>1, <2>2, <2>3, CoverPlaced, StoneNames DEF Within
<1>4. CASE DropAi(t) \/ DropHuman(t)
  <2>1. /\ Within(t) /\ pc[t] \in Trials /\ cursor[t] < CellCount
        /\ board' = Placed(board, Here(t), EMPTY)
    BY <1>4, DropAiDoes, DropHumanDoes DEF Trials
  <2>2. Here(t) \in Cell /\ \A d : Covers(t, d) <=> d = Here(t)
    BY <2>1, HereIsCell, TrialsCover
  <2> QED
    BY <2>1, <2>2, CoverPlaced, StoneNames DEF Within
<1>5. CASE TryHuman(t)
  <2>1. /\ Within(t) /\ pc[t] \in Trials /\ cursor[t] < CellCount /\ UNCHANGED cursor
        /\ pc'[t] \in Trials /\ board' = Placed(board, Here(t), HUMAN_PLAYER)
    BY <1>5, TryHumanDoes DEF Moves, Trials
  <2>2. /\ Here(t) \in Cell /\ \A d : Covers(t, d) <=> d = Here(t)
        /\ \A c : c = Here(t) => Covers(t, c)'
    BY <2>1, HereIsCell, TrialCovered, TrialsCover
  <2> QED
    BY <2>1, <2>2, CoverPlaced, StoneNames DEF Within
<1>6. CASE CheckHuman(t) \/ CheckAi(t)
  <2>1. /\ Within(t) /\ pc[t] \in Trials /\ UNCHANGED board
        /\ \/ pc'[t] \in Trials /\ cursor'[t] = cursor[t]
           \/ pc'[t] = "commit" /\ target'[t] = Here(t)
    BY <1>6, CheckHumanDoes, CheckAiDoes DEF Moves, Trials
  <2>2. \A c : c = Here(t) => Covers(t, c)'
    BY <2>1, TrialCovered, TargetCovered
  <2>3. \A d : Covers(t, d) <=> d = Here(t)
    BY <2>1, TrialsCover
  <2> QED
    BY <2>1, <2>2, <2>3, CoverUnchanged DEF Within
<1>7. CASE Block(t)
  <2>1. /\ Within(t) /\ pc[t] \in Trials /\ cursor[t] < CellCount
        /\ pc'[t] = "commit" /\ target'[t] = Here(t) /\ board' = Placed(board, Here(t), AI_PLAYER)
    BY <1>7, BlockDoes DEF Moves, Trials
  <2>2. /\ Here(t) \in Cell /\ \A d : Covers(t, d) <=> d = Here(t)
        /\ \A c : c = Here(t) => Covers(t, c)'
    BY <2>1, HereIsCell, TargetCovered, TrialsCover
  <2> QED
    BY <2>1, <2>2, CoverPlaced, StoneNames DEF Within
<1>8. CASE TakeEmpty(t)
  BY <1>8, TakeEmptyDoes, HereIsCell, TakeCovers DEF Looks
<1>9. CASE TakeNear(t)
  BY <1>9, TakeNearDoes, TakeCovers DEF Looks
<1>10. CASE TakeBest(t)
  BY <1>10, TakeBestDoes, TakeCovers, LookCovers DEF Looks
<1> QED
  BY <1>1, <1>2, <1>3, <1>4, <1>5, <1>6, <1>7, <1>8, <1>9, <1>10 DEF getBestMove

\* The steps after it.
LEMMA MakeMoveCovers ==
    ASSUME Types, CoverInv, NEW t \in Thread, MakeMove(t)
    PROVE  CoverInv'
<1>1. CASE ReadCount(t) \/ WriteCount(t)
  <2>1. /\ OthersKeep(t) /\ pc[t] \in {"lock", "commit", "count"} /\ pc'[t] \in {"count", "put"}
        /\ UNCHANGED <<board, target, played>>
    BY <1>1, ReadCountDoes, WriteCountDoes DEF Moves
  <2>2. \A c : Covers(t, c) => target[t] = c
    BY <2>1 DEF Covers, WillWrite, HasMoved, Trials
  <2>3. \A c : target'[t] = c => Covers(t, c)'
    BY <2>1, TargetCovered
  <2> QED
    BY <2>1, <2>2, <2>3, CoverUnchanged
<1>2. CASE PutStone(t)
  <2>1. /\ OthersKeep(t) /\ pc[t] = "put" /\ pc'[t] = "last" /\ target[t] \in Cell /\ stone[t] \in Stone
        /\ board' = Placed(board, target[t], stone[t]) /\ UNCHANGED <<stone, target, played>>
    BY <1>2, PutStoneDoes, StoneNames DEF Moves
  <2>2. \A d : Covers(t, d) => target[t] = d
    BY <2>1 DEF Covers, WillWrite, HasMoved, Trials
  <2>3. board'[target[t]] = stone[t] => Covers(t, target[t])'
    BY <2>1 DEF Covers, HasMoved
  <2> QED
    BY <2>1, <2>2, <2>3, CoverPlaced
<1>3. CASE SetLastMove(t) \/ CheckWinner(t) \/ SetGameOver(t)
  <2>1. /\ OthersKeep(t) /\ pc[t] \in {"last", "check", "over"} /\ UNCHANGED board
        /\ \/ pc'[t] \in {"check", "over"} /\ UNCHANGED <<stone, target, played>>
           \/ played' = played \cup {<<target[t], stone[t]>>}
    BY <1>3, SetLastMoveDoes, CheckWinnerDoes, SetGameOverDoes DEF Moves
  <2>2. \A c : Covers(t, c) => target[t] = c /\ stone[t] = board[c]
    BY <2>1 DEF Covers, WillWrite, HasMoved, Trials
  <2>3. \A c : Covers(t, c) => Covers(t, c)' \/ <<c, board'[c]>> \in played'
    BY <2>1, <2>2 DEF Covers, HasMoved
  <2> QED
    BY <2>1, <2>3, CoverUnchanged
<1> QED
  BY <1>1, <1>2, <1>3 DEF MakeMove

LEMMA CoverStep == Types /\ CoverInv /\ [Next]_vars => CoverInv'
<1> SUFFICES ASSUME Types, CoverInv, [Next]_vars PROVE CoverInv'
  OBVIOUS
<1>1. ASSUME NEW t \in Thread, NEW c \in Place, HumanMoveTest(t, c) PROVE CoverInv'
  BY <1>1, HumanMoveTestDoes, LooksCoverNothing, CoverUnchanged
<1>2. ASSUME NEW t \in Thread, AiMoveTest(t) PROVE CoverInv'
  BY <1>2, AiMoveTestDoes, LooksCoverNothing, CoverUnchanged
<1>3. CASE UNCHANGED vars
  BY <1>3 DEF vars, game, locals, CoverInv, Covers, WillWrite, HasMoved, Here
<1> QED
  BY <1>1, <1>2, <1>3, getBestMoveCovers, MakeMoveCovers DEF Next, Continue

\* Whatever threads do to each other's stones, a stone that is on the board
\* between calls is one that somebody has played.
THEOREM StonesWerePlayedCorrect == Spec => []StonesWerePlayed
<1>1. Init => CoverInv
  <2> SUFFICES ASSUME Init PROVE CoverInv
    OBVIOUS
  <2>1. Occupied(board) = {}
    BY DEF Init, Occupied, EmptyBoard
  <2> QED
    BY <2>1 DEF CoverInv
<1>2. CoverInv => StonesWerePlayed
  <2> SUFFICES ASSUME CoverInv, Quiet PROVE StonesWerePlayed
    BY DEF StonesWerePlayed
  <2>1. \A t \in Thread : \A c : ~Covers(t, c)
    BY LooksCoverNothing DEF Quiet, At
  <2> QED
    BY <2>1 DEF CoverInv, StonesWerePlayed
<1> QED
  BY <1>1, <1>2, CoverStep, TypesCorrect, PTL DEF Spec

---------------------------------------------------------------------------
(* One thread: the board is the moves, the AI has found what it looks for, *)
(* and what was declared is true.                                          *)

OneThread == \E t \in Thread : Thread = {t}

\* s is the board without what thread t tries, or is moving.
OnBoard(s, t) ==
    /\ pc[t] \in {"idle", "lock", "tryHuman"} \cup Looks => board = s
    /\ pc[t] \in {"triedAi", "dropAi"} => board = Placed(s, Here(t), AI_PLAYER)
    /\ pc[t] \in {"triedHuman", "block", "dropHuman"} => board = Placed(s, Here(t), HUMAN_PLAYER)
    /\ pc[t] \in {"commit", "count", "put"} =>
          board = IF stone[t] = AI_PLAYER THEN Placed(s, target[t], AI_PLAYER) ELSE s
    /\ pc[t] \in {"last", "check", "over"} => board = Placed(s, target[t], stone[t])
    /\ pc[t] \in OnCell => s[Here(t)] = EMPTY
    /\ pc[t] \in HasTarget => s[target[t]] = EMPTY
    /\ pc[t] \in Looks \cup Trials \cup {"commit"} => stone[t] = AI_PLAYER
    /\ pc[t] = "lock" => stone[t] = HUMAN_PLAYER
    /\ pc[t] \notin {"collect", "outOfBounds"}

Counting(s, t) ==
    /\ moveCount = Cardinality(Occupied(s)) + (IF pc[t] \in {"put", "last", "check", "over"} THEN 1 ELSE 0)
    /\ pc[t] = "count" => seen[t] = moveCount
    /\ pc[t] # "idle" => ~gameOver /\ Cardinality(Occupied(s)) < CellCount

Declared(s, t) ==
    /\ played = {<<c, s[c]>> : c \in Occupied(s)}
    /\ gameOver <=> winner # "none"
    /\ winner = "human" <=> HasLine(s, HUMAN_PLAYER)
    /\ pc[t] \in {"check", "over"} => lastMove = target[t]
    /\ pc[t] = "over" => checkWin(board, target[t], HUMAN_PLAYER)

\* A move to c is right if there is nothing to find, or c is the first to be found.
FirstThreat(b, c) == \A d \in Cell : Decisive(b, d) => Decisive(b, c) /\ Number(c) <= Number(d)

\* The AI's last move was.
LastMet(s) ==
    lastMove # NoMove /\ s[lastMove] = AI_PLAYER => FirstThreat(Placed(s, lastMove, EMPTY), lastMove)

Choosing(s, t) ==
    /\ pc[t] \in {"scan", "tryAi"} \cup Trials => \A d \in Cell : Decisive(s, d) => cursor[t] <= Number(d)
    /\ pc[t] \in {"dropAi", "tryHuman", "triedHuman", "block", "dropHuman"} =>
          ~checkWin(Placed(s, Here(t), AI_PLAYER), Here(t), AI_PLAYER)
    /\ pc[t] = "block" => checkWin(Placed(s, Here(t), HUMAN_PLAYER), Here(t), HUMAN_PLAYER)
    /\ pc[t] = "dropHuman" => ~checkWin(Placed(s, Here(t), HUMAN_PLAYER), Here(t), HUMAN_PLAYER)
    /\ pc[t] \in {"rate", "first", "take"} => \A d \in Cell : ~Decisive(s, d)
    /\ pc[t] = "first" \/ (pc[t] = "rate" /\ best[t] = NoMove) =>
          \A d \in Cell : Number(d) < cursor[t] => s[d] # EMPTY
    /\ pc[t] \in HasTarget /\ stone[t] = AI_PLAYER => FirstThreat(s, target[t])
    /\ pc[t] \notin {"check", "over"} => LastMet(s)

Settled(s, t) == OnBoard(s, t) /\ Counting(s, t) /\ Declared(s, t) /\ Choosing(s, t)

SettledInv == \E s \in Board : \A t \in Thread : Settled(s, t)

\* A thread that has rated no cell takes any threat for the greatest.
RatingInv == \A t \in Thread : best[t] = NoMove => threat[t] = -1

LEMMA RatingStep == Types /\ RatingInv /\ [Next]_vars => RatingInv'
<1> SUFFICES ASSUME Types, RatingInv, [Next]_vars PROVE RatingInv'
  OBVIOUS
<1>1. CASE UNCHANGED choice
  BY <1>1 DEF choice, RatingInv
<1>2. ASSUME NEW t \in Thread, NEW c, Choose(t, c) PROVE RatingInv'
  BY <1>2 DEF Choose, RatingInv, Types
<1>3. ASSUME NEW t \in Thread, RateCell(t) PROVE RatingInv'
  <2>1. cursor[t] < CellCount /\ Here(t) \in Cell /\ Here(t) # NoMove
    BY <1>3, HereIsCell DEF RateCell, NoMove, Cell, Coordinate
  <2>2. \/ UNCHANGED <<threat, best>>
        \/ \E level : /\ threat' = [threat EXCEPT ![t] = level]
                      /\ best' = [best EXCEPT ![t] = Here(t)]
    BY <1>3 DEF RateCell
  <2> QED
    BY <2>1, <2>2 DEF RatingInv, Types
<1>4. ASSUME NEW t \in Thread, CollectCell(t) PROVE RatingInv'
  BY <1>4 DEF CollectCell, RatingInv
<1>5. ASSUME NEW t \in Thread, getBestMove(t) PROVE RatingInv'
  <2>1. CASE LookAt(t) \/ LookForEmpty(t) \/ StepTwo(t) \/ StepThree(t) \/ StepFour(t)
    BY <1>1, <2>1 DEF LookAt, LookForEmpty, StepTwo, StepThree, StepFour, EndOfLoop
  <2>2. CASE TryAi(t) \/ DropAi(t) \/ TryHuman(t) \/ DropHuman(t)
    BY <1>1, <2>2 DEF TryAi, DropAi, TryHuman, DropHuman, Write
  <2>3. CASE CheckAi(t) \/ CheckHuman(t)
    BY <1>1, <1>2, <2>3 DEF CheckAi, CheckHuman, locals
  <2>4. CASE Block(t) \/ TakeEmpty(t) \/ TakeNear(t) \/ TakeBest(t)
    BY <1>1, <1>2, <2>4 DEF Block, TakeEmpty, TakeNear, TakeBest, Take, locals
  <2> QED
    BY <1>3, <1>4, <1>5, <2>1, <2>2, <2>3, <2>4 DEF getBestMove
<1>6. ASSUME NEW t \in Thread, MakeMove(t) PROVE UNCHANGED choice
  BY <1>6 DEF MakeMove, ReadCount, WriteCount, PutStone, SetLastMove, CheckWinner, SetGameOver, Return, locals
<1>7. CASE UNCHANGED vars
  BY <1>1, <1>7 DEF vars, locals
<1> QED
  BY <1>1, <1>5, <1>6, <1>7 DEF Next, Continue, HumanMoveTest, AiMoveTest, Call

\* The loops of getBestMove start at the first cell.
CursorInv == \A t \in Thread : pc[t] \in {"idle"} \cup HasTarget => cursor[t] = 0

LEMMA CursorStep == Types /\ CursorInv /\ [Next]_vars => CursorInv'
<1> SUFFICES ASSUME Types, CursorInv, [Next]_vars PROVE CursorInv'
  OBVIOUS
<1>1. ASSUME NEW t \in Thread, OthersKeep(t), pc'[t] \in {"idle"} \cup HasTarget => cursor'[t] = 0
      PROVE  CursorInv'
  BY <1>1 DEF OthersKeep, CursorInv
<1>2. ASSUME NEW t \in Thread, NEW c, Choose(t, c) PROVE cursor'[t] = 0
  BY <1>2, CursorRestarts DEF Choose
<1>3. ASSUME NEW t \in Thread, getBestMove(t) PROVE CursorInv'
  <2>1. /\ OthersKeep(t)
        /\ \E where \in Looks \cup Trials \cup {"commit", "outOfBounds"} : pc'[t] = where
    BY <1>3, getBestMoveDoes DEF Within, Moves
  <2>2. pc'[t] = "commit" => cursor'[t] = 0
    <3>1. CASE CheckAi(t)
      BY <1>2, <3>1, CheckAiDoes DEF CheckAi, Moves
    <3>2. CASE Block(t) \/ TakeEmpty(t) \/ TakeNear(t)
      BY <1>2, <3>2 DEF Block, TakeEmpty, TakeNear, Take
    <3>3. CASE TakeBest(t)
      BY <1>2, <3>3, TakeBestDoes DEF TakeBest, Take, Moves
    <3>4. CASE LookAt(t) \/ LookForEmpty(t) \/ RateCell(t) \/ CollectCell(t)
      BY <3>4, LookAtDoes, LookForEmptyDoes, RateCellDoes, CollectCellDoes DEF Moves
    <3>5. CASE TryAi(t) \/ DropAi(t) \/ TryHuman(t) \/ CheckHuman(t) \/ DropHuman(t)
      BY <3>5, TryAiDoes, DropAiDoes, TryHumanDoes, CheckHumanDoes, DropHumanDoes DEF Moves
    <3>6. CASE StepTwo(t) \/ StepThree(t) \/ StepFour(t)
      BY <3>6, StepsDo DEF Moves
    <3> QED
      BY <1>3, <3>1, <3>2, <3>3, <3>4, <3>5, <3>6 DEF getBestMove
  <2> QED
    BY <1>1, <2>1, <2>2, PcNames
<1>4. ASSUME NEW t \in Thread, MakeMove(t) PROVE CursorInv'
  <2>1. UNCHANGED cursor /\ pc[t] \in HasTarget
    BY <1>4, PcNames
    DEF MakeMove, ReadCount, WriteCount, PutStone, SetLastMove, CheckWinner, SetGameOver, Return, locals, At
  <2>2. OthersKeep(t)
    BY <1>4, ReadCountDoes, WriteCountDoes, PutStoneDoes, SetLastMoveDoes, CheckWinnerDoes, SetGameOverDoes
    DEF MakeMove
  <2> QED
    BY <1>1, <2>1, <2>2 DEF CursorInv
<1>5. ASSUME NEW t \in Thread, NEW c \in Place, HumanMoveTest(t, c) PROVE CursorInv'
  BY <1>1, <1>5, HumanMoveTestDoes DEF CursorInv
<1>6. ASSUME NEW t \in Thread, AiMoveTest(t) PROVE CursorInv'
  BY <1>1, <1>6, AiMoveTestDoes DEF CursorInv
<1>7. CASE UNCHANGED vars
  BY <1>7 DEF vars, locals, CursorInv
<1> QED
  BY <1>3, <1>4, <1>5, <1>6, <1>7 DEF Next, Continue

\* With one thread it is enough to look at that one.
LEMMA SettledIntro ==
    ASSUME OneThread, NEW t \in Thread, NEW s \in Board, Settled(s, t)'
    PROVE  SettledInv'
<1>1. \A u \in Thread : u = t
  BY DEF OneThread
<1> QED
  BY <1>1 DEF SettledInv

\* The loops and the numbers of their cells.
LEMMA CursorIsNumber ==
    ASSUME Types, NEW t \in Thread, cursor[t] < CellCount
    PROVE  /\ Number(Here(t)) = cursor[t]
           /\ \A d \in Cell : Number(d) < cursor[t] + 1 => Number(d) < cursor[t] \/ d = Here(t)
<1>1. cursor[t] \in 0..CellCount - 1
  BY HereIsCell
<1>2. Number(Here(t)) = cursor[t]
  BY <1>1, NumberOfCellAt DEF Here
<1>3. ASSUME NEW d \in Cell, Number(d) < cursor[t] + 1, ~(Number(d) < cursor[t]) PROVE d = Here(t)
  <2>1. Number(d) \in Nat /\ CellAt(Number(d)) = d
    BY NumberType, CellHasNumber
  <2>2. Number(d) = cursor[t]
    BY <1>1, <1>3, <2>1
  <2> QED
    BY <2>1, <2>2 DEF Here
<1> QED
  BY <1>2, <1>3

\* The first cell that the scan finds is the first there is to find.
LEMMA FoundIsFirst ==
    ASSUME Types, NEW t \in Thread, cursor[t] < CellCount, NEW s \in Board, NEW player \in Player,
           s[Here(t)] = EMPTY, checkWin(Placed(s, Here(t), player), Here(t), player),
           \A d \in Cell : Decisive(s, d) => cursor[t] <= Number(d)
    PROVE  FirstThreat(s, Here(t))
<1>1. Decisive(s, Here(t))
  BY DEF Decisive, Placed
<1> QED
  BY <1>1, CursorIsNumber DEF FirstThreat

\* A cell that is not decisive is passed.
LEMMA PassedCell ==
    ASSUME Types, NEW t \in Thread, cursor[t] < CellCount, NEW s \in Board,
           \/ s[Here(t)] # EMPTY
           \/ \A player \in Player : ~checkWin(Placed(s, Here(t), player), Here(t), player),
           \A d \in Cell : Decisive(s, d) => cursor[t] <= Number(d)
    PROVE  \A d \in Cell : Decisive(s, d) => cursor[t] + 1 <= Number(d)
<1>1. ~Decisive(s, Here(t))
  BY DEF Decisive, Placed
<1>2. cursor[t] \in Nat
  BY HereIsCell
<1> SUFFICES ASSUME NEW d \in Cell, Decisive(s, d) PROVE cursor[t] + 1 <= Number(d)
  OBVIOUS
<1>3. Number(d) \in Nat /\ cursor[t] <= Number(d) /\ d # Here(t)
  BY <1>1, NumberType
<1>4. ~(Number(d) < cursor[t] + 1)
  BY <1>2, <1>3, CursorIsNumber
<1> QED
  BY <1>2, <1>3, <1>4

LEMMA StonesCounted ==
    ASSUME NEW s \in Board
    PROVE  IsFiniteSet(Occupied(s)) /\ Cardinality(Occupied(s)) \in Nat
BY CellsFinite, FS_Subset, FS_CardinalityType DEF Occupied

\* While a call is under way there is room on the board.
LEMMA RoomLeft ==
    ASSUME NEW s \in Board, Cardinality(Occupied(s)) < CellCount
    PROVE  \E d \in Cell : s[d] = EMPTY /\ Number(d) < CellCount
<1>1. PICK d \in Cell : s[d] = EMPTY
  BY FewStones DEF IsFull, Occupied
<1>2. Number(d) < CellCount
  BY CellHasNumber, CellCountType
<1> QED
  BY <1>1, <1>2

\* Within getBestMove nothing is counted and nothing declared.
LEMMA ScanSettled ==
    ASSUME OneThread, NEW t \in Thread, NEW s \in Board, Settled(s, t), Within(t),
           pc[t] \in Looks \cup Trials, pc'[t] \in Looks \cup Trials \cup {"commit"},
           OnBoard(s, t)', LastMet(s)' => Choosing(s, t)'
    PROVE  SettledInv'
<1>1. UNCHANGED <<gameOver, winner, moveCount, lastMove, played>>
  BY DEF Within
<1>2. /\ pc[t] \notin {"idle", "count", "put", "last", "check", "over"}
      /\ pc'[t] \notin {"idle", "count", "put", "last", "check", "over"}
  BY PcNames
<1>3. Counting(s, t)'
  BY <1>1, <1>2 DEF Settled, Counting
<1>4. Declared(s, t)'
  BY <1>1, <1>2 DEF Settled, Declared
<1>5. LastMet(s)'
  BY <1>1, <1>2 DEF Settled, Choosing, LastMet
<1> QED
  BY <1>3, <1>4, <1>5, SettledIntro DEF Settled

\* A call begins: there is room, and the game is not over.
LEMMA CallSettled ==
    ASSUME OneThread, Types, NEW t \in Thread, NEW s \in Board, Settled(s, t),
           pc[t] = "idle", ~gameOver, moveCount < CellCount,
           UNCHANGED <<board, gameOver, winner, moveCount, lastMove, played>>,
           \/ pc'[t] = "lock" /\ stone'[t] = HUMAN_PLAYER /\ board[target'[t]] = EMPTY
           \/ pc'[t] = "scan" /\ stone'[t] = AI_PLAYER /\ cursor'[t] = 0
    PROVE  SettledInv'
<1>0. Cardinality(Occupied(s)) \in Nat
  BY StonesCounted
<1>1. board = s /\ moveCount = Cardinality(Occupied(s)) /\ LastMet(s)
  BY <1>0, PcNames DEF Settled, OnBoard, Counting, Choosing, Looks
<1>2. OnBoard(s, t)'
  BY <1>1, PcNames DEF OnBoard, Looks, Trials
<1>3. Counting(s, t)'
  BY <1>0, <1>1 DEF Counting
<1>4. Declared(s, t)'
  BY DEF Settled, Declared
<1>5. \A d \in Cell : 0 <= Number(d)
  BY NumberType
<1>6. LastMet(s)' /\ HUMAN_PLAYER # AI_PLAYER
  BY <1>1 DEF LastMet, HUMAN_PLAYER, AI_PLAYER
<1>7. Choosing(s, t)'
  BY <1>5, <1>6, PcNames DEF Choosing, Trials
<1> QED
  BY <1>2, <1>3, <1>4, <1>7, SettledIntro DEF Settled

LEMMA LookAtSettled ==
    ASSUME OneThread, Types, NEW t \in Thread, LookAt(t), NEW s \in Board, Settled(s, t)
    PROVE  SettledInv'
<1>1. /\ Within(t) /\ UNCHANGED board /\ pc[t] = "scan" /\ cursor[t] < CellCount /\ stone'[t] = stone[t]
      /\ board[Here(t)] = EMPTY => pc'[t] = "tryAi" /\ cursor'[t] = cursor[t]
      /\ board[Here(t)] # EMPTY => pc'[t] = "scan" /\ cursor'[t] = cursor[t] + 1
  BY LookAtDoes DEF Within, Moves
<1>2. board = s /\ stone[t] = AI_PLAYER /\ \A d \in Cell : Decisive(s, d) => cursor[t] <= Number(d)
  BY <1>1 DEF Settled, OnBoard, Choosing, Looks
<1>3. CASE board[Here(t)] = EMPTY
  <2>1. Here(t)' = Here(t)
    BY <1>1, <1>3 DEF Here
  <2>2. OnBoard(s, t)'
    BY <1>1, <1>2, <1>3, <2>1, PcNames DEF OnBoard, Looks
  <2>3. LastMet(s)' => Choosing(s, t)'
    BY <1>1, <1>2, <1>3, PcNames DEF Choosing, Trials
  <2> QED
    BY <1>1, <1>3, <2>2, <2>3, ScanSettled DEF Looks
<1>4. CASE board[Here(t)] # EMPTY
  <2>1. OnBoard(s, t)'
    BY <1>1, <1>2, <1>4, PcNames DEF OnBoard, Looks
  <2>2. \A d \in Cell : Decisive(s, d) => cursor[t] + 1 <= Number(d)
    BY <1>1, <1>2, <1>4, PassedCell
  <2>3. LastMet(s)' => Choosing(s, t)'
    BY <1>1, <1>4, <2>2, PcNames DEF Choosing, Trials
  <2> QED
    BY <1>1, <1>4, <2>1, <2>3, ScanSettled DEF Looks
<1> QED
  BY <1>3, <1>4

\* A trial, or one that is taken back.
LEMMA TrialSettled ==
    ASSUME OneThread, Types, NEW t \in Thread, TryAi(t) \/ DropAi(t) \/ TryHuman(t),
           NEW s \in Board, Settled(s, t)
    PROVE  SettledInv'
<1>1. /\ Within(t) /\ cursor[t] < CellCount /\ cursor'[t] = cursor[t] /\ stone'[t] = stone[t]
      /\ \/ /\ pc[t] = "tryAi" /\ pc'[t] = "triedAi" /\ board' = Placed(board, Here(t), AI_PLAYER)
         \/ /\ pc[t] = "dropAi" /\ pc'[t] = "tryHuman" /\ board' = Placed(board, Here(t), EMPTY)
         \/ /\ pc[t] = "tryHuman" /\ pc'[t] = "triedHuman" /\ board' = Placed(board, Here(t), HUMAN_PLAYER)
  BY TryAiDoes, DropAiDoes, TryHumanDoes DEF Within, Moves
<1>2. /\ s[Here(t)] = EMPTY /\ stone[t] = AI_PLAYER
      /\ pc[t] \in {"tryAi", "tryHuman"} => board = s
      /\ pc[t] = "dropAi" => board = Placed(s, Here(t), AI_PLAYER)
  BY <1>1, PcNames DEF Settled, OnBoard, Looks
<1>3. Here(t) \in Cell /\ Here(t)' = Here(t)
  BY <1>1, HereIsCell DEF Here
<1>4. Placed(Placed(s, Here(t), AI_PLAYER), Here(t), EMPTY) = s
  BY <1>2, <1>3, PlacedTwice, StoneNames
<1>5. /\ pc'[t] = "triedAi" => board' = Placed(s, Here(t), AI_PLAYER)
      /\ pc'[t] = "tryHuman" => board' = s
      /\ pc'[t] = "triedHuman" => board' = Placed(s, Here(t), HUMAN_PLAYER)
      /\ pc'[t] \in {"triedAi", "tryHuman", "triedHuman"}
  BY <1>1, <1>2, <1>4
<1>6. OnBoard(s, t)'
  BY <1>1, <1>2, <1>3, <1>5, PcNames DEF OnBoard, Looks
<1>7. LastMet(s)' => Choosing(s, t)'
  BY <1>1, <1>3, <1>5, PcNames DEF Settled, Choosing, Trials
<1> QED
  BY <1>1, <1>5, <1>6, <1>7, PcNames, ScanSettled

\* The AI takes cell c, on which there may be a trial.
LEMMA TakeSettled ==
    ASSUME OneThread, NEW t \in Thread, NEW s \in Board, Settled(s, t), Within(t),
           pc[t] \in Looks \cup Trials, pc'[t] = "commit", NEW c \in Cell, target'[t] = c,
           board' = Placed(s, c, AI_PLAYER), s[c] = EMPTY, FirstThreat(s, c)
    PROVE  SettledInv'
<1>1. stone'[t] = AI_PLAYER
  BY DEF Within, Settled, OnBoard
<1>2. OnBoard(s, t)'
  BY <1>1, PcNames DEF OnBoard, Looks
<1>3. LastMet(s)' => Choosing(s, t)'
  BY PcNames DEF Choosing, Trials
<1> QED
  BY <1>2, <1>3, ScanSettled

LEMMA CheckAiSettled ==
    ASSUME OneThread, Types, NEW t \in Thread, CheckAi(t), NEW s \in Board, Settled(s, t)
    PROVE  SettledInv'
<1>1. /\ Within(t) /\ UNCHANGED board /\ pc[t] = "triedAi" /\ cursor[t] < CellCount /\ stone'[t] = stone[t]
      /\ checkWin(board, Here(t), AI_PLAYER) => pc'[t] = "commit" /\ target'[t] = Here(t)
      /\ ~checkWin(board, Here(t), AI_PLAYER) => pc'[t] = "dropAi" /\ UNCHANGED cursor
  BY CheckAiDoes DEF Within, Moves
<1>2. /\ board = Placed(s, Here(t), AI_PLAYER) /\ s[Here(t)] = EMPTY /\ stone[t] = AI_PLAYER
      /\ \A d \in Cell : Decisive(s, d) => cursor[t] <= Number(d)
  BY <1>1, PcNames DEF Settled, OnBoard, Choosing, Trials
<1>3. Here(t) \in Cell /\ pc[t] \in Looks \cup Trials
  BY <1>1, HereIsCell, PcNames
<1>4. CASE checkWin(board, Here(t), AI_PLAYER)
  <2>1. FirstThreat(s, Here(t))
    BY <1>1, <1>2, <1>4, FoundIsFirst, StoneNames
  <2> QED
    BY <1>1, <1>2, <1>3, <1>4, <2>1, TakeSettled
<1>5. CASE ~checkWin(board, Here(t), AI_PLAYER)
  <2>1. pc'[t] = "dropAi" /\ Here(t)' = Here(t) /\ cursor'[t] = cursor[t]
    BY <1>1, <1>5 DEF Here
  <2>2. OnBoard(s, t)'
    BY <1>1, <1>2, <2>1, PcNames DEF OnBoard, Looks
  <2>3. LastMet(s)' => Choosing(s, t)'
    BY <1>2, <1>5, <2>1, PcNames DEF Choosing, Trials
  <2> QED
    BY <1>1, <1>3, <2>1, <2>2, <2>3, ScanSettled, PcNames
<1> QED
  BY <1>4, <1>5

LEMMA CheckHumanSettled ==
    ASSUME OneThread, Types, NEW t \in Thread, CheckHuman(t), NEW s \in Board, Settled(s, t)
    PROVE  SettledInv'
<1>1. /\ Within(t) /\ UNCHANGED <<board, cursor>> /\ pc[t] = "triedHuman" /\ stone'[t] = stone[t]
      /\ pc'[t] \in {"block", "dropHuman"}
      /\ pc'[t] = "block" <=> checkWin(board, Here(t), HUMAN_PLAYER)
  BY CheckHumanDoes DEF Within, Moves
<1>2. /\ board = Placed(s, Here(t), HUMAN_PLAYER) /\ s[Here(t)] = EMPTY /\ stone[t] = AI_PLAYER
      /\ \A d \in Cell : Decisive(s, d) => cursor[t] <= Number(d)
      /\ ~checkWin(Placed(s, Here(t), AI_PLAYER), Here(t), AI_PLAYER)
  BY <1>1, PcNames DEF Settled, OnBoard, Choosing, Trials
<1>3. Here(t)' = Here(t) /\ cursor'[t] = cursor[t]
  BY <1>1 DEF Here
<1>4. OnBoard(s, t)'
  BY <1>1, <1>2, <1>3, PcNames DEF OnBoard, Looks
<1>5. LastMet(s)' => Choosing(s, t)'
  BY <1>1, <1>2, <1>3, PcNames DEF Choosing, Trials
<1> QED
  BY <1>1, <1>4, <1>5, ScanSettled, PcNames

LEMMA BlockSettled ==
    ASSUME OneThread, Types, NEW t \in Thread, Block(t), NEW s \in Board, Settled(s, t)
    PROVE  SettledInv'
<1>1. /\ Within(t) /\ pc[t] = "block" /\ cursor[t] < CellCount /\ pc'[t] = "commit"
      /\ target'[t] = Here(t) /\ board' = Placed(board, Here(t), AI_PLAYER)
  BY BlockDoes DEF Moves
<1>2. /\ board = Placed(s, Here(t), HUMAN_PLAYER) /\ s[Here(t)] = EMPTY
      /\ \A d \in Cell : Decisive(s, d) => cursor[t] <= Number(d)
      /\ checkWin(Placed(s, Here(t), HUMAN_PLAYER), Here(t), HUMAN_PLAYER)
  BY <1>1, PcNames DEF Settled, OnBoard, Choosing, Trials
<1>3. Here(t) \in Cell /\ pc[t] \in Looks \cup Trials
  BY <1>1, HereIsCell, PcNames
<1>4. FirstThreat(s, Here(t))
  BY <1>1, <1>2, FoundIsFirst, StoneNames
<1>5. board' = Placed(s, Here(t), AI_PLAYER)
  BY <1>1, <1>2, <1>3, PlacedTwice, StoneNames
<1> QED
  BY <1>1, <1>2, <1>3, <1>4, <1>5, TakeSettled

LEMMA DropHumanSettled ==
    ASSUME OneThread, Types, NEW t \in Thread, DropHuman(t), NEW s \in Board, Settled(s, t)
    PROVE  SettledInv'
<1>1. /\ Within(t) /\ pc[t] = "dropHuman" /\ cursor[t] < CellCount /\ cursor'[t] = cursor[t] + 1
      /\ pc'[t] = "scan" /\ board' = Placed(board, Here(t), EMPTY) /\ stone'[t] = stone[t]
  BY DropHumanDoes DEF Within, Moves
<1>2. /\ board = Placed(s, Here(t), HUMAN_PLAYER) /\ s[Here(t)] = EMPTY /\ stone[t] = AI_PLAYER
      /\ \A d \in Cell : Decisive(s, d) => cursor[t] <= Number(d)
      /\ ~checkWin(Placed(s, Here(t), AI_PLAYER), Here(t), AI_PLAYER)
      /\ ~checkWin(Placed(s, Here(t), HUMAN_PLAYER), Here(t), HUMAN_PLAYER)
  BY <1>1, PcNames DEF Settled, OnBoard, Choosing, Trials
<1>3. Here(t) \in Cell /\ pc[t] \in Looks \cup Trials
  BY <1>1, HereIsCell, PcNames
<1>4. board' = s
  BY <1>1, <1>2, <1>3, PlacedTwice, StoneNames
<1>5. \A d \in Cell : Decisive(s, d) => cursor[t] + 1 <= Number(d)
  BY <1>1, <1>2, PassedCell DEF Player
<1>6. OnBoard(s, t)'
  BY <1>1, <1>2, <1>4, PcNames DEF OnBoard, Looks
<1>7. LastMet(s)' => Choosing(s, t)'
  BY <1>1, <1>5, PcNames DEF Choosing, Trials
<1> QED
  BY <1>1, <1>3, <1>6, <1>7, ScanSettled, PcNames

\* Step 1 has found nothing; step 2 finds an empty cell, since there is one.
LEMMA StepsSettled ==
    ASSUME OneThread, Types, NEW t \in Thread, StepTwo(t) \/ StepThree(t) \/ StepFour(t),
           NEW s \in Board, Settled(s, t)
    PROVE  SettledInv'
<1>1. /\ Within(t) /\ UNCHANGED <<board, best>> /\ cursor[t] = CellCount /\ cursor'[t] = 0 /\ stone'[t] = stone[t]
      /\ \/ pc[t] = "scan" /\ pc'[t] = "rate"
         \/ pc[t] = "rate" /\ pc'[t] = "collect" /\ best[t] = NoMove
         \/ pc[t] = "rate" /\ pc'[t] = "first"
         \/ pc[t] = "collect"
  BY StepsDo DEF Within, Moves
<1>2. board = s /\ stone[t] = AI_PLAYER /\ pc[t] # "collect"
  BY <1>1, PcNames DEF Settled, OnBoard, Looks
<1>3. ~(pc[t] = "rate" /\ best[t] = NoMove)
  <2>1. \E d \in Cell : s[d] = EMPTY /\ Number(d) < CellCount
    BY <1>1, RoomLeft DEF Settled, Counting
  <2> QED
    BY <1>1, <2>1 DEF Settled, Choosing
<1>4. pc[t] \in {"scan", "rate"} /\ pc'[t] \in {"rate", "first"}
  BY <1>1, <1>2, <1>3
<1>5. \A d \in Cell : ~Decisive(s, d)
  <2>1. CASE pc[t] = "scan"
    <3>1. \A d \in Cell : Number(d) < CellCount /\ Number(d) \in Nat /\ CellCount \in Nat
      BY CellHasNumber, CellCountType
    <3>2. \A d \in Cell : Decisive(s, d) => CellCount <= Number(d)
      BY <1>1, <2>1 DEF Settled, Choosing
    <3> QED
      BY <3>1, <3>2
  <2>2. CASE pc[t] = "rate"
    BY <2>2 DEF Settled, Choosing
  <2> QED
    BY <1>4, <2>1, <2>2
<1>6. \A d \in Cell : ~(Number(d) < 0)
  BY NumberType
<1>7. OnBoard(s, t)'
  BY <1>1, <1>2, <1>4, PcNames DEF OnBoard, Looks
<1>8. LastMet(s)' => Choosing(s, t)'
  BY <1>1, <1>4, <1>5, <1>6, PcNames DEF Choosing, Trials
<1> QED
  BY <1>1, <1>4, <1>7, <1>8, ScanSettled, PcNames

LEMMA RateCellSettled ==
    ASSUME OneThread, Types, RatingInv, NEW t \in Thread, RateCell(t), NEW s \in Board, Settled(s, t)
    PROVE  SettledInv'
<1>1. /\ Within(t) /\ UNCHANGED board /\ pc[t] = "rate" /\ pc'[t] = "rate" /\ stone'[t] = stone[t]
      /\ cursor[t] < CellCount /\ cursor'[t] = cursor[t] + 1
  BY RateCellDoes DEF Within, Moves
<1>2. /\ board = s /\ stone[t] = AI_PLAYER /\ \A d \in Cell : ~Decisive(s, d)
      /\ best[t] = NoMove => \A d \in Cell : Number(d) < cursor[t] => s[d] # EMPTY
  BY <1>1, PcNames DEF Settled, OnBoard, Choosing, Looks
<1>3. best'[t] = NoMove => best[t] = NoMove /\ s[Here(t)] # EMPTY
  <2> SUFFICES ASSUME best'[t] = NoMove PROVE best[t] = NoMove /\ s[Here(t)] # EMPTY
    OBVIOUS
  <2>1. Here(t) # NoMove /\ evaluateThreat(board, Here(t)) \in Nat
    BY <1>1, HereIsCell, ThreatType DEF NoMove, Cell, Coordinate
  <2>2. ~(board[Here(t)] = EMPTY /\ evaluateThreat(board, Here(t)) > threat[t])
    BY <2>1 DEF RateCell, Types
  <2>3. best[t] = NoMove
    BY <2>2 DEF RateCell
  <2>4. threat[t] = -1
    BY <2>3 DEF RatingInv
  <2> QED
    BY <1>2, <2>1, <2>2, <2>3, <2>4
<1>4. best'[t] = NoMove => \A d \in Cell : Number(d) < cursor'[t] => s[d] # EMPTY
  BY <1>1, <1>2, <1>3, CursorIsNumber
<1>5. OnBoard(s, t)'
  BY <1>1, <1>2, PcNames DEF OnBoard, Looks
<1>6. LastMet(s)' => Choosing(s, t)'
  BY <1>1, <1>2, <1>4, PcNames DEF Choosing, Trials
<1> QED
  BY <1>1, <1>5, <1>6, ScanSettled, PcNames

LEMMA LookForEmptySettled ==
    ASSUME OneThread, Types, NEW t \in Thread, LookForEmpty(t), NEW s \in Board, Settled(s, t)
    PROVE  SettledInv'
<1>1. /\ Within(t) /\ UNCHANGED board /\ pc[t] = "first" /\ cursor[t] < CellCount /\ stone'[t] = stone[t]
      /\ board[Here(t)] = EMPTY => pc'[t] = "take" /\ cursor'[t] = cursor[t]
      /\ board[Here(t)] # EMPTY => pc'[t] = "first" /\ cursor'[t] = cursor[t] + 1
  BY LookForEmptyDoes DEF Within, Moves
<1>2. /\ board = s /\ stone[t] = AI_PLAYER /\ \A d \in Cell : ~Decisive(s, d)
      /\ \A d \in Cell : Number(d) < cursor[t] => s[d] # EMPTY
  BY <1>1, PcNames DEF Settled, OnBoard, Choosing, Looks
<1>3. CASE board[Here(t)] = EMPTY
  <2>1. pc'[t] = "take" /\ Here(t)' = Here(t)
    BY <1>1, <1>3 DEF Here
  <2>2. OnBoard(s, t)'
    BY <1>1, <1>2, <1>3, <2>1, PcNames DEF OnBoard, Looks
  <2>3. LastMet(s)' => Choosing(s, t)'
    BY <1>2, <2>1, PcNames DEF Choosing, Trials
  <2> QED
    BY <1>1, <2>1, <2>2, <2>3, ScanSettled, PcNames
<1>4. CASE board[Here(t)] # EMPTY
  <2>1. \A d \in Cell : Number(d) < cursor[t] + 1 => s[d] # EMPTY
    BY <1>1, <1>2, <1>4, CursorIsNumber
  <2>2. OnBoard(s, t)'
    BY <1>1, <1>2, <1>4, PcNames DEF OnBoard, Looks
  <2>3. LastMet(s)' => Choosing(s, t)'
    BY <1>1, <1>2, <1>4, <2>1, PcNames DEF Choosing, Trials
  <2> QED
    BY <1>1, <1>4, <2>2, <2>3, ScanSettled, PcNames
<1> QED
  BY <1>3, <1>4

LEMMA TakeEmptySettled ==
    ASSUME OneThread, Types, NEW t \in Thread, TakeEmpty(t), NEW s \in Board, Settled(s, t)
    PROVE  SettledInv'
<1>1. /\ Within(t) /\ pc[t] = "take" /\ cursor[t] < CellCount /\ pc'[t] = "commit"
      /\ target'[t] = Here(t) /\ board' = Placed(board, Here(t), AI_PLAYER)
  BY TakeEmptyDoes DEF Moves
<1>2. board = s /\ s[Here(t)] = EMPTY /\ \A d \in Cell : ~Decisive(s, d)
  BY <1>1, PcNames DEF Settled, OnBoard, Choosing, Looks
<1>3. Here(t) \in Cell /\ pc[t] \in Looks \cup Trials /\ FirstThreat(s, Here(t))
  BY <1>1, <1>2, HereIsCell, PcNames DEF FirstThreat
<1> QED
  BY <1>1, <1>2, <1>3, TakeSettled

\* Step 3 and the last exit of step 4 are never reached by one thread.
LEMMA NoLastResort ==
    ASSUME Types, NEW t \in Thread, NEW s \in Board, Settled(s, t)
    PROVE  ~CollectCell(t) /\ ~TakeNear(t) /\ ~TakeBest(t)
<1>1. pc[t] # "collect"
  BY DEF Settled, OnBoard
<1>2. ASSUME pc[t] = "first", cursor[t] = CellCount PROVE FALSE
  <2>1. \A d \in Cell : Number(d) < cursor[t] => s[d] # EMPTY
    BY <1>2 DEF Settled, Choosing
  <2>2. \E d \in Cell : s[d] = EMPTY /\ Number(d) < CellCount
    BY <1>2, RoomLeft DEF Settled, Counting
  <2> QED
    BY <1>2, <2>1, <2>2
<1> QED
  BY <1>1, <1>2, CollectCellDoes, TakeNearDoes, TakeBestDoes

LEMMA getBestMoveSettled ==
    ASSUME OneThread, Types, RatingInv, NEW t \in Thread, getBestMove(t), NEW s \in Board, Settled(s, t)
    PROVE  SettledInv'
BY NoLastResort, LookAtSettled, TrialSettled, CheckAiSettled, CheckHumanSettled, BlockSettled, DropHumanSettled,
   StepsSettled, RateCellSettled, LookForEmptySettled, TakeEmptySettled DEF getBestMove

\* The count is read, and written.
LEMMA CountSettled ==
    ASSUME OneThread, Types, NEW t \in Thread, ReadCount(t) \/ WriteCount(t), NEW s \in Board, Settled(s, t)
    PROVE  SettledInv'
<1>1. /\ UNCHANGED <<board, gameOver, winner, lastMove, stone, target, played>>
      /\ \/ pc[t] \in {"lock", "commit"} /\ pc'[t] = "count" /\ seen'[t] = moveCount /\ moveCount' = moveCount
         \/ pc[t] = "count" /\ pc'[t] = "put" /\ moveCount' = seen[t] + 1
  BY ReadCountDoes, WriteCountDoes DEF Moves
<1>2. OnBoard(s, t)'
  <2>1. CASE pc[t] = "lock"
    <3>1. board = s /\ stone[t] # AI_PLAYER /\ s[target[t]] = EMPTY
      BY <2>1, PcNames DEF Settled, OnBoard, HUMAN_PLAYER, AI_PLAYER
    <3> QED
      BY <1>1, <2>1, <3>1, PcNames DEF OnBoard, Looks
  <2>2. CASE pc[t] \in {"commit", "count"}
    <3>1. /\ board = IF stone[t] = AI_PLAYER THEN Placed(s, target[t], AI_PLAYER) ELSE s
          /\ s[target[t]] = EMPTY
      BY <2>2, PcNames DEF Settled, OnBoard
    <3> QED
      BY <1>1, <2>2, <3>1, PcNames DEF OnBoard, Looks
  <2> QED
    BY <1>1, <2>1, <2>2
<1>3. Counting(s, t)'
  BY <1>1, StonesCounted DEF Settled, Counting
<1>4. Declared(s, t)'
  BY <1>1 DEF Settled, Declared
<1>5. Choosing(s, t)'
  <2>1. LastMet(s)' /\ (stone[t] = AI_PLAYER => FirstThreat(s, target[t]))
    BY <1>1, PcNames DEF Settled, Choosing, LastMet
  <2> QED
    BY <1>1, <2>1, PcNames DEF Choosing, Trials
<1> QED
  BY <1>2, <1>3, <1>4, <1>5, SettledIntro DEF Settled

LEMMA PutStoneSettled ==
    ASSUME OneThread, Types, NEW t \in Thread, PutStone(t), NEW s \in Board, Settled(s, t)
    PROVE  SettledInv'
<1>1. /\ UNCHANGED <<gameOver, winner, moveCount, lastMove, stone, target, played>>
      /\ pc[t] = "put" /\ pc'[t] = "last" /\ target[t] \in Cell /\ stone[t] \in Stone
      /\ board' = Placed(board, target[t], stone[t])
  BY PutStoneDoes, StoneNames DEF Moves
<1>2. /\ board = IF stone[t] = AI_PLAYER THEN Placed(s, target[t], AI_PLAYER) ELSE s
      /\ s[target[t]] = EMPTY
  BY <1>1, PcNames DEF Settled, OnBoard
<1>3. board' = Placed(s, target[t], stone[t])
  BY <1>1, <1>2, PlacedTwice, StoneNames
<1>4. OnBoard(s, t)'
  BY <1>1, <1>2, <1>3, PcNames DEF OnBoard, Looks
<1>5. Counting(s, t)'
  BY <1>1 DEF Settled, Counting
<1>6. Declared(s, t)'
  BY <1>1 DEF Settled, Declared
<1>7. Choosing(s, t)'
  <2>1. LastMet(s)' /\ (stone[t] = AI_PLAYER => FirstThreat(s, target[t]))
    BY <1>1, PcNames DEF Settled, Choosing, LastMet
  <2> QED
    BY <1>1, <2>1, PcNames DEF Choosing, Trials
<1> QED
  BY <1>4, <1>5, <1>6, <1>7, SettledIntro DEF Settled

\* The last move is set, or declared to have won.
LEMMA LastMoveSettled ==
    ASSUME OneThread, Types, NEW t \in Thread, NEW s \in Board, Settled(s, t),
           UNCHANGED <<board, gameOver, winner, moveCount, stone, target, played>>,
           pc[t] \in {"last", "check"}, pc'[t] \in {"check", "over"}, lastMove' = target[t],
           pc'[t] = "over" => checkWin(board, target[t], HUMAN_PLAYER)
    PROVE  SettledInv'
<1>1. board = Placed(s, target[t], stone[t]) /\ s[target[t]] = EMPTY
  BY PcNames DEF Settled, OnBoard
<1>2. OnBoard(s, t)'
  BY <1>1, PcNames DEF OnBoard, Looks
<1>3. Counting(s, t)'
  BY DEF Settled, Counting
<1>4. Declared(s, t)'
  BY DEF Settled, Declared
<1>5. Choosing(s, t)'
  <2>1. stone[t] = AI_PLAYER => FirstThreat(s, target[t])
    BY PcNames DEF Settled, Choosing
  <2> QED
    BY <2>1, PcNames DEF Choosing, Trials
<1> QED
  BY <1>2, <1>3, <1>4, <1>5, SettledIntro DEF Settled

\* The call returns: its stone is one of the moves.
LEMMA ReturnSettled ==
    ASSUME OneThread, Types, NEW t \in Thread, NEW s \in Board, Settled(s, t),
           pc[t] \in {"check", "over"}, pc'[t] = "idle",
           played' = played \cup {<<target[t], stone[t]>>},
           UNCHANGED <<board, moveCount, lastMove>>,
           \/ /\ ~checkWin(board, target[t], HUMAN_PLAYER)
              /\ UNCHANGED <<gameOver, winner>>
           \/ /\ checkWin(board, target[t], HUMAN_PLAYER)
              /\ gameOver' = TRUE /\ winner' = (IF stone[t] = HUMAN_PLAYER THEN "human" ELSE "ai")
    PROVE  SettledInv'
<1>1. PICK c \in Cell, player \in Player : c = target[t] /\ player = stone[t]
  BY PcNames DEF Types
<1>2. /\ board = Placed(s, c, player) /\ s[c] = EMPTY /\ lastMove = c
      /\ ~gameOver /\ winner = "none" /\ ~HasLine(s, HUMAN_PLAYER)
      /\ played = {<<d, s[d]>> : d \in Occupied(s)}
      /\ moveCount = Cardinality(Occupied(s)) + 1
      /\ player = AI_PLAYER => FirstThreat(s, c)
  BY <1>1, PcNames DEF Settled, OnBoard, Counting, Declared, Choosing
<1>3. player \in Stone /\ HUMAN_PLAYER # AI_PLAYER /\ EMPTY # HUMAN_PLAYER /\ EMPTY \in Stone
      /\ HUMAN_PLAYER \in Player /\ AI_PLAYER \in Stone
  BY StoneNames DEF HUMAN_PLAYER, AI_PLAYER, EMPTY
<1>4. PICK after \in Board : after = Placed(s, c, player)
  BY <1>3, PlacedType
<1>5. /\ {<<d, after[d]>> : d \in Occupied(after)} = {<<d, s[d]>> : d \in Occupied(s)} \cup {<<c, player>>}
      /\ Cardinality(Occupied(after)) = Cardinality(Occupied(s)) + 1
      /\ after[c] = player
  BY <1>2, <1>4, PlacedIsOneMore
<1>6. checkWin(board, c, HUMAN_PLAYER) <=> HasLine(Placed(s, c, HUMAN_PLAYER), HUMAN_PLAYER)
  BY <1>2, <1>3, FirstLineIsFound
<1>7. winner' = "human" <=> HasLine(after, HUMAN_PLAYER)
  <2>1. CASE player = HUMAN_PLAYER
    BY <1>1, <1>2, <1>4, <1>6, <2>1
  <2>2. CASE player = AI_PLAYER
    <3>1. ~HasLine(after, HUMAN_PLAYER)
      BY <1>2, <1>3, <1>4, <2>2, OtherStoneKeepsLines
    <3> QED
      BY <1>1, <1>2, <1>3, <2>2, <3>1
  <2> QED
    BY <2>1, <2>2 DEF Player
<1>8. OnBoard(after, t)'
  BY <1>2, <1>4, PcNames DEF OnBoard, Looks
<1>9. Counting(after, t)'
  BY <1>2, <1>5, StonesCounted DEF Counting
<1>10. Declared(after, t)'
  BY <1>1, <1>2, <1>5, <1>7 DEF Declared
<1>11. LastMet(after)'
  <2> SUFFICES ASSUME player = AI_PLAYER PROVE FirstThreat(Placed(after, c, EMPTY), c)
    BY <1>2, <1>5 DEF LastMet
  <2>1. Placed(after, c, EMPTY) = s
    BY <1>2, <1>3, <1>4, PlacedTwice
  <2> QED
    BY <1>2, <2>1
<1>12. Choosing(after, t)'
  BY <1>11, PcNames DEF Choosing, Trials
<1> QED
  BY <1>8, <1>9, <1>10, <1>12, SettledIntro DEF Settled

LEMMA MakeMoveSettled ==
    ASSUME OneThread, Types, NEW t \in Thread, MakeMove(t), NEW s \in Board, Settled(s, t)
    PROVE  SettledInv'
<1>1. CASE SetLastMove(t)
  BY <1>1, SetLastMoveDoes, LastMoveSettled DEF Moves
<1>2. CASE CheckWinner(t)
  <2>1. /\ pc[t] = "check" /\ UNCHANGED <<board, gameOver, winner, moveCount, lastMove>>
        /\ checkWin(board, target[t], HUMAN_PLAYER) => pc'[t] = "over" /\ UNCHANGED <<stone, target, played>>
        /\ ~checkWin(board, target[t], HUMAN_PLAYER) =>
              pc'[t] = "idle" /\ played' = played \cup {<<target[t], stone[t]>>}
    BY <1>2, CheckWinnerDoes DEF Moves
  <2>2. lastMove = target[t]
    BY <2>1 DEF Settled, Declared
  <2> QED
    BY <2>1, <2>2, LastMoveSettled, ReturnSettled
<1>3. CASE SetGameOver(t)
  <2>1. /\ pc[t] = "over" /\ pc'[t] = "idle" /\ UNCHANGED <<board, moveCount, lastMove>>
        /\ gameOver' = TRUE /\ winner' = (IF stone[t] = HUMAN_PLAYER THEN "human" ELSE "ai")
        /\ played' = played \cup {<<target[t], stone[t]>>}
    BY <1>3, SetGameOverDoes DEF Moves
  <2>2. checkWin(board, target[t], HUMAN_PLAYER)
    BY <2>1 DEF Settled, Declared
  <2> QED
    BY <2>1, <2>2, ReturnSettled
<1> QED
  BY <1>1, <1>2, <1>3, CountSettled, PutStoneSettled DEF MakeMove

LEMMA SettledStep ==
    ASSUME OneThread
    PROVE  Types /\ RatingInv /\ CursorInv /\ SettledInv /\ [Next]_vars => SettledInv'
<1> SUFFICES ASSUME Types, RatingInv, CursorInv, SettledInv, [Next]_vars PROVE SettledInv'
  OBVIOUS
<1>1. PICK s \in Board : \A t \in Thread : Settled(s, t)
  BY DEF SettledInv
<1>2. ASSUME NEW t \in Thread, NEW c \in Place, HumanMoveTest(t, c) PROVE SettledInv'
  BY <1>1, <1>2, HumanMoveTestDoes, CallSettled DEF Moves
<1>3. ASSUME NEW t \in Thread, AiMoveTest(t) PROVE SettledInv'
  <2>1. pc[t] = "idle" /\ cursor[t] = 0
    BY <1>3, AiMoveTestDoes DEF CursorInv
  <2> QED
    BY <1>1, <1>3, <2>1, AiMoveTestDoes, CallSettled DEF Moves
<1>4. CASE UNCHANGED vars
  <2>1. \A t \in Thread : Settled(s, t)'
    BY <1>1, <1>4 DEF vars, game, locals, choice, Settled, OnBoard, Counting, Declared, Choosing, LastMet, Here
  <2> QED
    BY <2>1 DEF SettledInv
<1> QED
  BY <1>1, <1>2, <1>3, <1>4, getBestMoveSettled, MakeMoveSettled DEF Next, Continue

LEMMA SettledCorrect ==
    ASSUME OneThread
    PROVE  Spec => []SettledInv
<1>1. Init => SettledInv
  <2> SUFFICES ASSUME Init PROVE SettledInv
    OBVIOUS
  <2>1. EmptyBoard \in Board /\ Occupied(EmptyBoard) = {} /\ Cardinality({}) = 0
    BY FS_EmptySet DEF EmptyBoard, Board, Occupied
  <2>2. ~HasLine(EmptyBoard, HUMAN_PLAYER)
    BY EmptyBoardHasNoLine DEF Player
  <2>3. ASSUME NEW t \in Thread PROVE Settled(EmptyBoard, t)
    <3>1. pc[t] = "idle" /\ lastMove = NoMove
      BY DEF Init
    <3>2. OnBoard(EmptyBoard, t)
      BY <3>1, PcNames DEF Init, OnBoard, Looks
    <3>3. Counting(EmptyBoard, t)
      BY <2>1, <3>1 DEF Init, Counting
    <3>4. Declared(EmptyBoard, t)
      BY <2>1, <2>2, <3>1 DEF Init, Declared
    <3>5. Choosing(EmptyBoard, t)
      BY <3>1, PcNames DEF Choosing, LastMet, Trials
    <3> QED
      BY <3>2, <3>3, <3>4, <3>5 DEF Settled
  <2> QED
    BY <2>1, <2>3 DEF SettledInv
<1>2. Init => RatingInv /\ CursorInv
  BY DEF Init, RatingInv, CursorInv
<1>3. Types /\ RatingInv /\ CursorInv /\ SettledInv /\ [Next]_vars => SettledInv'
  BY SettledStep
<1> QED
  BY <1>1, <1>2, <1>3, RatingStep, CursorStep, TypesCorrect, PTL DEF Spec

\* Between calls s is the board, and everything is said of it.
LEMMA QuietIsSettled ==
    ASSUME OneThread, SettledInv, Quiet
    PROVE  /\ board \in Board /\ LastMet(board)
           /\ played = {<<c, board[c]>> : c \in Occupied(board)}
           /\ moveCount = Cardinality(Occupied(board))
           /\ winner = "human" <=> HasLine(board, HUMAN_PLAYER)
<1>1. PICK s \in Board : \A t \in Thread : Settled(s, t)
  BY DEF SettledInv
<1>2. PICK t \in Thread : pc[t] = "idle"
  BY DEF OneThread, Quiet, At
<1>3. board = s
  BY <1>1, <1>2 DEF Settled, OnBoard
<1>4. moveCount = Cardinality(Occupied(s))
  BY <1>1, <1>2, StonesCounted DEF Settled, Counting
<1> QED
  BY <1>1, <1>2, <1>3, <1>4 DEF Settled, Declared, Choosing

\* Between calls the board is exactly the moves that were made, and moveCount
\* their number: whatever getBestMove tried is gone, no stone was replaced.
THEOREM BoardIsTheMovesCorrect ==
    ASSUME OneThread
    PROVE  Spec => []BoardIsTheMoves
<1>1. SettledInv => BoardIsTheMoves
  <2> SUFFICES ASSUME SettledInv, Quiet PROVE BoardIsTheMoves
    BY DEF BoardIsTheMoves
  <2> DEFINE moves == {<<c, board[c]>> : c \in Occupied(board)}
             f == [c \in Occupied(board) |-> <<c, board[c]>>]
  <2>1. board \in Board /\ played = moves /\ moveCount = Cardinality(Occupied(board))
    BY QuietIsSettled
  <2>2. IsFiniteSet(Occupied(board))
    BY <2>1, StonesCounted
  <2>3. f \in Bijection(Occupied(board), moves)
    BY DEF Bijection, Injection, Surjection, IsInjective
  <2>4. Cardinality(moves) = Cardinality(Occupied(board))
    BY <2>2, <2>3, FS_Bijection DEF ExistsBijection
  <2> QED
    BY <2>1, <2>4 DEF BoardIsTheMoves
<1> QED
  BY <1>1, SettledCorrect, PTL

\* The human is declared the winner exactly when there is a line of the human's
\* stones anywhere on the board, although humanMove looks only at the lines
\* through the last stone.
THEOREM HumanWinIsALineCorrect ==
    ASSUME OneThread
    PROVE  Spec => []HumanWinIsALine
<1>1. SettledInv => HumanWinIsALine
  BY QuietIsSettled DEF HumanWinIsALine
<1> QED
  BY <1>1, SettledCorrect, PTL

\* The AI's stone lies on the first cell that would have won for it or for the
\* human, if there was one: step 1 of getBestMove overlooks none.
THEOREM AiMeetsThreatsCorrect ==
    ASSUME OneThread
    PROVE  Spec => []AiMeetsThreats
<1>1. SettledInv => AiMeetsThreats
  <2> SUFFICES ASSUME SettledInv, Quiet, lastMove # NoMove, board[lastMove] = AI_PLAYER
               PROVE  FirstThreat(Placed(board, lastMove, EMPTY), lastMove)
    BY DEF AiMeetsThreats, FirstThreat, Placed
  <2> QED
    BY QuietIsSettled DEF LastMet
<1> QED
  BY <1>1, SettledCorrect, PTL

\* Once the game is over nothing of it changes, whoever calls what.
THEOREM GameOverIsFinalCorrect ==
    ASSUME OneThread
    PROVE  Spec => GameOverIsFinal
<1>1. Types /\ SettledInv /\ [Next]_vars => [gameOver => UNCHANGED game]_vars
  <2> SUFFICES ASSUME Types, SettledInv, [Next]_vars, gameOver PROVE UNCHANGED game
    OBVIOUS
  <2>1. \A t \in Thread : pc[t] = "idle"
    BY DEF SettledInv, Settled, Counting
  <2>2. ASSUME NEW t \in Thread PROVE ~getBestMove(t) /\ ~MakeMove(t)
    <3>1. "idle" \notin Looks \cup Trials
      BY PcNames
    <3>2. ~getBestMove(t)
      BY <2>1, <3>1, getBestMoveDoes
    <3>3. ~MakeMove(t)
      BY <2>1 DEF MakeMove, ReadCount, WriteCount, PutStone, SetLastMove, CheckWinner, SetGameOver, At
    <3> QED
      BY <3>2, <3>3
  <2>3. \A t \in Thread : ~AiMoveTest(t) /\ \A c \in Place : ~HumanMoveTest(t, c)
    BY DEF AiMoveTest, HumanMoveTest, isValidMove
  <2>4. UNCHANGED vars
    BY <2>2, <2>3 DEF Next, Continue
  <2> QED
    BY <2>4 DEF vars
<1> QED
  BY <1>1, TypesCorrect, SettledCorrect, PTL DEF Spec, GameOverIsFinal
=============================================================================

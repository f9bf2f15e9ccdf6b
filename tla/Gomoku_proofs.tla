---------------------------- MODULE Gomoku_proofs ----------------------------
(***************************************************************************)
(* What the functions of Gomoku compute, for a board of any size and lines *)
(* of any length: the cells that the loops visit, and that checkWin finds  *)
(* exactly the lines through its cell.                                     *)
(***************************************************************************)
EXTENDS Gomoku, FiniteSetTheorems, TLAPS

\* Every set of numbers that is not empty has a least one.
LEMMA LeastNumber ==
    ASSUME NEW I \in SUBSET Nat, I # {}
    PROVE  \E n \in I : \A m \in I : n <= m
<1> DEFINE Less == {p \in Nat \X Nat : p[1] < p[2]}
<1>1. IsWellFoundedOn(Less, Nat)
  BY NatLessThanWellFounded DEF OpToRel
<1>2. PICK n \in I : \A m \in I : <<m, n>> \notin Less
  <2> HIDE DEF Less
  <2> QED
    BY <1>1, WFMin
<1>3. ASSUME NEW m \in I PROVE n <= m
  <2>1. m < n => <<m, n>> \in Less
    OBVIOUS
  <2> QED
    BY <1>2, <2>1
<1> QED
  BY <1>3

---------------------------------------------------------------------------
(* Cells.                                                                  *)

\* The size of a board.
LEMMA CellCountType == CellCount \in Nat \ {0}
<1>1. \A n \in Nat \ {0} : n * n \in Nat \ {0}
  OBVIOUS
<1> QED
  BY <1>1, GomokuAssumption DEF CellCount

\* The k-th cell of the loops over r and c is one.
LEMMA CellAtIsCell ==
    ASSUME NEW k \in 0..CellCount - 1
    PROVE  CellAt(k) \in Cell
<1> DEFINE N == BOARD_SIZE
           q == k \div N
           r == k % N
<1>1. N \in Nat \ {0}
  BY GomokuAssumption
<1>2. k \in Nat /\ k < N * N
  BY <1>1 DEF CellCount
<1>3. q \in Int /\ r \in 0..N - 1 /\ k = N * q + r
  BY <1>1, <1>2
<1> HIDE DEF N, q, r
<1>4. q >= 0
  <2>1. q < 0 => N * q <= -N
    BY <1>1, <1>3
  <2> QED
    BY <1>1, <1>2, <1>3, <2>1
<1>5. q < N
  <2>1. q >= N => N * q >= N * N
    BY <1>1, <1>3
  <2>2. N * q \in Int /\ N * N \in Int
    BY <1>1, <1>3
  <2> QED
    BY <1>1, <1>2, <1>3, <2>1, <2>2
<1>6. <<q, r>> \in Cell
  BY <1>1, <1>3, <1>4, <1>5 DEF Cell, Coordinate, N
<1> QED
  BY <1>6 DEF CellAt, q, r, N

\* Quotient and remainder are what they are made from.
LEMMA Quotient ==
    ASSUME NEW n \in Nat \ {0}, NEW x \in Nat, NEW y \in 0..n - 1
    PROVE  (n * x + y) \div n = x /\ (n * x + y) % n = y
<1> DEFINE k == n * x + y
           q == k \div n
           r == k % n
<1>1. k \in Nat
  OBVIOUS
<1>2. q \in Int /\ r \in 0..n - 1 /\ k = n * q + r
  BY <1>1
<1>3. n * q + r = n * x + y
  BY <1>2
<1> HIDE DEF k, q, r
<1>4. ~(q < x)
  <2>1. q < x => n * q + n <= n * x
    <3>1. q < x => q + 1 <= x
      BY <1>2
    <3>2. q + 1 <= x => n * (q + 1) <= n * x
      BY <1>2
    <3>3. n * (q + 1) = n * q + n
      BY <1>2
    <3> QED
      BY <3>1, <3>2, <3>3
  <2>2. n * q \in Int /\ n * x \in Int
    BY <1>2
  <2> QED
    BY <1>2, <1>3, <2>1, <2>2
<1>5. ~(x < q)
  <2>1. x < q => n * x + n <= n * q
    <3>1. x < q => x + 1 <= q
      BY <1>2
    <3>2. x + 1 <= q => n * (x + 1) <= n * q
      BY <1>2
    <3>3. n * (x + 1) = n * x + n
      OBVIOUS
    <3> QED
      BY <3>1, <3>2, <3>3
  <2>2. n * q \in Int /\ n * x \in Int
    BY <1>2
  <2> QED
    BY <1>2, <1>3, <2>1, <2>2
<1>6. q = x
  BY <1>2, <1>4, <1>5
<1>7. r = y
  <2>1. n * x \in Int
    OBVIOUS
  <2> QED
    BY <1>2, <1>3, <1>6, <2>1
<1> QED
  BY <1>6, <1>7 DEF k, q, r

\* A cell has a number.
LEMMA NumberType ==
    ASSUME NEW c \in Cell
    PROVE  Number(c) \in Nat
<1>1. c[1] \in Nat /\ c[2] \in Nat /\ BOARD_SIZE \in Nat
  BY GomokuAssumption DEF Cell, Coordinate
<1>2. \A a, b, n \in Nat : a * n + b \in Nat
  OBVIOUS
<1> QED
  BY <1>1, <1>2 DEF Number

\* The cells of a board are as many as its size says.
LEMMA CellsFinite == IsFiniteSet(Cell) /\ Cardinality(Cell) = CellCount
<1>1. BOARD_SIZE \in Nat \ {0}
  BY GomokuAssumption
<1>2. IsFiniteSet(Coordinate) /\ Cardinality(Coordinate) = BOARD_SIZE
  BY <1>1, FS_Interval DEF Coordinate
<1> QED
  BY <1>2, FS_Product DEF Cell, CellCount

\* The loops visit every cell, each at its number.
LEMMA CellHasNumber ==
    ASSUME NEW c \in Cell
    PROVE  Number(c) \in 0..CellCount - 1 /\ CellAt(Number(c)) = c
<1> DEFINE N == BOARD_SIZE
           k == c[1] * N + c[2]
<1>1. N \in Nat \ {0}
  BY GomokuAssumption
<1>2. PICK x \in 0..N - 1, y \in 0..N - 1 : c = <<x, y>>
  BY DEF Cell, Coordinate
<1> HIDE DEF N
<1>3. k \in Nat /\ k = N * x + y
  BY <1>1, <1>2
<1>4. k < N * N
  <2>1. x + 1 <= N
    BY <1>1, <1>2
  <2>2. N * (x + 1) <= N * N
    BY <1>1, <1>2, <2>1
  <2>3. N * (x + 1) = N * x + N
    BY <1>1, <1>2
  <2>4. N * x \in Int /\ N * N \in Int
    BY <1>1, <1>2
  <2> QED
    BY <1>1, <1>2, <1>3, <2>2, <2>3, <2>4
<1> HIDE DEF k
<1>5. k \div N = x /\ k % N = y
  <2>0. x \in Nat /\ y \in 0..N - 1
    BY <1>1
  <2>1. (N * x + y) \div N = x /\ (N * x + y) % N = y
    BY <1>1, <2>0, Quotient, Zenon
  <2> QED
    BY <1>3, <2>1, Zenon
<1> QED
  BY <1>1, <1>2, <1>3, <1>4, <1>5 DEF Number, CellAt, CellCount, N, k

\* The number of the cell that is visited k-th is k.
LEMMA NumberOfCellAt ==
    ASSUME NEW k \in 0..CellCount - 1
    PROVE  Number(CellAt(k)) = k
<1> DEFINE N == BOARD_SIZE
           q == k \div N
           r == k % N
<1>1. N \in Nat \ {0} /\ k \in Int
  BY GomokuAssumption, CellCountType
<1>2. q \in Int /\ r \in 0..N - 1 /\ k = N * q + r
  BY <1>1
<1> HIDE DEF q, r
<1>3. q * N + r = k
  BY <1>1, <1>2
<1>4. Number(<<q, r>>) = q * N + r
  BY DEF Number
<1>5. CellAt(k) = <<q, r>>
  BY Zenon DEF CellAt, q, r
<1> QED
  BY <1>3, <1>4, <1>5, Zenon

\* The threat is a number.
LEMMA ThreatType ==
    ASSUME NEW board, NEW c
    PROVE  evaluateThreat(board, c) \in Nat
<1> DEFINE S == {p \in Directions \X (1..2) : Holds(board, Step(c, p[1], p[2]), HUMAN_PLAYER)}
<1>1. IsFiniteSet(Directions) /\ IsFiniteSet(1..2)
  <2>1. IsFiniteSet({<<1, 0>>}) /\ IsFiniteSet({<<0, 1>>})
    BY FS_Singleton
  <2>2. IsFiniteSet({<<1, 0>>} \cup {<<0, 1>>})
    BY <2>1, FS_Union
  <2>3. IsFiniteSet(({<<1, 0>>} \cup {<<0, 1>>}) \cup {<<1, 1>>})
    BY <2>2, FS_AddElement
  <2>4. IsFiniteSet((({<<1, 0>>} \cup {<<0, 1>>}) \cup {<<1, 1>>}) \cup {<<1, -1>>})
    BY <2>3, FS_AddElement
  <2>5. Directions = (({<<1, 0>>} \cup {<<0, 1>>}) \cup {<<1, 1>>}) \cup {<<1, -1>>}
    BY DEF Directions
  <2>6. IsFiniteSet(Directions)
    BY <2>4, <2>5, Zenon
  <2>7. \A a, b \in Int : IsFiniteSet(a..b)
    BY FS_Interval
  <2>8. 1 \in Int /\ 2 \in Int
    OBVIOUS
  <2>9. IsFiniteSet(1..2)
    BY <2>7, <2>8, Zenon
  <2> QED
    BY <2>6, <2>9
<1>2. IsFiniteSet(Directions \X (1..2))
  BY <1>1, FS_Product
<1>3. Cardinality(S) \in Nat
  BY <1>2, FS_Subset, FS_CardinalityType
<1>4. 4 + Cardinality(S) \in Nat
  BY <1>3
<1> QED
  BY <1>4, Zenon DEF evaluateThreat

---------------------------------------------------------------------------
(* checkWin.                                                               *)

\* A set of numbers that starts at 1 and has no gap is the interval up to the
\* number of its elements.
LEMMA NoGap ==
    ASSUME NEW n \in Nat, NEW D \in SUBSET (1..n), \A i \in D : \A j \in 1..i : j \in D
    PROVE  Cardinality(D) \in 0..n /\ D = 1..Cardinality(D)
<1> DEFINE I == {k \in Nat : k > 0 /\ k \notin D}
<1>1. n + 1 \in I
  OBVIOUS
<1>2. PICK m \in I : \A k \in I : m <= k
  <2>1. I \in SUBSET Nat /\ I # {}
    BY <1>1
  <2> QED
    BY <2>1, LeastNumber
<1>3. \A k \in D : k < m
  BY <1>2
<1>4. \A k \in 1..m - 1 : k \in D
  <2> SUFFICES ASSUME NEW k \in 1..m - 1, k \notin D PROVE FALSE
    OBVIOUS
  <2>1. k \in I /\ k < m
    BY <1>2
  <2> QED
    BY <1>2, <2>1
<1>5. D = 1..m - 1
  <2>1. \A k \in D : k \in 1..n /\ k < m
    BY <1>2, <1>3
  <2>2. m \in Nat
    BY <1>2
  <2>3. D \subseteq 1..m - 1
    <3> HIDE DEF I
    <3> QED
      BY <2>1, <2>2
  <2> QED
    BY <1>4, <2>3
<1>6. Cardinality(1..m - 1) = m - 1
  BY <1>2, FS_Interval
<1>7. m <= n + 1
  BY <1>1, <1>2
<1> QED
  BY <1>2, <1>5, <1>6, <1>7

\* Run is the greatest number of stones that follow c without a gap.
LEMMA RunIsGreatest ==
    ASSUME NEW board, NEW c, NEW dir, NEW player
    PROVE  /\ Run(board, c, dir, player) \in 0..WinLength - 1
           /\ \A j \in 1..Run(board, c, dir, player) : Holds(board, Step(c, dir, j), player)
           /\ \A n \in 0..WinLength - 1 :
                 (\A j \in 1..n : Holds(board, Step(c, dir, j), player))
                 => n <= Run(board, c, dir, player)
<1> DEFINE At(j) == Holds(board, Step(c, dir, j), player)
           D == {i \in 1..WinLength - 1 : \A j \in 1..i : At(j)}
<1>1. WinLength - 1 \in Nat
  BY GomokuAssumption
<1>2. Run(board, c, dir, player) = Cardinality(D)
  BY DEF Run
<1> HIDE DEF At
<1>3. \A i \in D : \A j \in 1..i : j \in D
  BY <1>1
<1>4. Cardinality(D) \in 0..WinLength - 1 /\ D = 1..Cardinality(D)
  BY <1>1, <1>3, NoGap
<1>5. \A j \in 1..Cardinality(D) : At(j)
  BY <1>4
<1>6. ASSUME NEW n \in 0..WinLength - 1, \A j \in 1..n : At(j) PROVE n <= Cardinality(D)
  <2>1. CASE n = 0
    BY <1>4, <2>1
  <2>2. CASE n # 0
    <3>1. n \in D
      BY <1>6, <2>2
    <3>2. n \in 1..Cardinality(D)
      BY <1>4, <3>1
    <3> QED
      BY <1>4, <3>2
  <2> QED
    BY <2>1, <2>2
<1> QED
  BY <1>2, <1>4, <1>5, <1>6 DEF At

\* Steps in one direction add up, and none leads back to its cell.
LEMMA StepsAdd ==
    ASSUME NEW x \in Int, NEW y \in Int, NEW dir \in Directions, NEW a \in Int, NEW b \in Int
    PROVE  /\ Step(Step(<<x, y>>, dir, a), dir, b) = Step(<<x, y>>, dir, a + b)
           /\ Step(<<x, y>>, dir, 0) = <<x, y>>
           /\ Step(<<x, y>>, dir, a) = <<x, y>> => a = 0
<1>1. CASE dir = <<1, 0>>
  BY <1>1 DEF Step
<1>2. CASE dir = <<0, 1>>
  BY <1>2 DEF Step
<1>3. CASE dir = <<1, 1>>
  BY <1>3 DEF Step
<1>4. CASE dir = <<1, -1>>
  BY <1>4 DEF Step
<1> QED
  BY <1>1, <1>2, <1>3, <1>4 DEF Directions

\* Steps in the opposite direction count down.
LEMMA OppositeStep ==
    ASSUME NEW x \in Int, NEW y \in Int, NEW dir \in Directions, NEW a \in Int, NEW b \in Int,
           a + b = 0
    PROVE  Step(<<x, y>>, Opposite(dir), a) = Step(<<x, y>>, dir, b)
<1>1. CASE dir = <<1, 0>>
  BY <1>1 DEF Step, Opposite
<1>2. CASE dir = <<0, 1>>
  BY <1>2 DEF Step, Opposite
<1>3. CASE dir = <<1, 1>>
  BY <1>3 DEF Step, Opposite
<1>4. CASE dir = <<1, -1>>
  BY <1>4 DEF Step, Opposite
<1> QED
  BY <1>1, <1>2, <1>3, <1>4 DEF Directions

\* The line of WinLength places from d is one of player's stones, if c is
\* counted as one, and goes through c.
LineThrough(board, c, d, dir, player) ==
    /\ \A i \in 0..WinLength - 1 :
          Step(d, dir, i) = c \/ Holds(board, Step(d, dir, i), player)
    /\ \E i \in 0..WinLength - 1 : Step(d, dir, i) = c

\* The two runs that checkWin adds up, forward and backward.
LEMMA RunsMakeALine ==
    ASSUME NEW board, NEW c \in Cell, NEW dir \in Directions, NEW player,
           1 + Run(board, c, dir, player) + Run(board, c, Opposite(dir), player) >= WinLength
    PROVE  \E d \in Cell : LineThrough(board, c, d, dir, player)
<1> DEFINE forward == Run(board, c, dir, player)
           backward == Run(board, c, Opposite(dir), player)
           d == Step(c, dir, -backward)
<1>0. /\ WinLength \in Nat \ {0}
      /\ \E x, y \in Int : c = <<x, y>>
  BY GomokuAssumption DEF Cell, Coordinate
<1>1. /\ forward \in 0..WinLength - 1 /\ backward \in 0..WinLength - 1
      /\ \A j \in 1..forward : Holds(board, Step(c, dir, j), player)
      /\ \A j \in 1..backward : Holds(board, Step(c, Opposite(dir), j), player)
      /\ 1 + forward + backward >= WinLength
  BY RunIsGreatest
<1> HIDE DEF forward, backward
<1>2. \A j \in 1..backward : Holds(board, Step(c, dir, -j), player)
  <2> TAKE j \in 1..backward
  <2>1. PICK b \in Int : b = -j
    BY <1>1
  <2>2. j \in Int /\ j + b = 0
    BY <1>1, <2>1
  <2>3. Step(c, Opposite(dir), j) = Step(c, dir, b)
    BY <1>0, <2>2, OppositeStep
  <2> QED
    BY <1>1, <2>1, <2>3
<1>3. Step(c, dir, 0) = c
  BY <1>0, StepsAdd
<1>4. d \in Cell
  <2>1. CASE backward = 0
    BY <1>3, <2>1
  <2>2. CASE backward # 0
    <3>1. backward \in 1..backward
      BY <1>0, <1>1, <2>2
    <3> QED
      BY <1>2, <3>1 DEF Holds, IsInBoard
  <2> QED
    BY <2>1, <2>2
<1>5. \A i \in 0..WinLength - 1 : Step(d, dir, i) = Step(c, dir, i - backward)
  <2> TAKE i \in 0..WinLength - 1
  <2>1. i \in Int /\ -backward \in Int /\ i - backward = -backward + i
    BY <1>0, <1>1
  <2> QED
    BY <1>0, <2>1, StepsAdd
<1>6. ASSUME NEW i \in 0..WinLength - 1
      PROVE  Step(d, dir, i) = c \/ Holds(board, Step(d, dir, i), player)
  <2>1. CASE i = backward
    BY <1>1, <1>3, <1>5, <2>1
  <2>2. CASE i < backward
    <3>1. PICK j \in 1..backward : j = backward - i
      BY <1>0, <1>1, <2>2
    <3>2. i - backward = -j
      BY <1>0, <1>1, <3>1
    <3> QED
      BY <1>2, <1>5, <3>2
  <2>3. CASE i > backward
    <3>1. PICK j \in 1..forward : j = i - backward
      BY <1>0, <1>1, <2>3
    <3> QED
      BY <1>1, <1>5, <3>1
  <2> QED
    BY <1>0, <1>1, <2>1, <2>2, <2>3
<1>7. Step(d, dir, backward) = c
  <2>1. backward - backward = 0
    BY <1>1
  <2> QED
    BY <1>1, <1>3, <1>5, <2>1
<1> HIDE DEF d
<1>8. LineThrough(board, c, d, dir, player)
  BY <1>1, <1>6, <1>7 DEF LineThrough
<1> QED
  BY <1>4, <1>8

\* A line through c is found.
LEMMA LineMakesRuns ==
    ASSUME NEW board, NEW c \in Cell, NEW d \in Cell, NEW dir \in Directions, NEW player,
           LineThrough(board, c, d, dir, player)
    PROVE  1 + Run(board, c, dir, player) + Run(board, c, Opposite(dir), player) >= WinLength
<1> DEFINE forward == Run(board, c, dir, player)
           backward == Run(board, c, Opposite(dir), player)
<1>0. /\ WinLength \in Nat \ {0}
      /\ \E x, y \in Int : c = <<x, y>>
      /\ \E x, y \in Int : d = <<x, y>>
  BY GomokuAssumption DEF Cell, Coordinate
<1>1. /\ forward \in 0..WinLength - 1 /\ backward \in 0..WinLength - 1
      /\ \A n \in 0..WinLength - 1 :
            (\A j \in 1..n : Holds(board, Step(c, dir, j), player)) => n <= forward
      /\ \A n \in 0..WinLength - 1 :
            (\A j \in 1..n : Holds(board, Step(c, Opposite(dir), j), player)) => n <= backward
  BY RunIsGreatest
<1> HIDE DEF forward, backward
<1>2. PICK k \in 0..WinLength - 1 : Step(d, dir, k) = c
  BY DEF LineThrough
<1>3. ASSUME NEW b \in Int, k + b \in 0..WinLength - 1, b # 0
      PROVE  Holds(board, Step(c, dir, b), player)
  <2>1. PICK i \in 0..WinLength - 1 : i = k + b
    BY <1>3
  <2>2. Step(c, dir, b) = Step(d, dir, i)
    BY <1>0, <1>2, <2>1, StepsAdd
  <2>3. Step(c, dir, b) # c
    BY <1>0, <1>3, StepsAdd
  <2> QED
    BY <2>2, <2>3 DEF LineThrough
<1>4. PICK m \in 0..WinLength - 1 : m = WinLength - 1 - k
  BY <1>0, <1>2
<1>5. \A j \in 1..m : Holds(board, Step(c, dir, j), player)
  <2> TAKE j \in 1..m
  <2>1. j \in Int /\ k + j \in 0..WinLength - 1 /\ j # 0
    BY <1>0, <1>2, <1>4
  <2> QED
    BY <1>3, <2>1
<1>6. \A j \in 1..k : Holds(board, Step(c, Opposite(dir), j), player)
  <2> TAKE j \in 1..k
  <2>1. PICK b \in Int : b = -j
    BY <1>2
  <2>2. k + b \in 0..WinLength - 1 /\ b # 0 /\ j \in Int /\ j + b = 0
    BY <1>0, <1>2, <2>1
  <2>3. Holds(board, Step(c, dir, b), player)
    BY <1>3, <2>2
  <2>4. Step(c, Opposite(dir), j) = Step(c, dir, b)
    BY <1>0, <2>2, OppositeStep
  <2> QED
    BY <2>3, <2>4
<1>7. m <= forward /\ k <= backward
  BY <1>1, <1>2, <1>4, <1>5, <1>6
<1>8. 1 + forward + backward >= WinLength
  BY <1>0, <1>1, <1>2, <1>4, <1>7
<1> QED
  BY <1>8 DEF forward, backward

\* checkWin finds exactly the lines through its cell: the two runs of any
\* direction add up to a line that may have c at any of its places, and c
\* counts as a stone of the player whatever lies there.
THEOREM CheckWinFindsLines ==
    ASSUME NEW board, NEW c \in Cell, NEW player
    PROVE  checkWin(board, c, player) <=>
               \E dir \in Directions : \E d \in Cell : LineThrough(board, c, d, dir, player)
<1>1. checkWin(board, c, player) <=>
        \E dir \in Directions :
            1 + Run(board, c, dir, player) + Run(board, c, Opposite(dir), player) >= WinLength
  BY DEF checkWin
<1>2. \A dir \in Directions :
        1 + Run(board, c, dir, player) + Run(board, c, Opposite(dir), player) >= WinLength
        <=> \E d \in Cell : LineThrough(board, c, d, dir, player)
  BY RunsMakeALine, LineMakesRuns
<1> QED
  BY <1>1, <1>2

---------------------------------------------------------------------------
(* Placing a stone.                                                        *)

Stone == Player \cup {EMPTY}
Placed(board, c, stone) == [board EXCEPT ![c] = stone]

\* A stone that is placed changes what lies on its own cell only.
LEMMA PlacedHolds ==
    ASSUME NEW board \in Board, NEW c \in Cell, NEW stone \in Stone, NEW x, NEW player
    PROVE  /\ x = c => (Holds(Placed(board, c, stone), x, player) <=> stone = player)
           /\ x # c => (Holds(Placed(board, c, stone), x, player) <=> Holds(board, x, player))
BY DEF Placed, Holds, IsInBoard, Board

\* A board with a stone more is a board.
LEMMA PlacedType ==
    ASSUME NEW board \in Board, NEW c \in Cell, NEW stone \in Stone
    PROVE  Placed(board, c, stone) \in Board
BY DEF Placed, Board, Stone

\* The stone that makes a line lies on it: with none on the board before, there
\* is one after player has moved to c exactly when checkWin says so.  It says
\* the same whatever stone lies on c.
LEMMA FirstLineIsFound ==
    ASSUME NEW board \in Board, NEW c \in Cell, NEW player \in Player, NEW stone \in Stone,
           ~HasLine(board, player)
    PROVE  checkWin(Placed(board, c, stone), c, player)
           <=> HasLine(Placed(board, c, player), player)
<1> DEFINE any == Placed(board, c, stone)
           full == Placed(board, c, player)
<1>0. player \in Stone
  BY DEF Stone
<1>1. \A x : /\ x = c => Holds(full, x, player)
             /\ x # c => (Holds(full, x, player) <=> Holds(board, x, player))
             /\ x # c => (Holds(any, x, player) <=> Holds(board, x, player))
  BY <1>0, PlacedHolds
<1> HIDE DEF any, full
<1>2. ASSUME checkWin(any, c, player) PROVE HasLine(full, player)
  <2>1. PICK dir \in Directions, d \in Cell : LineThrough(any, c, d, dir, player)
    BY <1>2, CheckWinFindsLines
  <2>2. \A i \in 0..WinLength - 1 : Holds(full, Step(d, dir, i), player)
    BY <1>1, <2>1 DEF LineThrough
  <2> QED
    BY <2>2 DEF HasLine
<1>3. ASSUME HasLine(full, player) PROVE checkWin(any, c, player)
  <2>1. PICK d \in Cell, dir \in Directions :
           \A i \in 0..WinLength - 1 : Holds(full, Step(d, dir, i), player)
    BY <1>3 DEF HasLine
  <2>2. \E i \in 0..WinLength - 1 : Step(d, dir, i) = c
    <3> SUFFICES ASSUME \A i \in 0..WinLength - 1 : Step(d, dir, i) # c PROVE FALSE
      OBVIOUS
    <3>1. \A i \in 0..WinLength - 1 : Holds(board, Step(d, dir, i), player)
      BY <1>1, <2>1
    <3> QED
      BY <3>1 DEF HasLine
  <2>3. \A i \in 0..WinLength - 1 : Step(d, dir, i) = c \/ Holds(any, Step(d, dir, i), player)
    BY <1>1, <2>1
  <2>4. LineThrough(any, c, d, dir, player)
    BY <2>2, <2>3 DEF LineThrough
  <2> QED
    BY <2>4, CheckWinFindsLines
<1> QED
  BY <1>2, <1>3 DEF any, full

\* A stone that is not player's, on a cell that does not hold one of player's,
\* neither makes nor breaks a line of player's.
LEMMA OtherStoneKeepsLines ==
    ASSUME NEW board \in Board, NEW c \in Cell, NEW player, NEW stone \in Stone,
           board[c] # player, stone # player
    PROVE  HasLine(Placed(board, c, stone), player) <=> HasLine(board, player)
<1>1. ~Holds(board, c, player)
  BY DEF Holds
<1>2. \A x : Holds(Placed(board, c, stone), x, player) <=> Holds(board, x, player)
  BY <1>1, PlacedHolds
<1> QED
  BY <1>2 DEF HasLine

\* An empty board has no line.
LEMMA EmptyBoardHasNoLine ==
    ASSUME NEW player \in Player
    PROVE  ~HasLine(EmptyBoard, player)
<1>1. EMPTY # player
  BY DEF Player, EMPTY, AI_PLAYER, HUMAN_PLAYER
<1>2. \A x : ~Holds(EmptyBoard, x, player)
  BY <1>1 DEF Holds, IsInBoard, EmptyBoard
<1>3. 0 \in 0..WinLength - 1
  BY GomokuAssumption
<1> QED
  BY <1>2, <1>3 DEF HasLine

\* The second stone on a cell hides the first, and a stone that is taken back
\* leaves no trace.
LEMMA PlacedTwice ==
    ASSUME NEW board \in Board, NEW c \in Cell, NEW first \in Stone, NEW second \in Stone
    PROVE  /\ Placed(Placed(board, c, first), c, second) = Placed(board, c, second)
           /\ board[c] = second => Placed(Placed(board, c, first), c, second) = board
<1> DEFINE twice == Placed(Placed(board, c, first), c, second)
<1>1. Placed(board, c, first) \in Board /\ Placed(board, c, second) \in Board
  BY PlacedType
<1>2. twice \in Board
  BY <1>1, PlacedType
<1>3. \A d \in Cell : twice[d] = Placed(board, c, second)[d]
  BY <1>1 DEF Placed, Board
<1>4. board[c] = second => \A d \in Cell : twice[d] = board[d]
  BY <1>1 DEF Placed, Board
<1> HIDE DEF twice
<1>5. twice = Placed(board, c, second)
  BY <1>1, <1>2, <1>3 DEF Board
<1>6. board[c] = second => twice = board
  BY <1>2, <1>4 DEF Board
<1> QED
  BY <1>5, <1>6 DEF twice

\* A stone on an empty cell is one stone more, and the others stay.
LEMMA PlacedIsOneMore ==
    ASSUME NEW board \in Board, NEW c \in Cell, NEW player \in Player, board[c] = EMPTY,
           NEW after \in Board, after = Placed(board, c, player)
    PROVE  /\ {<<d, after[d]>> : d \in Occupied(after)}
                = {<<d, board[d]>> : d \in Occupied(board)} \cup {<<c, player>>}
           /\ Cardinality(Occupied(after)) = Cardinality(Occupied(board)) + 1
           /\ after[c] = player
<1>1. player # EMPTY /\ player \in Stone
  BY DEF Player, EMPTY, AI_PLAYER, HUMAN_PLAYER, Stone
<1>2. after[c] = player /\ \A d \in Cell : d # c => after[d] = board[d]
  BY DEF Placed, Board
<1>3. Occupied(after) = Occupied(board) \cup {c} /\ c \notin Occupied(board)
  BY <1>1, <1>2 DEF Occupied
<1>4. IsFiniteSet(Occupied(board))
  <2>1. Occupied(board) \in SUBSET Cell
    BY DEF Occupied
  <2> QED
    BY <2>1, CellsFinite, FS_Subset
<1>5. Cardinality(Occupied(after)) = Cardinality(Occupied(board)) + 1
  BY <1>3, <1>4, FS_AddElement
<1>6. \A d \in Occupied(board) : after[d] = board[d]
  BY <1>2, <1>3 DEF Occupied
<1> QED
  BY <1>2, <1>3, <1>5, <1>6

\* As long as not every cell is counted, there is an empty one.
LEMMA FewStones ==
    ASSUME NEW board \in Board, Cardinality(Occupied(board)) < CellCount
    PROVE  ~IsFull(board)
BY CellsFinite, CellCountType DEF IsFull
=============================================================================

------------------------------- MODULE Sudoku -------------------------------
(***************************************************************************)
(* SudokuSolver: the search with dancing links.  A board has Box * Box     *)
(* rows, of the 81 cells of the code as many as Box gives.  Node 1 is      *)
(* root_, the columns come next, then four nodes for each way to fill a    *)
(* cell, which lie in one ring by left and right; a column and its nodes   *)
(* lie in one by up and down.                                              *)
(***************************************************************************)
EXTENDS Integers, Sequences, FiniteSets, SequencesExt

CONSTANTS
  Box,     \* side of a box, 3 in the code
  Puzzles  \* bound: the boards to be solved

VARIABLES
  puzzle,   \* history: the board given
  board,    \* inout_
  name,     \* names of the nodes
  col,      \* their columns
  links,    \* left, right, up, down and size of the nodes
  chosen,   \* stack_; a call's column is in front of its first row
  covering, \* the column of each of the calls of solve() that run
  solver    \* "solve" begins, "try" a row, "undo" it, "true", "false"

sudokuVars == <<puzzle, board, name, col, links, chosen, covering, solver>>

Side == Box * Box
Cells == 0..Side * Side - 1
Digits == 1..Side

Root == 1

RowOf(i) == i \div Side
ColOf(i) == i % Side

\* Mutant of BoxOf: a factor is left out.
BoxOfNarrow(i) == RowOf(i) \div Box + ColOf(i) \div Box

BoxOf(i) == (RowOf(i) \div Box) * Box + ColOf(i) \div Box

\* What digit v in cell i satisfies, in the order of the constructor's
\* new_row(): the columns' names.
Satisfies(i, v) == <<<<"cell", i>>, <<"row", RowOf(i), v>>, <<"col", ColOf(i), v>>,
                     <<"box", BoxOf(i), v>>>>

\* rows, cols and boxes of the constructor.
Taken(b) == UNION {ToSet(Satisfies(i, b[i])) : i \in {j \in Cells : b[j] # 0}}

\* The columns in the order of append_column().
Columns(b) ==
  LET cells == [i \in 1..Side * Side |-> <<"cell", i - 1>>]
      lines == FlattenSeq([k \in 1..Side * Side |->
                 LET i == (k - 1) \div Side  v == ((k - 1) % Side) + 1
                 IN <<<<"row", i, v>>, <<"col", i, v>>, <<"box", i, v>>>>])
      taken == Taken(b)
  IN SelectSeq(cells \o lines, LAMBDA c : c \notin taken)

\* The ways to fill a cell, in the order of the constructor.
Ways(b) ==
  LET taken == Taken(b)
  IN SelectSeq([k \in 1..Side * Side * Side |->
                  [cell |-> (k - 1) \div Side, digit |-> ((k - 1) % Side) + 1]],
               LAMBDA w : ToSet(Satisfies(w.cell, w.digit)) \cap taken = {})

Position(ring, n) == SelectInSeq(ring, LAMBDA m : m = n)

\* The successor in a ring that is given as a sequence of nodes.
After(ring, n) == ring[(Position(ring, n) % Len(ring)) + 1]
Before(ring, n) == ring[((Position(ring, n) + Len(ring) - 2) % Len(ring)) + 1]

\* The nodes' names: root_, the columns, then four for each way.
Names(b) ==
  LET ways == Ways(b)
  IN <<<<"root">>>> \o Columns(b) \o FlattenSeq(
       [k \in 1..Len(ways) |-> Satisfies(ways[k].cell, ways[k].digit)])

\* A node's column is the first with its name.
ColumnsOf(names) ==
  <<1>> \o [n \in 1..Len(names)-1 |-> SelectInSeq(names, LAMBDA m : m = names[n + 1])]

\* SudokuSolver(), new_column() and new_row(): put_left() and put_up() append
\* to a ring.
Built(b) ==
  LET count == Len(Columns(b)) + 1
      cs == ColumnsOf(Names(b))
      all == [i \in 1..Len(cs) |-> i]
      head == [i \in 1..count |-> i]
      across(n) == IF n <= count THEN head
                   ELSE LET first == n - ((n - count - 1) % 4)
                        IN [i \in 1..4 |-> first + i - 1]
      along == <<<<1>>>> \o
                 [c \in 1..count-1 |-> SelectSeq(all, LAMBDA m : cs[m] = c + 1)]
  IN [left |-> [n \in 1..Len(cs) |-> Before(across(n), n)],
      right |-> [n \in 1..Len(cs) |-> After(across(n), n)],
      up |-> [n \in 1..Len(cs) |-> Before(along[cs[n]], n)],
      down |-> [n \in 1..Len(cs) |-> After(along[cs[n]], n)],
      size |-> [n \in 1..Len(cs) |-> IF n \in 2..count THEN Len(along[n]) - 1 ELSE 0]]

SudokuInit ==
  /\ puzzle \in Puzzles /\ board = puzzle
  /\ name = Names(puzzle) /\ col = ColumnsOf(name)
  /\ links = Built(puzzle)
  /\ chosen = <<>> /\ covering = <<>> /\ solver = "solve"

SudokuTypeOK ==
  /\ board \in [Cells -> 0..Side]
  /\ solver \in {"solve", "try", "undo", "true", "false"}
  /\ Len(covering) - Len(chosen) \in {0, 1}
  /\ \A n \in DOMAIN links.size : links.size[n] \in 0..Side * Side

-----------------------------------------------------------------------------
(* Links.                                                                  *)

\* The nodes of a ring from n on.
Ring(next, n) ==
  LET from[m \in DOMAIN next] ==
        IF next[m] = n THEN <<m>> ELSE <<m>> \o from[next[m]]
  IN from[n]

Others(next, n) == Tail(Ring(next, n))

Unlink(l, j) ==
  [l EXCEPT !.up[l.down[j]] = l.up[j], !.down[l.up[j]] = l.down[j],
            !.size[col[j]] = @ - 1]
Relink(l, j) ==
  [l EXCEPT !.up[l.down[j]] = j, !.down[l.up[j]] = j, !.size[col[j]] = @ + 1]

Cover(l, c) ==
  FoldLeft(LAMBDA m, row : FoldLeft(Unlink, m, Others(m.right, row)),
           [l EXCEPT !.left[l.right[c]] = l.left[c], !.right[l.left[c]] = l.right[c]],
           Others(l.down, c))

Uncover(l, c) ==
  LET m == FoldLeft(LAMBDA k, row : FoldLeft(Relink, k, Others(k.left, row)),
                    l, Others(l.up, c))
  IN [m EXCEPT !.left[m.right[c]] = c, !.right[m.left[c]] = c]

\* get_min_column(): the first of the smallest, or the first with at most one.
MinColumn ==
  LET cs == Others(links.right, Root)
      least == CHOOSE i \in 1..Len(cs) :
        /\ \A j \in 1..i-1 : links.size[cs[j]] > links.size[cs[i]]
                               /\ links.size[cs[j]] > 1
        /\ links.size[cs[i]] <= 1
             \/ \A j \in 1..Len(cs) : links.size[cs[j]] >= links.size[cs[i]]
  IN cs[least]

-----------------------------------------------------------------------------
(* solve(), a call, a row of its loop or a return at a time.               *)

\* Each row of stack_ has a node for its cell and others for its digit.
Solved ==
  /\ solver = "solve" /\ links.right[Root] = Root
  /\ LET ring(k) == ToSet(Ring(links.right, chosen[k]))
         cell(k) == CHOOSE n \in ring(k) : name[n][1] = "cell"
         digit(k) == name[CHOOSE n \in ring(k) : name[n][1] # "cell"][3]
     IN board' = [i \in Cells |->
          IF \E k \in 1..Len(chosen) : name[cell(k)][2] = i
            THEN digit(CHOOSE k \in 1..Len(chosen) : name[cell(k)][2] = i)
            ELSE board[i]]
  /\ solver' = "true"
  /\ UNCHANGED <<puzzle, name, col, links, chosen, covering>>

SolveBegins ==
  /\ solver = "solve" /\ links.right[Root] # Root
  /\ covering' = Append(covering, MinColumn)
  /\ links' = Cover(links, MinColumn)
  /\ chosen' = Append(chosen, MinColumn)
  /\ solver' = "try"
  /\ UNCHANGED <<puzzle, name, col, board>>

\* The next row of the column, or none; the last of chosen is the row before.
TryRow ==
  /\ solver = "try"
  /\ LET column == Last(covering)
         row == links.down[Last(chosen)]
     IN IF row # column
          THEN /\ chosen' = Append(Front(chosen), row)
               /\ links' = FoldLeft(LAMBDA l, j : Cover(l, col[j]), links,
                                    Others(links.right, row))
               /\ solver' = "solve"
               /\ UNCHANGED covering
          ELSE /\ chosen' = Front(chosen)
               /\ links' = Uncover(links, column)
               /\ covering' = Front(covering)
               /\ solver' = IF Len(covering) = 1 THEN "false" ELSE "undo"
  /\ UNCHANGED <<puzzle, name, col, board>>

\* solve() has returned false to the loop of its caller.
UndoRow ==
  /\ solver = "undo"
  /\ links' = FoldLeft(LAMBDA l, j : Uncover(l, col[j]), links,
                       Others(links.left, Last(chosen)))
  /\ solver' = "try"
  /\ UNCHANGED <<puzzle, name, col, board, chosen, covering>>

SudokuNext == Solved \/ SolveBegins \/ TryRow \/ UndoRow

-----------------------------------------------------------------------------
(* Properties                                                              *)

\* A full board that obeys the rules, said without boxes' numbers.
Obeys(b) ==
  \A i, j \in Cells : i # j /\ b[i] = b[j] =>
    /\ RowOf(i) # RowOf(j) /\ ColOf(i) # ColOf(j)
    /\ RowOf(i) \div Box # RowOf(j) \div Box
         \/ ColOf(i) \div Box # ColOf(j) \div Box

Completes(b) == \A i \in Cells : puzzle[i] # 0 => b[i] = puzzle[i]

\* All that obey the rules, a row after the other.
Grids ==
  LET lines == {r \in [1..Side -> Digits] : Cardinality(Range(r)) = Side}
      fits(g, r) == \A c \in 1..Side : \A k \in 1..Len(g) : g[k][c] # r[c]
      more(gs, k) == {Append(p[1], p[2]) : p \in {q \in gs \X lines : fits(q[1], q[2])}}
      squares == FoldLeft(more, {<<>>}, [k \in 1..Side |-> k])
      flat(g) == [i \in Cells |-> g[RowOf(i) + 1][ColOf(i) + 1]]
  IN {b \in {flat(g) : g \in squares} : Obeys(b)}

\* However often the search has to go back, what it returns is a completion of
\* the board, it finds one if there is one, and a search that fails leaves
\* every link as it was (sudoku.cpp:127-131).
SudokuRight ==
  /\ solver = "true" => Obeys(board) /\ Completes(board)
  /\ solver = "false" =>
       (~\E b \in Grids : Completes(b)) /\ links = Built(puzzle)
=============================================================================

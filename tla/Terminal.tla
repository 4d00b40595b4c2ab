------------------------------ MODULE Terminal ------------------------------
(***************************************************************************)
(* The text screen (src/terminal/terminal.c): a cursor of a row and a      *)
(* column, and characters stored at video_mem[row * width + column].  The  *)
(* row is a 16-bit number that nothing compares with the height of the     *)
(* screen.  print is terminal_writechar for every character; what the      *)
(* characters are does not matter, save for the end of a line.             *)
(***************************************************************************)
EXTENDS Integers

CONSTANTS
  Width,   \* VGA_WIDTH
  Rows     \* 2^16: rows a cursor can count

ASSUME TerminalAssumption == Width \in Nat \ {0} /\ Rows \in Nat \ {0}

VARIABLES
  row, col,  \* terminal_row, terminal_col
  last,      \* history: the last cell of video_mem written, -1 at first
  lines      \* history: how often a line has ended

vars == <<row, col, last, lines>>

(* A character is one that is seen, or the end of a line.                  *)
Visible == "c"
NewLine == "n"
Chars == {Visible, NewLine}

Cell(x, y) == y * Width + x

(* terminal_initialize, and the cells it clears are blank.                 *)
Init == row = 0 /\ col = 0 /\ last = -1 /\ lines = 0

EndLine ==
  /\ row' = (row + 1) % Rows
  /\ col' = 0
  /\ lines' = lines + 1

(* Looks at the end of the line one column too late.                       *)
Mut_WriteVisible ==
  /\ last' = Cell(col, row)
  /\ \/ col + 1 > Width /\ EndLine
     \/ col + 1 <= Width /\ col' = col + 1 /\ UNCHANGED <<row, lines>>

(* terminal_putchar, and the cursor moves on.                              *)
WriteVisible ==
  /\ last' = Cell(col, row)
  /\ \/ col + 1 >= Width /\ EndLine
     \/ col + 1 < Width /\ col' = col + 1 /\ UNCHANGED <<row, lines>>

terminal_writechar(c) ==
  \/ c = NewLine /\ EndLine /\ UNCHANGED last
  \/ c # NewLine /\ WriteVisible

Next == \E c \in Chars : terminal_writechar(c)

Spec == Init /\ [][Next]_vars
-----------------------------------------------------------------------------
(* Every character goes behind all those before it, each on a cell of its  *)
(* own and in the row of its line, until the 16 bits of the row have been  *)
(* counted through and the text starts again at the top                    *)
(* (terminal.c:22-36).                                                     *)
TextInOrder ==
  lines < Rows => /\ row = lines
                  /\ col \in 0 .. Width - 1
                  /\ last < Cell(col, row)
=============================================================================

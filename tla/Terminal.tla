------------------------------ MODULE Terminal ------------------------------
(***************************************************************************)
(* What a text display promises: a sheet of paper that only grows          *)
(* downwards, of which the last CRT_ROWS rows are in view.  Nothing is     *)
(* ever copied; the view follows the writing position.  Cga (cga_putc in   *)
(* kern/console.c) implements it on a fixed buffer that it scrolls.        *)
(***************************************************************************)
EXTENDS Integers, Sequences

CONSTANTS CRT_ROWS, CRT_COLS,
          Glyph, Space     \* what a cell can show, and the empty cell

VARIABLES
  paper,    \* everything written, cell after cell, down to the end of the view
  at        \* cells before the writing position

(* The rows that have left the view.                                       *)
Top == (Len(paper) \div CRT_COLS) - CRT_ROWS

TermInit == /\ paper \in [1 .. CRT_ROWS * CRT_COLS -> Glyph]
            /\ at \in 0 .. CRT_ROWS * CRT_COLS - 1

(* Move to `to', with blank rows added until it is in view.                *)
MoveTo(written, to) ==
  LET rows == Len(written) \div CRT_COLS
      need == (to \div CRT_COLS) + 1
      new  == IF need > rows THEN (need - rows) * CRT_COLS ELSE 0
  IN  /\ paper' = written \o [i \in 1 .. new |-> Space]
      /\ at' = to

(* n copies of g from the writing position on, on as many new rows as they *)
(* need.                                                                   *)
Write(g, n) ==
  MoveTo([i \in 1 .. (IF at + n > Len(paper) THEN at + n + ((-(at + n)) % CRT_COLS)
                                             ELSE Len(paper)) |->
            IF i \in at + 1 .. at + n THEN g
            ELSE IF i <= Len(paper) THEN paper[i] ELSE Space],
         at + n)

RowStart == at - (at % CRT_COLS)

TermNext ==
  \/ \E g \in Glyph : Write(g, 1)
  \/ Write(Space, 5)                                   \* tab
  \/ MoveTo(paper, RowStart + CRT_COLS)                \* new line
  \/ MoveTo(paper, RowStart)                           \* carriage return
  \/ /\ at > Top * CRT_COLS                            \* backspace, not above the view
     /\ MoveTo([paper EXCEPT ![at] = Space], at - 1)

TermSpec == TermInit /\ [][TermNext]_<<paper, at>>
=============================================================================

--------------------------------- MODULE Cga ---------------------------------
(***************************************************************************)
(* The text display of kern/console.c: cga_putc and the cursor registers.  *)
(* crt_buf is the screen in adapter memory, crt_pos the driver's copy of   *)
(* the writing position, cursor what the 6845 has been told.  A character  *)
(* is a control character or a glyph; its attribute byte is left out.      *)
(***************************************************************************)
EXTENDS Integers, Sequences

CONSTANTS CRT_ROWS, CRT_COLS,
          Glyph, Space,    \* what a cell can show, and the empty cell
          MaxGone          \* bound: rows a behaviour scrolls off the screen

CRT_SIZE == CRT_ROWS * CRT_COLS
Cell     == 0 .. CRT_SIZE - 1
Control  == {"BS", "NL", "CR", "TAB"}

ASSUME ScreenAssumption ==
  /\ CRT_ROWS \in Nat \ {0, 1} /\ CRT_COLS \in Nat \ {0}
  /\ MaxGone \in Nat /\ Space \in Glyph /\ Glyph \cap Control = {}

VARIABLES
  crt_buf, crt_pos, cursor,
  gone          \* history: the cells that have been scrolled off, oldest first

cgaVars == <<crt_buf, crt_pos, cursor, gone>>

(* A display: the screen, the position, and the cells it has scrolled off. *)
Display == [buf |-> crt_buf, pos |-> crt_pos, gone |-> gone]

-----------------------------------------------------------------------------
(* Seeded fault: the last row keeps its text.                              *)
scroll_uncleared(d) ==
  IF d.pos < CRT_SIZE THEN d
  ELSE [buf  |-> [i \in Cell |-> IF i < CRT_SIZE - CRT_COLS THEN d.buf[i + CRT_COLS]
                                 ELSE d.buf[i]],
        pos  |-> d.pos - CRT_COLS,
        gone |-> d.gone \o [i \in 1 .. CRT_COLS |-> d.buf[i - 1]]]

(* The end of cga_putc: at the end of the screen every row moves up and    *)
(* the last one is cleared.                                                *)
scroll(d) ==
  IF d.pos < CRT_SIZE THEN d
  ELSE [buf  |-> [i \in Cell |-> IF i < CRT_SIZE - CRT_COLS THEN d.buf[i + CRT_COLS]
                                 ELSE Space],
        pos  |-> d.pos - CRT_COLS,
        gone |-> d.gone \o [i \in 1 .. CRT_COLS |-> d.buf[i - 1]]]

put_glyph(d, g) ==
  scroll([buf |-> [d.buf EXCEPT ![d.pos] = g], pos |-> d.pos + 1, gone |-> d.gone])

(* '\t': five calls of cons_putc(' '), each of which may scroll.           *)
put_tab(d) ==
  LET put(e) == put_glyph(e, Space)
  IN  scroll(put(put(put(put(put(d))))))

line_start(d) == [d EXCEPT !.pos = d.pos - (d.pos % CRT_COLS)]

(* cga_putc's switch and scroll: the display after character c.            *)
putc(d, c) ==
  CASE c = "BS" -> scroll(IF d.pos > 0
                          THEN [buf |-> [d.buf EXCEPT ![d.pos - 1] = Space],
                                pos |-> d.pos - 1, gone |-> d.gone]
                          ELSE d)
    [] c = "NL" -> scroll(line_start([d EXCEPT !.pos = d.pos + CRT_COLS]))
    [] c = "CR" -> scroll(line_start(d))
    [] c = "TAB" -> put_tab(d)
    [] OTHER    -> put_glyph(d, c)

-----------------------------------------------------------------------------
(* cga_init: the screen as the BIOS left it, the position read back from   *)
(* the 6845.                                                               *)
cga_init ==
  /\ crt_buf \in [Cell -> Glyph]
  /\ cursor \in Cell
  /\ crt_pos = cursor
  /\ gone = <<>>

(* cga_putc(c), the outb of the new position included.                     *)
cga_putc(c) ==
  LET d == putc(Display, c) IN
  /\ Len(d.gone) <= MaxGone * CRT_COLS
  /\ crt_buf' = d.buf /\ crt_pos' = d.pos /\ gone' = d.gone
  /\ cursor' = d.pos

CgaNext == \E c \in Glyph \cup Control : cga_putc(c)
CgaSpec == cga_init /\ [][CgaNext]_cgaVars

-----------------------------------------------------------------------------
(* The screen is always the last CRT_ROWS rows of an endless sheet written *)
(* in order: scrolling loses no cell still in view, shows no stale text on *)
(* a fresh row, every control character moves as on paper, and the cursor  *)
(* the user sees is the place the next character goes to.                  *)
AbstractTerminal == INSTANCE Terminal WITH
  paper <- gone \o [i \in 1 .. CRT_SIZE |-> crt_buf[i - 1]],
  at    <- Len(gone) + cursor

ImplementsTerminal == AbstractTerminal!TermSpec
=============================================================================

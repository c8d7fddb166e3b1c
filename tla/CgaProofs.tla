------------------------------ MODULE CgaProofs ------------------------------
(***************************************************************************)
(* The display of Cga implements the endless sheet of Terminal, for every  *)
(* size of the screen.  A display stands for a sheet (its scrolled-off     *)
(* cells, then its screen) and a place on it; the lemmas say what each     *)
(* part of cga_putc does to them.                                          *)
(***************************************************************************)
EXTENDS Cga, SequenceTheorems, TLAPS

Disp  == [buf : [Cell -> Glyph], pos : Cell, gone : Seq(Glyph)]

Sheet(d) == d.gone \o [i \in 1 .. CRT_SIZE |-> d.buf[i - 1]]
Place(d) == Len(d.gone) + d.pos

\* Whole rows.
Rows(n) == \E r \in Nat : n = r * CRT_COLS

(* Between characters, the position is on the screen; inside cga_putc,     *)
(* before the scroll, it may be up to a row further.                       *)
Whole(d) == d \in Disp /\ Rows(Len(d.gone))
Loose(d) ==
  /\ d.buf \in [Cell -> Glyph] /\ d.pos \in 0 .. CRT_SIZE + CRT_COLS - 1
  /\ d.gone \in Seq(Glyph) /\ Rows(Len(d.gone))
  /\ d = [buf |-> d.buf, pos |-> d.pos, gone |-> d.gone]

CgaInv == Whole(Display) /\ cursor = crt_pos

-----------------------------------------------------------------------------
(* Arithmetic.                                                             *)

LEMMA ScreenSize ==
  /\ CRT_SIZE \in Nat /\ CRT_COLS \in Nat /\ CRT_COLS >= 1 /\ CRT_SIZE >= CRT_COLS + CRT_COLS
  /\ CRT_ROWS \in Nat
<1>1. ASSUME NEW r \in Nat, NEW c \in Nat, r >= 2
      PROVE  r * c \in Nat /\ r * c >= 2 * c
  <2>1. r * c = 2 * c + (r - 2) * c /\ (r - 2) * c \in Nat
    BY <1>1
  <2> QED BY <2>1
<1>2. CRT_ROWS \in Nat /\ CRT_COLS \in Nat /\ CRT_ROWS >= 2 /\ CRT_COLS >= 1
  BY ScreenAssumption
<1>3. CRT_SIZE \in Nat /\ CRT_SIZE >= 2 * CRT_COLS
  BY <1>1, <1>2 DEF CRT_SIZE
<1> QED BY <1>2, <1>3

LEMMA Divide ==
  ASSUME NEW q \in Int, NEW s \in 0 .. CRT_COLS - 1
  PROVE  (q * CRT_COLS + s) \div CRT_COLS = q /\ (q * CRT_COLS + s) % CRT_COLS = s
<1>1. ASSUME NEW C \in Nat, C >= 1, NEW p \in Int, NEW t \in 0 .. C - 1
      PROVE  (p * C + t) \div C = p /\ (p * C + t) % C = t
  BY <1>1
<1> QED BY <1>1, ScreenSize

LEMMA Divided ==
  ASSUME NEW a \in Int
  PROVE  \E q \in Int : \E s \in 0 .. CRT_COLS - 1 : a = q * CRT_COLS + s
<1>1. ASSUME NEW C \in Nat, C >= 1
      PROVE  a = (a \div C) * C + (a % C) /\ a % C \in 0 .. C - 1 /\ a \div C \in Int
  BY <1>1, SMTT(30)
<1>2. /\ a = (a \div CRT_COLS) * CRT_COLS + (a % CRT_COLS)
      /\ a % CRT_COLS \in 0 .. CRT_COLS - 1 /\ a \div CRT_COLS \in Int
  BY <1>1, ScreenSize
<1> QED BY <1>2

LEMMA RowOrder ==
  ASSUME NEW p \in Int, NEW q \in Int
  PROVE  /\ p * CRT_COLS \in Int /\ (p + 1) * CRT_COLS = p * CRT_COLS + CRT_COLS
         /\ p * CRT_COLS < q * CRT_COLS <=> p < q
         /\ p < q => p * CRT_COLS + CRT_COLS <= q * CRT_COLS
<1>1. ASSUME NEW C \in Nat, C >= 1, NEW a \in Int, NEW b \in Int
      PROVE  /\ a * C \in Int /\ (a + 1) * C = a * C + C
             /\ b * C = a * C + (b - a) * C
             /\ b > a => (b - a) * C >= C
             /\ b <= a => (b - a) * C <= 0
  <2>1. a * C \in Int /\ (a + 1) * C = a * C + C /\ b * C = a * C + (b - a) * C
    OBVIOUS
  <2>2. ASSUME b > a PROVE (b - a) * C >= C
    <3>1. (b - a) * C = C + (b - a - 1) * C /\ (b - a - 1) * C \in Nat
      BY <1>1, <2>2
    <3> QED BY <3>1
  <2>3. ASSUME b <= a PROVE (b - a) * C <= 0
    <3>1. (b - a) * C = -((a - b) * C) /\ (a - b) * C \in Nat
      BY <1>1, <2>3
    <3> QED BY <3>1
  <2> QED BY <2>1, <2>2, <2>3
<1> DEFINE C == CRT_COLS
           x == p * C
           y == q * C
           z == (q - p) * C
<1>2. /\ x \in Int /\ y \in Int /\ z \in Int /\ (p + 1) * C = x + C /\ y = x + z
      /\ (q > p => z >= C) /\ (q <= p => z <= 0) /\ C \in Nat /\ C >= 1
  BY <1>1, ScreenSize
<1> HIDE DEF x, y, z, C
<1>3. (x < y <=> p < q) /\ (p < q => x + C <= y)
  BY <1>2
<1> QED BY <1>2, <1>3 DEF x, y, C

(* The blank cells Terminal adds when it moves to `to' below `written'.    *)
Added(written, to) ==
  LET rows == Len(written) \div CRT_COLS
      need == (to \div CRT_COLS) + 1
  IN  IF need > rows THEN (need - rows) * CRT_COLS ELSE 0

LEMMA IsSeq ==
  ASSUME NEW S, NEW n \in Nat, NEW f \in [1 .. n -> S]
  PROVE  f \in Seq(S) /\ Len(f) = n
<1>1. f \in Seq(S)
  BY SeqDef, Zenon
<1> QED BY <1>1

(* A sheet of whole rows that reaches just past `to' is the written one    *)
(* and the blank rows Terminal adds to it.                                 *)
LEMMA Extended ==
  ASSUME NEW W \in Seq(Glyph), NEW P \in Seq(Glyph), NEW to \in Nat,
         Rows(Len(W)), Rows(Len(P)), Len(W) <= Len(P), to < Len(P),
         Len(W) < Len(P) => Len(P) <= to + CRT_COLS,
         \A k \in 1 .. Len(P) : P[k] = IF k <= Len(W) THEN W[k] ELSE Space
  PROVE  P = W \o [i \in 1 .. Added(W, to) |-> Space]
<1> DEFINE C == CRT_COLS
           new == Added(W, to)
           B == [i \in 1 .. new |-> Space]
<1>1. PICK m \in Nat : Len(W) = m * C
  BY DEF Rows
<1>2. PICK l \in Nat : Len(P) = l * C
  BY DEF Rows
<1>3. PICK q \in Int, s \in 0 .. C - 1 : to = q * C + s
  BY Divided
<1>4. Len(W) \div C = m /\ to \div C = q
  <2>1. m * C + 0 = m * C /\ 0 \in 0 .. C - 1
    BY ScreenSize, RowOrder
  <2>2. (m * C + 0) \div C = m
    BY <2>1, Divide
  <2> QED BY <1>1, <1>3, <2>1, <2>2, Divide
<1>5. new = IF q + 1 > m THEN ((q + 1) - m) * C ELSE 0
  BY <1>4 DEF Added
<1>6. C \in Nat /\ C >= 1 /\ m * C \in Int /\ l * C \in Int /\ q * C \in Int /\ s \in 0 .. C - 1
  BY ScreenSize, RowOrder
<1>7. m <= l /\ (m < l => m * C + C <= l * C) /\ (l < q => l * C + C <= q * C)
      /\ (l > q + 1 => (q + 1) * C + C <= l * C) /\ (q + 1) * C = q * C + C
      /\ (m > q => q * C + C <= m * C) /\ (l = q => l * C = q * C)
  <2>1. m <= l
    <3>1. ~(l < m)
      BY <1>1, <1>2, <1>6, RowOrder
    <3> QED BY <3>1
  <2>4. q + 1 \in Int /\ l \in Int /\ m \in Int
    OBVIOUS
  <2>2. (m < l => m * C + C <= l * C) /\ (l < q => l * C + C <= q * C)
    <3>1. m < l => m * C + C <= l * C
      BY <2>4, RowOrder
    <3>2. l < q => l * C + C <= q * C
      BY <2>4, RowOrder
    <3> QED BY <3>1, <3>2
  <2>3. (q + 1) * C = q * C + C /\ (q < m => q * C + C <= m * C)
    <3>1. (q + 1) * C = q * C + C
      BY <2>4, RowOrder
    <3>2. q < m => q * C + C <= m * C
      BY <2>4, RowOrder
    <3> QED BY <3>1, <3>2
  <2>5. q + 1 < l => (q + 1) * C + C <= l * C
    BY <2>4, RowOrder
  <2> HIDE DEF C
  <2> QED BY <2>1, <2>2, <2>3, <2>5
<1> DEFINE x == m * C
           y == l * C
           z == q * C
           t == (q + 1) * C
<1>8. /\ x \in Int /\ y \in Int /\ z \in Int /\ t = z + C /\ x <= y /\ to = z + s /\ z + s < y
      /\ (x < y => y <= z + s + C) /\ m <= l /\ (m < l => x + C <= y) /\ (l < q => y + C <= z)
      /\ (l > q + 1 => t + C <= y) /\ (m > q => z + C <= x) /\ (l = q => y = z)
      /\ (m = l => x = y)
  BY <1>1, <1>2, <1>3, <1>6, <1>7
<1> HIDE DEF x, y, z, t
<1>9. IF q + 1 > m THEN l = q + 1 ELSE l = m
  <2>1. l > q
    BY <1>6, <1>8
  <2>2. CASE q + 1 > m
    <3>1. m < l
      BY <2>1, <2>2, <1>8
    <3>2. ~(l > q + 1)
      BY <1>6, <1>8, <3>1
    <3> QED BY <2>1, <2>2, <3>2
  <2>3. CASE ~(q + 1 > m)
    <3>1. ~(m < l)
      BY <1>6, <1>8, <2>3
    <3> QED BY <1>8, <2>3, <3>1
  <2> QED BY <2>2, <2>3
<1>10. new \in Nat /\ Len(P) = Len(W) + new
  <2>1. CASE q + 1 > m
    <3>1. l = q + 1 /\ new = (l - m) * C /\ l >= m
      BY <1>5, <1>8, <1>9, <2>1
    <3>2. ASSUME NEW a \in Nat, NEW b \in Nat, NEW c \in Nat, a >= b
          PROVE  (a - b) * c \in Nat /\ a * c = b * c + (a - b) * c
      BY <3>2
    <3> QED BY <1>1, <1>2, <1>6, <3>1, <3>2
  <2>2. CASE ~(q + 1 > m)
    BY <1>1, <1>2, <1>5, <1>9, <2>2, LenProperties
  <2> QED BY <2>1, <2>2
<1> HIDE DEF new
<1>11. B \in Seq(Glyph) /\ Len(B) = new
  <2>1. B \in [1 .. new -> Glyph]
    BY ScreenAssumption
  <2> HIDE DEF B
  <2> QED BY <1>10, <2>1, IsSeq
<1>12. \A i \in 1 .. new : B[i] = Space
  OBVIOUS
<1> HIDE DEF B
<1>13. /\ W \o B \in Seq(Glyph) /\ Len(W \o B) = Len(P)
       /\ \A k \in 1 .. Len(P) : (W \o B)[k] = IF k <= Len(W) THEN W[k] ELSE B[k - Len(W)]
  BY <1>10, <1>11, ConcatProperties
<1>14. ASSUME NEW k \in 1 .. Len(P) PROVE P[k] = (W \o B)[k]
  <2>1. CASE k <= Len(W)
    BY <1>13, <2>1
  <2>2. CASE ~(k <= Len(W))
    <3>1. k - Len(W) \in 1 .. new
      BY <1>10, <2>2, LenProperties
    <3> QED BY <1>12, <1>13, <2>2, <3>1
  <2> QED BY <2>1, <2>2
<1> QED BY <1>13, <1>14, SeqEqual DEF B, new

-----------------------------------------------------------------------------
(* What the parts of cga_putc do to the sheet.                             *)

(* The sheet, cell by cell.                                                *)
LEMMA SheetCells ==
  ASSUME NEW d, d.buf \in [Cell -> Glyph], d.gone \in Seq(Glyph)
  PROVE  /\ Sheet(d) \in Seq(Glyph) /\ Len(Sheet(d)) = Len(d.gone) + CRT_SIZE
         /\ Len(d.gone) \in Nat
         /\ \A k \in 1 .. Len(d.gone) : Sheet(d)[k] = d.gone[k]
         /\ \A c \in Cell : Sheet(d)[Len(d.gone) + c + 1] = d.buf[c]
<1> DEFINE B == [i \in 1 .. CRT_SIZE |-> d.buf[i - 1]]
           g == Len(d.gone)
<1>1. B \in Seq(Glyph) /\ Len(B) = CRT_SIZE
  <2>1. ASSUME NEW i \in 1 .. CRT_SIZE PROVE d.buf[i - 1] \in Glyph
    BY ScreenSize DEF Cell
  <2>2. B \in [1 .. CRT_SIZE -> Glyph]
    BY <2>1
  <2> HIDE DEF B
  <2> QED BY <2>2, ScreenSize, IsSeq
<1>2. ASSUME NEW c \in Cell PROVE c + 1 \in 1 .. CRT_SIZE /\ B[c + 1] = d.buf[c] /\ c \in Nat
  BY ScreenSize DEF Cell
<1> HIDE DEF B
<1>3. g \in Nat
  BY LenProperties
<1>4. /\ d.gone \o B \in Seq(Glyph) /\ Len(d.gone \o B) = g + CRT_SIZE
      /\ \A k \in 1 .. g + CRT_SIZE : (d.gone \o B)[k] = IF k <= g THEN d.gone[k] ELSE B[k - g]
  BY <1>1, <1>3, ConcatProperties
<1>5. Sheet(d) = d.gone \o B
  BY DEF Sheet, B
<1> HIDE DEF g
<1>6. ASSUME NEW k \in 1 .. g PROVE (d.gone \o B)[k] = d.gone[k]
  <2>1. k \in 1 .. g + CRT_SIZE /\ k <= g
    BY <1>3, ScreenSize
  <2> QED BY <1>4, <2>1
<1>7. ASSUME NEW c \in Cell PROVE (d.gone \o B)[g + c + 1] = d.buf[c]
  <2>1. /\ g + c + 1 \in 1 .. g + CRT_SIZE /\ ~(g + c + 1 <= g) /\ (g + c + 1) - g = c + 1
    BY <1>2, <1>3, ScreenSize
  <2> QED BY <1>2, <1>4, <2>1
<1> QED BY <1>3, <1>4, <1>5, <1>6, <1>7 DEF g

(* A cell of the sheet is scrolled off or on the screen.                   *)
LEMMA CellOf ==
  ASSUME NEW g \in Nat, NEW k \in 1 .. g + CRT_SIZE, ~(k <= g)
  PROVE  k - g - 1 \in Cell /\ g + (k - g - 1) + 1 = k
BY ScreenSize DEF Cell

(* The scroll keeps the place, and adds a blank row below the sheet if the *)
(* place is not on it.                                                     *)
LEMMA ScrollSheet ==
  ASSUME NEW d, Loose(d)
  PROVE  LET e == scroll(d)
             n == Len(Sheet(d))
         IN  /\ Whole(e) /\ Place(e) = Place(d)
             /\ Len(Sheet(e)) = n + (IF d.pos < CRT_SIZE THEN 0 ELSE CRT_COLS)
             /\ \A k \in 1 .. Len(Sheet(e)) :
                  Sheet(e)[k] = IF k <= n THEN Sheet(d)[k] ELSE Space
<1> DEFINE e == scroll(d)
           n == Len(Sheet(d))
           g == Len(d.gone)
           C == CRT_COLS
           S == CRT_SIZE
<1>1. /\ d.buf \in [Cell -> Glyph] /\ d.pos \in 0 .. S + C - 1 /\ d.gone \in Seq(Glyph)
      /\ Rows(g) /\ d = [buf |-> d.buf, pos |-> d.pos, gone |-> d.gone]
  BY DEF Loose
<1>2. /\ Sheet(d) \in Seq(Glyph) /\ n = g + S /\ g \in Nat
      /\ \A k \in 1 .. g : Sheet(d)[k] = d.gone[k]
      /\ \A c \in Cell : Sheet(d)[g + c + 1] = d.buf[c]
  BY <1>1, SheetCells
<1>3. CASE d.pos < S
  <2>1. e = d
    BY <1>3 DEF scroll
  <2>2. d.pos \in Cell
    BY <1>1, <1>3, ScreenSize DEF Cell
  <2>3. d \in Disp
    BY <1>1, <2>2 DEF Disp
  <2>4. n + 0 = n
    BY <1>2, ScreenSize
  <2>5. \A k \in 1 .. n : k <= n
    BY <1>2, ScreenSize
  <2> QED BY <1>1, <1>3, <2>1, <2>3, <2>4, <2>5 DEF Whole
<1>4. CASE ~(d.pos < S)
  <2> DEFINE b == [i \in Cell |-> IF i < S - C THEN d.buf[i + C] ELSE Space]
             T == [i \in 1 .. C |-> d.buf[i - 1]]
             h == d.gone \o T
  <2>1. e = [buf |-> b, pos |-> d.pos - C, gone |-> h]
    BY <1>4 DEF scroll
  <2>2. b \in [Cell -> Glyph] /\ \A c \in Cell : b[c] = IF c < S - C THEN d.buf[c + C] ELSE Space
    <3>1. ASSUME NEW c \in Cell, c < S - C PROVE d.buf[c + C] \in Glyph
      <4>1. c + C \in Cell
        BY <3>1, ScreenSize DEF Cell
      <4> QED BY <1>1, <4>1
    <3> QED BY <3>1, ScreenAssumption
  <2>3. T \in Seq(Glyph) /\ Len(T) = C /\ \A k \in 1 .. C : T[k] = d.buf[k - 1]
    <3>1. ASSUME NEW k \in 1 .. C PROVE d.buf[k - 1] \in Glyph
      <4>1. k - 1 \in Cell
        BY ScreenSize DEF Cell
      <4> QED BY <1>1, <4>1
    <3>2. T \in [1 .. C -> Glyph] /\ \A k \in 1 .. C : T[k] = d.buf[k - 1]
      BY <3>1
    <3> HIDE DEF T
    <3> QED BY <3>2, ScreenSize, IsSeq
  <2> HIDE DEF b, T
  <2>4. /\ h \in Seq(Glyph) /\ Len(h) = g + C
        /\ \A k \in 1 .. g + C : h[k] = IF k <= g THEN d.gone[k] ELSE T[k - g]
    BY <1>1, <2>3, ConcatProperties
  <2> HIDE DEF h
  <2>5. Rows(g + C)
    <3>1. PICK r \in Nat : g = r * C
      BY <1>1 DEF Rows
    <3>2. r \in Int /\ r + 1 \in Nat
      OBVIOUS
    <3>3. (r + 1) * C = r * C + C
      BY <3>2, RowOrder
    <3> QED BY <3>1, <3>2, <3>3 DEF Rows
  <2>6. d.pos - C \in Cell
    BY <1>1, <1>4, ScreenSize DEF Cell
  <2>7. e.buf = b /\ e.pos = d.pos - C /\ e.gone = h
    BY <2>1
  <2>8. Whole(e)
    BY <2>1, <2>2, <2>4, <2>5, <2>6, <2>7 DEF Whole, Disp
  <2>9. Place(e) = Place(d)
    BY <1>1, <1>2, <2>4, <2>7, ScreenSize DEF Place
  <2> HIDE DEF e
  <2>10. /\ Len(Sheet(e)) = (g + C) + S
         /\ \A k \in 1 .. g + C : Sheet(e)[k] = h[k]
         /\ \A c \in Cell : Sheet(e)[(g + C) + c + 1] = b[c]
    BY <2>2, <2>4, <2>7, SheetCells
  <2>11. ASSUME NEW k \in 1 .. (g + C) + S PROVE Sheet(e)[k] = IF k <= n THEN Sheet(d)[k] ELSE Space
    <3>0. g \in Nat /\ C \in Nat /\ C >= 1 /\ S \in Nat /\ S >= C + C /\ n = g + S /\ g + C \in Nat
      BY <1>2, ScreenSize
    <3>1. CASE k <= g
      <4>1. k \in 1 .. g /\ k \in 1 .. g + C /\ k <= n
        BY <3>0, <3>1
      <4> QED BY <1>2, <2>4, <2>10, <3>1, <4>1
    <3>2. CASE ~(k <= g) /\ k <= g + C
      <4> DEFINE c == k - g - 1
      <4>1. /\ k \in 1 .. g + C /\ k - g \in 1 .. C /\ (k - g) - 1 = c /\ c \in Cell
            /\ g + c + 1 = k /\ k <= n
        BY <3>0, <3>2 DEF Cell
      <4> HIDE DEF c
      <4>2. Sheet(e)[k] = d.buf[c]
        BY <2>3, <2>4, <2>10, <3>2, <4>1
      <4>3. Sheet(d)[k] = d.buf[c]
        BY <1>2, <4>1
      <4> QED BY <4>1, <4>2, <4>3
    <3>3. CASE ~(k <= g + C)
      <4> DEFINE c == k - (g + C) - 1
      <4>1. c \in Cell /\ (g + C) + c + 1 = k
        BY <3>0, <3>3, CellOf
      <4>2. c \in Nat /\ (c < S - C <=> k <= n) /\ (c < S - C => c + C \in Cell) /\ g + (c + C) + 1 = k
        BY <3>0, <3>3 DEF Cell
      <4> HIDE DEF c
      <4>3. Sheet(e)[k] = b[c]
        BY <2>10, <4>1
      <4>4. CASE k <= n
        <5>1. b[c] = d.buf[c + C]
          BY <2>2, <4>1, <4>2, <4>4
        <5>2. Sheet(d)[g + (c + C) + 1] = d.buf[c + C]
          BY <1>2, <4>2, <4>4
        <5> QED BY <4>2, <4>3, <4>4, <5>1, <5>2
      <4>5. CASE ~(k <= n)
        BY <2>2, <4>1, <4>2, <4>3, <4>5
      <4> QED BY <4>4, <4>5
    <3> QED BY <3>1, <3>2, <3>3
  <2>12. (g + C) + S = n + C
    BY <1>2, ScreenSize
  <2> HIDE DEF n, g
  <2> QED BY <1>4, <2>8, <2>9, <2>10, <2>11, <2>12 DEF e, n
<1> QED BY <1>3, <1>4

LEMMA WholeSheet ==
  ASSUME NEW d, Whole(d)
  PROVE  /\ d.buf \in [Cell -> Glyph] /\ d.pos \in Cell /\ d.gone \in Seq(Glyph)
         /\ Sheet(d) \in Seq(Glyph) /\ Len(Sheet(d)) \in Nat /\ Rows(Len(Sheet(d)))
         /\ Place(d) \in Nat /\ Place(d) < Len(Sheet(d))
         /\ Len(Sheet(d)) = Len(d.gone) + CRT_SIZE /\ Len(d.gone) \in Nat
<1>1. d.buf \in [Cell -> Glyph] /\ d.pos \in Cell /\ d.gone \in Seq(Glyph) /\ Rows(Len(d.gone))
  BY DEF Whole, Disp
<1>2. Sheet(d) \in Seq(Glyph) /\ Len(Sheet(d)) = Len(d.gone) + CRT_SIZE /\ Len(d.gone) \in Nat
  BY <1>1, SheetCells
<1>3. Rows(Len(d.gone) + CRT_SIZE)
  <2>1. PICK r \in Nat : Len(d.gone) = r * CRT_COLS
    BY <1>1 DEF Rows
  <2>2. ASSUME NEW a \in Nat, NEW b \in Nat, NEW c \in Nat
        PROVE  a * c + b * c = (a + b) * c /\ a + b \in Nat
    OBVIOUS
  <2>3. r * CRT_COLS + CRT_ROWS * CRT_COLS = (r + CRT_ROWS) * CRT_COLS /\ r + CRT_ROWS \in Nat
    BY <2>2, ScreenSize
  <2> QED BY <2>1, <2>3 DEF Rows, CRT_SIZE
<1>4. Place(d) \in Nat /\ Place(d) < Len(d.gone) + CRT_SIZE
  BY <1>1, <1>2, ScreenSize DEF Place, Cell
<1>5. Len(Sheet(d)) \in Nat
  BY <1>2, ScreenSize
<1> QED BY <1>1, <1>2, <1>3, <1>4, <1>5

(* e is d after n times the glyph g.                                       *)
Written(d, e, g, n) ==
  /\ Whole(e) /\ Place(e) = Place(d) + n
  /\ Len(Sheet(d)) <= Len(Sheet(e))
  /\ Len(Sheet(d)) < Len(Sheet(e)) => Len(Sheet(e)) <= Place(e) + CRT_COLS
  /\ \A k \in 1 .. Len(Sheet(e)) :
       Sheet(e)[k] = IF k \in Place(d) + 1 .. Place(d) + n THEN g
                     ELSE IF k <= Len(Sheet(d)) THEN Sheet(d)[k] ELSE Space

LEMMA NothingWritten ==
  ASSUME NEW d, Whole(d), NEW g
  PROVE  Written(d, d, g, 0)
<1>1. Place(d) \in Nat /\ Len(Sheet(d)) \in Nat
  BY WholeSheet
<1>2. Place(d) = Place(d) + 0 /\ \A k \in 1 .. Len(Sheet(d)) : k \notin Place(d) + 1 .. Place(d) + 0
  BY <1>1
<1> QED BY <1>1, <1>2 DEF Written

LEMMA OneMoreWritten ==
  ASSUME NEW d, Whole(d), NEW e, NEW g \in Glyph, NEW n \in Nat, Written(d, e, g, n)
  PROVE  Written(d, put_glyph(e, g), g, n + 1)
<1> DEFINE w == [buf |-> [e.buf EXCEPT ![e.pos] = g], pos |-> e.pos + 1, gone |-> e.gone]
           f == put_glyph(e, g)
           p == Place(d)
           a == Len(Sheet(d))
           b == Len(Sheet(e))
           G == Len(e.gone)
<1>1. /\ e.buf \in [Cell -> Glyph] /\ e.pos \in Cell /\ e.gone \in Seq(Glyph) /\ Rows(G)
      /\ b \in Nat /\ G \in Nat /\ b = G + CRT_SIZE
  BY WholeSheet DEF Written, Whole
<1>2. p \in Nat /\ a \in Nat
  BY WholeSheet
<1>3. /\ Place(e) = p + n /\ a <= b /\ (a < b => b <= (p + n) + CRT_COLS)
      /\ \A k \in 1 .. b : Sheet(e)[k] = IF k \in p + 1 .. p + n THEN g
                                         ELSE IF k <= a THEN Sheet(d)[k] ELSE Space
  BY DEF Written
<1>4. G + e.pos = p + n
  BY <1>3 DEF Place
<1>5. w.buf = [e.buf EXCEPT ![e.pos] = g] /\ w.pos = e.pos + 1 /\ w.gone = e.gone
      /\ w = [buf |-> w.buf, pos |-> w.pos, gone |-> w.gone]
  OBVIOUS
<1>6. f = scroll(w)
  BY DEF put_glyph
<1> HIDE DEF w, f
<1>7. w.buf \in [Cell -> Glyph] /\ \A c \in Cell : w.buf[c] = IF c = e.pos THEN g ELSE e.buf[c]
  BY <1>1, <1>5
<1>8. Loose(w)
  <2>1. w.pos \in 0 .. CRT_SIZE + CRT_COLS - 1
    BY <1>1, <1>5, ScreenSize DEF Cell
  <2> QED BY <1>1, <1>5, <1>7, <2>1 DEF Loose
<1>9. Place(w) = p + n + 1
  BY <1>1, <1>2, <1>4, <1>5 DEF Place, Cell
<1>10. /\ Len(Sheet(w)) = b
       /\ \A k \in 1 .. b : Sheet(w)[k] = IF k = p + n + 1 THEN g ELSE Sheet(e)[k]
  <2>1. /\ Len(Sheet(w)) = b /\ \A k \in 1 .. G : Sheet(w)[k] = e.gone[k]
        /\ \A c \in Cell : Sheet(w)[G + c + 1] = w.buf[c]
    BY <1>1, <1>5, <1>7, SheetCells
  <2>2. /\ \A k \in 1 .. G : Sheet(e)[k] = e.gone[k]
        /\ \A c \in Cell : Sheet(e)[G + c + 1] = e.buf[c]
    BY <1>1, SheetCells
  <2> HIDE DEF b, G, p
  <2>3. ASSUME NEW k \in 1 .. b PROVE Sheet(w)[k] = IF k = p + n + 1 THEN g ELSE Sheet(e)[k]
    <3>1. CASE k <= G
      <4>1. k \in 1 .. G /\ k # p + n + 1
        BY <1>1, <1>2, <1>4, <3>1 DEF Cell
      <4> QED BY <2>1, <2>2, <4>1
    <3>2. CASE ~(k <= G)
      <4> DEFINE c == k - G - 1
      <4>1. c \in Cell /\ G + c + 1 = k
        BY <1>1, <3>2, CellOf
      <4>2. c = e.pos <=> k = p + n + 1
        BY <1>1, <1>2, <1>4, <3>2 DEF Cell
      <4> HIDE DEF c
      <4>3. Sheet(w)[k] = w.buf[c] /\ Sheet(e)[k] = e.buf[c]
        BY <2>1, <2>2, <4>1
      <4> QED BY <1>7, <4>1, <4>2, <4>3
    <3> QED BY <3>1, <3>2
  <2> QED BY <2>1, <2>3
<1>11. /\ Whole(f) /\ Place(f) = p + n + 1
       /\ Len(Sheet(f)) = b + (IF e.pos + 1 < CRT_SIZE THEN 0 ELSE CRT_COLS)
       /\ \A k \in 1 .. Len(Sheet(f)) : Sheet(f)[k] = IF k <= b THEN Sheet(w)[k] ELSE Space
  BY <1>5, <1>6, <1>8, <1>9, <1>10, ScrollSheet
<1> DEFINE l == Len(Sheet(f))
<1> HIDE DEF a, b, G, p, l
<1>12. /\ l \in Nat /\ b <= l /\ a <= l /\ (a < l => l <= (p + n + 1) + CRT_COLS)
       /\ p + n + 1 <= b
  <2>1. e.pos \in Nat /\ e.pos < CRT_SIZE
    BY <1>1, ScreenSize DEF Cell
  <2>2. CASE e.pos + 1 < CRT_SIZE
    <3>1. l = b
      BY <1>1, <1>11, <2>2 DEF l
    <3> QED BY <1>1, <1>2, <1>3, <1>4, <2>1, <3>1, ScreenSize
  <2>3. CASE ~(e.pos + 1 < CRT_SIZE)
    <3>1. l = b + CRT_COLS
      BY <1>11, <2>3 DEF l
    <3> QED BY <1>1, <1>2, <1>3, <1>4, <2>1, <2>3, <3>1, ScreenSize
  <2> QED BY <2>2, <2>3
<1>13. ASSUME NEW k \in 1 .. l
       PROVE  Sheet(f)[k] = IF k \in p + 1 .. p + (n + 1) THEN g
                            ELSE IF k <= a THEN Sheet(d)[k] ELSE Space
  <2>1. CASE k <= b
    <3>1. k \in 1 .. b /\ (k \in p + 1 .. p + (n + 1) <=> k \in p + 1 .. p + n \/ k = p + n + 1)
      BY <1>1, <1>2, <1>12, <2>1
    <3>2. Sheet(f)[k] = IF k = p + n + 1 THEN g ELSE Sheet(e)[k]
      BY <1>10, <1>11, <2>1, <3>1 DEF l
    <3>3. Sheet(e)[k] = IF k \in p + 1 .. p + n THEN g ELSE IF k <= a THEN Sheet(d)[k] ELSE Space
      BY <1>3, <3>1
    <3> QED BY <3>1, <3>2, <3>3
  <2>2. CASE ~(k <= b)
    <3>1. Sheet(f)[k] = Space
      BY <1>11, <2>2 DEF l
    <3>2. k \notin p + 1 .. p + (n + 1) /\ ~(k <= a)
      BY <1>1, <1>2, <1>3, <1>12, <2>2
    <3> QED BY <3>1, <3>2
  <2> QED BY <2>1, <2>2
<1>14. p + n + 1 = p + (n + 1)
  BY <1>2
<1> QED BY <1>11, <1>12, <1>13, <1>14 DEF Written, a, l, p, f

-----------------------------------------------------------------------------
(* The steps of Terminal.                                                  *)

\* The end of the row before which cell a lies, as Terminal computes it.
RowEnd(a) == a + ((-a) % CRT_COLS)

LEMMA RoundedUp ==
  ASSUME NEW a \in Nat
  PROVE  /\ RowEnd(a) \in Nat /\ a <= RowEnd(a) /\ Rows(RowEnd(a))
         /\ \A m \in Nat : Rows(m) /\ a < m => RowEnd(a) <= m
<1> DEFINE C == CRT_COLS
<1>1. PICK q \in Int, s \in 0 .. C - 1 : a = q * C + s
  BY Divided
<1>2. C \in Nat /\ C >= 1 /\ q * C \in Int /\ (q + 1) * C = q * C + C /\ q + 1 \in Int
  BY ScreenSize, RowOrder
<1>3. q >= 0
  <2>1. q < 0 => q * C + C <= 0 * C
    BY RowOrder
  <2>2. 0 * C = 0
    BY <1>2
  <2> HIDE DEF C
  <2> QED BY <1>1, <1>2, <2>1, <2>2
<1>4. CASE s = 0
  <2>1. -a = (-q) * C + 0 /\ -q \in Int /\ 0 \in 0 .. C - 1
    BY <1>1, <1>2, <1>4
  <2>2. (-a) % C = 0
    BY <2>1, Divide
  <2>3. RowEnd(a) = a /\ a = q * C
    BY <1>1, <1>2, <1>4, <2>2 DEF RowEnd
  <2> QED BY <1>3, <2>3 DEF Rows
<1>5. CASE s # 0
  <2>1. -a = (-q - 1) * C + (C - s) /\ -q - 1 \in Int /\ C - s \in 0 .. C - 1
    <3>1. ASSUME NEW u \in Int, NEW v \in Int, NEW c \in Nat
          PROVE  -(u * c + v) = (-u - 1) * c + (c - v)
      OBVIOUS
    <3>2. -(q * C + s) = (-q - 1) * C + (C - s)
      BY <1>2, <3>1
    <3>3. -q - 1 \in Int /\ C - s \in 0 .. C - 1
      BY <1>2, <1>5
    <3> QED BY <1>1, <3>2, <3>3
  <2>2. (-a) % C = C - s
    BY <2>1, Divide
  <2> DEFINE z == q * C
             y == (q + 1) * C
  <2>3. a = z + s /\ z \in Int /\ y = z + C /\ C \in Nat /\ s \in 0 .. C - 1
    BY <1>1, <1>2
  <2>4. RowEnd(a) = a + (C - s)
    BY <2>2 DEF RowEnd
  <2> HIDE DEF z, y, C
  <2>5. RowEnd(a) = y /\ a <= y /\ y \in Nat
    BY <2>3, <2>4
  <2>6. Rows(y)
    BY <1>3 DEF Rows, y, C
  <2>7. ASSUME NEW m \in Nat, Rows(m), a < m PROVE y <= m
    <3>1. PICK l \in Nat : m = l * C
      BY <2>7 DEF Rows, C
    <3>2. l \in Int
      OBVIOUS
    <3>3. z < l * C <=> q < l
      BY <3>2, RowOrder DEF z, C
    <3>4. q < l => z + C <= l * C
      BY <3>2, RowOrder DEF z, C
    <3> QED BY <2>3, <2>7, <3>1, <3>3, <3>4
  <2> QED BY <2>5, <2>6, <2>7
<1> QED BY <1>4, <1>5

(* Terminal's sheet after n times g.                                       *)
Filled(d, g, n) ==
  LET p == Place(d)
      a == Len(Sheet(d))
  IN  [k \in 1 .. (IF p + n > a THEN RowEnd(p + n) ELSE a) |->
         IF k \in p + 1 .. p + n THEN g ELSE IF k <= a THEN Sheet(d)[k] ELSE Space]

LEMMA WriteRefines ==
  ASSUME NEW d, Whole(d), NEW e, NEW g \in Glyph, NEW n \in Nat, Written(d, e, g, n)
  PROVE  Sheet(e) = Filled(d, g, n) \o [i \in 1 .. Added(Filled(d, g, n), Place(d) + n) |-> Space]
<1> DEFINE p == Place(d)
           a == Len(Sheet(d))
           P == Sheet(e)
           l == Len(P)
           x == IF p + n > a THEN RowEnd(p + n) ELSE a
           W == [k \in 1 .. x |-> IF k \in p + 1 .. p + n THEN g
                                  ELSE IF k <= a THEN Sheet(d)[k] ELSE Space]
<1>1. p \in Nat /\ a \in Nat /\ Rows(a) /\ p < a /\ Sheet(d) \in Seq(Glyph)
  BY WholeSheet
<1>2. /\ P \in Seq(Glyph) /\ l \in Nat /\ Rows(l) /\ p + n < l /\ a <= l
      /\ (a < l => l <= (p + n) + CRT_COLS)
      /\ \A k \in 1 .. l : P[k] = IF k \in p + 1 .. p + n THEN g
                                  ELSE IF k <= a THEN Sheet(d)[k] ELSE Space
  BY WholeSheet DEF Written
<1> HIDE DEF p, a, l, P
<1>3. x \in Nat /\ Rows(x) /\ a <= x /\ p + n <= x /\ x <= l
  <2>1. p + n \in Nat
    BY <1>1
  <2>2. CASE p + n > a
    BY <1>1, <1>2, <2>1, <2>2, RoundedUp
  <2>3. CASE ~(p + n > a)
    BY <1>1, <1>2, <2>1, <2>3
  <2> QED BY <2>2, <2>3
<1> HIDE DEF x
<1>4. W \in Seq(Glyph) /\ Len(W) = x
  <2>1. ASSUME NEW k \in 1 .. x, k <= a PROVE Sheet(d)[k] \in Glyph
    <3>1. k \in 1 .. Len(Sheet(d))
      BY <1>1, <2>1 DEF a
    <3> QED BY <1>1, <3>1, ElementOfSeq
  <2>2. W \in [1 .. x -> Glyph]
    BY <2>1, ScreenAssumption
  <2> HIDE DEF W
  <2> QED BY <1>3, <2>2, IsSeq
<1>5. \A k \in 1 .. x : W[k] = IF k \in p + 1 .. p + n THEN g
                               ELSE IF k <= a THEN Sheet(d)[k] ELSE Space
  OBVIOUS
<1> HIDE DEF W
<1>6. ASSUME NEW k \in 1 .. l PROVE P[k] = IF k <= x THEN W[k] ELSE Space
  <2>1. CASE k <= x
    <3>1. k \in 1 .. x
      BY <1>3, <2>1
    <3> QED BY <1>2, <1>5, <2>1, <3>1
  <2>2. CASE ~(k <= x)
    <3>1. k \notin p + 1 .. p + n /\ ~(k <= a)
      BY <1>1, <1>2, <1>3, <2>2
    <3> QED BY <1>2, <2>2, <3>1
  <2> QED BY <2>1, <2>2
<1>7. x < l => l <= (p + n) + CRT_COLS
  BY <1>1, <1>2, <1>3, ScreenSize
<1>8. p + n \in Nat
  BY <1>1
<1>9. P = W \o [i \in 1 .. Added(W, p + n) |-> Space]
  BY <1>2, <1>3, <1>4, <1>6, <1>7, <1>8, Extended DEF l
<1>10. W = Filled(d, g, n)
  BY DEF Filled, W, x, p, a
<1> QED BY <1>9, <1>10 DEF P, p

(* The scroll at the end of cga_putc is Terminal's move.                   *)
LEMMA ScrollRefines ==
  ASSUME NEW w, Loose(w)
  PROVE  /\ Whole(scroll(w)) /\ Place(scroll(w)) = Place(w)
         /\ Sheet(scroll(w)) = Sheet(w) \o [i \in 1 .. Added(Sheet(w), Place(w)) |-> Space]
<1> DEFINE e == scroll(w)
           W == Sheet(w)
           P == Sheet(e)
           C == CRT_COLS
           p == Place(w)
<1>1. w.buf \in [Cell -> Glyph] /\ w.gone \in Seq(Glyph) /\ Rows(Len(w.gone))
      /\ w.pos \in 0 .. CRT_SIZE + C - 1
  BY DEF Loose
<1>2. W \in Seq(Glyph) /\ Len(W) = Len(w.gone) + CRT_SIZE /\ Len(w.gone) \in Nat
  BY <1>1, SheetCells
<1>3. Rows(Len(W))
  <2>1. PICK r \in Nat : Len(w.gone) = r * CRT_COLS
    BY <1>1 DEF Rows
  <2>2. ASSUME NEW a \in Nat, NEW b \in Nat, NEW c \in Nat
        PROVE  a * c + b * c = (a + b) * c /\ a + b \in Nat
    OBVIOUS
  <2>3. r * CRT_COLS + CRT_ROWS * CRT_COLS = (r + CRT_ROWS) * CRT_COLS /\ r + CRT_ROWS \in Nat
    BY <2>2, ScreenSize
  <2> HIDE DEF W
  <2> QED BY <1>2, <2>1, <2>3 DEF Rows, CRT_SIZE
<1>4. /\ Whole(e) /\ Place(e) = p
      /\ Len(P) = Len(W) + (IF w.pos < CRT_SIZE THEN 0 ELSE C)
      /\ \A k \in 1 .. Len(P) : P[k] = IF k <= Len(W) THEN W[k] ELSE Space
  BY ScrollSheet
<1> HIDE DEF e
<1>5. P \in Seq(Glyph) /\ Rows(Len(P)) /\ p < Len(P) /\ Len(P) \in Nat /\ p \in Nat
  BY <1>4, WholeSheet
<1>6. p = Len(w.gone) + w.pos
  BY DEF Place
<1> DEFINE m == Len(W)
           l == Len(P)
           g == Len(w.gone)
<1> HIDE DEF W, P, p, C, m, l, g
<1>7. m <= l /\ (m < l => l <= p + C)
  <2>1. m = g + CRT_SIZE /\ g \in Nat /\ p = g + w.pos /\ w.pos \in Nat /\ C \in Nat /\ l \in Nat
    BY <1>1, <1>2, <1>5, <1>6, ScreenSize DEF m, l, g, C
  <2>2. CASE w.pos < CRT_SIZE
    BY <1>4, <2>1, <2>2, ScreenSize DEF m, l
  <2>3. CASE ~(w.pos < CRT_SIZE)
    <3>1. l = m + C
      BY <1>4, <2>3 DEF m, l
    <3> QED BY <2>1, <2>3, <3>1, ScreenSize
  <2> QED BY <2>2, <2>3
<1>8. P = W \o [i \in 1 .. Added(W, p) |-> Space]
  BY <1>2, <1>3, <1>4, <1>5, <1>7, Extended DEF m, l, C
<1> QED BY <1>4, <1>8 DEF e, P, W, p

LEMMA SameColumn ==
  ASSUME NEW g \in Nat, Rows(g), NEW p \in Nat
  PROVE  /\ p % CRT_COLS \in 0 .. p
         /\ (g + p) % CRT_COLS = p % CRT_COLS /\ (p + CRT_COLS) % CRT_COLS = p % CRT_COLS
<1> DEFINE C == CRT_COLS
<1>1. PICK r \in Nat : g = r * C
  BY DEF Rows
<1>2. PICK q \in Int, s \in 0 .. C - 1 : p = q * C + s
  BY Divided
<1>3. C \in Nat /\ C >= 1 /\ q * C \in Int /\ (q + 1) * C = q * C + C /\ q + 1 \in Int
  BY ScreenSize, RowOrder
<1>4. p % C = s
  BY <1>2, Divide
<1>5. q >= 0
  <2>1. q < 0 => q * C + C <= 0 * C
    BY RowOrder
  <2>2. 0 * C = 0
    BY <1>3
  <2> HIDE DEF C
  <2> QED BY <1>2, <1>3, <2>1, <2>2
<1>6. s <= p
  <2>1. ASSUME NEW a \in Nat, NEW c \in Nat PROVE a * c \in Nat
    OBVIOUS
  <2>2. q * C \in Nat
    BY <1>3, <1>5, <2>1
  <2> HIDE DEF C
  <2> QED BY <1>2, <1>3, <2>2
<1>7. (g + p) % C = s
  <2>1. ASSUME NEW a \in Int, NEW b \in Int, NEW c \in Nat, NEW t \in Int
        PROVE  a * c + (b * c + t) = (a + b) * c + t /\ a + b \in Int
    OBVIOUS
  <2>2. g + p = (r + q) * C + s /\ r + q \in Int
    BY <1>1, <1>2, <1>3, <2>1
  <2> QED BY <2>2, Divide
<1>8. (p + C) % C = s
  <2>1. p + C = (q + 1) * C + s
    <3> DEFINE z == q * C
               y == (q + 1) * C
    <3>1. p = z + s /\ y = z + C /\ z \in Int /\ C \in Nat /\ s \in Int
      BY <1>2, <1>3
    <3> HIDE DEF z, y, C
    <3>2. p + C = y + s
      BY <3>1
    <3> QED BY <3>2 DEF y
  <2> QED BY <1>3, <2>1, Divide
<1> QED BY <1>3, <1>4, <1>6, <1>7, <1>8

-----------------------------------------------------------------------------
(* cga_putc, character by character.                                       *)

paperBar == gone \o [i \in 1 .. CRT_SIZE |-> crt_buf[i - 1]]
atBar    == Len(gone) + cursor

(* What the map makes of a display and of the one cga_putc leaves.         *)
LEMMA Mapped ==
  ASSUME CgaInv, NEW c, cga_putc(c)
  PROVE  /\ paperBar = Sheet(Display) /\ atBar = Place(Display)
         /\ paperBar' = Sheet(putc(Display, c)) /\ atBar' = Place(putc(Display, c))
         /\ Whole(putc(Display, c)) => CgaInv'
<1> DEFINE e == putc(Display, c)
<1>1. Display.buf = crt_buf /\ Display.pos = crt_pos /\ Display.gone = gone
  BY DEF Display
<1>2. crt_buf' = e.buf /\ crt_pos' = e.pos /\ gone' = e.gone /\ cursor' = e.pos
  BY DEF cga_putc
<1>3. paperBar = Sheet(Display) /\ atBar = Place(Display)
  BY <1>1 DEF paperBar, atBar, Sheet, Place, CgaInv
<1> HIDE DEF e
<1>4. paperBar' = Sheet(e) /\ atBar' = Place(e)
  BY <1>2 DEF paperBar, atBar, Sheet, Place
<1>5. ASSUME Whole(e) PROVE CgaInv'
  <2>1. e = [buf |-> e.buf, pos |-> e.pos, gone |-> e.gone]
    BY <1>5 DEF Whole, Disp
  <2>2. Display' = e
    BY <1>2, <2>1 DEF Display
  <2> QED BY <1>2, <1>5, <2>2 DEF CgaInv
<1> QED BY <1>3, <1>4, <1>5 DEF e

(* n times a glyph is Terminal's Write.                                    *)
LEMMA WriteIs ==
  ASSUME CgaInv, NEW c, cga_putc(c), NEW g \in Glyph, NEW n \in Nat,
         Written(Display, putc(Display, c), g, n)
  PROVE  AbstractTerminal!Write(g, n) /\ CgaInv'
<1> DEFINE d == Display
           e == putc(d, c)
           W == Filled(d, g, n)
<1>1. /\ paperBar = Sheet(d) /\ atBar = Place(d) /\ paperBar' = Sheet(e) /\ atBar' = Place(e)
      /\ CgaInv'
  BY Mapped DEF Written
<1>2. Sheet(e) = W \o [i \in 1 .. Added(W, Place(d) + n) |-> Space] /\ Place(e) = Place(d) + n
  BY WriteRefines DEF CgaInv, Written
<1> DEFINE V == [i \in 1 .. (IF atBar + n > Len(paperBar) THEN RowEnd(atBar + n)
                              ELSE Len(paperBar)) |->
                   IF i \in atBar + 1 .. atBar + n THEN g
                   ELSE IF i <= Len(paperBar) THEN paperBar[i] ELSE Space]
<1>3. V = W
  <2> HIDE DEF d
  <2> QED BY <1>1 DEF Filled
<1>4. paperBar' = V \o [i \in 1 .. Added(V, atBar + n) |-> Space] /\ atBar' = atBar + n
  <2> HIDE DEF d, e, W, V
  <2> QED BY <1>1, <1>2, <1>3
<1>5. AbstractTerminal!Write(g, n) <=>
        paperBar' = V \o [i \in 1 .. Added(V, atBar + n) |-> Space] /\ atBar' = atBar + n
  BY DEF AbstractTerminal!Write, AbstractTerminal!MoveTo, RowEnd, Added, paperBar, atBar
<1> HIDE DEF V
<1> QED BY <1>1, <1>4, <1>5

LEMMA GlyphRefines ==
  ASSUME CgaInv, NEW g \in Glyph, cga_putc(g)
  PROVE  AbstractTerminal!TermNext /\ CgaInv'
<1>1. putc(Display, g) = put_glyph(Display, g)
  <2>1. g \notin {"BS", "NL", "CR", "TAB"}
    BY ScreenAssumption DEF Control
  <2> QED BY <2>1 DEF putc
<1>2. Written(Display, put_glyph(Display, g), g, 0 + 1)
  BY NothingWritten, OneMoreWritten DEF CgaInv
<1>3. 0 + 1 = 1 /\ 1 \in Nat
  OBVIOUS
<1>4. AbstractTerminal!Write(g, 1) /\ CgaInv'
  BY <1>1, <1>2, <1>3, WriteIs
<1> QED BY <1>4 DEF AbstractTerminal!TermNext

LEMMA TabRefines ==
  ASSUME CgaInv, cga_putc("TAB")
  PROVE  AbstractTerminal!TermNext /\ CgaInv'
<1> DEFINE d  == Display
           d1 == put_glyph(d, Space)
           d2 == put_glyph(d1, Space)
           d3 == put_glyph(d2, Space)
           d4 == put_glyph(d3, Space)
           d5 == put_glyph(d4, Space)
<1>0. Space \in Glyph /\ Whole(d) /\ Written(d, d, Space, 0)
  BY ScreenAssumption, NothingWritten DEF CgaInv
<1>1. putc(d, "TAB") = scroll(d5)
  BY DEF putc, put_tab
<1> HIDE DEF d
<1>2. Written(d, d1, Space, 1)
  <2>1. Written(d, d1, Space, 0 + 1) /\ 0 + 1 = 1
    BY <1>0, OneMoreWritten
  <2> QED BY <2>1
<1> HIDE DEF d1
<1>3. Written(d, d2, Space, 2)
  <2>1. Written(d, d2, Space, 1 + 1) /\ 1 + 1 = 2
    BY <1>0, <1>2, OneMoreWritten
  <2> QED BY <2>1
<1> HIDE DEF d2
<1>4. Written(d, d3, Space, 3)
  <2>1. Written(d, d3, Space, 2 + 1) /\ 2 + 1 = 3
    BY <1>0, <1>3, OneMoreWritten
  <2> QED BY <2>1
<1> HIDE DEF d3
<1>5. Written(d, d4, Space, 4)
  <2>1. Written(d, d4, Space, 3 + 1) /\ 3 + 1 = 4
    BY <1>0, <1>4, OneMoreWritten
  <2> QED BY <2>1
<1> HIDE DEF d4
<1>6. Written(d, d5, Space, 5)
  <2>1. Written(d, d5, Space, 4 + 1) /\ 4 + 1 = 5
    BY <1>0, <1>5, OneMoreWritten
  <2> QED BY <2>1
<1> HIDE DEF d5
<1>7. scroll(d5) = d5
  <2>1. d5.pos \in Cell
    BY <1>6, WholeSheet DEF Written
  <2>2. d5.pos < CRT_SIZE
    BY <2>1, ScreenSize DEF Cell
  <2> QED BY <2>2 DEF scroll
<1>8. Written(Display, putc(Display, "TAB"), Space, 5)
  BY <1>1, <1>6, <1>7 DEF d
<1>9. AbstractTerminal!Write(Space, 5) /\ CgaInv'
  BY <1>0, <1>8, WriteIs
<1> QED BY <1>9 DEF AbstractTerminal!TermNext

(* Moving a display's position within reach of the screen changes nothing  *)
(* on the sheet, and cga_putc's scroll follows it as Terminal does.        *)
LEMMA MoveRefines ==
  ASSUME CgaInv, NEW c, cga_putc(c), NEW x \in 0 .. CRT_SIZE + CRT_COLS - 1,
         putc(Display, c) = scroll([buf |-> crt_buf, pos |-> x, gone |-> gone])
  PROVE  /\ paperBar' = paperBar \o [i \in 1 .. Added(paperBar, Len(gone) + x) |-> Space]
         /\ atBar' = Len(gone) + x /\ CgaInv'
<1> DEFINE w == [buf |-> crt_buf, pos |-> x, gone |-> gone]
           e == putc(Display, c)
<1>1. crt_buf \in [Cell -> Glyph] /\ gone \in Seq(Glyph) /\ Rows(Len(gone))
  BY DEF CgaInv, Whole, Display, Disp
<1>2. Loose(w)
  BY <1>1 DEF Loose
<1>3. Sheet(w) = paperBar /\ Place(w) = Len(gone) + x
  BY DEF Sheet, Place, paperBar
<1> HIDE DEF w
<1>4. e = scroll(w)
  BY DEF w
<1> HIDE DEF e
<1>5. Whole(e) /\ Place(e) = Place(w)
      /\ Sheet(e) = Sheet(w) \o [i \in 1 .. Added(Sheet(w), Place(w)) |-> Space]
  BY <1>2, <1>4, ScrollRefines
<1>6. paperBar' = Sheet(e) /\ atBar' = Place(e) /\ CgaInv'
  BY <1>5, Mapped DEF e
<1> QED BY <1>3, <1>5, <1>6

LEMMA Position ==
  ASSUME CgaInv
  PROVE  /\ crt_buf \in [Cell -> Glyph] /\ gone \in Seq(Glyph) /\ Rows(Len(gone))
         /\ crt_pos \in Nat /\ crt_pos < CRT_SIZE /\ Len(gone) \in Nat /\ cursor = crt_pos
         /\ atBar = Len(gone) + crt_pos /\ Whole(Display)
<1>1. /\ crt_buf \in [Cell -> Glyph] /\ gone \in Seq(Glyph) /\ Rows(Len(gone)) /\ crt_pos \in Cell
      /\ cursor = crt_pos /\ Whole(Display)
  BY DEF CgaInv, Whole, Display, Disp
<1>2. crt_pos \in Nat /\ crt_pos < CRT_SIZE
  BY <1>1, ScreenSize DEF Cell
<1> QED BY <1>1, <1>2, LenProperties DEF atBar

LEMMA Moved ==
  ASSUME CgaInv, NEW y
  PROVE  [Display EXCEPT !.pos = y] = [buf |-> crt_buf, pos |-> y, gone |-> gone]
BY DEF Display

LEMMA NewlineRefines ==
  ASSUME CgaInv, cga_putc("NL")
  PROVE  AbstractTerminal!TermNext /\ CgaInv'
<1> DEFINE C == CRT_COLS
           p == crt_pos
           g == Len(gone)
           x == (p + C) - ((p + C) % C)
<1>1. p \in Nat /\ p < CRT_SIZE /\ g \in Nat /\ Rows(g) /\ atBar = g + p /\ C \in Nat
  BY Position, ScreenSize
<1>2. putc(Display, "NL") = scroll([buf |-> crt_buf, pos |-> x, gone |-> gone])
  <2>1. putc(Display, "NL") = scroll(line_start([Display EXCEPT !.pos = Display.pos + C]))
    BY DEF putc
  <2>2. [Display EXCEPT !.pos = Display.pos + C] = [buf |-> crt_buf, pos |-> p + C, gone |-> gone]
    BY Moved DEF Display
  <2>3. line_start([buf |-> crt_buf, pos |-> p + C, gone |-> gone])
          = [buf |-> crt_buf, pos |-> x, gone |-> gone]
    BY DEF line_start
  <2> QED BY <2>1, <2>2, <2>3
<1>3. p % C \in 0 .. p /\ (g + p) % C = p % C /\ (p + C) % C = p % C
  BY <1>1, SameColumn
<1>4. x \in 0 .. CRT_SIZE + C - 1 /\ g + x = (atBar - (atBar % C)) + C
  <2> DEFINE s == p % C
  <2>1. s \in 0 .. p /\ x = (p + C) - s /\ atBar - (atBar % C) = (g + p) - s
    BY <1>1, <1>3
  <2> HIDE DEF s, x
  <2>2. s \in Nat /\ s <= p
    BY <1>1, <2>1
  <2> QED BY <1>1, <2>1, <2>2, ScreenSize
<1> HIDE DEF x, p, g
<1>5. /\ paperBar' = paperBar \o [i \in 1 .. Added(paperBar, g + x) |-> Space]
      /\ atBar' = g + x /\ CgaInv'
  BY <1>2, <1>4, MoveRefines DEF g
<1> DEFINE to == (atBar - (atBar % CRT_COLS)) + CRT_COLS
<1>6. paperBar' = paperBar \o [i \in 1 .. Added(paperBar, to) |-> Space] /\ atBar' = to
  BY <1>4, <1>5
<1> QED BY <1>5, <1>6
        DEF AbstractTerminal!TermNext, AbstractTerminal!MoveTo, AbstractTerminal!RowStart,
            Added, paperBar, atBar

LEMMA ReturnRefines ==
  ASSUME CgaInv, cga_putc("CR")
  PROVE  AbstractTerminal!TermNext /\ CgaInv'
<1> DEFINE C == CRT_COLS
           p == crt_pos
           g == Len(gone)
           x == p - (p % C)
<1>1. p \in Nat /\ p < CRT_SIZE /\ g \in Nat /\ Rows(g) /\ atBar = g + p /\ C \in Nat
  BY Position, ScreenSize
<1>2. putc(Display, "CR") = scroll([buf |-> crt_buf, pos |-> x, gone |-> gone])
  <2>1. putc(Display, "CR") = scroll(line_start(Display))
    BY DEF putc
  <2>2. line_start(Display) = [buf |-> crt_buf, pos |-> x, gone |-> gone]
    BY Moved DEF line_start, Display
  <2> QED BY <2>1, <2>2
<1>3. p % C \in 0 .. p /\ (g + p) % C = p % C
  BY <1>1, SameColumn
<1>4. x \in 0 .. CRT_SIZE + C - 1 /\ g + x = atBar - (atBar % C)
  <2> DEFINE s == p % C
  <2>1. s \in 0 .. p /\ x = p - s /\ atBar - (atBar % C) = (g + p) - s
    BY <1>1, <1>3
  <2> HIDE DEF s, x
  <2>2. s \in Nat /\ s <= p
    BY <1>1, <2>1
  <2> QED BY <1>1, <2>1, <2>2, ScreenSize
<1> HIDE DEF x, p, g
<1>5. /\ paperBar' = paperBar \o [i \in 1 .. Added(paperBar, g + x) |-> Space]
      /\ atBar' = g + x /\ CgaInv'
  BY <1>2, <1>4, MoveRefines DEF g
<1> DEFINE to == atBar - (atBar % CRT_COLS)
<1>6. paperBar' = paperBar \o [i \in 1 .. Added(paperBar, to) |-> Space] /\ atBar' = to
  BY <1>4, <1>5
<1> QED BY <1>5, <1>6
        DEF AbstractTerminal!TermNext, AbstractTerminal!MoveTo, AbstractTerminal!RowStart,
            Added, paperBar, atBar

LEMMA BackspaceRefines ==
  ASSUME CgaInv, cga_putc("BS")
  PROVE  (AbstractTerminal!TermNext \/ UNCHANGED <<paperBar, atBar>>) /\ CgaInv'
<1> DEFINE p == crt_pos
           g == Len(gone)
           e == putc(Display, "BS")
<1>1. /\ p \in Nat /\ p < CRT_SIZE /\ g \in Nat /\ Rows(g) /\ atBar = g + p /\ Whole(Display)
      /\ crt_buf \in [Cell -> Glyph] /\ gone \in Seq(Glyph) /\ cursor = p
  BY Position
<1>2. Display.pos = p /\ Display.buf = crt_buf /\ Display.gone = gone
  BY DEF Display
<1>3. CASE ~(p > 0)
  <2>1. e = Display
    BY <1>1, <1>2, <1>3 DEF putc, scroll
  <2>2. paperBar' = paperBar /\ atBar' = atBar /\ CgaInv'
    BY <1>1, <2>1, Mapped
  <2> QED BY <2>2
<1>4. CASE p > 0
  <2> DEFINE b == [crt_buf EXCEPT ![p - 1] = Space]
             w == [buf |-> b, pos |-> p - 1, gone |-> gone]
             V == [paperBar EXCEPT ![atBar] = Space]
  <2>1. e = scroll(w)
    BY <1>2, <1>4 DEF putc
  <2>2. p - 1 \in Cell /\ p - 1 \in 0 .. CRT_SIZE + CRT_COLS - 1
    BY <1>1, <1>4, ScreenSize DEF Cell
  <2>3. b \in [Cell -> Glyph] /\ \A c \in Cell : b[c] = IF c = p - 1 THEN Space ELSE crt_buf[c]
    BY <1>1, <2>2, ScreenAssumption
  <2> HIDE DEF b
  <2>4. w.buf = b /\ w.pos = p - 1 /\ w.gone = gone /\ Loose(w)
    BY <1>1, <2>2, <2>3 DEF Loose
  <2> HIDE DEF w
  <2>5. paperBar = Sheet(Display)
    BY Mapped
  <2>6. /\ paperBar \in Seq(Glyph) /\ Len(paperBar) = g + CRT_SIZE
        /\ \A k \in 1 .. g : paperBar[k] = gone[k]
        /\ \A c \in Cell : paperBar[g + c + 1] = crt_buf[c]
    BY <1>1, <1>2, <2>5, SheetCells
  <2>7. /\ Sheet(w) \in Seq(Glyph) /\ Len(Sheet(w)) = g + CRT_SIZE
        /\ \A k \in 1 .. g : Sheet(w)[k] = gone[k]
        /\ \A c \in Cell : Sheet(w)[g + c + 1] = b[c]
    BY <1>1, <2>3, <2>4, SheetCells
  <2>8. V \in Seq(Glyph) /\ Len(V) = g + CRT_SIZE
        /\ \A k \in 1 .. g + CRT_SIZE : V[k] = IF k = g + p THEN Space ELSE paperBar[k]
    <3>1. g + p \in 1 .. Len(paperBar)
      BY <1>1, <1>4, <2>6, ScreenSize
    <3> HIDE DEF g, p
    <3> QED BY <1>1, <2>6, <3>1, ScreenAssumption
  <2> HIDE DEF V
  <2>9. Sheet(w) = V
    <3> HIDE DEF g, p
    <3>1. ASSUME NEW k \in 1 .. g + CRT_SIZE PROVE Sheet(w)[k] = V[k]
      <4>1. CASE k <= g
        <5>1. k \in 1 .. g /\ k # g + p
          BY <1>1, <1>4, <4>1
        <5> QED BY <2>6, <2>7, <2>8, <5>1
      <4>2. CASE ~(k <= g)
        <5> DEFINE c == k - g - 1
        <5>1. c \in Cell /\ g + c + 1 = k
          BY <1>1, <4>2, CellOf
        <5>2. c = p - 1 <=> k = g + p
          BY <1>1, <4>2
        <5> HIDE DEF c
        <5>3. Sheet(w)[k] = b[c] /\ paperBar[k] = crt_buf[c]
          BY <2>6, <2>7, <5>1
        <5> QED BY <2>3, <2>8, <5>1, <5>2, <5>3
      <4> QED BY <4>1, <4>2
    <3> QED BY <2>7, <2>8, <3>1, SeqEqual
  <2>10. Place(w) = atBar - 1
    BY <1>1, <1>4, <2>4 DEF Place
  <2>11. Whole(e) /\ Place(e) = atBar - 1
         /\ Sheet(e) = V \o [i \in 1 .. Added(V, atBar - 1) |-> Space]
    BY <2>1, <2>4, <2>9, <2>10, ScrollRefines
  <2>12. /\ paperBar' = V \o [i \in 1 .. Added(V, atBar - 1) |-> Space] /\ atBar' = atBar - 1
         /\ CgaInv'
    BY <2>11, Mapped
  <2>13. atBar > ((Len(paperBar) \div CRT_COLS) - CRT_ROWS) * CRT_COLS
    <3>1. PICK r \in Nat : g = r * CRT_COLS
      BY <1>1 DEF Rows
    <3>2. ASSUME NEW a \in Nat, NEW c \in Nat, NEW m \in Nat
          PROVE  a * c + m * c = (a + m) * c + 0 /\ a + m \in Int
      OBVIOUS
    <3>3. Len(paperBar) = (r + CRT_ROWS) * CRT_COLS + 0 /\ r + CRT_ROWS \in Int
      BY <2>6, <3>1, <3>2, ScreenSize DEF CRT_SIZE
    <3>4. 0 \in 0 .. CRT_COLS - 1
      BY ScreenSize
    <3>5. Len(paperBar) \div CRT_COLS = r + CRT_ROWS
      BY <3>3, <3>4, Divide
    <3>6. (r + CRT_ROWS) - CRT_ROWS = r
      BY ScreenSize
    <3> QED BY <1>1, <1>4, <3>1, <3>5, <3>6
  <2>14. AbstractTerminal!TermNext
    BY <2>12, <2>13
       DEF AbstractTerminal!TermNext, AbstractTerminal!MoveTo, AbstractTerminal!Top,
           Added, paperBar, atBar, V
  <2> QED BY <2>12, <2>14
<1> QED BY <1>3, <1>4

-----------------------------------------------------------------------------
LEMMA InitCga == cga_init => CgaInv /\ AbstractTerminal!TermInit
<1> SUFFICES ASSUME cga_init PROVE CgaInv /\ AbstractTerminal!TermInit
  OBVIOUS
<1>1. crt_buf \in [Cell -> Glyph] /\ crt_pos \in Cell /\ cursor = crt_pos /\ gone = <<>>
  BY DEF cga_init
<1>2. gone \in Seq(Glyph) /\ Len(gone) = 0
  BY <1>1, EmptySeq
<1>3. Rows(0)
  <2>1. 0 = 0 * CRT_COLS
    BY ScreenSize
  <2> QED BY <2>1 DEF Rows
<1>4. CgaInv
  BY <1>1, <1>2, <1>3 DEF CgaInv, Whole, Disp, Display
<1> DEFINE B == [i \in 1 .. CRT_SIZE |-> crt_buf[i - 1]]
<1>5. B \in [1 .. CRT_SIZE -> Glyph]
  <2>1. ASSUME NEW i \in 1 .. CRT_SIZE PROVE crt_buf[i - 1] \in Glyph
    <3>1. i - 1 \in Cell
      BY ScreenSize DEF Cell
    <3> QED BY <1>1, <3>1
  <2> QED BY <2>1
<1> HIDE DEF B
<1>6. B \in Seq(Glyph)
  BY <1>5, ScreenSize, IsSeq
<1>7. <<>> \o B = B
  BY <1>6
<1>8. paperBar = B
  BY <1>1, <1>7 DEF paperBar, B
<1>9. atBar \in 0 .. CRT_SIZE - 1
  BY <1>1, <1>2, ScreenSize DEF atBar, Cell
<1>10. paperBar \in [1 .. CRT_ROWS * CRT_COLS -> Glyph] /\ atBar \in 0 .. CRT_ROWS * CRT_COLS - 1
  BY <1>5, <1>8, <1>9 DEF CRT_SIZE
<1>11. AbstractTerminal!TermInit
  BY <1>10 DEF AbstractTerminal!TermInit, paperBar, atBar
<1> QED BY <1>4, <1>11

LEMMA StepCga ==
  CgaInv /\ [CgaNext]_cgaVars => CgaInv' /\ [AbstractTerminal!TermNext]_<<paperBar, atBar>>
<1> SUFFICES ASSUME CgaInv, [CgaNext]_cgaVars
             PROVE  CgaInv' /\ (AbstractTerminal!TermNext \/ UNCHANGED <<paperBar, atBar>>)
  OBVIOUS
<1>1. CASE UNCHANGED cgaVars
  BY <1>1 DEF cgaVars, CgaInv, Display, paperBar, atBar
<1>2. ASSUME NEW c \in Glyph \cup Control, cga_putc(c)
      PROVE  CgaInv' /\ (AbstractTerminal!TermNext \/ UNCHANGED <<paperBar, atBar>>)
  <2>1. CASE c \in Glyph
    BY <1>2, <2>1, GlyphRefines
  <2>2. CASE c = "BS"
    BY <1>2, <2>2, BackspaceRefines
  <2>3. CASE c = "NL"
    BY <1>2, <2>3, NewlineRefines
  <2>4. CASE c = "CR"
    BY <1>2, <2>4, ReturnRefines
  <2>5. CASE c = "TAB"
    BY <1>2, <2>5, TabRefines
  <2> QED BY <2>1, <2>2, <2>3, <2>4, <2>5 DEF Control
<1> QED BY <1>1, <1>2 DEF CgaNext

(* cga_putc with its fixed buffer and its scrolling implements the sheet   *)
(* that only grows: for every size of the screen, every set of glyphs and  *)
(* whatever is printed, no cell in view is lost or stale and the cursor    *)
(* stands where the next character goes.                                   *)
THEOREM DisplayImplementsTerminal == CgaSpec => ImplementsTerminal
<1>1. CgaInv /\ [CgaNext]_cgaVars => [AbstractTerminal!TermNext]_<<paperBar, atBar>>
  BY StepCga
<1>2. CgaInv /\ [CgaNext]_cgaVars => CgaInv'
  BY StepCga
<1>3. CgaSpec => []CgaInv
  BY <1>2, InitCga, PTL DEF CgaSpec
<1>4. CgaInv /\ [CgaNext]_cgaVars
        => [AbstractTerminal!TermNext]_<<gone \o [i \in 1 .. CRT_SIZE |-> crt_buf[i - 1]],
                                         Len(gone) + cursor>>
  BY <1>1 DEF paperBar, atBar
<1> QED
  BY <1>3, <1>4, InitCga, PTL DEF CgaSpec, ImplementsTerminal, AbstractTerminal!TermSpec
=============================================================================

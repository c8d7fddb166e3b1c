--------------------------- MODULE LineInputProofs ---------------------------
(***************************************************************************)
(* Theorems about LineInput, for every display on which a full line fits,  *)
(* every size of readline's buffer and every alphabet.                     *)
(***************************************************************************)
EXTENDS LineInput, SequenceTheorems, FiniteSetTheorems, WellFoundedInduction, TLAPS

Size == CRT_ROWS * CRT_COLS
Text == Letter \cup {Space}
Place == 0 .. Size - 1
Disp  == [buf : [Place -> Glyph], pos : Place, gone : Seq(Glyph)]
Shown == [buf |-> crt_buf, pos |-> crt_pos, gone |-> <<>>]

LineTypeOK ==
  /\ crt_buf \in [Place -> Glyph] /\ crt_pos \in Place
  /\ buf \in [0 .. BUFLEN - 1 -> Text \cup {NUL}] /\ i \in 0 .. BUFLEN - 1
  /\ line \in Seq(Text)

(* readline's buffer holds the line, in the loop and after it.             *)
BufferHoldsLine ==
  pc \in {"read", "run"} =>
    i = Len(line) /\ \A k \in 1 .. Len(line) : buf[k - 1] = line[k]

LineInv ==
  /\ LineTypeOK /\ BufferHoldsLine /\ LineOnScreen
  /\ pc = "run" => buf[i] = NUL

-----------------------------------------------------------------------------
(* The display.                                                            *)

LEMMA ScreenSize ==
  /\ Size \in Nat /\ CRT_COLS \in Nat /\ CRT_COLS >= 1 /\ Size >= 2 * CRT_COLS
  /\ BUFLEN \in Nat /\ BUFLEN >= 1 /\ BUFLEN <= Size - CRT_COLS
<1>1. ASSUME NEW r \in Nat, NEW c \in Nat
      PROVE  r * c \in Nat /\ (r - 1) * c = r * c - c /\ (r >= 2 => r * c >= 2 * c)
  <2>1. r * c \in Nat /\ (r - 1) * c = r * c - c
    OBVIOUS
  <2>2. ASSUME r >= 2 PROVE r * c >= 2 * c
    <3>1. r * c = 2 * c + (r - 2) * c /\ (r - 2) * c \in Nat
      BY <2>2
    <3> QED BY <2>1, <3>1
  <2> QED BY <2>1, <2>2
<1>2. CRT_ROWS \in Nat /\ CRT_COLS \in Nat /\ CRT_ROWS >= 2 /\ CRT_COLS >= 1
      /\ BUFLEN \in Nat /\ BUFLEN >= 1 /\ BUFLEN <= (CRT_ROWS - 1) * CRT_COLS
  BY LineAssumption
<1> QED BY <1>1, <1>2 DEF Size

LEMMA Alphabet ==
  /\ \A c \in Glyph : c \notin {"BS", "NL", "CR", "TAB"}
  /\ \A c \in Text : c # NUL
  /\ Space \in Glyph /\ Prompt \in Glyph /\ Output \in Glyph /\ Text \subseteq Glyph
BY LineAssumption DEF Glyph, Text, Space, Prompt, Output, NUL

LEMMA IsSeq ==
  ASSUME NEW S, NEW n \in Nat, NEW f \in [1 .. n -> S]
  PROVE  f \in Seq(S)
BY SeqDef, Zenon

LEMMA Changed ==
  ASSUME NEW d \in Disp, NEW y
  PROVE  [d EXCEPT !.pos = y] = [buf |-> d.buf, pos |-> y, gone |-> d.gone]
BY DEF Disp

LEMMA ScrollTypes ==
  ASSUME NEW d, d.buf \in [Place -> Glyph], d.pos \in 0 .. Size + CRT_COLS - 1,
         d.gone \in Seq(Glyph), d = [buf |-> d.buf, pos |-> d.pos, gone |-> d.gone]
  PROVE  /\ Screen!scroll(d) \in Disp
         /\ d.pos < Size => Screen!scroll(d) = d
         /\ d.pos >= Size =>
              /\ Screen!scroll(d).pos = d.pos - CRT_COLS
              /\ \A k \in 0 .. Size - CRT_COLS - 1 : Screen!scroll(d).buf[k] = d.buf[k + CRT_COLS]
<1> DEFINE b == [k \in 0 .. Size - 1 |-> IF k < Size - CRT_COLS THEN d.buf[k + CRT_COLS] ELSE Space]
           g == d.gone \o [k \in 1 .. CRT_COLS |-> d.buf[k - 1]]
<1>1. Screen!scroll(d) = IF d.pos < Size THEN d
                         ELSE [buf |-> b, pos |-> d.pos - CRT_COLS, gone |-> g]
  BY DEF Screen!scroll, Screen!CRT_SIZE, Screen!Cell, Size
<1>2. CASE d.pos < Size
  <2>1. d.pos \in Place
    BY <1>2, ScreenSize DEF Place
  <2> QED BY <1>1, <1>2, <2>1, ScreenSize DEF Disp
<1>3. CASE ~(d.pos < Size)
  <2>1. b \in [Place -> Glyph]
    <3>1. ASSUME NEW k \in 0 .. Size - 1, k < Size - CRT_COLS PROVE d.buf[k + CRT_COLS] \in Glyph
      <4>1. k + CRT_COLS \in Place
        BY <3>1, ScreenSize DEF Place
      <4> QED BY <4>1
    <3> QED BY <3>1, Alphabet DEF Place
  <2>2. g \in Seq(Glyph)
    <3>1. ASSUME NEW k \in 1 .. CRT_COLS PROVE d.buf[k - 1] \in Glyph
      <4>1. k - 1 \in Place
        BY ScreenSize DEF Place
      <4> QED BY <4>1
    <3>2. [k \in 1 .. CRT_COLS |-> d.buf[k - 1]] \in [1 .. CRT_COLS -> Glyph]
      BY <3>1
    <3>3. [k \in 1 .. CRT_COLS |-> d.buf[k - 1]] \in Seq(Glyph)
      BY <3>2, ScreenSize, IsSeq
    <3> QED BY <3>3
  <2>3. d.pos - CRT_COLS \in Place
    BY <1>3, ScreenSize DEF Place
  <2>4. \A k \in 0 .. Size - CRT_COLS - 1 : b[k] = d.buf[k + CRT_COLS]
    BY ScreenSize
  <2> HIDE DEF b, g
  <2> QED BY <1>1, <1>3, <2>1, <2>2, <2>3, <2>4, ScreenSize DEF Disp
<1> QED BY <1>2, <1>3

(* A glyph is written at the position, and everything before it keeps its  *)
(* distance from the position, scrolled or not.                            *)
LEMMA PutGlyph ==
  ASSUME NEW d \in Disp, NEW g \in Glyph
  PROVE  LET e == Screen!putc(d, g) IN
         /\ e \in Disp /\ e.pos >= 1
         /\ e.pos = IF d.pos + 1 < Size THEN d.pos + 1 ELSE Size - CRT_COLS
         /\ e.buf[e.pos - 1] = g
         /\ \A m \in 1 .. e.pos - 1 : e.buf[e.pos - 1 - m] = d.buf[d.pos - m]
<1> DEFINE w == [buf |-> [d.buf EXCEPT ![d.pos] = g],
                 pos |-> d.pos + 1, gone |-> d.gone]
           e == Screen!putc(d, g)
<1>1. d.buf \in [Place -> Glyph] /\ d.pos \in Place /\ d.gone \in Seq(Glyph)
  BY DEF Disp
<1>2. e = Screen!scroll(w)
  <2>1. e = Screen!put_glyph(d, g)
    BY Alphabet DEF Screen!putc
  <2>2. Screen!put_glyph(d, g) = Screen!scroll(w)
    BY DEF Screen!put_glyph
  <2> QED BY <2>1, <2>2
<1>3. /\ w.buf \in [Place -> Glyph] /\ w.pos \in 0 .. Size + CRT_COLS - 1 /\ w.pos = d.pos + 1
      /\ w.gone \in Seq(Glyph) /\ w = [buf |-> w.buf, pos |-> w.pos, gone |-> w.gone]
      /\ w.buf[d.pos] = g /\ \A k \in 0 .. d.pos - 1 : w.buf[k] = d.buf[k]
  BY <1>1, ScreenSize DEF Place
<1> HIDE DEF w, e
<1>4. CASE d.pos + 1 < Size
  <2>1. e \in Disp /\ e = w
    BY <1>2, <1>3, <1>4, ScrollTypes
  <2>2. d.pos \in Nat
    BY <1>1, ScreenSize DEF Place
  <2>3. e.pos - 1 = d.pos /\ e.pos >= 1
    BY <1>3, <2>1, <2>2
  <2>4. ASSUME NEW m \in 1 .. d.pos PROVE w.buf[d.pos - m] = d.buf[d.pos - m]
    BY <1>3, <2>2
  <2> QED BY <1>3, <1>4, <2>1, <2>3, <2>4 DEF e
<1>5. CASE ~(d.pos + 1 < Size)
  <2>1. d.pos + 1 = Size
    BY <1>1, <1>5, ScreenSize DEF Place
  <2>2. /\ e \in Disp /\ e.pos = w.pos - CRT_COLS
        /\ \A k \in 0 .. Size - CRT_COLS - 1 : e.buf[k] = w.buf[k + CRT_COLS]
    <3>1. w.pos >= Size
      BY <1>1, <1>3, <2>1, ScreenSize
    <3> QED BY <1>2, <1>3, <3>1, ScrollTypes
  <2>3. e.pos = Size - CRT_COLS /\ e.pos >= 1
    BY <1>3, <2>1, <2>2, ScreenSize
  <2>4. e.buf[e.pos - 1] = g
    <3>1. e.pos - 1 \in 0 .. Size - CRT_COLS - 1 /\ (e.pos - 1) + CRT_COLS = d.pos
      BY <1>1, <2>1, <2>3, ScreenSize DEF Place
    <3> QED BY <1>3, <2>2, <3>1
  <2>5. ASSUME NEW m \in 1 .. e.pos - 1 PROVE e.buf[e.pos - 1 - m] = d.buf[d.pos - m]
    <3>1. e.pos - 1 - m \in 0 .. Size - CRT_COLS - 1 /\ (e.pos - 1 - m) + CRT_COLS = d.pos - m
          /\ d.pos - m \in 0 .. d.pos - 1
      <4>1. d.pos \in Nat /\ e.pos \in Nat /\ e.pos + CRT_COLS = d.pos + 1
        BY <1>1, <2>1, <2>3, ScreenSize DEF Place
      <4>2. m \in Nat /\ 1 <= m /\ m <= e.pos - 1
        BY <4>1
      <4> QED BY <2>1, <4>1, <4>2, ScreenSize
    <3> QED BY <1>3, <2>2, <3>1
  <2> QED BY <1>5, <2>2, <2>3, <2>4, <2>5 DEF e
<1> QED BY <1>4, <1>5

(* Backspace blanks the cell before the position and steps onto it.        *)
LEMMA PutBackspace ==
  ASSUME NEW d \in Disp, d.pos > 0
  PROVE  LET e == Screen!putc(d, "BS") IN
         /\ e \in Disp /\ e.pos = d.pos - 1
         /\ \A k \in 0 .. d.pos - 2 : e.buf[k] = d.buf[k]
<1> DEFINE w == [buf |-> [d.buf EXCEPT ![d.pos - 1] = Space], pos |-> d.pos - 1, gone |-> d.gone]
           e == Screen!putc(d, "BS")
<1>1. d.buf \in [Place -> Glyph] /\ d.pos \in Place /\ d.gone \in Seq(Glyph)
  BY DEF Disp
<1>2. e = Screen!scroll(w)
  BY DEF Screen!putc
<1>3. /\ w.buf \in [Place -> Glyph] /\ w.pos \in 0 .. Size + CRT_COLS - 1 /\ w.pos = d.pos - 1
      /\ w.gone \in Seq(Glyph) /\ w = [buf |-> w.buf, pos |-> w.pos, gone |-> w.gone]
      /\ w.pos < Size
  BY <1>1, ScreenSize, Alphabet DEF Place
<1>4. \A k \in 0 .. d.pos - 2 : w.buf[k] = d.buf[k]
  BY <1>1, ScreenSize DEF Place
<1> HIDE DEF w
<1>5. e \in Disp /\ e = w
  BY <1>2, <1>3, ScrollTypes
<1> QED BY <1>3, <1>4, <1>5

LEMMA LineStart ==
  ASSUME NEW p \in Nat
  PROVE  p - (p % CRT_COLS) \in 0 .. p
<1>1. p % CRT_COLS \in 0 .. CRT_COLS - 1
  BY ScreenSize, SMTT(30)
<1>2. CASE p < CRT_COLS
  <2>1. p % CRT_COLS = p
    BY <1>2, ScreenSize, SMTT(30)
  <2> QED BY <2>1
<1>3. CASE p >= CRT_COLS
  BY <1>1, <1>3, ScreenSize
<1> QED BY <1>2, <1>3, ScreenSize

LEMMA PutReturn ==
  ASSUME NEW d \in Disp, NEW c \in {"NL", "CR"}
  PROVE  Screen!putc(d, c) \in Disp
<1> DEFINE p == IF c = "NL" THEN d.pos + CRT_COLS ELSE d.pos
           w == [buf |-> d.buf, pos |-> p - (p % CRT_COLS), gone |-> d.gone]
<1>1. d.buf \in [Place -> Glyph] /\ d.pos \in Place /\ d.gone \in Seq(Glyph)
  BY DEF Disp
<1>2. Screen!putc(d, c) = Screen!scroll(w)
  <2>1. CASE c = "CR"
    <3>1. Screen!putc(d, c) = Screen!scroll(Screen!line_start(d))
      BY <2>1 DEF Screen!putc
    <3>2. Screen!line_start(d) = w
      BY <2>1, Changed DEF Screen!line_start
    <3> QED BY <3>1, <3>2
  <2>2. CASE c = "NL"
    <3> DEFINE n == [buf |-> d.buf, pos |-> d.pos + CRT_COLS, gone |-> d.gone]
    <3>1. Screen!putc(d, c) = Screen!scroll(Screen!line_start(n))
      BY <2>2, Changed DEF Screen!putc
    <3>2. Screen!line_start(n) = w
      BY <2>2 DEF Screen!line_start
    <3> QED BY <3>1, <3>2
  <2> QED BY <2>1, <2>2
<1>3. p \in 0 .. Size + CRT_COLS - 1
  BY <1>1, ScreenSize DEF Place
<1>4. p - (p % CRT_COLS) \in 0 .. Size + CRT_COLS - 1
  <2> HIDE DEF p
  <2>1. p \in Nat
    BY <1>3, ScreenSize
  <2>2. p - (p % CRT_COLS) \in 0 .. p
    BY <2>1, LineStart
  <2> QED BY <1>3, <2>1, <2>2, ScreenSize
<1> HIDE DEF p
<1>5. /\ w.buf \in [Place -> Glyph] /\ w.pos \in 0 .. Size + CRT_COLS - 1
      /\ w.gone \in Seq(Glyph) /\ w = [buf |-> w.buf, pos |-> w.pos, gone |-> w.gone]
  BY <1>1, <1>4
<1> HIDE DEF w
<1> QED BY <1>2, <1>5, ScrollTypes

(* print goes through one display per character.  readline and monitor     *)
(* print at most four at a time.                                           *)
LEMMA PrintSteps ==
  ASSUME NEW s, Len(s) \in 0 .. 4, print(s)
  PROVE  \E d : /\ d[0] = Shown
                /\ \A n \in 1 .. Len(s) : d[n] = Screen!putc(d[n - 1], s[n])
                /\ crt_buf' = d[Len(s)].buf /\ crt_pos' = d[Len(s)].pos
<1> DEFINE Def(d) == [n \in 0 .. Len(s) |->
                        IF n = 0 THEN [buf |-> crt_buf, pos |-> crt_pos, gone |-> <<>>]
                        ELSE Screen!putc(d[n - 1], s[n])]
           d == CHOOSE g : g = Def(g)
<1>1. crt_buf' = d[Len(s)].buf /\ crt_pos' = d[Len(s)].pos
  BY DEF print
<1>2. \E g : g = Def(g)
  <2> DEFINE p1 == Screen!putc(Shown, s[1])
             p2 == Screen!putc(p1, s[2])
             p3 == Screen!putc(p2, s[3])
             p4 == Screen!putc(p3, s[4])
             g  == [n \in 0 .. Len(s) |-> IF n = 0 THEN Shown ELSE IF n = 1 THEN p1
                                          ELSE IF n = 2 THEN p2 ELSE IF n = 3 THEN p3 ELSE p4]
  <2>1. ASSUME NEW n \in 0 .. Len(s)
        PROVE  g[n] = IF n = 0 THEN Shown ELSE Screen!putc(g[n - 1], s[n])
    <3>1. n \in {0, 1, 2, 3, 4}
      <4>1. \A l \in 0 .. 4 : \A k \in 0 .. l : k \in {0, 1, 2, 3, 4}
        OBVIOUS
      <4> QED BY <4>1
    <3>2. CASE n = 0
      BY <3>2
    <3>3. CASE n = 1
      <4>1. g[0] = Shown /\ g[1] = p1 /\ 1 - 1 = 0
        BY <3>3
      <4> QED BY <3>3, <4>1
    <3>4. CASE n = 2
      <4>1. g[1] = p1 /\ g[2] = p2 /\ 2 - 1 = 1
        BY <3>4
      <4> QED BY <3>4, <4>1
    <3>5. CASE n = 3
      <4>1. g[2] = p2 /\ g[3] = p3 /\ 3 - 1 = 2
        BY <3>5
      <4> QED BY <3>5, <4>1
    <3>6. CASE n = 4
      <4>1. g[3] = p3 /\ g[4] = p4 /\ 4 - 1 = 3
        BY <3>6
      <4> QED BY <3>6, <4>1
    <3> QED BY <3>1, <3>2, <3>3, <3>4, <3>5, <3>6
  <2>2. g = [n \in 0 .. Len(s) |-> g[n]]
    OBVIOUS
  <2> HIDE DEF g
  <2>3. g = Def(g)
    BY <2>1, <2>2 DEF Shown
  <2> QED BY <2>3
<1>3. d = Def(d)
  BY <1>2
<1> HIDE DEF d
<1>4. \A n \in 0 .. Len(s) : d[n] = IF n = 0 THEN Shown ELSE Screen!putc(d[n - 1], s[n])
  BY <1>3 DEF Shown
<1>5. d[0] = Shown /\ \A n \in 1 .. Len(s) : d[n] = Screen!putc(d[n - 1], s[n])
  BY <1>4
<1> QED BY <1>1, <1>5

LEMMA ShownTypes == LineTypeOK => Shown \in Disp
<1>1. <<>> \in Seq(Glyph)
  BY EmptySeq
<1> QED BY <1>1 DEF Shown, Disp, LineTypeOK

LEMMA PrintOne ==
  ASSUME NEW c, print(<<c>>)
  PROVE  crt_buf' = Screen!putc(Shown, c).buf /\ crt_pos' = Screen!putc(Shown, c).pos
<1>1. Len(<<c>>) = 1 /\ <<c>>[1] = c /\ 1 - 1 = 0
  OBVIOUS
<1>2. PICK d : /\ d[0] = Shown
               /\ \A n \in 1 .. Len(<<c>>) : d[n] = Screen!putc(d[n - 1], <<c>>[n])
               /\ crt_buf' = d[Len(<<c>>)].buf /\ crt_pos' = d[Len(<<c>>)].pos
  BY <1>1, PrintSteps
<1>3. d[1] = Screen!putc(Shown, c)
  BY <1>1, <1>2
<1> QED BY <1>1, <1>2, <1>3

(* Whatever is printed, the display stays a display.                       *)
LEMMA PrintTypes ==
  ASSUME NEW s \in Seq(Glyph \cup {"NL", "CR"}), Len(s) <= 4, print(s), LineTypeOK
  PROVE  crt_buf' \in [Place -> Glyph] /\ crt_pos' \in Place
<1>1. Len(s) \in 0 .. 4
  <2>1. Len(s) \in Nat
    BY LenProperties
  <2>2. \A n \in Nat : n <= 4 => n \in 0 .. 4
    OBVIOUS
  <2> QED BY <2>1, <2>2
<1>2. PICK d : /\ d[0] = Shown
               /\ \A n \in 1 .. Len(s) : d[n] = Screen!putc(d[n - 1], s[n])
               /\ crt_buf' = d[Len(s)].buf /\ crt_pos' = d[Len(s)].pos
  BY <1>1, PrintSteps
<1>3. d[0] \in Disp
  BY <1>2, ShownTypes
<1>4. ASSUME NEW n \in 1 .. Len(s), d[n - 1] \in Disp PROVE d[n] \in Disp
  <2>1. s[n] \in Glyph \cup {"NL", "CR"}
    BY ElementOfSeq
  <2>2. d[n] = Screen!putc(d[n - 1], s[n])
    BY <1>2
  <2> QED BY <1>4, <2>1, <2>2, PutGlyph, PutReturn
<1>5. d[Len(s)] \in Disp
  <2>1. Len(s) \in {0, 1, 2, 3, 4}
    BY <1>1
  <2>2. Len(s) >= 1 => d[1] \in Disp
    BY <1>1, <1>3, <1>4
  <2>3. Len(s) >= 2 => d[2] \in Disp
    BY <1>1, <2>2, <1>4
  <2>4. Len(s) >= 3 => d[3] \in Disp
    BY <1>1, <2>3, <1>4
  <2>5. Len(s) >= 4 => d[4] \in Disp
    BY <1>1, <2>4, <1>4
  <2> QED BY <1>3, <2>1, <2>2, <2>3, <2>4, <2>5
<1> QED BY <1>2, <1>5 DEF Disp

-----------------------------------------------------------------------------
(* Every step keeps the invariant.                                         *)

LEMMA InitLine == Init => LineInv
<1> SUFFICES ASSUME Init PROVE LineInv
  OBVIOUS
<1>1. crt_buf \in [Place -> Glyph] /\ crt_pos \in Place
  BY Alphabet DEF Init, Place, Size
<1>2. buf \in [0 .. BUFLEN - 1 -> Text \cup {NUL}] /\ i \in 0 .. BUFLEN - 1
  BY ScreenSize DEF Init
<1>3. line \in Seq(Text)
  BY EmptySeq DEF Init
<1> QED BY <1>1, <1>2, <1>3 DEF Init, LineInv, LineTypeOK, BufferHoldsLine, LineOnScreen

LEMMA MonitorLine ==
  ASSUME LineInv, NEW t, monitor(t)
  PROVE  LineInv'
<1>1. PICK s \in Seq(Glyph \cup {"NL", "CR"}) : Len(s) <= 4 /\ print(s)
  <2>1. Output \in Glyph \cup {"NL", "CR"} /\ "NL" \in Glyph \cup {"NL", "CR"}
    BY Alphabet
  <2>2. /\ <<Output, "NL">> \in Seq(Glyph \cup {"NL", "CR"}) /\ Len(<<Output, "NL">>) <= 4
        /\ <<Output, "NL", Output, "NL">> \in Seq(Glyph \cup {"NL", "CR"})
        /\ Len(<<Output, "NL", Output, "NL">>) <= 4
    BY <2>1
  <2>3. CASE t = "null"
    BY <2>2, <2>3 DEF monitor
  <2>4. CASE t # "null"
    BY <2>2, <2>4 DEF monitor
  <2> QED BY <2>3, <2>4
<1>2. crt_buf' \in [Place -> Glyph] /\ crt_pos' \in Place
  BY <1>1, PrintTypes DEF LineInv
<1> QED BY <1>2 DEF monitor, LineInv, LineTypeOK, BufferHoldsLine, LineOnScreen

LEMMA ReadlineLine ==
  ASSUME LineInv, readline
  PROVE  LineInv'
<1> DEFINE e == Screen!putc(Shown, Prompt)
<1>1. crt_buf' = e.buf /\ crt_pos' = e.pos
  BY PrintOne DEF readline
<1>2. e \in Disp /\ e.pos >= 1 /\ e.buf[e.pos - 1] = Prompt
  BY ShownTypes, PutGlyph, Alphabet DEF LineInv
<1> HIDE DEF e
<1>3. crt_buf' \in [Place -> Glyph] /\ crt_pos' \in Place
  BY <1>1, <1>2 DEF Disp
<1>4. line' = <<>> /\ Len(line') = 0 /\ line' \in Seq(Text) /\ i' = 0 /\ 0 \in 0 .. BUFLEN - 1
  BY EmptySeq, ScreenSize DEF readline
<1>5. crt_pos' \in Nat /\ crt_pos' - 0 - 1 = crt_pos' - 1
  BY <1>3, ScreenSize DEF Place
<1>6. LineOnScreen'
  BY <1>1, <1>2, <1>4, <1>5 DEF LineOnScreen
<1> QED BY <1>3, <1>4, <1>6 DEF readline, LineInv, LineTypeOK, BufferHoldsLine

(* A character typed into a line that has room: the line on the display    *)
(* grows at its end.                                                       *)
LEMMA ReadCharLine ==
  ASSUME LineInv, NEW c, read_char(c)
  PROVE  LineInv'
<1>1. CASE ~(i < BUFLEN - 1)
  BY <1>1 DEF read_char, LineInv, LineTypeOK, BufferHoldsLine, LineOnScreen
<1>2. CASE i < BUFLEN - 1
  <2> DEFINE e == Screen!putc(Shown, c)
             n == Len(line)
             p == crt_pos
  <2>1. /\ pc = "read" /\ pc' = "read" /\ c \in Text /\ print(<<c>>) /\ i' = i + 1
        /\ buf' = [buf EXCEPT ![i] = c] /\ line' = Append(line, c)
    BY <1>2 DEF read_char, Text
  <2>2. /\ LineTypeOK /\ i = n /\ p > n /\ crt_buf[p - n - 1] = Prompt
        /\ \A k \in 1 .. n : crt_buf[p - n + k - 1] = line[k] /\ buf[k - 1] = line[k]
    BY <2>1 DEF LineInv, LineOnScreen
  <2>3. n \in Nat /\ p \in Nat /\ BUFLEN \in Nat /\ n + 1 < BUFLEN
    BY <1>2, <2>2, LenProperties, ScreenSize DEF LineTypeOK, Place
  <2>4. /\ line' \in Seq(Text) /\ Len(line') = n + 1 /\ line'[n + 1] = c
        /\ \A k \in 1 .. n : line'[k] = line[k]
    BY <2>1, <2>2, AppendProperties DEF LineTypeOK
  <2>5. /\ buf' \in [0 .. BUFLEN - 1 -> Text \cup {NUL}] /\ i' \in 0 .. BUFLEN - 1
        /\ \A k \in 1 .. n + 1 : buf'[k - 1] = line'[k]
    <3>1. i \in 0 .. BUFLEN - 1 /\ buf \in [0 .. BUFLEN - 1 -> Text \cup {NUL}]
      BY <2>2 DEF LineTypeOK
    <3>2. buf' \in [0 .. BUFLEN - 1 -> Text \cup {NUL}] /\ i' \in 0 .. BUFLEN - 1
      BY <2>1, <2>2, <2>3, <3>1
    <3>3. ASSUME NEW k \in 1 .. n PROVE buf'[k - 1] = line'[k]
      <4>1. k - 1 \in 0 .. BUFLEN - 1 /\ k - 1 # i
        BY <2>2, <2>3
      <4> QED BY <2>1, <2>2, <2>4, <3>1, <4>1
    <3>4. buf'[(n + 1) - 1] = line'[n + 1]
      <4>1. (n + 1) - 1 = i
        BY <2>2, <2>3
      <4> QED BY <2>1, <2>4, <3>1, <4>1
    <3>5. ASSUME NEW k \in 1 .. n + 1, k \notin 1 .. n PROVE k = n + 1
      BY <2>3, <3>5
    <3> HIDE DEF n
    <3> QED BY <3>2, <3>3, <3>4, <3>5
  <2>6. crt_buf' = e.buf /\ crt_pos' = e.pos
    BY <2>1, PrintOne
  <2>7. /\ e \in Disp /\ e.pos >= 1 /\ e.buf[e.pos - 1] = c
        /\ e.pos = IF p + 1 < Size THEN p + 1 ELSE Size - CRT_COLS
        /\ \A m \in 1 .. e.pos - 1 : e.buf[e.pos - 1 - m] = crt_buf[p - m]
    <3>1. Shown \in Disp /\ c \in Glyph /\ Shown.pos = p /\ Shown.buf = crt_buf
      BY <2>1, <2>2, ShownTypes, Alphabet DEF Shown
    <3> HIDE DEF p
    <3> QED BY <3>1, PutGlyph
  <2> HIDE DEF e
  <2>8. e.buf \in [Place -> Glyph] /\ e.pos \in Place /\ e.pos \in Nat
    BY <2>7, ScreenSize DEF Disp, Place
  <2>9. e.pos > n + 1
    BY <2>2, <2>3, <2>7, ScreenSize
  <2> DEFINE q == e.pos
  <2>10. ASSUME NEW k \in 1 .. n + 1 PROVE e.buf[q - (n + 1) + k - 1] = line'[k]
    <3>1. CASE k = n + 1
      <4>1. q - (n + 1) + k - 1 = q - 1
        BY <2>3, <2>8, <3>1
      <4> QED BY <2>4, <2>7, <3>1, <4>1
    <3>2. CASE k # n + 1
      <4> DEFINE m == n - k + 1
      <4>1. k \in 1 .. n
        BY <2>3, <3>2
      <4>2. m \in 1 .. q - 1 /\ q - (n + 1) + k - 1 = q - 1 - m /\ p - m = p - n + k - 1
        <5>1. n \in Nat /\ p \in Nat /\ q \in Nat /\ k \in Nat /\ 1 <= k /\ k <= n /\ q > n + 1
          BY <2>3, <2>8, <2>9, <4>1
        <5> HIDE DEF n, p, q
        <5>2. m \in Nat /\ 1 <= m /\ m <= q - 1
          BY <5>1
        <5> QED BY <5>1, <5>2
      <4> HIDE DEF m
      <4>3. e.buf[q - 1 - m] = crt_buf[p - m]
        BY <2>7, <4>2
      <4> QED BY <2>2, <2>4, <4>1, <4>2, <4>3
    <3> QED BY <3>1, <3>2
  <2>11. e.buf[q - (n + 1) - 1] = Prompt
    <3> DEFINE m == n + 1
    <3>1. m \in 1 .. q - 1 /\ q - (n + 1) - 1 = q - 1 - m /\ p - m = p - n - 1
      BY <2>3, <2>8, <2>9
    <3> HIDE DEF m
    <3>2. e.buf[q - 1 - m] = crt_buf[p - m]
      BY <2>7, <3>1
    <3> QED BY <2>2, <3>1, <3>2
  <2>12. LineTypeOK'
    BY <2>4, <2>5, <2>6, <2>8 DEF LineTypeOK
  <2>13. i' = n + 1
    BY <2>1, <2>2
  <2> HIDE DEF n, q
  <2>14. LineOnScreen'
    BY <2>4, <2>5, <2>6, <2>9, <2>10, <2>11, <2>13 DEF LineOnScreen, q
  <2> QED BY <2>1, <2>4, <2>5, <2>12, <2>13, <2>14 DEF LineInv, BufferHoldsLine
<1> QED BY <1>1, <1>2

LEMMA BackspaceLine ==
  ASSUME LineInv, read_backspace
  PROVE  LineInv'
<1>1. CASE ~(i > 0)
  BY <1>1 DEF read_backspace, LineInv, LineTypeOK, BufferHoldsLine, LineOnScreen
<1>2. CASE i > 0
  <2> DEFINE e == Screen!putc(Shown, "BS")
             n == Len(line)
             p == crt_pos
  <2>1. /\ pc = "read" /\ pc' = "read" /\ print(<<"BS">>) /\ i' = i - 1 /\ buf' = buf
        /\ line' = SubSeq(line, 1, Len(line) - 1)
    BY <1>2 DEF read_backspace
  <2>2. /\ LineTypeOK /\ i = n /\ p > n /\ crt_buf[p - n - 1] = Prompt
        /\ \A k \in 1 .. n : crt_buf[p - n + k - 1] = line[k] /\ buf[k - 1] = line[k]
    BY <2>1 DEF LineInv, LineOnScreen
  <2>3. n \in Nat /\ n >= 1 /\ p \in Nat
    BY <1>2, <2>2, LenProperties, ScreenSize DEF LineTypeOK, Place
  <2>4. /\ line' \in Seq(Text) /\ Len(line') = n - 1
        /\ \A k \in 1 .. n - 1 : line'[k] = line[k]
    <3>1. 1 \in 1 .. n + 1 /\ n - 1 \in 0 .. n /\ line \in Seq(Text)
      BY <2>2, <2>3 DEF LineTypeOK
    <3> QED BY <2>1, <2>3, <3>1, SubSeqProperties
  <2>5. crt_buf' = e.buf /\ crt_pos' = e.pos
    BY <2>1, PrintOne
  <2>6. /\ e \in Disp /\ e.pos = p - 1
        /\ \A k \in 0 .. p - 2 : e.buf[k] = crt_buf[k]
    <3>1. Shown \in Disp /\ Shown.pos = p /\ Shown.buf = crt_buf /\ p > 0
      BY <2>2, <2>3, ShownTypes DEF Shown
    <3> HIDE DEF p
    <3> QED BY <3>1, PutBackspace
  <2> HIDE DEF e
  <2>7. e.buf \in [Place -> Glyph] /\ e.pos \in Place
    BY <2>6 DEF Disp
  <2>8. i' \in 0 .. BUFLEN - 1 /\ i' = n - 1 /\ e.pos > n - 1
    <3>1. i \in 0 .. BUFLEN - 1 /\ i' = n - 1 /\ i = n
      BY <2>1, <2>2 DEF LineTypeOK
    <3>2. e.pos > n - 1
      BY <2>2, <2>3, <2>6
    <3> HIDE DEF n
    <3> QED BY <2>3, <3>1, <3>2, ScreenSize
  <2>9. ASSUME NEW k \in 1 .. n - 1
        PROVE  e.buf[e.pos - (n - 1) + k - 1] = line'[k] /\ buf'[k - 1] = line'[k]
    <3>1. /\ k \in 1 .. n /\ p - n + k - 1 \in 0 .. p - 2
          /\ e.pos - (n - 1) + k - 1 = p - n + k - 1
      BY <2>2, <2>3, <2>6
    <3>2. e.buf[p - n + k - 1] = line[k] /\ buf[k - 1] = line[k]
      BY <2>2, <2>6, <3>1
    <3> QED BY <2>1, <2>4, <3>1, <3>2
  <2>10. e.buf[e.pos - (n - 1) - 1] = Prompt
    <3>1. p - n - 1 \in 0 .. p - 2 /\ e.pos - (n - 1) - 1 = p - n - 1
      BY <2>2, <2>3, <2>6
    <3> QED BY <2>2, <2>6, <3>1
  <2>11. LineTypeOK'
    BY <2>1, <2>2, <2>4, <2>5, <2>7, <2>8 DEF LineTypeOK
  <2> HIDE DEF n
  <2>12. LineOnScreen'
    BY <2>4, <2>5, <2>8, <2>9, <2>10 DEF LineOnScreen
  <2> QED BY <2>1, <2>4, <2>8, <2>9, <2>11, <2>12 DEF LineInv, BufferHoldsLine
<1> QED BY <1>1, <1>2

LEMMA ReturnLine ==
  ASSUME LineInv, NEW c, read_return(c)
  PROVE  LineInv'
<1>1. crt_buf' \in [Place -> Glyph] /\ crt_pos' \in Place
  <2>1. c \in {"NL", "CR"} /\ print(<<c>>)
    BY DEF read_return
  <2>2. <<c>> \in Seq(Glyph \cup {"NL", "CR"}) /\ Len(<<c>>) <= 4
    BY <2>1
  <2> QED BY <2>1, <2>2, PrintTypes DEF LineInv
<1>2. /\ pc = "read" /\ pc' = "run" /\ i' = i /\ line' = line /\ buf' = [buf EXCEPT ![i] = NUL]
      /\ LineTypeOK /\ i = Len(line) /\ \A k \in 1 .. Len(line) : buf[k - 1] = line[k]
  BY DEF read_return, LineInv, BufferHoldsLine
<1>3. buf' \in [0 .. BUFLEN - 1 -> Text \cup {NUL}] /\ buf'[i] = NUL
  BY <1>2 DEF LineTypeOK
<1>4. ASSUME NEW k \in 1 .. Len(line) PROVE buf'[k - 1] = line[k]
  <2>1. i \in 0 .. BUFLEN - 1 /\ i \in Nat /\ BUFLEN \in Nat
    BY <1>2, ScreenSize DEF LineTypeOK
  <2>2. k \in Nat /\ 1 <= k /\ k <= i
    BY <1>2, <2>1
  <2>3. k - 1 \in 0 .. BUFLEN - 1 /\ k - 1 # i
    BY <2>1, <2>2
  <2> QED BY <1>2, <2>3 DEF LineTypeOK
<1>5. LineTypeOK'
  BY <1>1, <1>2, <1>3 DEF LineTypeOK
<1> QED BY <1>2, <1>3, <1>4, <1>5 DEF LineInv, BufferHoldsLine, LineOnScreen

LEMMA RuncmdLine ==
  ASSUME LineInv, runcmd
  PROVE  LineInv'
<1>1. PICK u : buf' = cut(buf, u)
  BY DEF runcmd
<1>2. buf' \in [0 .. BUFLEN - 1 -> Text \cup {NUL}]
  BY <1>1 DEF cut, LineInv, LineTypeOK
<1>3. pc' \in {"enter", "prompt"} /\ i' = i /\ line' = line
  BY DEF runcmd
<1>4. crt_buf' \in [Place -> Glyph] /\ crt_pos' \in Place
  <2>1. \/ UNCHANGED <<crt_buf, crt_pos>>
        \/ print(<<>>) \/ print(<<Output, "NL">>)
    BY DEF runcmd
  <2>2. Output \in Glyph \cup {"NL", "CR"} /\ "NL" \in Glyph \cup {"NL", "CR"}
    BY Alphabet
  <2>3. /\ <<>> \in Seq(Glyph \cup {"NL", "CR"}) /\ Len(<<>>) <= 4
        /\ <<Output, "NL">> \in Seq(Glyph \cup {"NL", "CR"}) /\ Len(<<Output, "NL">>) <= 4
    BY <2>2
  <2>4. CASE UNCHANGED <<crt_buf, crt_pos>>
    BY <2>4 DEF LineInv, LineTypeOK
  <2>5. CASE print(<<>>)
    BY <2>3, <2>5, PrintTypes DEF LineInv
  <2>6. CASE print(<<Output, "NL">>)
    BY <2>3, <2>6, PrintTypes DEF LineInv
  <2> QED BY <2>1, <2>4, <2>5, <2>6
<1> QED BY <1>2, <1>3, <1>4 DEF LineInv, LineTypeOK, BufferHoldsLine, LineOnScreen

LEMMA LineInductive == LineInv /\ [Next]_vars => LineInv'
<1> SUFFICES ASSUME LineInv, [Next]_vars PROVE LineInv'
  OBVIOUS
<1>1. CASE UNCHANGED vars
  BY <1>1 DEF vars, LineInv, LineTypeOK, BufferHoldsLine, LineOnScreen
<1>2. ASSUME NEW c \in Input, read_ignored(c) PROVE LineInv'
  BY <1>1, <1>2 DEF read_ignored
<1> QED
  BY <1>1, <1>2, MonitorLine, ReadlineLine, ReadCharLine, BackspaceLine, ReturnLine, RuncmdLine
  DEF Next

-----------------------------------------------------------------------------
(* readline's buffer and the display agree with the line as edited, on     *)
(* every display that has room for it, and a finished line is terminated.  *)
THEOREM LineInvariant == Spec => []LineInv
  BY InitLine, LineInductive, PTL DEF Spec

(* The line as edited stands on the display right before the cursor, after *)
(* an untouched prompt, whatever was typed and erased and however often    *)
(* the display scrolled meanwhile.                                         *)
THEOREM LineShown == Spec => []LineOnScreen
  BY LineInvariant, PTL DEF LineInv

(* The string readline returns is the line as edited and ends inside the   *)
(* buffer, whatever earlier lines left there.                              *)
THEOREM LineReturned == Spec => []ReturnsEditedLine
<1>1. LineInv => ReturnsEditedLine
  <2> SUFFICES ASSUME LineInv, pc = "run"
               PROVE  (\E q \in 0 .. BUFLEN - 1 : buf[q] = NUL) /\ string(buf, 0) = line
    BY DEF ReturnsEditedLine
  <2> DEFINE ends == {q \in 0 .. BUFLEN - 1 : buf[q] = NUL}
  <2>1. /\ i \in 0 .. BUFLEN - 1 /\ i = Len(line) /\ line \in Seq(Text) /\ buf[i] = NUL
        /\ \A k \in 1 .. Len(line) : buf[k - 1] = line[k]
    BY DEF LineInv, LineTypeOK, BufferHoldsLine
  <2>2. i \in ends
    BY <2>1
  <2>3. ASSUME NEW q \in ends PROVE i <= q
    <3>1. q \in Nat /\ i \in Nat
      BY <2>1, ScreenSize
    <3>2. SUFFICES ASSUME q < i PROVE FALSE
      BY <3>1
    <3>3. q + 1 \in 1 .. Len(line) /\ (q + 1) - 1 = q
      BY <2>1, <3>1, <3>2
    <3>4. buf[q] = line[q + 1] /\ line[q + 1] \in Text
      BY <2>1, <3>3, ElementOfSeq
    <3> QED BY <3>4, Alphabet
  <2>4. Min(ends) = i
    <3>1. \A x \in ends : (\A y \in ends : x <= y) => x = i
      BY <2>1, <2>2, <2>3, ScreenSize
    <3> HIDE DEF ends
    <3> QED BY <2>2, <2>3, <3>1 DEF Min
  <2>5. string(buf, 0) = [k \in 1 .. i - 0 |-> buf[0 + k - 1]]
    BY <2>4 DEF string
  <2>6. i - 0 = i /\ \A k \in 1 .. i : buf[0 + k - 1] = line[k]
    BY <2>1, ScreenSize
  <2>7. line = [k \in 1 .. i |-> line[k]]
    BY <2>1
  <2> QED BY <2>1, <2>5, <2>6, <2>7
<1> QED BY <1>1, LineInvariant, PTL

-----------------------------------------------------------------------------
(* runcmd's parser.                                                        *)

LEMMA LeastNumber ==
  ASSUME NEW S \in SUBSET Nat, S # {}
  PROVE  \E m \in S : \A k \in S : m <= k
<1> DEFINE T == {0 .. n : n \in S}
<1>1. T \subseteq FiniteSubsetsOf(Nat) /\ T # {}
  <2>1. ASSUME NEW n \in S PROVE 0 .. n \in SUBSET Nat /\ IsFiniteSet(0 .. n)
    BY FS_Interval
  <2> QED
    BY <2>1 DEF FiniteSubsetsOf
<1>2. IsWellFoundedOn(StrictSubsetOrdering(Nat), FiniteSubsetsOf(Nat))
  BY FS_StrictSubsetOrderingWellFounded
<1>3. PICK x \in T : \A y \in T : ~ (<<y, x>> \in StrictSubsetOrdering(Nat))
  <2> HIDE DEF T
  <2> QED
    BY <1>1, <1>2, WFMin
<1>4. PICK m \in S : x = 0 .. m
  OBVIOUS
<1>5. ASSUME NEW k \in S PROVE m <= k
  <2> SUFFICES ASSUME k < m PROVE FALSE
    OBVIOUS
  <2>1. 0 .. k \in T /\ 0 .. k \in SUBSET Nat /\ 0 .. m \in SUBSET Nat
    OBVIOUS
  <2>2. 0 .. k \subseteq 0 .. m /\ m \in 0 .. m /\ m \notin 0 .. k
    OBVIOUS
  <2>3. <<0 .. k, 0 .. m>> \in StrictSubsetOrdering(Nat)
    BY <2>1, <2>2 DEF StrictSubsetOrdering
  <2> QED
    BY <1>3, <1>4, <2>1, <2>3
<1> QED
  BY <1>5

LEMMA MinIs ==
  ASSUME NEW S \in SUBSET Nat, NEW m \in S, \A k \in S : m <= k
  PROVE  Min(S) = m
<1>1. \A x \in S : (\A y \in S : x <= y) => x = m
  OBVIOUS
<1> QED BY <1>1 DEF Min

LEMMA MaxIs ==
  ASSUME NEW S \in SUBSET Nat, NEW m \in S, \A k \in S : m >= k
  PROVE  Max(S) = m
<1>1. \A x \in S : (\A y \in S : x >= y) => x = m
  OBVIOUS
<1> QED BY <1>1 DEF Max

(* skip stops at the first character it does not pass over, if there is    *)
(* one in the buffer.                                                      *)
LEMMA SkipIs ==
  ASSUME NEW b, NEW from \in Nat, NEW over, NEW z \in Nat, from <= z, z < BUFLEN, b[z] \notin over
  PROVE  /\ skip(b, from, over) \in from .. z /\ b[skip(b, from, over)] \notin over
         /\ \A j \in from .. skip(b, from, over) - 1 : b[j] \in over
<1> DEFINE S == {q \in from .. BUFLEN - 1 : b[q] \notin over}
<1>1. S \in SUBSET Nat /\ z \in S
  BY ScreenSize
<1> HIDE DEF S
<1>2. PICK m \in S : \A k \in S : m <= k
  BY <1>1, LeastNumber
<1>3. Min(S) = m
  BY <1>1, <1>2, MinIs
<1>4. skip(b, from, over) = m
  BY <1>3 DEF skip, S
<1>5. m \in from .. z /\ b[m] \notin over
  BY <1>1, <1>2 DEF S
<1>6. ASSUME NEW j \in from .. m - 1 PROVE b[j] \in over
  <2>1. j \in from .. BUFLEN - 1 /\ j \in Nat /\ j < m
    BY <1>5, <1>6, ScreenSize
  <2>2. j \notin S
    BY <1>1, <1>2, <2>1
  <2> QED BY <2>1, <2>2 DEF S
<1> QED BY <1>4, <1>5, <1>6

(* Buffer b holds line l and its end; the words of l that start up to      *)
(* character n; and argument k of l starts at p, or is none of its words.  *)
Holding(b, l) ==
  /\ l \in Seq(Text) /\ Len(l) < BUFLEN
  /\ b[Len(l)] = NUL /\ \A j \in 1 .. Len(l) : b[j - 1] = l[j]
WordsTo(l, n) == {j \in WordStarts(l) : j <= n}
Located(b, l, k, p) ==
  /\ p \in 0 .. Len(l) /\ b[p] \notin White
  /\ p < Len(l) => p + 1 \in WordStarts(l) /\ Cardinality(WordsTo(l, p + 1)) = k
  /\ p = Len(l) => Cardinality(WordStarts(l)) < k

LEMMA WordsFinite ==
  ASSUME NEW l \in Seq(Text), NEW n
  PROVE  /\ WordStarts(l) \subseteq 1 .. Len(l) /\ IsFiniteSet(WordStarts(l))
         /\ WordsTo(l, n) \subseteq WordStarts(l) /\ IsFiniteSet(WordsTo(l, n))
         /\ Cardinality(WordStarts(l)) \in Nat /\ Cardinality(WordsTo(l, n)) \in Nat
<1>1. Len(l) \in Nat /\ DOMAIN l = 1 .. Len(l)
  BY LenProperties
<1>2. WordStarts(l) \subseteq 1 .. Len(l)
  BY <1>1 DEF WordStarts
<1>3. IsFiniteSet(1 .. Len(l))
  BY <1>1, FS_Interval
<1>4. WordsTo(l, n) \subseteq WordStarts(l)
  BY DEF WordsTo
<1>5. IsFiniteSet(WordStarts(l)) /\ IsFiniteSet(WordsTo(l, n))
  BY <1>2, <1>3, <1>4, FS_Subset
<1> QED BY <1>2, <1>4, <1>5, FS_CardinalityType

(* A character of the buffer is the line's, white or a letter; its end is  *)
(* neither.                                                                *)
LEMMA Characters ==
  ASSUME NEW b, NEW l, Holding(b, l)
  PROVE  /\ Len(l) \in Nat /\ Len(l) < BUFLEN
         /\ \A q \in 0 .. Len(l) - 1 : b[q] = l[q + 1] /\ b[q] \in Text /\ b[q] # NUL
         /\ b[Len(l)] = NUL /\ NUL \notin White /\ NUL \notin Letter
         /\ White \cap Letter = {} /\ Text = White \cup Letter
<1>1. Len(l) \in Nat /\ Len(l) < BUFLEN /\ l \in Seq(Text)
  BY LenProperties DEF Holding
<1>2. ASSUME NEW q \in 0 .. Len(l) - 1 PROVE b[q] = l[q + 1] /\ b[q] \in Text /\ b[q] # NUL
  <2>1. q + 1 \in 1 .. Len(l) /\ (q + 1) - 1 = q
    BY <1>1
  <2>2. l[q + 1] \in Text /\ b[q] = l[q + 1]
    BY <1>1, <2>1, ElementOfSeq DEF Holding
  <2> QED BY <2>2, Alphabet
<1>3. /\ NUL \notin White /\ NUL \notin Letter
      /\ White \cap Letter = {} /\ Text = White \cup Letter
  BY LineAssumption DEF White, Text, NUL, Space
<1> QED BY <1>1, <1>2, <1>3 DEF Holding

(* A word starts at a character that is not white after one that is.       *)
LEMMA StartsAt ==
  ASSUME NEW b, NEW l, Holding(b, l), NEW q \in 0 .. Len(l) - 1
  PROVE  q + 1 \in WordStarts(l) <=> b[q] \notin White /\ (q = 0 \/ b[q - 1] \in White)
<1>1. Len(l) \in Nat /\ DOMAIN l = 1 .. Len(l) /\ b[q] = l[q + 1]
  BY Characters, LenProperties DEF Holding
<1>2. q + 1 \in DOMAIN l /\ (q + 1 = 1 <=> q = 0) /\ (q + 1) - 1 = q
  BY <1>1
<1>3. q # 0 => b[q - 1] = l[q]
  <2>1. q # 0 => q - 1 \in 0 .. Len(l) - 1 /\ (q - 1) + 1 = q
    BY <1>1
  <2> QED BY <2>1, Characters
<1> QED BY <1>1, <1>2, <1>3 DEF WordStarts

(* The first argument is the first word.                                   *)
LEMMA FirstWord ==
  ASSUME NEW b, NEW l, Holding(b, l)
  PROVE  Located(b, l, 1, skip(b, 0, White))
<1> DEFINE n == Len(l)
           p == skip(b, 0, White)
<1>1. n \in Nat /\ n < BUFLEN /\ l \in Seq(Text) /\ b[n] \notin White
  BY Characters DEF Holding
<1>2. p \in 0 .. n /\ b[p] \notin White /\ \A j \in 0 .. p - 1 : b[j] \in White
  BY <1>1, SkipIs
<1> HIDE DEF p
<1>3. ASSUME NEW j \in WordStarts(l) PROVE j - 1 \in p .. n - 1
  <2>1. j \in 1 .. n
    BY <1>1, WordsFinite
  <2>2. j - 1 \in 0 .. n - 1 /\ (j - 1) + 1 = j
    BY <1>1, <2>1
  <2>3. b[j - 1] \notin White
    BY <2>2, StartsAt
  <2>4. j - 1 \notin 0 .. p - 1
    BY <1>2, <2>3
  <2> HIDE DEF n
  <2> QED BY <1>1, <1>2, <2>2, <2>4
<1>4. CASE p < n
  <2>1. p \in 0 .. n - 1
    BY <1>1, <1>2, <1>4
  <2>2. p + 1 \in WordStarts(l)
    <3>1. p = 0 \/ p - 1 \in 0 .. p - 1
      BY <1>1, <2>1
    <3> QED BY <1>2, <2>1, <3>1, StartsAt
  <2>3. WordsTo(l, p + 1) = {p + 1}
    <3>1. ASSUME NEW j \in WordsTo(l, p + 1) PROVE j = p + 1
      <4>1. j \in WordStarts(l) /\ j <= p + 1 /\ j \in 1 .. n
        BY <1>1, WordsFinite DEF WordsTo
      <4>2. j - 1 \in p .. n - 1
        BY <1>3, <4>1
      <4> HIDE DEF n
      <4> QED BY <1>1, <2>1, <4>1, <4>2
    <3>2. p + 1 <= p + 1
      BY <1>1, <2>1
    <3> QED BY <2>2, <3>1, <3>2 DEF WordsTo
  <2>4. Cardinality({p + 1}) = 1
    BY FS_Singleton
  <2> QED BY <1>2, <1>4, <2>1, <2>2, <2>3, <2>4, <1>1 DEF Located, p
<1>5. CASE p = n
  <2>1. WordStarts(l) = {}
    <3>1. n .. n - 1 = {}
      BY <1>1
    <3> QED BY <1>3, <1>5, <3>1
  <2>2. Cardinality({}) = 0
    BY FS_EmptySet
  <2> QED BY <1>1, <1>2, <1>5, <2>1, <2>2 DEF Located, p
<1> QED BY <1>1, <1>2, <1>4, <1>5

(* From a word the parser goes to the next one, or to the end.             *)
LEMMA NextWord ==
  ASSUME NEW b, NEW l, Holding(b, l), NEW k \in Nat, NEW p, Located(b, l, k, p), p < Len(l)
  PROVE  Located(b, l, k + 1, skip(b, skip(b, p, Letter), White))
<1> DEFINE n == Len(l)
           e == skip(b, p, Letter)
           q == skip(b, e, White)
<1>1. n \in Nat /\ n < BUFLEN /\ l \in Seq(Text) /\ b[n] \notin White /\ b[n] \notin Letter
  BY Characters DEF Holding
<1>2. /\ p \in 0 .. n - 1 /\ p \in Nat /\ b[p] \notin White
      /\ p + 1 \in WordStarts(l) /\ Cardinality(WordsTo(l, p + 1)) = k
  BY <1>1 DEF Located
<1>3. e \in p .. n /\ b[e] \notin Letter /\ \A j \in p .. e - 1 : b[j] \in Letter
  BY <1>1, <1>2, SkipIs
<1> HIDE DEF e
<1>4. e \in Nat /\ e <= n
  BY <1>1, <1>2, <1>3
<1>5. q \in e .. n /\ b[q] \notin White /\ \A j \in e .. q - 1 : b[j] \in White
  BY <1>1, <1>4, SkipIs
<1> HIDE DEF q, n
<1>6. p < e
  <2>1. b[p] \in Letter
    BY <1>2, Characters DEF n
  <2>2. e # p
    BY <1>3, <2>1
  <2> QED BY <1>2, <1>3, <1>4, <2>2
<1>7. q \in Nat /\ e <= q /\ q <= n
  BY <1>1, <1>4, <1>5
(* No word starts between the two.                                         *)
<1>8. ASSUME NEW j \in WordStarts(l), j > p + 1 PROVE j > q
  <2>1. j \in 1 .. n
    BY <1>1, WordsFinite DEF n
  <2>2. j - 1 \in 0 .. n - 1 /\ (j - 1) + 1 = j /\ j - 1 # 0 /\ j \in Nat
    BY <1>1, <1>2, <1>8, <2>1
  <2>3. b[j - 1] \notin White /\ b[(j - 1) - 1] \in White
    BY <2>2, StartsAt DEF n
  <2>4. ~ (j - 1 \in e .. q - 1)
    BY <1>5, <2>3
  <2>5. ~ (j - 1 < e)
    <3> SUFFICES ASSUME j - 1 < e PROVE FALSE
      OBVIOUS
    <3>1. (j - 1) - 1 \in p .. e - 1
      BY <1>2, <1>4, <1>8, <2>2
    <3>2. b[(j - 1) - 1] \in Letter
      BY <1>3, <3>1
    <3> QED BY <2>3, <3>2, Characters
  <2> QED BY <1>4, <1>7, <2>2, <2>4, <2>5
<1>9. /\ IsFiniteSet(WordsTo(l, p + 1)) /\ WordsTo(l, p + 1) \subseteq WordStarts(l)
      /\ WordStarts(l) \subseteq 1 .. n
  BY <1>1, WordsFinite DEF n
<1>10. CASE q < n
  <2>1. q \in 0 .. n - 1 /\ q # 0
    BY <1>1, <1>2, <1>4, <1>6, <1>7, <1>10
  <2>2. e < q
    <3>1. q # e
      <4> SUFFICES ASSUME q = e PROVE FALSE
        OBVIOUS
      <4>1. b[e] \in Text /\ b[e] \notin White
        BY <1>5, <2>1, Characters DEF n
      <4> QED BY <1>3, <4>1, Characters
    <3> QED BY <1>4, <1>7, <3>1
  <2>3. q + 1 \in WordStarts(l)
    <3>1. q - 1 \in e .. q - 1
      BY <1>4, <1>7, <2>2
    <3> QED BY <1>5, <2>1, <3>1, StartsAt DEF n
  <2>4. WordsTo(l, q + 1) = WordsTo(l, p + 1) \cup {q + 1}
    <3>1. ASSUME NEW j \in WordsTo(l, q + 1) PROVE j \in WordsTo(l, p + 1) \/ j = q + 1
      <4>1. j \in WordStarts(l) /\ j <= q + 1 /\ j \in 1 .. n
        BY <1>1, WordsFinite DEF WordsTo, n
      <4>2. j \in Nat
        BY <1>1, <4>1
      <4>3. CASE j <= p + 1
        BY <4>1, <4>3 DEF WordsTo
      <4>4. CASE ~ (j <= p + 1)
        <5>1. j > q
          BY <1>2, <1>8, <4>1, <4>2, <4>4
        <5> QED BY <1>7, <4>1, <4>2, <5>1
      <4> QED BY <4>3, <4>4
    <3>2. ASSUME NEW j \in WordsTo(l, p + 1) PROVE j \in WordsTo(l, q + 1)
      <4>1. j \in WordStarts(l) /\ j <= p + 1 /\ j \in 1 .. n
        BY <1>1, WordsFinite DEF WordsTo, n
      <4>2. j <= q + 1
        BY <1>1, <1>2, <1>4, <1>6, <1>7, <4>1
      <4> QED BY <4>1, <4>2 DEF WordsTo
    <3>3. q + 1 \in WordsTo(l, q + 1)
      BY <1>7, <2>3 DEF WordsTo
    <3> QED BY <3>1, <3>2, <3>3
  <2>5. q + 1 \notin WordsTo(l, p + 1)
    <3>1. ~ (q + 1 <= p + 1)
      BY <1>2, <1>4, <1>6, <1>7
    <3> QED BY <3>1 DEF WordsTo
  <2>6. Cardinality(WordsTo(l, q + 1)) = k + 1
    BY <1>2, <1>9, <2>4, <2>5, FS_AddElement
  <2>7. q \in 0 .. n /\ q # n
    BY <1>1, <1>7, <1>10
  <2> QED BY <1>5, <2>3, <2>6, <2>7 DEF Located, n, q, e
<1>11. CASE q = n
  <2>1. WordStarts(l) = WordsTo(l, p + 1)
    <3>1. ASSUME NEW j \in WordStarts(l) PROVE j <= p + 1
      <4>1. j \in 1 .. n
        BY <1>9
      <4>2. ~ (j > p + 1)
        BY <1>1, <1>8, <1>11, <4>1
      <4> QED BY <1>1, <1>2, <4>1, <4>2
    <3> QED BY <3>1 DEF WordsTo
  <2>2. Cardinality(WordStarts(l)) < k + 1
    BY <1>2, <2>1
  <2>3. q \in 0 .. n /\ ~ (q < n)
    BY <1>1, <1>7, <1>11
  <2> QED BY <1>5, <1>11, <2>2, <2>3 DEF Located, n, q, e
<1> QED BY <1>1, <1>7, <1>10, <1>11

(* start satisfies its equation.                                           *)
LEMMA StartDef ==
  ASSUME NEW b
  PROVE  start(b) = [k \in 1 .. MAXARGS |->
                       IF k = 1 THEN skip(b, 0, White)
                       ELSE IF b[start(b)[k - 1]] = NUL THEN start(b)[k - 1]
                       ELSE skip(b, skip(b, start(b)[k - 1], Letter), White)]
<1> DEFINE Step(p) == IF b[p] = NUL THEN p ELSE skip(b, skip(b, p, Letter), White)
           one == skip(b, 0, White)
           Good(m, f) == f = [k \in 1 .. m |-> IF k = 1 THEN one ELSE Step(f[k - 1])]
<1>1. \E f : Good(MAXARGS, f)
  <2> HIDE DEF Step, one
  <2> DEFINE Bad == {m \in Nat : ~ \E f : Good(m, f)}
  <2>0. MAXARGS \in Nat
    BY LineAssumption
  <2> SUFFICES ASSUME Bad # {} PROVE FALSE
    BY <2>0
  <2>1. PICK m \in Nat : /\ ~ \E f : Good(m, f)
                         /\ \A k \in Nat : k < m => \E f : Good(k, f)
    <3> HIDE DEF Good
    <3>1. PICK m \in Bad : \A k \in Bad : m <= k
      <4>1. Bad \in SUBSET Nat
        OBVIOUS
      <4> HIDE DEF Bad
      <4> QED BY <4>1, LeastNumber
    <3> QED BY <3>1
  <2>2. m # 0
    <3>1. Good(0, [k \in 1 .. 0 |-> one])
      OBVIOUS
    <3> QED BY <2>1, <3>1
  <2>3. m - 1 \in Nat /\ m - 1 < m
    BY <2>2
  <2>4. PICK f : Good(m - 1, f)
    BY <2>1, <2>3, Zenon
  <2> DEFINE h == [k \in 1 .. m |-> IF k # m THEN f[k] ELSE IF m = 1 THEN one ELSE Step(f[m - 1])]
  <2>5. ASSUME NEW k \in 1 .. m
        PROVE  h[k] = IF k = 1 THEN one ELSE Step(h[k - 1])
    <3>1. k # 1 => h[k - 1] = f[k - 1]
      BY <2>2, <2>3
    <3>2. k # m => k \in 1 .. m - 1 /\ f[k] = IF k = 1 THEN one ELSE Step(f[k - 1])
      BY <2>2, <2>3, <2>4
    <3> QED BY <2>2, <3>1, <3>2
  <2>6. Good(m, h)
    BY <2>5
  <2> QED BY <2>1, <2>6, Zenon
<1>2. start(b) = CHOOSE f : Good(MAXARGS, f)
  BY DEF start
<1> HIDE DEF Good
<1>3. Good(MAXARGS, CHOOSE f : Good(MAXARGS, f))
  BY <1>1, Zenon
<1>4. Good(MAXARGS, start(b))
  BY <1>2, <1>3, Zenon
<1> QED BY <1>4, Zenon DEF Good

(* Argument k is word k, for every k.                                      *)
LEMMA ArgumentsLocated ==
  ASSUME NEW b, NEW l, Holding(b, l), NEW k \in 1 .. MAXARGS
  PROVE  Located(b, l, k, start(b)[k])
<1> DEFINE Bad == {m \in Nat : m \in 1 .. MAXARGS /\ ~ Located(b, l, m, start(b)[m])}
<1>0. MAXARGS \in Nat /\ k \in Nat
  BY LineAssumption
<1> SUFFICES ASSUME Bad # {} PROVE FALSE
  BY <1>0
<1>1. PICK m \in Bad : \A j \in Bad : m <= j
  <2>1. Bad \in SUBSET Nat
    OBVIOUS
  <2> HIDE DEF Bad
  <2> QED BY <2>1, LeastNumber
<1>2. m \in 1 .. MAXARGS /\ m \in Nat /\ ~ Located(b, l, m, start(b)[m])
  BY <1>1
<1>3. m # 1
  <2>1. 1 \in 1 .. MAXARGS
    BY <1>0, <1>2
  <2>2. start(b)[1] = skip(b, 0, White)
    BY <2>1, StartDef
  <2> QED BY <1>2, <2>2, FirstWord
<1>4. m - 1 \in 1 .. MAXARGS /\ m - 1 \in Nat /\ m - 1 < m /\ (m - 1) + 1 = m
  BY <1>0, <1>2, <1>3
<1> DEFINE p == start(b)[m - 1]
<1>5. Located(b, l, m - 1, p)
  BY <1>1, <1>4
<1>6. start(b)[m] = IF b[p] = NUL THEN p ELSE skip(b, skip(b, p, Letter), White)
  BY <1>2, <1>3, StartDef
<1> HIDE DEF p
<1>7. CASE p < Len(l)
  <2>1. p \in 0 .. Len(l) - 1
    BY <1>5, <1>7, Characters DEF Located
  <2>2. b[p] # NUL
    BY <2>1, Characters
  <2>3. Located(b, l, (m - 1) + 1, skip(b, skip(b, p, Letter), White))
    BY <1>4, <1>5, <1>7, NextWord
  <2> QED BY <1>2, <1>4, <1>6, <2>2, <2>3
<1>8. CASE p = Len(l)
  <2>1. b[p] = NUL
    BY <1>8, Characters
  <2>2. Cardinality(WordStarts(l)) < m - 1 /\ Cardinality(WordStarts(l)) \in Nat
    BY <1>5, <1>8, WordsFinite DEF Located, Holding
  <2>3. Located(b, l, m, p)
    BY <1>4, <1>5, <1>8, <2>2, Characters DEF Located
  <2> QED BY <1>2, <1>6, <2>1, <2>3
<1> QED BY <1>5, <1>7, <1>8, Characters DEF Located

LEMMA CountTo ==
  ASSUME NEW n \in Nat
  PROVE  Cardinality(1 .. n) = n
<1>1. Cardinality(1 .. n) = IF 1 > n THEN 0 ELSE n - 1 + 1
  BY FS_Interval
<1> QED BY <1>1

(* With fewer words than MAXARGS, argc is their number, the parser gets to *)
(* the end of the line, and each word is the argument of its rank.         *)
LEMMA WordsCounted ==
  ASSUME NEW b, NEW l, Holding(b, l), argc(b) < MAXARGS
  PROVE  /\ argc(b) = Cardinality(WordStarts(l)) /\ start(b)[MAXARGS] = Len(l)
         /\ \A w \in WordStarts(l) :
              /\ Cardinality(WordsTo(l, w)) \in 1 .. argc(b)
              /\ start(b)[Cardinality(WordsTo(l, w))] = w - 1
<1> DEFINE n == Len(l)
           c == Cardinality(WordStarts(l))
           s == start(b)
           A == {k \in 1 .. MAXARGS : b[s[k]] # NUL}
<1>1. l \in Seq(Text) /\ n \in Nat /\ c \in Nat /\ IsFiniteSet(WordStarts(l))
  BY Characters, WordsFinite DEF Holding
<1>2. MAXARGS \in Nat /\ MAXARGS >= 1
  BY LineAssumption
<1>3. ASSUME NEW k \in 1 .. MAXARGS
      PROVE  /\ b[s[k]] # NUL <=> k <= c
             /\ k <= c => /\ s[k] \in 0 .. n - 1 /\ s[k] + 1 \in WordStarts(l)
                          /\ Cardinality(WordsTo(l, s[k] + 1)) = k
             /\ k > c => s[k] = n
  <2> DEFINE p == s[k]
  <2>1. Located(b, l, k, p)
    BY ArgumentsLocated
  <2> HIDE DEF p
  <2>2. k \in Nat
    BY <1>2
  <2>3. CASE p < n
    <3>1. p \in 0 .. n - 1
      BY <1>1, <2>1, <2>3 DEF Located
    <3>2. b[p] # NUL
      BY <3>1, Characters
    <3>3. p + 1 \in WordStarts(l) /\ Cardinality(WordsTo(l, p + 1)) = k
      BY <2>1, <2>3 DEF Located
    <3>4. k <= c
      BY <1>1, <3>3, WordsFinite, FS_Subset
    <3> HIDE DEF c, n
    <3> QED BY <1>1, <2>2, <3>1, <3>2, <3>3, <3>4 DEF p
  <2>4. CASE p = n
    <3>1. b[p] = NUL
      BY <2>4, Characters
    <3>2. c < k
      BY <2>1, <2>4 DEF Located
    <3> HIDE DEF c, n
    <3> QED BY <1>1, <2>2, <2>4, <3>1, <3>2 DEF p
  <2> QED BY <1>1, <2>1, <2>3, <2>4 DEF Located
<1>4. argc(b) = Cardinality(A)
  BY DEF argc
<1> HIDE DEF s, c
<1>5. A = {k \in 1 .. MAXARGS : k <= c}
  BY <1>3
<1>6. c < MAXARGS
  <2> SUFFICES ASSUME c >= MAXARGS PROVE FALSE
    BY <1>1, <1>2
  <2>1. A = 1 .. MAXARGS
    BY <1>1, <1>2, <1>5
  <2>2. Cardinality(1 .. MAXARGS) = MAXARGS
    BY <1>2, CountTo
  <2>3. argc(b) = MAXARGS
    BY <1>4, <2>1, <2>2
  <2> QED BY <1>2, <2>3
<1>7. argc(b) = c
  <2>1. A = 1 .. c
    BY <1>1, <1>2, <1>5, <1>6
  <2> HIDE DEF A
  <2> QED BY <1>1, <1>4, <2>1, CountTo
<1>8. s[MAXARGS] = n
  <2>1. MAXARGS \in 1 .. MAXARGS /\ MAXARGS > c
    BY <1>1, <1>2, <1>6
  <2> QED BY <1>3, <2>1
<1>9. ASSUME NEW w \in WordStarts(l)
      PROVE  /\ Cardinality(WordsTo(l, w)) \in 1 .. c
             /\ s[Cardinality(WordsTo(l, w))] = w - 1
  <2> DEFINE k == Cardinality(WordsTo(l, w))
  <2>1. w \in 1 .. n /\ w \in Nat
    BY <1>1, WordsFinite
  <2>2. k \in Nat /\ k <= c /\ IsFiniteSet(WordsTo(l, w))
    BY <1>1, WordsFinite, FS_Subset DEF c
  <2>3. w \in WordsTo(l, w)
    BY <2>1 DEF WordsTo
  <2>4. k # 0
    BY <2>2, <2>3, FS_EmptySet
  <2> HIDE DEF k
  <2>5. k \in 1 .. c /\ k \in 1 .. MAXARGS
    BY <1>1, <1>2, <1>6, <2>2, <2>4
  <2> DEFINE v == s[k] + 1
  <2>6. s[k] \in 0 .. n - 1 /\ v \in WordStarts(l) /\ Cardinality(WordsTo(l, v)) = k
    BY <1>3, <2>2, <2>5
  <2>7. v \in Nat /\ IsFiniteSet(WordsTo(l, v)) /\ s[k] = v - 1
    BY <1>1, <2>6, WordsFinite
  <2> HIDE DEF v
  <2>8. v = w
    <3>1. ~ (v < w)
      <4> SUFFICES ASSUME v < w PROVE FALSE
        OBVIOUS
      <4>1. w \notin WordsTo(l, v)
        BY <2>1, <2>7 DEF WordsTo
      <4>2. WordsTo(l, v) \subseteq WordsTo(l, w)
        <5>1. ASSUME NEW j \in WordsTo(l, v) PROVE j \in WordsTo(l, w)
          <6>1. j \in WordStarts(l) /\ j <= v /\ j \in 1 .. n
            BY <1>1, WordsFinite DEF WordsTo
          <6>2. j <= w
            BY <1>1, <2>1, <2>7, <6>1
          <6> QED BY <6>1, <6>2 DEF WordsTo
        <5> QED BY <5>1
      <4>3. WordsTo(l, v) # WordsTo(l, w)
        BY <2>3, <4>1
      <4>4. Cardinality(WordsTo(l, v)) < Cardinality(WordsTo(l, w))
        BY <2>2, <4>2, <4>3, FS_Subset, FS_CardinalityType
      <4> QED BY <2>2, <2>6, <4>4 DEF k
    <3>2. ~ (w < v)
      <4> SUFFICES ASSUME w < v PROVE FALSE
        OBVIOUS
      <4>1. v \notin WordsTo(l, w)
        BY <2>1, <2>7 DEF WordsTo
      <4>2. v \in WordsTo(l, v)
        BY <2>6, <2>7 DEF WordsTo
      <4>3. WordsTo(l, w) \subseteq WordsTo(l, v)
        <5>1. ASSUME NEW j \in WordsTo(l, w) PROVE j \in WordsTo(l, v)
          <6>1. j \in WordStarts(l) /\ j <= w /\ j \in 1 .. n
            BY <1>1, WordsFinite DEF WordsTo
          <6>2. j <= v
            BY <1>1, <2>1, <2>7, <6>1
          <6> QED BY <6>1, <6>2 DEF WordsTo
        <5> QED BY <5>1
      <4>4. Cardinality(WordsTo(l, w)) < Cardinality(WordsTo(l, v))
        BY <2>7, <4>1, <4>2, <4>3, FS_Subset, FS_CardinalityType
      <4> QED BY <2>2, <2>6, <4>4 DEF k
    <3> QED BY <2>1, <2>7, <3>1, <3>2
  <2> QED BY <2>5, <2>7, <2>8 DEF k
<1> QED BY <1>7, <1>8, <1>9 DEF s, c

(* What starts where a word starts is that word, once the white space of   *)
(* the line has become NUL.                                                *)
LEMMA WordString ==
  ASSUME NEW b, NEW l, Holding(b, l), NEW w \in WordStarts(l)
  PROVE  string(cut(b, Len(l)), w - 1) = SubSeq(l, w, WordEnd(l, w))
<1> DEFINE n == Len(l)
           d == cut(b, n)
           p == w - 1
           Ends == {q \in p .. BUFLEN - 1 : d[q] = NUL}
<1>1. n \in Nat /\ n < BUFLEN /\ l \in Seq(Text) /\ BUFLEN \in Nat
  BY Characters, ScreenSize DEF Holding
<1>2. w \in 1 .. n
  BY <1>1, WordsFinite
<1>3. p \in Nat /\ p \in 0 .. n - 1 /\ p + 1 = w /\ w \in Nat /\ w <= n
  BY <1>1, <1>2
<1>4. ASSUME NEW q \in 0 .. n - 1
      PROVE  (d[q] = NUL <=> b[q] \in White) /\ (d[q] # NUL => d[q] = b[q])
  <2>1. q \in 0 .. BUFLEN - 1 /\ q < n
    BY <1>1
  <2>2. d[q] = IF b[q] \in White THEN NUL ELSE b[q]
    BY <2>1 DEF cut
  <2>3. b[q] # NUL
    BY Characters
  <2> QED BY <2>2, <2>3
<1>5. d[n] = NUL
  <2>1. n \in 0 .. BUFLEN - 1 /\ ~ (n < n)
    BY <1>1
  <2> QED BY <2>1, Characters DEF cut
<1>6. b[p] \notin White
  BY <1>3, StartsAt
<1> HIDE DEF d, n, p
<1>7. PICK e \in Ends : \A k \in Ends : e <= k
  <2>1. Ends \in SUBSET Nat /\ n \in Ends
    BY <1>1, <1>3, <1>5
  <2> HIDE DEF Ends
  <2> QED BY <2>1, LeastNumber
<1>8. Min(Ends) = e
  <2>1. Ends \in SUBSET Nat
    BY <1>1, <1>3
  <2> HIDE DEF Ends
  <2> QED BY <1>7, <2>1, MinIs
<1>9. e \in Nat /\ p <= e /\ d[e] = NUL /\ e <= n
  BY <1>1, <1>3, <1>5, <1>7
<1>10. e # p
  BY <1>3, <1>4, <1>6, <1>9
<1>11. ASSUME NEW j \in p .. e - 1 PROVE j \in 0 .. n - 1 /\ b[j] \notin White /\ d[j] = b[j]
  <2>1. j \in 0 .. n - 1 /\ j \in p .. BUFLEN - 1 /\ ~ (e <= j)
    BY <1>1, <1>3, <1>9
  <2>2. d[j] # NUL
    BY <1>7, <2>1
  <2> QED BY <1>4, <2>1, <2>2
<1> HIDE DEF Ends
(* The word ends there too.                                                *)
<1>12. WordEnd(l, w) = e
  <2> DEFINE S == {x \in w .. Len(l) : \A j \in w .. x : l[j] \notin White}
  <2>1. S \in SUBSET Nat
    BY <1>3, <1>1 DEF n
  <2>2. e \in S
    <3>1. e \in w .. n
      BY <1>1, <1>3, <1>9, <1>10
    <3>2. ASSUME NEW j \in w .. e PROVE l[j] \notin White
      <4>1. j - 1 \in p .. e - 1 /\ (j - 1) + 1 = j
        BY <1>3, <1>9
      <4>2. j - 1 \in 0 .. n - 1 /\ b[j - 1] \notin White
        BY <1>11, <4>1
      <4>3. b[j - 1] = l[(j - 1) + 1]
        BY <4>2, Characters DEF n
      <4> QED BY <4>1, <4>2, <4>3
    <3> QED BY <3>1, <3>2 DEF n
  <2>3. ASSUME NEW x \in S PROVE e >= x
    <3>1. x \in w .. n /\ \A j \in w .. x : l[j] \notin White
      BY DEF n
    <3>2. x \in Nat /\ x <= n
      BY <1>1, <1>3, <3>1
    <3> SUFFICES ASSUME e < x PROVE FALSE
      BY <1>9, <3>2
    <3>3. e + 1 \in w .. x /\ e \in 0 .. n - 1
      BY <1>1, <1>3, <1>9, <3>2
    <3>4. b[e] \in White /\ b[e] = l[e + 1]
      BY <1>4, <1>9, <3>3, Characters DEF n
    <3> QED BY <3>1, <3>3, <3>4
  <2> HIDE DEF S
  <2>4. Max(S) = e
    BY <2>1, <2>2, <2>3, MaxIs
  <2> QED BY <2>4 DEF WordEnd, S
<1>13. string(d, p) = [k \in 1 .. e - p |-> d[p + k - 1]]
  BY <1>8 DEF string, Ends
<1>14. SubSeq(l, w, e) = [k \in 1 .. e - w + 1 |-> l[w + k - 1]]
  BY <1>1, <1>3, <1>9 DEF n
<1>15. e - w + 1 = e - p
  BY <1>3, <1>9
<1>16. ASSUME NEW k \in 1 .. e - p PROVE d[p + k - 1] = l[w + k - 1]
  <2>1. p + k - 1 \in p .. e - 1 /\ (p + k - 1) + 1 = w + k - 1
    BY <1>3, <1>9
  <2> DEFINE j == p + k - 1
  <2>2. j \in 0 .. n - 1 /\ d[j] = b[j]
    BY <1>11, <2>1
  <2>3. b[j] = l[j + 1]
    BY <2>2, Characters DEF n
  <2> QED BY <2>1, <2>2, <2>3
<1>17. string(d, p) = SubSeq(l, w, e)
  BY <1>13, <1>14, <1>15, <1>16
<1> QED BY <1>12, <1>17 DEF d, n, p

(* The arguments runcmd gives a command are the words of the line, all of  *)
(* them and in order, as long as there are fewer than it has room for.     *)
THEOREM ArgumentsRight == Spec => ArgumentsAreWords
<1>1. ASSUME LineInv, runcmd, argc(buf) < MAXARGS
      PROVE  /\ Len(args') = Cardinality(WordStarts(line))
             /\ \A w \in Words(line) :
                  args'[Cardinality({k \in WordStarts(line) : k <= w[1]})] = w[2]
  <2> DEFINE s == start(buf)
             c == argc(buf)
             parsed == cut(buf, s[MAXARGS])
             argv == [k \in 1 .. c |-> string(parsed, s[k])]
  <2>1. Holding(buf, line)
    <3>1. /\ pc = "run" /\ LineTypeOK /\ i = Len(line) /\ buf[i] = NUL
          /\ \A k \in 1 .. Len(line) : buf[k - 1] = line[k]
      BY <1>1 DEF runcmd, LineInv, BufferHoldsLine
    <3>2. i < BUFLEN
      BY <3>1, ScreenSize DEF LineTypeOK
    <3> QED BY <3>1, <3>2 DEF Holding, LineTypeOK
  <2>2. args' = argv
    <3>1. c # MAXARGS
      BY <1>1, LineAssumption
    <3>2. IF c = MAXARGS THEN TRUE ELSE args' = argv
      BY <1>1, Zenon DEF runcmd
    <3> QED BY <3>1, <3>2
  <2>3. /\ c = Cardinality(WordStarts(line)) /\ s[MAXARGS] = Len(line)
        /\ \A w \in WordStarts(line) :
             Cardinality(WordsTo(line, w)) \in 1 .. c /\ s[Cardinality(WordsTo(line, w))] = w - 1
    BY <1>1, <2>1, WordsCounted
  <2>4. c \in Nat
    BY <2>1, <2>3, WordsFinite DEF Holding
  <2> HIDE DEF s, c
  <2>5. Len(args') = c
    BY <2>2, <2>4
  <2>6. ASSUME NEW w \in Words(line)
        PROVE  args'[Cardinality({k \in WordStarts(line) : k <= w[1]})] = w[2]
    <3>1. PICK v \in WordStarts(line) : w = <<v, SubSeq(line, v, WordEnd(line, v))>>
      BY DEF Words
    <3>2. w[1] = v /\ w[2] = SubSeq(line, v, WordEnd(line, v))
      BY <3>1
    <3> DEFINE k == Cardinality(WordsTo(line, v))
    <3>3. k \in 1 .. c /\ s[k] = v - 1
      BY <2>3
    <3> HIDE DEF k
    <3>4. args'[k] = string(cut(buf, Len(line)), v - 1)
      BY <2>2, <2>3, <3>3
    <3>5. args'[k] = w[2]
      BY <2>1, <3>2, <3>4, WordString
    <3> QED BY <3>2, <3>5 DEF k, WordsTo
  <2> QED BY <2>3, <2>5, <2>6
<1>2. LineInv /\ [Next]_vars =>
        [runcmd /\ argc(buf) < MAXARGS =>
           /\ Len(args') = Cardinality(WordStarts(line))
           /\ \A w \in Words(line) :
                args'[Cardinality({k \in WordStarts(line) : k <= w[1]})] = w[2]]_vars
  BY <1>1
<1> QED BY <1>2, LineInvariant, PTL DEF Spec, ArgumentsAreWords
=============================================================================

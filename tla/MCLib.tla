-------------------------------- MODULE MCLib --------------------------------
(***************************************************************************)
(* Words of 8 bits; memories of four bytes over 0, 1 and 200, every call   *)
(* that stays inside them.                                                 *)
(***************************************************************************)
EXTENDS Lib

MCW == 8
MCStrings == <<<<97, 98, 99, 0>>, <<0>>, <<97, 9, 200, 126, 0>>>>

D(flags, width, prec, l, conv, arg) ==
  [flags |-> flags, width |-> width, prec |-> prec, l |-> l, conv |-> conv, arg |-> arg]
N(n) == [star |-> FALSE, n |-> n]
S(n) == [star |-> TRUE, n |-> n]
None == <<>>

Widths == {None, N(1), N(3), N(10), S(4), S(-4)}
Values(signed, l) ==
  LET bits == IF l = 2 THEN 16 ELSE 8
  IN  IF signed THEN {0, 1, 10, 2^(bits - 1) - 1, -1, -(2^(bits - 1))} ELSE {0, 9, 10, 2^bits - 1}

NumbersOf(flags, widths) ==
  {D(f, w, None, l, c, v) : f \in flags, w \in widths, l \in {0, 1, 2},
                            c \in {"d", "u", "o", "x"}, v \in Values(FALSE, 2) \cup Values(TRUE, 2)}
(* With the flag - only at widths that ask for no padding: where they do,  *)
(* printnum pads with the flag itself, on the left.                        *)
Numbers == NumbersOf({<<>>, <<48>>}, Widths) \cup NumbersOf({<<45>>}, {None, N(1), S(-4)})
Representable(d) == d.arg \in Values(d.conv = "d", d.l)

Texts ==
  {D(f, w, p, 0, "s", i) : f \in {<<>>, <<45>>, <<35>>, <<35, 45>>, <<48>>}, w \in Widths,
                           p \in {None, N(2), N(4), S(0), S(1), S(-1)}, i \in 0 .. 3}

Others ==
  {D(<<>>, None, None, 0, "c", 120), D(<<>>, None, None, 0, "pc", 0), D(<<45>>, N(3), None, 0, "pc", 0)}
  \cup {D(<<>>, None, None, 0, "e", v) : v \in {-6, -1, 0, 1, 6, 7, -7, 127}}
  \cup {D(f, w, None, 0, "p", v) : f \in {<<>>, <<48>>}, w \in Widths, v \in {0, 16, 255}}
  \cup {D(f, w, None, l, "?", 122) : f \in {<<>>, <<48>>, <<35, 45>>}, w \in {None, N(3), N(10)}, l \in {0, 1}}

MCPrints ==
  {[directive |-> d, to |-> t[1], n |-> t[2]] :
     d \in {e \in Numbers : Representable(e)} \cup Texts \cup Others,
     t \in {<<"snprintf", 0>>, <<"snprintf", 1>>, <<"snprintf", 5>>, <<"snprintf", 20>>, <<"cprintf", 0>>}}

(* The calls: in bounds, and on strings that end.                          *)
Size == 4
Memories == [1 .. Size -> {0, 1, 200}]
Ends(m, s) == \E i \in s .. Size : m[i] = 0
Apart(a, m, b, n) == a + m - 1 < b \/ b + n - 1 < a

Legal(q) ==
  LET m == q.mem  a == q.a  b == q.b  n == q.n  L == Length(m, b)
      Fits(s) == s + n - 1 <= Size
  IN  CASE q.f = "strlen"  -> Ends(m, a) /\ b = 1 /\ n = 0
        [] q.f = "strnlen" -> (Ends(m, a) \/ Fits(a)) /\ b = 1
        [] q.f = "strcpy"  -> Ends(m, b) /\ n = 0 /\ a + L <= Size /\ Apart(a, L + 1, b, L + 1)
        [] q.f \in {"strncpy", "strlcpy"} -> Ends(m, b) /\ Fits(a) /\ Apart(a, n, b, L + 1)
        [] q.f \in {"strcmp", "strncmp"}  -> Ends(m, a) /\ Ends(m, b) /\ (q.f = "strncmp" \/ n = 0)
        [] q.f = "memcpy"  -> Fits(a) /\ Fits(b) /\ (a <= b \/ Apart(a, n, b, n))
        [] q.f \in {"memmove", "memcmp"}  -> Fits(a) /\ Fits(b)

Copies ==
  {q \in [f : {"strlen", "strnlen", "strcpy", "strncpy", "strlcpy", "strcmp", "strncmp",
               "memcpy", "memmove", "memcmp"},
          mem : Memories, a : 1 .. Size, b : 1 .. Size, n : 0 .. Size] : Legal(q)}

Searches ==
  {q \in [f : {"strchr", "strfind"}, mem : Memories, a : 1 .. Size, b : {1, 7, 200}, n : {0}] :
     Ends(q.mem, q.a)}
  \cup {q \in [f : {"memset", "memfind"}, mem : Memories, a : 1 .. Size, b : {0, 200, 257}, n : 0 .. Size] :
          q.a + q.n - 1 <= Size}

(* A numeral by its parts: what strtol must make of it follows from them.  *)
Value(ds, base) == FoldLeft(LAMBDA v, d : v * base + d, 0, ds)
Prefix(base, given) ==
  IF base = 16 THEN <<48, 120>> ELSE IF base = 8 /\ given = 0 THEN <<48>> ELSE <<>>

Numeral_call(blank, sign, base, given, ds, rest) ==
  LET text == blank \o sign \o Prefix(base, given) \o [i \in DOMAIN ds |-> Digit(ds[i])]
      val  == Value(ds, base)
  IN  [f |-> "strtol", mem |-> text \o <<rest, 0>>, a |-> 1, n |-> given,
       b |-> [end |-> Len(text) + 1, val |-> IF sign = <<45>> THEN -val ELSE val]]

Numerals ==
  {Numeral_call(blank, sign, bg[1], bg[2], ds, rest) :
     blank \in {<<>>, <<32, 9>>}, sign \in {<<>>, <<43>>, <<45>>},
     bg \in {<<10, 10>>, <<8, 8>>, <<16, 16>>, <<8, 0>>, <<16, 0>>},
     ds \in {<<>>, <<1>>, <<7, 0>>, <<0, 2, 1>>}, rest \in {0, 33, 122}}
  \cup {Numeral_call(<<>>, <<>>, 16, 0, <<10, 15>>, 103), Numeral_call(<<>>, <<>>, 10, 0, <<9, 8>>, 97),
        Numeral_call(<<>>, <<>>, 8, 8, <<7>>, 56)}

MCCalls == Copies \cup Searches \cup Numerals
=============================================================================

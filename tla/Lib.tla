--------------------------------- MODULE Lib ---------------------------------
(***************************************************************************)
(* The kernel's library, one call at a time: a formatted print of a        *)
(* directive whose parts are known, or a call of a string function on a    *)
(* small memory.  What the calls must do is stated from the parts, without *)
(* the code's scanning and copying.                                        *)
(***************************************************************************)
EXTENDS PrintFmt

CONSTANTS
  Prints,     \* [directive, to, n]: prints to make
  Calls       \* [f, mem, a, b, n]: calls of string functions

VARIABLES
  asked,  \* the print or the call
  mem,    \* the memory of a string call
  ret     \* what it returned, <<>> before

vars == <<printVars, asked, mem, ret>>

(***************************************************************************)
(* A directive by its parts: flags, a width and a precision ([star, n];    *)
(* <<>> is none), the number of l's, the conversion and its argument: a    *)
(* number, an index of Strings, or for "?" the letter nobody knows.        *)
(***************************************************************************)
Conversion ==
  [c |-> 99, e |-> 101, s |-> 115, d |-> 100, u |-> 117, o |-> 111, x |-> 120, p |-> 112, pc |-> 37]

Decimal(n) == IF n < 10 THEN <<48 + n>> ELSE <<48 + n \div 10, 48 + (n % 10)>>
Field(part) == IF part = <<>> THEN <<>> ELSE IF part.star THEN <<42>> ELSE Decimal(part.n)
Star(part)  == IF part # <<>> /\ part.star THEN <<part.n % 2^W>> ELSE <<>>

Text(d) ==
  <<37>> \o d.flags \o Field(d.width)
  \o (IF d.prec = <<>> THEN <<>> ELSE <<46>> \o Field(d.prec))
  \o Repeat(108, d.l) \o (IF d.conv = "?" THEN <<d.arg>> ELSE <<Conversion[d.conv]>>)

Arguments(d) ==
  Star(d.width) \o Star(d.prec)
  \o (CASE d.conv \in {"?", "pc"} -> <<>>
        [] d.l = 2 -> <<d.arg % 2^W, (d.arg \div 2^W) % 2^W>>
        [] OTHER   -> <<d.arg % 2^W>>)

(* Every print has a text before the directive and another directive after *)
(* it, whose argument is the word behind those of the first.               *)
Before == <<62>>
After  == [flags |-> <<>>, width |-> <<>>, prec |-> <<>>, l |-> 0, conv |-> "u", arg |-> 7]

Format(d) == Before \o Text(d) \o Text(After) \o <<0>>

(***************************************************************************)
(* What it must print.                                                     *)
(***************************************************************************)
(* The digits of v: as many as it takes, each found by division.           *)
Numeral(v, base) ==
  LET len == CHOOSE n \in 1 .. 2 * W : base^n > v /\ (n = 1 \/ base^(n - 1) <= v)
  IN  [i \in 1 .. len |-> Digit((v \div base^(len - i)) % base)]

Has(d, ch) == Contains(d.flags, ch)
Wanted(part) == IF part = <<>> \/ part.n < 0 THEN 0 ELSE part.n
Padding(d, ch, text) == Repeat(ch, Wanted(d.width) - Len(text))

(* A number is padded on the left, with zeros if asked, and on the right,  *)
(* with blanks, if the flag - asks for that, as a string is.               *)
Padded(d, text) ==
  IF Has(d, 45) THEN text \o Padding(d, 32, text)
  ELSE Padding(d, IF Has(d, 48) THEN 48 ELSE 32, text) \o text

Rendered(d) ==
  LET abs  == IF d.arg < 0 THEN -d.arg ELSE d.arg
      p    == IF d.arg = 0 THEN null_string ELSE Strings[d.arg]
      full == SubSeq(p, 1, Len(p) - 1)
      cut  == IF d.prec = <<>> \/ d.prec.n < 0 THEN full
              ELSE SubSeq(full, 1, Min({d.prec.n, Len(full)}))
      text == [i \in DOMAIN cut |-> IF Has(d, 35) /\ cut[i] \notin 32 .. 126 THEN 63 ELSE cut[i]]
  IN  CASE d.conv = "?"  -> Text(d)
        [] d.conv = "pc" -> <<37>>
        [] d.conv = "c"  -> <<d.arg>>
        [] d.conv = "e"  -> IF abs \in 1 .. MAXERROR THEN error_string[abs]
                            ELSE error_number \o Numeral(abs, 10)
        [] d.conv = "s"  -> Padded(d, text)
        [] d.conv = "d"  -> (IF d.arg < 0 THEN <<45>> ELSE <<>>) \o Padded(d, Numeral(abs, 10))
        [] d.conv = "u"  -> Padded(d, Numeral(d.arg, 10))
        [] d.conv = "o"  -> Padded(d, Numeral(d.arg, 8))
        [] d.conv = "x"  -> Padded(d, Numeral(d.arg, 16))
        [] d.conv = "p"  -> <<48, 120>> \o Padded(d, Numeral(d.arg, 16))

AsAsked ==
  LET out  == Before \o Rendered(asked.directive) \o <<48 + After.arg>>
      kept == Min({Len(out), asked.n - 1})
  IN  IF asked.to = "cprintf" THEN [i \in DOMAIN sink.console |-> sink.console[i] % 256] = out
      ELSE IF asked.n = 0 THEN result = -E_INVAL /\ sink.mem[1] = 255
      ELSE /\ result = Len(out)
           /\ sink.mem = [i \in 1 .. asked.n + 1 |->
                IF i <= kept THEN out[i] ELSE IF i = kept + 1 THEN 0 ELSE 255]

(***************************************************************************)
(* The calls of string functions: a and b are the arguments before the     *)
(* size or, for strtol, the base.                                          *)
(***************************************************************************)
Returns(f, m, v) ==
  /\ pc = "string" /\ asked.f = f
  /\ pc' = "returned" /\ mem' = m /\ ret' = <<v>>
  /\ UNCHANGED <<fmt, pos, ap, dir, sink, result, asked>>

Gives(f, v)  == Returns(f, mem, v)
Leaves(f, r) == Returns(f, r.mem, r.ret)

call_strlen  == Gives("strlen",  strlen(mem, asked.a))
call_strnlen == Gives("strnlen", strnlen(mem, asked.a, asked.n))
call_strcpy  == Leaves("strcpy",  strcpy(mem, asked.a, asked.b))
call_strncpy == Leaves("strncpy", Ret(strncpy(mem, asked.a, asked.b, asked.n), asked.a))
call_strlcpy == Leaves("strlcpy", strlcpy(mem, asked.a, asked.b, asked.n))
call_strcmp  == Gives("strcmp",  strcmp(mem, asked.a, asked.b))
call_strncmp == Gives("strncmp", strncmp(mem, asked.a, asked.b, asked.n))
call_strchr  == Gives("strchr",  strchr(mem, asked.a, asked.b))
call_strfind == Gives("strfind", strfind(mem, asked.a, asked.b))
call_memset  == Leaves("memset",  memset(mem, asked.a, asked.b, asked.n))
call_memcpy  == Leaves("memcpy",  memcpy(mem, asked.a, asked.b, asked.n))
call_memmove == Leaves("memmove", memmove(mem, asked.a, asked.b, asked.n))
call_memcmp  == Gives("memcmp",  memcmp(mem, asked.a, asked.b, asked.n))
call_memfind == Gives("memfind", memfind(mem, asked.a, asked.b, asked.n))
call_strtol  == Gives("strtol",  strtol(mem, asked.a, asked.n))

(***************************************************************************)
(* What they must do, to the memory m they were called on.                 *)
(***************************************************************************)
Length(m, s) == Min({i \in 0 .. Len(m) - s : m[s + i] = 0})
Copied(m, d, n, v(_)) == [i \in DOMAIN m |-> IF i \in d .. d + n - 1 THEN v(i - d) ELSE m[i]]
First(m, s, n, c) == {i \in s .. s + n - 1 : m[i] = c /\ \A j \in s .. i - 1 : m[j] # c}

(* The sign of the difference at the first of n bytes that differ.         *)
Orders(m, p, q, n, r) ==
  LET D == {i \in 0 .. n - 1 : m[p + i] # m[q + i]}
  IN  IF D = {} THEN r = 0
      ELSE LET k == Min(D) IN (r < 0 /\ m[p + k] < m[q + k]) \/ (r > 0 /\ m[p + k] > m[q + k])

Specified(q) ==
  LET m == q.mem  a == q.a  b == q.b  n == q.n  r == ret[1]
      L(s) == Length(m, s)
      Found(s, len, c, other) ==
        LET F == First(m, s, len, c) IN r = IF F = {} THEN other ELSE Min(F)
      byte(i) == m[b + i]
  IN
  CASE q.f = "strlen"  -> r = L(a) /\ mem = m
    [] q.f = "strnlen" -> r = Cardinality({i \in 0 .. n - 1 : \A j \in 0 .. i : m[a + j] # 0}) /\ mem = m
    [] q.f = "strcpy"  -> mem = Copied(m, a, L(b) + 1, byte) /\ r = a
    [] q.f = "strncpy" -> mem = Copied(m, a, n, LAMBDA i : IF i < L(b) THEN m[b + i] ELSE 0) /\ r = a
    [] q.f = "strlcpy" ->
         LET k == Min({L(b), n - 1})
         IN  IF n = 0 THEN mem = m /\ r = 0
             ELSE mem = Copied(m, a, k + 1, LAMBDA i : IF i < k THEN m[b + i] ELSE 0) /\ r = k
    [] q.f = "strcmp"  -> Orders(m, a, b, Min({L(a), L(b)}) + 1, r) /\ mem = m
    [] q.f = "strncmp" -> Orders(m, a, b, Min({L(a) + 1, L(b) + 1, n}), r) /\ mem = m
    [] q.f = "strchr"  -> Found(a, L(a), b, NULL) /\ mem = m
    [] q.f = "strfind" -> Found(a, L(a), b, a + L(a)) /\ mem = m
    [] q.f = "memset"  -> mem = Copied(m, a, n, LAMBDA i : b % 256) /\ r = a
    [] q.f \in {"memcpy", "memmove"} -> mem = Copied(m, a, n, byte) /\ r = a
    [] q.f = "memcmp"  -> Orders(m, a, b, n, r) /\ mem = m
    [] q.f = "memfind" -> Found(a, n, b % 256, a + n) /\ mem = m
    [] q.f = "strtol"  -> r = b /\ mem = m

(***************************************************************************)
Init ==
  \/ \E q \in Prints :
       /\ PrintInit(Format(q.directive), Arguments(q.directive) \o <<After.arg>>, q.to, q.n)
       /\ asked = q /\ mem = <<>> /\ ret = <<>>
  \/ \E q \in Calls :
       /\ pc = "string" /\ pos = 1 /\ dir = Fresh /\ result = 0
       /\ fmt = <<>> /\ ap = <<>> /\ sink = [to |-> "none"]
       /\ asked = q /\ mem = q.mem /\ ret = <<>>

print_step == PrintStep /\ UNCHANGED <<asked, mem, ret>>

Next ==
  \/ print_step
  \/ call_strlen \/ call_strnlen \/ call_strcpy \/ call_strncpy \/ call_strlcpy
  \/ call_strcmp \/ call_strncmp \/ call_strchr \/ call_strfind
  \/ call_memset \/ call_memcpy \/ call_memmove \/ call_memcmp \/ call_memfind
  \/ call_strtol

(* A call that was made runs to its end.                                   *)
Spec == Init /\ [][Next]_vars /\ WF_vars(Next)

(* Every call returns, a print whatever letter follows its percent, and a  *)
(* print has by then printed each directive as its parts say: digits,      *)
(* sign, padding, precision, and the argument that belongs to it although  *)
(* stars and long longs came before.  snprintf has kept what fits with a   *)
(* null behind it, has written nothing past its n bytes and has returned   *)
(* the length of the whole text.                                           *)
PrintsAsAsked == <>(pc = "returned" /\ ("directive" \in DOMAIN asked => AsAsked))

(* A string function returns what its name promises and writes its         *)
(* destination and nothing else: memmove whatever the overlap, memcpy down *)
(* over its own source as the screen's scroll has it, strlcpy and strncpy  *)
(* at a size of 0, below, at and above the length, comparisons ordered by  *)
(* unsigned bytes, strtol by the prefix that decides the base.             *)
StringsAsSpecified == pc = "returned" /\ "f" \in DOMAIN asked => Specified(asked)
=============================================================================

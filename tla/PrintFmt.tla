------------------------------- MODULE PrintFmt -------------------------------
(***************************************************************************)
(* lib/printfmt.c and kern/printf.c: one call of snprintf or cprintf.      *)
(* vprintfmt is a machine that reads the format: a case of its switch is   *)
(* an action.  Characters are their codes.  The arguments are the words of *)
(* the va_list; an int, a long and a pointer are one word of W bits, a     *)
(* long long two, the low one first.  A pointer to a string is an index of *)
(* Strings, the texts in memory (null included), and 0 is NULL.            *)
(***************************************************************************)
EXTENDS StringOps, SequencesExt

CONSTANTS W, Strings

ASSUME WidthAssumption == W \in Nat \ {0}

VARIABLES
  pc,     \* "call", "scan" (copy up to a %), "switch" (after one), "returned"
  fmt,    \* the format, null included
  pos,    \* what the pointer fmt of vprintfmt points at
  ap,     \* the words va_arg has not taken
  dir,    \* padc, width, precision, lflag and altflag of the directive
  sink,   \* where putch puts: struct sprintbuf and its memory, or the console
  result  \* what the call returned

printVars == <<pc, fmt, pos, ap, dir, sink, result>>

MAXERROR == 6
E_INVAL  == 3

(* The texts, one letter standing for each.                                *)
error_string == [err \in 1 .. MAXERROR |-> <<64 + err>>]
error_number == <<101, 32>>                                   \* "error "
null_string  == <<40, 110, 41, 0>>                            \* "(null)"

Fresh == [padc |-> 32, width |-> -1, precision |-> -1, lflag |-> 0, altflag |-> FALSE]

Digit(d) == IF d < 10 THEN 48 + d ELSE 87 + d
Repeat(ch, n) == [i \in 1 .. Max({0, n}) |-> ch]

(* Seeded fault: the width is not used up by the digits printed before.    *)
RECURSIVE printnum_wide(_, _, _, _)
printnum_wide(num, base, width, padc) ==
  (IF num >= base THEN printnum_wide(num \div base, base, width, padc)
                  ELSE Repeat(padc, width - 1))
  \o <<Digit(num % base)>>

RECURSIVE printnum(_, _, _, _)
printnum(num, base, width, padc) ==
  (IF num >= base THEN printnum(num \div base, base, width - 1, padc)
                  ELSE Repeat(padc, width - 1))
  \o <<Digit(num % base)>>

(* A word, or two, as a signed number.                                     *)
Signed(v, bits) == IF v >= 2^(bits - 1) THEN v - 2^bits ELSE v

Words(lflag) == IF lflag >= 2 THEN 2 ELSE 1
getuint(args, lflag) == IF lflag >= 2 THEN args[1] + 2^W * args[2] ELSE args[1]
getint(args, lflag)  == Signed(getuint(args, lflag), W * Words(lflag))

(* What va_arg leaves.                                                     *)
Taken(n) == SubSeq(ap, n + 1, Len(ap))

(* The putch of snprintf, which counts every character and stores those    *)
(* that leave room for the null, and the putch of cprintf, whose *cnt++    *)
(* moves its own pointer and not the count, for each character of a text.  *)
sprintputch(b, text) ==
  LET room == Min({Len(text), b.ebuf - b.buf})
  IN  [b EXCEPT !.cnt = @ + Len(text),
                !.mem = [i \in DOMAIN @ |-> IF i \in b.buf .. b.buf + room - 1
                                            THEN text[i - b.buf + 1] % 256 ELSE @[i]],
                !.buf = @ + room]
putch(b, text) == [b EXCEPT !.console = @ \o text]

Put(text) == sink' = IF sink.to = "snprintf" THEN sprintputch(sink, text) ELSE putch(sink, text)

(***************************************************************************)
(* Entry and return.                                                       *)
(***************************************************************************)
PrintInit(format, args, to, n) ==
  /\ pc = "call" /\ pos = 1 /\ dir = Fresh /\ result = 0
  /\ fmt = format /\ ap = args
  /\ sink = [to |-> to, mem |-> [i \in 1 .. n + 1 |-> 255], buf |-> 1, ebuf |-> n,
             cnt |-> 0, console |-> <<>>]

(* snprintf(buf, n, ...): mem is buf and the byte behind it.               *)
vsnprintf ==
  /\ pc = "call" /\ sink.to = "snprintf"
  /\ IF sink.ebuf < 1 THEN pc' = "returned" /\ result' = -E_INVAL
                      ELSE pc' = "scan" /\ UNCHANGED result
  /\ UNCHANGED <<fmt, pos, ap, dir, sink>>

vcprintf ==
  /\ pc = "call" /\ sink.to = "cprintf" /\ pc' = "scan"
  /\ UNCHANGED <<fmt, pos, ap, dir, sink, result>>

(* vprintfmt meets the null of the format; its caller ends the buffer.     *)
end_of_format ==
  /\ pc = "scan" /\ fmt[pos] = 0
  /\ pc' = "returned" /\ result' = sink.cnt
  /\ sink' = IF sink.to = "snprintf" THEN [sink EXCEPT !.mem = Set(@, sink.buf, 0)] ELSE sink
  /\ UNCHANGED <<fmt, pos, ap, dir>>

literal ==
  /\ pc = "scan" /\ fmt[pos] \notin {0, 37}
  /\ Put(<<fmt[pos]>>) /\ pos' = pos + 1
  /\ UNCHANGED <<pc, fmt, ap, dir, result>>

percent ==
  /\ pc = "scan" /\ fmt[pos] = 37
  /\ pc' = "switch" /\ pos' = pos + 1 /\ dir' = Fresh
  /\ UNCHANGED <<fmt, ap, sink, result>>

(***************************************************************************)
(* Flags, which go back to the switch.                                     *)
(***************************************************************************)
Flag(ch, d) ==
  /\ pc = "switch" /\ fmt[pos] = ch
  /\ dir' = d /\ pos' = pos + 1
  /\ UNCHANGED <<pc, fmt, ap, sink, result>>

pad_minus == Flag(45, [dir EXCEPT !.padc = 45])
pad_zero  == Flag(48, [dir EXCEPT !.padc = 48])
dot       == Flag(46, [dir EXCEPT !.width = IF @ < 0 THEN 0 ELSE @])
alternate == Flag(35, [dir EXCEPT !.altflag = TRUE])
long      == Flag(108, [dir EXCEPT !.lflag = @ + 1])

(* The first number is the width, one after it or after a dot precision.   *)
process_precision(n) ==
  dir' = IF dir.width < 0 THEN [dir EXCEPT !.width = n, !.precision = -1]
                          ELSE [dir EXCEPT !.precision = n]

number_field ==
  LET end == CHOOSE i \in pos + 1 .. Len(fmt) :
               fmt[i] \notin 48 .. 57 /\ \A j \in pos .. i - 1 : fmt[j] \in 48 .. 57
  IN  /\ pc = "switch" /\ fmt[pos] \in 49 .. 57
      /\ process_precision(FoldLeft(LAMBDA n, ch : n * 10 + ch - 48, 0, SubSeq(fmt, pos, end - 1)))
      /\ pos' = end
      /\ UNCHANGED <<pc, fmt, ap, sink, result>>

star ==
  /\ pc = "switch" /\ fmt[pos] = 42
  /\ process_precision(Signed(ap[1], W))
  /\ ap' = Taken(1) /\ pos' = pos + 1
  /\ UNCHANGED <<pc, fmt, sink, result>>

(***************************************************************************)
(* Conversions, which end the directive.                                   *)
(***************************************************************************)
Converts(ch, text, words) ==
  /\ pc = "switch" /\ fmt[pos] = ch
  /\ Put(text) /\ ap' = Taken(words)
  /\ pc' = "scan" /\ pos' = pos + 1
  /\ UNCHANGED <<fmt, dir, result>>

number(num, base) == printnum(num, base, dir.width, dir.padc)

character == Converts(99, <<ap[1]>>, 1)

(* The message goes through printfmt again, with a directive of its own.   *)
(* The least int, which the negation leaves negative, is not an error code *)
(* and is not asked for.                                                   *)
error ==
  LET v   == Signed(ap[1], W)
      err == IF v < 0 THEN -v ELSE v
  IN  Converts(101, IF err \in DOMAIN error_string THEN error_string[err]
                    ELSE error_number \o printnum(err, 10, -1, 32), 1)

(* A char is signed: past 127 it is less than a blank.                     *)
shown(ch) == IF dir.altflag /\ ch \notin 32 .. 126 THEN 63 ELSE Signed(ch, 8)

string ==
  LET p     == IF ap[1] = 0 THEN null_string ELSE Strings[ap[1]]
      len   == strnlen(p, 1, dir.precision)
      left  == IF dir.width > 0 /\ dir.padc # 45 THEN dir.width - len ELSE 0
      right == IF dir.padc = 45 THEN dir.width - len ELSE 0
  IN  Converts(115, Repeat(dir.padc, left) \o [i \in 1 .. len |-> shown(p[i])] \o Repeat(32, right), 1)

decimal ==
  LET num == getint(ap, dir.lflag)
  IN  Converts(100, IF num < 0 THEN <<45>> \o number(-num, 10) ELSE number(num, 10), Words(dir.lflag))

unsigned == Converts(117, number(getuint(ap, dir.lflag), 10), Words(dir.lflag))
octal    == Converts(111, number(getuint(ap, dir.lflag), 8), Words(dir.lflag))
hex      == Converts(120, number(getuint(ap, dir.lflag), 16), Words(dir.lflag))
pointer  == Converts(112, <<48, 120>> \o number(ap[1], 16), 1)
escaped  == Converts(37, <<37>>, 0)

Known == {45, 48, 42, 46, 35, 108, 99, 101, 115, 100, 117, 111, 112, 120, 37} \cup 49 .. 57

(* fmt goes back to the character behind the last %.                       *)
unrecognized ==
  /\ pc = "switch" /\ fmt[pos] \notin Known
  /\ Put(<<37>>) /\ pc' = "scan"
  /\ pos' = Max({i \in 1 .. pos - 1 : fmt[i] = 37}) + 1
  /\ UNCHANGED <<fmt, ap, dir, result>>

PrintStep ==
  \/ vsnprintf \/ vcprintf \/ end_of_format \/ literal \/ percent
  \/ pad_minus \/ pad_zero \/ dot \/ alternate \/ long \/ number_field \/ star
  \/ character \/ error \/ string \/ decimal \/ unsigned \/ octal \/ hex
  \/ pointer \/ escaped \/ unrecognized
=============================================================================

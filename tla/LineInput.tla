------------------------------ MODULE LineInput ------------------------------
(***************************************************************************)
(* The kernel monitor's command line: readline (lib/readline.c) edits a    *)
(* line in its static buffer and echoes it on the display, runcmd          *)
(* (kern/monitor.c) cuts it into arguments in place, and monitor loops     *)
(* over both until a command returns a negative value.  The display is     *)
(* module Cga's; getchar's characters are any (module ConsoleInput).       *)
(* readline_hack is never set by the kernel and is left out.               *)
(***************************************************************************)
EXTENDS Integers, Sequences, FiniteSets, FiniteSetsExt

CONSTANTS
  CRT_ROWS, CRT_COLS,
  Letter,       \* printable characters other than white space
  BUFLEN, MAXARGS,
  ExitName,     \* the name of the command `exit', a sequence of letters
  MaxLines      \* bound: lines finished in a behaviour

Space  == " "
Prompt == ">"          \* stands for "K> "
Output == "o"          \* stands for what a command prints on a line
NUL    == "NUL"
Glyph  == Letter \cup {Space, Prompt, Output}
Input  == Letter \cup {Space, "BS", "NL", "CR", "TAB"}
White  == {Space}      \* tab, CR and NL are white too, but readline stores none

ASSUME LineAssumption ==
  /\ CRT_ROWS \in Nat \ {0, 1} /\ CRT_COLS \in Nat \ {0}
  /\ Letter \cap {Space, NUL, "BS", "NL", "CR", "TAB"} = {}
  /\ BUFLEN \in Nat \ {0} /\ MAXARGS \in Nat \ {0, 1} /\ MaxLines \in Nat
  /\ BUFLEN <= (CRT_ROWS - 1) * CRT_COLS      \* 1024 + 2 <= 1920 in the code

VARIABLES
  crt_buf, crt_pos,     \* the display
  buf, i,               \* readline's buffer and length
  pc,                   \* "enter" monitor, "prompt", "read", "run"
  tf,                   \* monitor's argument: "null", "brkpt" or another trap
  args,                 \* the argument strings the last command got
  line,                 \* history: the line as the user has edited it
  lines                 \* lines finished so far

vars == <<crt_buf, crt_pos, buf, i, pc, tf, args, line, lines>>

Screen == INSTANCE Cga WITH cursor <- crt_pos, gone <- <<>>, MaxGone <- 0

(* cputchar of each character of s in turn.                                *)
print(s) ==
  LET d[n \in 0 .. Len(s)] ==
        IF n = 0 THEN [buf |-> crt_buf, pos |-> crt_pos, gone |-> <<>>]
        ELSE Screen!putc(d[n - 1], s[n])
  IN  crt_buf' = d[Len(s)].buf /\ crt_pos' = d[Len(s)].pos

Init ==
  /\ crt_buf = [c \in 0 .. CRT_ROWS * CRT_COLS - 1 |-> Space]
  /\ crt_pos \in 0 .. CRT_ROWS * CRT_COLS - 1
  /\ buf = [k \in 0 .. BUFLEN - 1 |-> NUL] /\ i = 0
  /\ pc = "enter" /\ tf = "null"
  /\ args = <<>> /\ line = <<>> /\ lines = 0

(* monitor(tf): the welcome, and the trap frame if there is one.           *)
monitor(t) ==
  /\ pc = "enter"
  /\ tf' = t
  /\ print(IF t = "null" THEN <<Output, "NL">> ELSE <<Output, "NL", Output, "NL">>)
  /\ pc' = "prompt"
  /\ UNCHANGED <<buf, i, args, line, lines>>

-----------------------------------------------------------------------------
(* readline.                                                               *)

readline ==
  /\ pc = "prompt"
  /\ print(<<Prompt>>)
  /\ i' = 0 /\ line' = <<>> /\ pc' = "read"
  /\ UNCHANGED <<buf, tf, args, lines>>

(* A printable character: stored and echoed while there is room for it and *)
(* the NUL, otherwise ignored.                                             *)
read_char(c) ==
  /\ pc = "read" /\ c \in Letter \cup {Space}
  /\ IF i < BUFLEN - 1
     THEN /\ print(<<c>>)
          /\ buf' = [buf EXCEPT ![i] = c]
          /\ i' = i + 1 /\ line' = Append(line, c)
     ELSE UNCHANGED <<crt_buf, crt_pos, buf, i, line>>
  /\ UNCHANGED <<pc, tf, args, lines>>

(* Seeded fault: backspace is echoed on an empty line too.                 *)
read_backspace_always ==
  /\ pc = "read"
  /\ print(<<"BS">>)
  /\ IF i > 0 THEN i' = i - 1 /\ line' = SubSeq(line, 1, Len(line) - 1)
     ELSE UNCHANGED <<i, line>>
  /\ UNCHANGED <<buf, pc, tf, args, lines>>

(* Backspace: the cell is erased, the byte stays in the buffer.            *)
read_backspace ==
  /\ pc = "read"
  /\ IF i > 0
     THEN /\ print(<<"BS">>)
          /\ i' = i - 1 /\ line' = SubSeq(line, 1, Len(line) - 1)
     ELSE UNCHANGED <<crt_buf, crt_pos, i, line>>
  /\ UNCHANGED <<buf, pc, tf, args, lines>>

(* Seeded fault: the line is not terminated.                               *)
read_return_open(c) ==
  /\ pc = "read" /\ c \in {"NL", "CR"} /\ lines < MaxLines
  /\ print(<<c>>)
  /\ pc' = "run" /\ lines' = lines + 1
  /\ UNCHANGED <<buf, i, tf, args, line>>

(* End of line: echoed, terminated and returned.                           *)
read_return(c) ==
  /\ pc = "read" /\ c \in {"NL", "CR"} /\ lines < MaxLines
  /\ print(<<c>>)
  /\ buf' = [buf EXCEPT ![i] = NUL]
  /\ pc' = "run" /\ lines' = lines + 1
  /\ UNCHANGED <<i, tf, args, line>>

(* Any other control character.                                            *)
read_ignored(c) == pc = "read" /\ c = "TAB" /\ UNCHANGED vars

-----------------------------------------------------------------------------
(* runcmd: argument k starts at start[k]; all white space passed on the    *)
(* way becomes NUL, which ends the argument before it.                     *)

skip(b, from, over) == Min({q \in from .. BUFLEN - 1 : b[q] \notin over})

start(b) ==
  LET s[k \in 1 .. MAXARGS] ==
        IF k = 1 THEN skip(b, 0, White)
        ELSE IF b[s[k - 1]] = NUL THEN s[k - 1]
        ELSE skip(b, skip(b, s[k - 1], Letter), White)
  IN  s

(* The C string that starts at p.                                          *)
string(b, p) ==
  LET end == Min({q \in p .. BUFLEN - 1 : b[q] = NUL})
  IN  [k \in 1 .. end - p |-> b[p + k - 1]]

(* Seeded fault: white space is skipped but not overwritten.               *)
cut_nothing(b, upto) == b

(* The buffer once the parser has passed the white space before `upto'.    *)
cut(b, upto) ==
  [q \in 0 .. BUFLEN - 1 |-> IF q < upto /\ b[q] \in White THEN NUL ELSE b[q]]

argc(b) == Cardinality({k \in 1 .. MAXARGS : b[start(b)[k]] # NUL})

(* mon_exit: only a breakpoint's monitor returns.                          *)
mon_exit == tf = "brkpt"

runcmd ==
  /\ pc = "run"
  /\ LET starts == start(buf)
         parsed == cut(buf, starts[MAXARGS])
         argv   == [k \in 1 .. argc(buf) |-> string(parsed, starts[k])]
     IN
     /\ buf' = parsed
     /\ IF argc(buf) = MAXARGS                    \* "Too many arguments"
        THEN print(<<Output, "NL">>) /\ pc' = "prompt" /\ UNCHANGED args
        ELSE /\ args' = argv
             /\ IF argv # <<>> /\ argv[1] = ExitName
                THEN /\ pc' = IF mon_exit THEN "enter" ELSE "prompt"
                     /\ UNCHANGED <<crt_buf, crt_pos>>
                ELSE /\ print(IF argv = <<>> THEN <<>> ELSE <<Output, "NL">>)
                     /\ pc' = "prompt"
  /\ UNCHANGED <<i, tf, line, lines>>

Next ==
  \/ \E t \in {"null", "brkpt", "other"} : monitor(t)
  \/ readline
  \/ \E c \in Input : read_char(c) \/ read_return(c) \/ read_ignored(c)
  \/ read_backspace
  \/ runcmd

Spec == Init /\ [][Next]_vars

-----------------------------------------------------------------------------
(* What the user sees is what readline holds: the line as edited stands on *)
(* the display right before the cursor, after an untouched prompt, across  *)
(* wrapped rows and scrolling, and the buffer agrees with it.              *)
LineOnScreen ==
  pc = "read" =>
    /\ crt_pos > Len(line) /\ i = Len(line)
    /\ \A k \in 1 .. Len(line) :
         crt_buf[crt_pos - Len(line) + k - 1] = line[k] /\ buf[k - 1] = line[k]
    /\ crt_buf[crt_pos - Len(line) - 1] = Prompt

(* The string readline returns is the line as edited, whatever longer line *)
(* or erased text the buffer held before, and it is terminated inside it.  *)
ReturnsEditedLine ==
  pc = "run" => /\ \E q \in 0 .. BUFLEN - 1 : buf[q] = NUL
                /\ string(buf, 0) = line

(* The words of s: its maximal runs of letters, from left to right.        *)
WordStarts(s) == {k \in DOMAIN s : s[k] \notin White /\ (k = 1 \/ s[k - 1] \in White)}
WordEnd(s, k) == Max({e \in k .. Len(s) : \A j \in k .. e : s[j] \notin White})
Words(s) == {<<k, SubSeq(s, k, WordEnd(s, k))>> : k \in WordStarts(s)}

(* A command gets exactly the words of the line as its arguments, in their *)
(* order, each ended by a NUL of its own.                                  *)
ArgumentsAreWords ==
  [][runcmd /\ argc(buf) < MAXARGS =>
       /\ Len(args') = Cardinality(WordStarts(line))
       /\ \A w \in Words(line) :
            args'[Cardinality({k \in WordStarts(line) : k <= w[1]})] = w[2]]_vars
=============================================================================

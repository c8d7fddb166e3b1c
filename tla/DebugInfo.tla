------------------------------- MODULE DebugInfo -------------------------------
(***************************************************************************)
(* The backtrace command: mon_backtrace of kern/monitor.c walks the saved  *)
(* frame pointers and asks debuginfo_eip of kern/kdebug.c where each       *)
(* return address lies, which takes three searches of the stabs the linker *)
(* put into the kernel (StabSearch): file, function, line.                 *)
(*                                                                         *)
(* The table is the one a compiler writes for a program, and the program   *)
(* is kept to say what the answers should be.                              *)
(***************************************************************************)
EXTENDS StabSearch

CONSTANTS
  Programs,     \* sequences of files, see File below
  Chains,       \* return addresses on the stack, innermost first
  ULIM,         \* lowest kernel address
  MinGap        \* distance of two different addresses of a function's lines

VARIABLES
  program,      \* what was compiled
  terminated,   \* the string table is there and ends in a null character
  chain,        \* eip of the frames that the saved ebp lead to
  frame,        \* the frame mon_backtrace looks at
  info,         \* struct Eipdebuginfo
  lfile, rfile, lfun,
  printed,      \* what mon_backtrace printed for each frame
  pc

input == <<stabs, program, terminated, chain>>
vars == <<input, searchVars, frame, info, lfile, rfile, lfun, printed, pc>>

-----------------------------------------------------------------------------
(* What is compiled (external).  A file: its name, [base, end), whether it *)
(* has the second N_SO for its directory, and its functions; a file of     *)
(* assembly code has only lines.  A function: its address, its number of   *)
(* arguments and its lines, each with a distance from the function (from 0 *)
(* in assembly code) and the file it was included from, or "" for its own. *)
Concat(ss) == FoldLeft(LAMBDA a, b : a \o b, <<>>, ss)

Entry(t, v, s, d) == [type |-> t, value |-> v, str |-> s, desc |-> d]
LineStabs(name, lines) ==
  Concat([i \in DOMAIN lines |->
    LET before == IF i = 1 THEN "" ELSE lines[i - 1].src
        sol    == IF lines[i].src = before THEN <<>>
                  ELSE <<Entry("SOL", 0, IF lines[i].src = "" THEN name ELSE lines[i].src, 0)>>
    IN  Append(sol, Entry("SLINE", lines[i].at, "", lines[i].line))])
FunStabs(name, fn) ==
  <<Entry("FUN", fn.addr, fn.name, 0)>>
  \o [i \in 1 .. fn.narg |-> Entry("PSYM", 0, "", 0)]
  \o LineStabs(name, fn.lines)
FileStabs(f) ==
  (IF f.dir THEN <<Entry("SO", f.base, "dir", 0)>> ELSE <<>>)
  \o <<Entry("SO", f.base, f.name, 0)>>
  \o LineStabs(f.name, f.lines)
  \o Concat([i \in DOMAIN f.funs |-> FunStabs(f.name, f.funs[i])])
  \o <<Entry("SO", f.end, "", 0)>>
Compiled(p) == <<Entry("UNDF", 0, "", 0)>> \o Concat([i \in DOMAIN p |-> FileStabs(p[i])])

Spaced(lines) == \A i \in 2 .. Len(lines) : lines[i].at - lines[i - 1].at >= MinGap
ASSUME DebugInfoAssumption ==
  /\ MinGap \in Nat \ {0}
  /\ \A p \in Programs : \A i \in DOMAIN p :
       Spaced(p[i].lines) /\ \A k \in DOMAIN p[i].funs : Spaced(p[i].funs[k].lines)

Unknown(a) ==
  [file |-> "<unknown>", line |-> 0, fn |-> "<unknown>", fn_addr |-> a, narg |-> 0]

Init ==
  /\ program \in Programs /\ chain \in Chains /\ terminated \in BOOLEAN
  /\ stabs = Compiled(program)
  /\ SearchInit
  /\ frame = 1 /\ info = Unknown(0)
  /\ lfile = 0 /\ rfile = 0 /\ lfun = 0
  /\ printed = <<>> /\ pc = "mon_backtrace"

-----------------------------------------------------------------------------
(* mon_backtrace's loop: it ends at the frame whose ebp is NULL, the one   *)
(* entry.S made.  debuginfo_eip is called; it panics on user addresses and *)
(* gives up without a string table.                                        *)
mon_backtrace ==
  /\ pc = "mon_backtrace"
  /\ IF frame > Len(chain) THEN pc' = "end" /\ UNCHANGED <<searchVars, info>>
     ELSE LET eip == chain[frame] IN
          /\ info' = Unknown(eip)
          /\ IF eip < ULIM THEN pc' = "panic" /\ UNCHANGED searchVars
             ELSE IF ~terminated THEN pc' = "print" /\ UNCHANGED searchVars
             ELSE stab_binsearch("SO", 0, NStabs - 1, eip) /\ pc' = "file"
  /\ UNCHANGED <<input, frame, lfile, rfile, lfun, printed>>

search_step ==
  /\ SearchStep
  /\ UNCHANGED <<program, terminated, chain, frame, info, lfile, rfile, lfun, printed, pc>>

(* The file found: search it for the function.                             *)
find_function ==
  /\ pc = "file" /\ search_pc = "done"
  /\ IF left = 0
     THEN pc' = "print" /\ UNCHANGED <<searchVars, lfile, rfile>>
     ELSE /\ lfile' = left /\ rfile' = right
          /\ stab_binsearch("FUN", left, right, chain[frame])
          /\ pc' = "function"
  /\ UNCHANGED <<input, frame, info, lfun, printed>>

(* Seeded fault: the line is searched with the whole address.              *)
find_line_absolute ==
  /\ pc = "function" /\ search_pc = "done" /\ pc' = "line"
  /\ lfun' = left
  /\ IF left <= right
     THEN /\ info' = [info EXCEPT !.fn = Stab(left).str, !.fn_addr = Stab(left).value]
          /\ stab_binsearch("SLINE", left, right, chain[frame])
     ELSE /\ info' = [info EXCEPT !.fn_addr = chain[frame]]
          /\ stab_binsearch("SLINE", lfile, rfile, chain[frame])
  /\ UNCHANGED <<input, frame, lfile, rfile, printed>>

(* The function found: search it for the line; without one, as in assembly *)
(* code, search the whole file.                                            *)
find_line ==
  /\ pc = "function" /\ search_pc = "done" /\ pc' = "line"
  /\ lfun' = left
  /\ IF left <= right
     THEN /\ info' = [info EXCEPT !.fn = Stab(left).str, !.fn_addr = Stab(left).value]
          /\ stab_binsearch("SLINE", left, right, chain[frame] - Stab(left).value)
     ELSE /\ info' = [info EXCEPT !.fn_addr = chain[frame]]
          /\ stab_binsearch("SLINE", lfile, rfile, chain[frame])
  /\ UNCHANGED <<input, frame, lfile, rfile, printed>>

(* From a line back to the last N_SOL or N_SO with an address in the file. *)
file_stab(lline) ==
  Max({lfile - 1} \cup {k \in lfile .. lline :
        \/ Stab(k).type = "SOL"
        \/ Stab(k).type = "SO" /\ Stab(k).value # 0})

(* The N_PSYM entries directly behind an entry.                            *)
args_behind(k) ==
  CHOOSE n \in 0 .. NStabs - 1 - k :
    /\ \A i \in 1 .. n : Stab(k + i).type = "PSYM"
    /\ k + n + 1 < NStabs => Stab(k + n + 1).type # "PSYM"

(* The line found: the file it was included from, and the arguments.       *)
fill_info ==
  /\ pc = "line" /\ search_pc = "done" /\ pc' = "print"
  /\ info' = IF left > right THEN info
             ELSE [info EXCEPT !.line = Stab(left).desc,
                               !.file = IF file_stab(left) >= lfile
                                        THEN Stab(file_stab(left)).str ELSE @,
                               !.narg = args_behind(lfun)]
  /\ UNCHANGED <<input, searchVars, frame, lfile, rfile, lfun, printed>>

(* Back in mon_backtrace: print, and go to the frame *ebp points to.       *)
print_frame ==
  /\ pc = "print" /\ pc' = "mon_backtrace"
  /\ printed' = Append(printed, info)
  /\ frame' = frame + 1
  /\ UNCHANGED <<input, searchVars, info, lfile, rfile, lfun>>

Step == mon_backtrace \/ search_step \/ find_function \/ find_line \/ fill_info \/ print_frame
Ended == pc \in {"end", "panic"}
Next == Step \/ (Ended /\ UNCHANGED vars)
Spec == Init /\ [][Next]_vars /\ WF_vars(Step)

-----------------------------------------------------------------------------
(* What the program says of an address: the file around it, the last       *)
(* function at or below it and the last line at or below it.               *)
LastAt(lines, a) == lines[Max({i \in DOMAIN lines : lines[i].at <= a})]
Answer(f, fn, fn_addr, narg, line) ==
  [file |-> IF line.src = "" THEN f.name ELSE line.src, line |-> line.line,
   fn |-> fn, fn_addr |-> fn_addr, narg |-> narg]
Located(a) ==
  LET files == {i \in DOMAIN program : a \in program[i].base .. program[i].end - 1} IN
  IF files = {} \/ ~terminated THEN Unknown(a)
  ELSE LET f    == program[Max(files)]
           funs == {i \in DOMAIN f.funs : f.funs[i].addr <= a}
       IN  IF funs = {} THEN Answer(f, "<unknown>", a, 0, LastAt(f.lines, a))
           ELSE LET fn == f.funs[Max(funs)] IN
                Answer(f, fn.name, fn.addr, fn.narg, LastAt(fn.lines, a - fn.addr))

(* A backtrace prints every frame once, innermost first, and says of each  *)
(* what the program says: file (also of included code), line, function,    *)
(* distance from its start and number of arguments, or nothing without a   *)
(* string table.  Nothing is left over from the frame before.              *)
BacktraceRight ==
  /\ \A i \in DOMAIN printed : printed[i] = Located(chain[i])
  /\ pc = "end" => Len(printed) = Len(chain)

(* A lookup ends, though an exact match restarts the search at the same    *)
(* entry, and the walk of the frames with it.                              *)
BacktraceEnds == <>Ended
=============================================================================

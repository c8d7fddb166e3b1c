----------------------------- MODULE MCDebugInfo -----------------------------
EXTENDS DebugInfo

Line(at, n, src) == [at |-> at, line |-> n, src |-> src]
LineSets(first) ==
  {<<Line(first, 1, "")>>, <<Line(first, 1, ""), Line(first + 2, 2, "")>>,
   <<Line(first, 1, ""), Line(first + 2, 5, "inc"), Line(first + 4, 2, "")>>}

(* One or two functions of six bytes, with up to two arguments; assembly   *)
(* code; and a second file that begins where the first ends, or later.     *)
Fun(a, name, n, lines) == [addr |-> a, name |-> name, narg |-> n, lines |-> lines]
SrcFile(name, base, end, dir, lines, funs) ==
  [name |-> name, base |-> base, end |-> end, dir |-> dir, lines |-> lines, funs |-> funs]
CFiles(name, base) ==
  {SrcFile(name, base, base + 6, d, <<>>, <<Fun(base, "f", n, ls)>>) :
     d \in BOOLEAN, n \in {0, 2}, ls \in LineSets(0)}
  \cup
  {SrcFile(name, base, base + 12, FALSE, <<>>, <<Fun(base, "f", n, ls), Fun(base + 6, "g", 1, ms)>>) :
     n \in {0, 2}, ls \in LineSets(0), ms \in LineSets(0)}
AsmFiles(name, base) ==
  {SrcFile(name, base, base + 6, FALSE, ls, <<>>) : ls \in LineSets(base)}
Files(name, base) == CFiles(name, base) \cup AsmFiles(name, base)

MCPrograms ==
  {<<a, b>> : a \in CFiles("a", 10), b \in AsmFiles("b", 22) \cup AsmFiles("b", 24)}
  \cup {<<a, b>> : a \in AsmFiles("a", 10), b \in Files("b", 16)}
MCChains == {<<>>} \cup {<<a>> : a \in 9 .. 31} \cup {<<13, 22>>, <<25, 11>>, <<16, 9, 17>>, <<12, 3, 12>>}
=============================================================================

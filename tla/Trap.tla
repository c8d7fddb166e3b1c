--------------------------------- MODULE Trap ---------------------------------
(***************************************************************************)
(* Exceptions in the kernel, and the monitors they start: idt_init, the    *)
(* handlers and _alltraps of kern/trapentry.S, trap of kern/trap.c and     *)
(* mon_exit, composed with the matrix command.  The frame is built word by *)
(* word on the stack of VmxRun, and read back through struct Trapframe.    *)
(*                                                                         *)
(* Kernel code may fault anywhere.  A breakpoint is the one trap that      *)
(* returns; no function of hvm/ calls one, i386_init has one in a comment  *)
(* and a command of the monitor may.                                       *)
(***************************************************************************)
EXTENDS VmxRun

CONSTANTS
  Faults,       \* <<vector, error code>> of exceptions in kernel code
  MaxTraps      \* bound: traps taken

VARIABLES
  tfs,          \* the tf argument of every monitor that is active, 0 for NULL
  raised        \* history: what each trap that has not returned interrupted
trapVars == <<tfs, raised>>
vars == <<matrixVars, trapVars>>

T_DIVIDE == 0
T_BRKPT  == 3
T_DBLFLT == 8
T_GPFLT  == 13

(* Words of the processor's state; the addresses of interruptible code.    *)
EFLAGS == -5
GD_KT  == -6
GD_KD  == -7
CCode  == [has_vmx |-> -20, monitor |-> -21, vmx_on |-> -22, vmxon_fault |-> -23,
           ept_setup |-> -24, vmcs_setup |-> -25, exit_reason |-> -26, stopped |-> -27]
CodeAt(eip) == IF \E p \in DOMAIN CCode : CCode[p] = eip
               THEN CHOOSE p \in DOMAIN CCode : CCode[p] = eip ELSE "nowhere"

(* Vectors for which the processor pushes an error code, and the ones      *)
(* whose delivery through a missing gate is a double fault (external).     *)
ErrorCode    == {8, 10, 11, 12, 13, 14, 17}
Contributory == {0, 10, 11, 12, 13}

(* Faults do not return.  Vector 15 is reserved, and the processor raises  *)
(* alignment checks (17) in user mode only.                                *)
ASSUME FaultAssumption ==
  \A f \in Faults : f = <<f[1], f[2]>> /\ f[1] \in Nat \ {T_BRKPT, 15, 17} /\ f[2] \in Nat

(* idt_init: no gate for vector 0.                                         *)
idt == 1 .. 19 \cup {48}

(* The vectors of TRAPHANDLER; all others are TRAPHANDLER_NOEC.            *)
TRAPHANDLER == {8, 10, 11, 12, 13, 14, 15}

Init == MatrixInit /\ tfs = <<0>> /\ raised = <<>>

-----------------------------------------------------------------------------
(* What arrives when vector v is raised: without a gate (a descriptor of   *)
(* zeros is of no valid type) general protection, or a double fault if v   *)
(* is of the kind that makes one.                                          *)
Delivered(v, err) ==
  IF v \in idt THEN <<v, err>>
  ELSE IF v \in Contributory THEN <<T_DBLFLT, 0>> ELSE <<T_GPFLT, 8 * v + 2>>

(* Seeded fault: all handlers push a zero.                                 *)
handler_uniform(n) == <<0, n>>

(* The words a handler pushes.                                             *)
handler(n) == IF n \in TRAPHANDLER THEN <<n>> ELSE <<0, n>>

(* A trap: the processor pushes, and then the handler.                     *)
raise(v, e) ==
  LET d == Delivered(v, e)
      n == d[1]
      err == IF n \in ErrorCode THEN <<d[2]>> ELSE <<>>
  IN  /\ stack' = stack \o <<EFLAGS, GD_KT, CCode[pc]>> \o err \o handler(n)
      /\ raised' = Append(raised, [vector |-> n, err |-> IF n \in ErrorCode THEN d[2] ELSE 0,
                                   reg |-> reg, stack |-> stack, pc |-> pc, tfs |-> tfs])
      /\ pc' = "_alltraps"
      /\ UNCHANGED <<eptVars, nfree, msr, sys, reg, vr, vmcs, call, screenVars, history, tfs>>

breakpoint ==
  /\ pc \in {"has_vmx", "monitor"} /\ Len(raised) < MaxTraps
  /\ raise(T_BRKPT, 0)

(* One that nothing returns from, so that one on the stack is enough.      *)
fault ==
  /\ pc \in DOMAIN CCode \ {"vmxon_fault"} /\ Len(raised) < MaxTraps
  /\ \A k \in DOMAIN raised : raised[k].vector = T_BRKPT
  /\ \E f \in Faults : raise(f[1], f[2])

vmxon_fault == pc = "vmxon_fault" /\ raise(T_GPFLT, 0)

(* _alltraps up to the call: the segments, pushal (esp as it was before),  *)
(* and the address of the frame as argument.                               *)
_alltraps ==
  /\ pc = "_alltraps" /\ pc' = "trap"
  /\ LET segs == stack \o <<GD_KD, GD_KD>>
         tf   == segs \o <<reg["eax"], reg["ecx"], reg["edx"], reg["ebx"], Len(segs),
                           reg["ebp"], reg["esi"], reg["edi"]>>
     IN  stack' = tf \o <<Len(tf), Return>>
  /\ reg' = [reg EXCEPT !["eax"] = GD_KD]
  /\ UNCHANGED <<eptVars, nfree, msr, sys, vr, vmcs, call, screenVars, history, trapVars>>

(* struct Trapframe at address tf: word 0 is the last one pushed.          *)
Word(tf, n) == stack[tf - n]
Trapframe(tf) ==
  [edi |-> Word(tf, 0), esi |-> Word(tf, 1), ebp |-> Word(tf, 2), oesp |-> Word(tf, 3),
   ebx |-> Word(tf, 4), edx |-> Word(tf, 5), ecx |-> Word(tf, 6), eax |-> Word(tf, 7),
   es |-> Word(tf, 8), ds |-> Word(tf, 9), trapno |-> Word(tf, 10), err |-> Word(tf, 11),
   eip |-> Word(tf, 12), cs |-> Word(tf, 13), eflags |-> Word(tf, 14)]

(* trap: a monitor for a breakpoint; anything else is printed and panics.  *)
trap ==
  /\ pc = "trap"
  /\ LET tf == Word(Len(stack), 1) IN
     IF Trapframe(tf).trapno = T_BRKPT
     THEN /\ tfs' = Append(tfs, tf) /\ pc' = "monitor"
          /\ UNCHANGED <<crt_pos, cursor>>
     ELSE pc' = "panic" /\ println /\ UNCHANGED tfs
  /\ UNCHANGED <<eptVars, nfree, hostVars, reg, vr, vmcs, call, panicstr, history, raised>>

(* A panic ends in a monitor of its own, monitor(NULL).                    *)
panic_monitor == panic /\ tfs' = Append(tfs, 0) /\ UNCHANGED raised

(* The command "exit": only the monitor of a breakpoint returns, to trap,  *)
(* which has used the registers that C functions may use.                  *)
mon_exit ==
  /\ pc = "monitor"
  /\ LET tf == tfs[Len(tfs)] IN tf # 0 /\ Trapframe(tf).trapno = T_BRKPT
  /\ tfs' = SubSeq(tfs, 1, Len(tfs) - 1)
  /\ reg' = [reg EXCEPT !["eax"] = DEADBEEF, !["ecx"] = DEADBEEF, !["edx"] = DEADBEEF]
  /\ pc' = "trap returned"
  /\ UNCHANGED <<eptVars, nfree, hostVars, vr, vmcs, call, screenVars, history, raised>>

(* Seeded fault: only one of the two words above the address is dropped.   *)
skip_words_short(esp) == esp - 1

(* "addl $0x8, %esp": past the trap number and the error code.             *)
skip_words(esp) == esp - 2

(* The rest of _alltraps: ret, "pop %esp" takes the argument back, popal,  *)
(* the segments, and iret with address, code segment and flags.            *)
_alltraps_return ==
  /\ pc = "trap returned"
  /\ LET tf  == Word(Len(stack), 1)
         f   == Trapframe(tf)
         esp == skip_words(tf - 10)
     IN  /\ reg' = [reg EXCEPT !["edi"] = f.edi, !["esi"] = f.esi, !["ebp"] = f.ebp,
                               !["ebx"] = f.ebx, !["edx"] = f.edx, !["ecx"] = f.ecx,
                               !["eax"] = f.eax]
         /\ pc' = CodeAt(stack[esp])
         /\ stack' = SubSeq(stack, 1, esp - 3)
  /\ raised' = SubSeq(raised, 1, Len(raised) - 1)
  /\ UNCHANGED <<eptVars, nfree, msr, sys, vr, vmcs, call, screenVars, history, tfs>>

TrapStep ==
  \/ breakpoint \/ fault \/ vmxon_fault \/ _alltraps \/ trap
  \/ panic_monitor \/ mon_exit \/ _alltraps_return

Next == (MatrixStep /\ UNCHANGED trapVars) \/ TrapStep
Spec == Init /\ [][Next]_vars

-----------------------------------------------------------------------------
(* When trap is called, the frame it is given is what struct Trapframe     *)
(* says, whether or not the processor pushed an error code: the vector     *)
(* that arrived, its error code or 0, the address and the registers of the *)
(* code that was interrupted.                                              *)
TrapFrameRight ==
  pc = "trap" =>
    LET f == Trapframe(Word(Len(stack), 1))
        i == raised[Len(raised)]
    IN  /\ f.trapno = i.vector /\ f.err = i.err
        /\ f.eip = CCode[i.pc] /\ f.cs = GD_KT /\ f.eflags = EFLAGS
        /\ f.es = GD_KD /\ f.ds = GD_KD
        /\ [eax |-> f.eax, ecx |-> f.ecx, edx |-> f.edx, ebx |-> f.ebx,
            ebp |-> f.ebp, esi |-> f.esi, edi |-> f.edi]
           = [r \in Saved \ {"cr2"} |-> i.reg[r]]

(* The code a breakpoint interrupted goes on with its own registers and    *)
(* stack and below it the monitors that were active, whatever was done in  *)
(* the monitor: other breakpoints, a virtual machine that ran, or one that *)
(* could not.                                                              *)
InterruptedCodeResumes ==
  [][pc = "trap returned" =>
       LET i == raised[Len(raised)] IN
       /\ stack' = i.stack /\ pc' = i.pc /\ tfs' = i.tfs
       /\ \A r \in Saved \ {"cr2"} : reg'[r] = i.reg[r]]_vars
=============================================================================

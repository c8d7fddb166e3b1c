------------------------------ MODULE TrapProofs ------------------------------
(***************************************************************************)
(* Proofs about the matrix command and the traps around it (VmxRun and     *)
(* Trap), for every guest, every fault, every number of runs and every     *)
(* depth of nested traps.                                                  *)
(***************************************************************************)
EXTENDS Trap, SequenceTheorems, FiniteSetTheorems, WellFoundedInduction, TLAPS

(* Where the program is: in vt_main and below, between a call of the       *)
(* assembly and its return, or where a breakpoint can be.                  *)
Asm  == {"vmentry", "vmfail", "guest", "vmexit"}
Back == {"returned", "exit_reason", "failed"}
Run  == {"vmx_on", "vmxon_fault", "ept_setup", "ept_update", "vmcs_setup", "call", "stopped"}
        \cup Back
Top  == {"has_vmx", "monitor"}
PCs  == Asm \cup Run \cup Top \cup {"panic", "_alltraps", "trap", "trap returned"}

VmcsFields == {"launched", "eptp", "host", "host_rsp", "host_rip", "rip", "len", "reason"}

Interrupted == [vector : Int, err : Int, reg : [Saved -> Int], stack : Seq(Int),
                pc : DOMAIN CCode, tfs : Seq(Int)]

TrapTypeOK ==
  /\ pc \in PCs
  /\ reg \in [Saved -> Int] /\ vr \in [Saved -> Int]
  /\ stack \in Seq(Int)
  /\ call \in {"launch", "resume"}
  /\ DOMAIN vmcs = VmcsFields /\ vmcs.launched \in BOOLEAN
  /\ caller.reg \in [Callee -> Int] /\ caller.stack \in Seq(Int)
  /\ guest = [reg |-> guest.reg, rip |-> guest.rip] /\ guest.reg \in [Saved -> Int]
  /\ tfs \in Seq(Int) /\ tfs # <<>>
  /\ raised \in Seq(Interrupted)

-----------------------------------------------------------------------------
(* Stack s begins with the words of b.                                     *)
Extends(s, b) == Len(b) <= Len(s) /\ \A j \in 1 .. Len(b) : s[j] = b[j]

(* What asm_regs has pushed on the caller's stack c for registers r.       *)
CallFrame(s, c, r) ==
  LET n == Len(c) IN
  /\ Extends(s, c) /\ Len(s) = n + 7
  /\ s[n + 1] = VR /\ s[n + 3] = r["ebp"] /\ s[n + 4] = r["ebx"]
  /\ s[n + 5] = r["esi"] /\ s[n + 6] = r["edi"] /\ s[n + 7] = VR

(* While the assembly is under way the caller's registers and stack are    *)
(* under its frame, and the VMCS names the way back.                       *)
InAssembly ==
  pc \in Asm =>
    /\ CallFrame(stack, caller.stack, caller.reg)
    /\ vmcs.host = caller.sys /\ vmcs.host_rsp = Len(stack) /\ vmcs.host_rip = call
    /\ pc # "guest" => sys = caller.sys

(* The VMCS stays the one of this run: a guest that has exited for CPUID   *)
(* has been launched, and the host state is still current.                 *)
VmcsCurrent ==
  /\ pc \in {"call", "vmentry"} => (vmcs.launched <=> call = "resume")
  /\ pc \in {"call", "returned", "exit_reason"} => vmcs.host = sys
  /\ pc = "guest" => vmcs.launched
  /\ pc \in {"vmexit", "returned", "exit_reason"} /\ vmcs.reason = "cpuid" => vmcs.launched

(* The registers f after CPUID has answered without VMX.                   *)
Answered(f) ==
  LET out == Cpuid(f["eax"]) IN
  [f EXCEPT !["eax"] = out.eax, !["ebx"] = out.ebx, !["edx"] = out.edx,
            !["ecx"] = IF f["eax"] = Leaf1 THEN 1 ELSE out.ecx]

(* Where the guest's registers are, on the way out and back in.            *)
GuestCarried ==
  LET next == (vmcs.rip + vmcs.len) % RipMod IN
  /\ pc = "call" => guest.reg = vr /\ guest.rip = vmcs.rip
  /\ pc \in {"vmentry", "guest"} => guest.reg = reg /\ guest.rip = vmcs.rip
  /\ pc = "vmexit" /\ vmcs.reason = "cpuid" => guest.reg = Answered(reg) /\ guest.rip = next
  /\ pc \in {"returned", "exit_reason"} /\ vmcs.reason = "cpuid" =>
       guest.reg = Answered(vr) /\ guest.rip = next

(* From the guest's last exit after a resume until the loop ends, nothing  *)
(* but get_cursor_loc touches the cursor; a failed entry ends in a panic.  *)
GuestRowKept ==
  /\ pc = "guest" => left = cursor
  /\ /\ pc \in {"vmexit", "returned", "exit_reason"}
     /\ call = "resume" /\ vmcs.reason # "entry_failure"
     => left = cursor
  /\ pc = "stopped" /\ call = "resume" => crt_pos = left

-----------------------------------------------------------------------------
(* The words on the stack when handler and processor have pushed theirs,   *)
(* and when trap has been called, for the interruption i.                  *)
Pushed(s, i) ==
  LET n == Len(i.stack) IN
  /\ Extends(s, i.stack)
  /\ s[n + 1] = EFLAGS /\ s[n + 2] = GD_KT /\ s[n + 3] = CCode[i.pc]
  /\ s[n + 4] = i.err /\ s[n + 5] = i.vector

TrapCall(s, i) ==
  LET n == Len(i.stack) IN
  /\ Len(s) = n + 17 /\ Pushed(s, i)
  /\ s[n + 6] = GD_KD /\ s[n + 7] = GD_KD
  /\ s[n + 8] = i.reg["eax"] /\ s[n + 9] = i.reg["ecx"] /\ s[n + 10] = i.reg["edx"]
  /\ s[n + 11] = i.reg["ebx"] /\ s[n + 13] = i.reg["ebp"] /\ s[n + 14] = i.reg["esi"]
  /\ s[n + 15] = i.reg["edi"] /\ s[n + 16] = n + 15

(* A monitor on stack s with the active monitors t and the first n of the  *)
(* traps r: if it is a breakpoint's, that is the last of these traps, and  *)
(* nothing has been left on the stack above its call of trap.              *)
MonitorOf(s, t, r, n) ==
  t[Len(t)] # 0 =>
    /\ n > 0 /\ r[n].vector = T_BRKPT
    /\ TrapCall(s, r[n])
    /\ t = Append(r[n].tfs, Len(r[n].stack) + 15)

Front(s) == SubSeq(s, 1, Len(s) - 1)

(* The stack of the monitor the program runs under.                        *)
MonitorStack ==
  /\ pc \in Top => MonitorOf(stack, tfs, raised, Len(raised))
  /\ pc \in Run => stack # <<>> /\ MonitorOf(Front(stack), tfs, raised, Len(raised))
  /\ pc \in Asm => caller.stack # <<>> /\ MonitorOf(Front(caller.stack), tfs, raised, Len(raised))

(* A breakpoint interrupts only what can go on: code under a monitor as    *)
(* above.                                                                  *)
BreakpointsNested ==
  \A k \in 1 .. Len(raised) : raised[k].vector = T_BRKPT =>
    /\ raised[k].pc \in Top /\ raised[k].tfs # <<>>
    /\ MonitorOf(raised[k].stack, raised[k].tfs, raised, k - 1)

(* The trap that is being taken, or returned from.                         *)
TrapInProgress ==
  LET i == raised[Len(raised)] IN
  /\ pc \in {"_alltraps", "trap", "trap returned"} => raised # <<>> /\ tfs = i.tfs
  /\ pc = "_alltraps" => Pushed(stack, i) /\ Len(stack) = Len(i.stack) + 5 /\ reg = i.reg
  /\ pc \in {"trap", "trap returned"} => TrapCall(stack, i)
  /\ pc = "trap returned" => i.vector = T_BRKPT

TrapIInv ==
  /\ TrapTypeOK /\ InAssembly /\ HostRestored /\ VmcsCurrent /\ GuestCarried
  /\ GuestRowKept /\ MonitorStack /\ BreakpointsNested /\ TrapInProgress

-----------------------------------------------------------------------------
(* Sequences.                                                              *)
LEMMA FrontOfAppend ==
  ASSUME NEW S, NEW s \in Seq(S), NEW e \in S
  PROVE  Front(Append(s, e)) = s /\ Append(s, e) \in Seq(S) /\ Append(s, e) # <<>>
         /\ Append(s, e)[Len(Append(s, e))] = e
<1>1. /\ Append(s, e) \in Seq(S) /\ Len(Append(s, e)) = Len(s) + 1
      /\ \A i \in 1 .. Len(s) : Append(s, e)[i] = s[i]
      /\ Append(s, e)[Len(s) + 1] = e
  BY AppendProperties
<1>2. Front(Append(s, e)) \in Seq(S) /\ Len(Front(Append(s, e))) = Len(s)
      /\ \A i \in 1 .. Len(s) : Front(Append(s, e))[i] = s[i]
  BY <1>1, SubSeqProperties DEF Front
<1> QED
  BY <1>1, <1>2, SeqEqual

(* What is under the words pushed on b is b again.                         *)
LEMMA Unwound ==
  ASSUME NEW S, NEW s \in Seq(S), NEW b \in Seq(S), Extends(s, b)
  PROVE  SubSeq(s, 1, Len(b)) = b
<1>1. SubSeq(s, 1, Len(b)) \in Seq(S) /\ Len(SubSeq(s, 1, Len(b))) = Len(b)
      /\ \A i \in 1 .. Len(b) : SubSeq(s, 1, Len(b))[i] = s[i]
  BY SubSeqProperties DEF Extends
<1> QED
  BY <1>1, SeqEqual DEF Extends

LEMMA InitInv == Init => TrapIInv
<1> SUFFICES ASSUME Init PROVE TrapIInv
  OBVIOUS
<1> USE DEF Init, MatrixInit
<1>1. TrapTypeOK
  BY DEF TrapTypeOK, PCs, Asm, Run, Back, Top, KernelReg, Saved, Callee, Number, VmcsFields
<1>2. InAssembly /\ HostRestored /\ VmcsCurrent /\ GuestCarried /\ GuestRowKept
  BY DEF InAssembly, HostRestored, VmcsCurrent, GuestCarried, GuestRowKept, Asm
<1>3. MonitorStack /\ BreakpointsNested /\ TrapInProgress
  BY DEF MonitorStack, BreakpointsNested, TrapInProgress, MonitorOf, Asm, Run, Back
<1> QED
  BY <1>1, <1>2, <1>3 DEF TrapIInv

-----------------------------------------------------------------------------
(* One lemma for each action of the matrix command.                        *)
LEMMA HasVmxInv ==
  ASSUME TrapIInv, has_vmx, UNCHANGED trapVars
  PROVE  TrapIInv'
<1> USE DEF TrapIInv, has_vmx, history, trapVars
<1>1. TrapTypeOK'
  BY DEF TrapTypeOK, PCs, Top
<1>2. (InAssembly /\ HostRestored /\ VmcsCurrent /\ GuestCarried /\ GuestRowKept)'
  BY DEF InAssembly, HostRestored, VmcsCurrent, GuestCarried, GuestRowKept, Asm
<1>3. (MonitorStack /\ BreakpointsNested /\ TrapInProgress)'
  BY DEF MonitorStack, BreakpointsNested, TrapInProgress, Asm, Run, Back, Top
<1> QED
  BY <1>1, <1>2, <1>3

LEMMA NotImplementedInv ==
  ASSUME TrapIInv, not_implemented \/ vt_entry_failed \/ vt_fatal, UNCHANGED trapVars
  PROVE  TrapIInv'
<1> USE DEF TrapIInv, not_implemented, vt_entry_failed, vt_fatal, hostVars, history, trapVars
<1>1. TrapTypeOK'
  BY DEF TrapTypeOK, PCs, Top
<1>2. (InAssembly /\ HostRestored /\ VmcsCurrent /\ GuestCarried /\ GuestRowKept)'
  BY DEF InAssembly, HostRestored, VmcsCurrent, GuestCarried, GuestRowKept, Asm
<1>3. (MonitorStack /\ BreakpointsNested /\ TrapInProgress)'
  BY DEF MonitorStack, BreakpointsNested, TrapInProgress, Asm, Run, Back, Top
<1> QED
  BY <1>1, <1>2, <1>3

LEMMA MonMatrixInv ==
  ASSUME TrapIInv, mon_matrix, UNCHANGED trapVars
  PROVE  TrapIInv'
<1> USE DEF TrapIInv, mon_matrix, trapVars
<1>0. stack \in Seq(Int) /\ Frame \in Int
  BY DEF TrapTypeOK, Frame
<1>1. Front(stack') = stack /\ stack' \in Seq(Int) /\ stack' # <<>>
  BY <1>0, FrontOfAppend
<1>2. TrapTypeOK'
  BY <1>1 DEF TrapTypeOK, PCs, Run
<1>3. (InAssembly /\ HostRestored /\ VmcsCurrent /\ GuestCarried /\ GuestRowKept)'
  BY DEF InAssembly, HostRestored, VmcsCurrent, GuestCarried, GuestRowKept, Asm
<1>4. (MonitorStack /\ BreakpointsNested /\ TrapInProgress)'
  BY <1>1 DEF MonitorStack, BreakpointsNested, TrapInProgress, Asm, Run, Back, Top
<1> QED
  BY <1>2, <1>3, <1>4

(* vmx_on and ept_setup stay inside vt_main or panic.                      *)
LEMMA SetupInv ==
  ASSUME TrapIInv, vmx_on \/ vt_ept, UNCHANGED trapVars
  PROVE  TrapIInv'
<1> USE DEF TrapIInv, hostVars, history, trapVars
<1>0. /\ pc \in {"vmx_on", "ept_setup", "ept_update"}
      /\ pc' \in {"panic", "ept_setup", "vmxon_fault", "ept_update", "vmcs_setup"}
      /\ UNCHANGED <<stack, reg, vr, vmcs, call, screenVars, history>>
  BY DEF vmx_on, vt_ept, EptStep, ept_setup, ept_descend, ept_new_table, ept_last_level,
         ept_not_implemented
<1>1. TrapTypeOK'
  BY <1>0 DEF TrapTypeOK, PCs, Run
<1>2. (InAssembly /\ HostRestored /\ VmcsCurrent /\ GuestCarried /\ GuestRowKept)'
  BY <1>0 DEF InAssembly, HostRestored, VmcsCurrent, GuestCarried, GuestRowKept, Asm
<1>3. (MonitorStack /\ BreakpointsNested /\ TrapInProgress)'
  BY <1>0 DEF MonitorStack, BreakpointsNested, TrapInProgress, Asm, Run, Back, Top
<1> QED
  BY <1>1, <1>2, <1>3

LEMMA VmcsSetupInv ==
  ASSUME TrapIInv, vmcs_setup, UNCHANGED trapVars
  PROVE  TrapIInv'
<1> USE DEF TrapIInv, hostVars, trapVars, vmcs_setup
<1>0. /\ DOMAIN vmcs' = VmcsFields
      /\ vmcs'.launched = FALSE /\ vmcs'.host = sys /\ vmcs'.rip = 0
  BY DEF TrapTypeOK, VmcsFields, set_vmcs_guest_state, set_vmcs_host_state, set_vmcs_ctl,
         vt_get_current_regs_host
<1>1. TrapTypeOK'
  BY <1>0 DEF TrapTypeOK, PCs, Run
<1>2. (InAssembly /\ HostRestored /\ VmcsCurrent /\ GuestCarried /\ GuestRowKept)'
  BY <1>0 DEF InAssembly, HostRestored, VmcsCurrent, GuestCarried, GuestRowKept, Asm
<1>3. (MonitorStack /\ BreakpointsNested /\ TrapInProgress)'
  BY DEF MonitorStack, BreakpointsNested, TrapInProgress, Asm, Run, Back, Top
<1> QED
  BY <1>1, <1>2, <1>3

(* The words asm_regs pushes, and the registers it loads.                  *)
LEMMA FramePushed ==
  ASSUME NEW c \in Seq(Int), NEW r \in [Saved -> Int],
         NEW p, p = c \o <<VR, Return, r["ebp"], r["ebx"], r["esi"], r["edi"]>>
  PROVE  At(p, 5) = VR /\ Append(p, VR) \in Seq(Int) /\ CallFrame(Append(p, VR), c, r)
<1>1. r["ebp"] \in Int /\ r["ebx"] \in Int /\ r["esi"] \in Int /\ r["edi"] \in Int
  BY DEF Saved, Callee
<1> QED
  BY <1>1, SMTT(30) DEF At, Extends, CallFrame, VR, Return

LEMMA AsmRegsEffect ==
  ASSUME TrapTypeOK, asm_regs
  PROVE  /\ stack' \in Seq(Int) /\ CallFrame(stack', caller'.stack, caller'.reg)
         /\ reg' = vr
<1> DEFINE pushed == stack \o <<VR, Return, reg["ebp"], reg["ebx"], reg["esi"], reg["edi"]>>
<1>1. stack \in Seq(Int) /\ reg \in [Saved -> Int]
  BY DEF TrapTypeOK
<1>2. caller'.stack = stack /\ caller'.reg = [r \in Callee |-> reg[r]]
  BY DEF asm_regs
<1>3. stack' = Append(pushed, At(pushed, 5)) /\ reg' = Load(At(pushed, 5))
  BY DEF asm_regs
<1>4. /\ At(pushed, 5) = VR /\ Append(pushed, VR) \in Seq(Int)
      /\ CallFrame(Append(pushed, VR), stack, reg)
  BY <1>1, FramePushed, Zenon
<1> HIDE DEF pushed
<1> QED
  BY <1>2, <1>3, <1>4 DEF Load, CallFrame, Callee

LEMMA AsmRegsInv ==
  ASSUME TrapIInv, asm_regs, UNCHANGED trapVars
  PROVE  TrapIInv'
<1> USE DEF TrapIInv, trapVars
<1>1. stack' \in Seq(Int) /\ CallFrame(stack', caller'.stack, caller'.reg) /\ reg' = vr
  BY AsmRegsEffect
<1>2. /\ DOMAIN vmcs' = VmcsFields
      /\ vmcs'.host = vmcs.host /\ vmcs'.host_rsp = Len(stack') /\ vmcs'.host_rip = call
      /\ vmcs'.launched = vmcs.launched /\ vmcs'.rip = vmcs.rip
  BY DEF asm_regs, TrapTypeOK, VmcsFields
<1>3. pc = "call" /\ pc' = "vmentry" /\ UNCHANGED <<sys, vr, call, guest, crt_pos, cursor>>
      /\ caller' = [reg |-> [r \in Callee |-> reg[r]], stack |-> stack, sys |-> sys]
  BY DEF asm_regs, screenVars
<1>4. TrapTypeOK'
  <2>1. caller'.reg \in [Callee -> Int] /\ caller'.stack \in Seq(Int)
    BY <1>3 DEF TrapTypeOK, Saved
  <2> QED
    BY <1>1, <1>2, <1>3, <2>1 DEF TrapTypeOK, PCs, Asm
<1>5. InAssembly'
  BY <1>1, <1>2, <1>3 DEF InAssembly, VmcsCurrent, Asm
<1>6. (HostRestored /\ VmcsCurrent /\ GuestCarried /\ GuestRowKept)'
  BY <1>1, <1>2, <1>3 DEF HostRestored, VmcsCurrent, GuestCarried, GuestRowKept
<1>7. (MonitorStack /\ BreakpointsNested /\ TrapInProgress)'
  BY <1>3 DEF MonitorStack, BreakpointsNested, TrapInProgress, Asm, Run, Back, Top
<1> QED
  BY <1>4, <1>5, <1>6, <1>7

(* The pops from label 2 on find what asm_regs has pushed.                 *)
LEMMA FramePopped ==
  ASSUME NEW s \in Seq(Int), NEW c \in Seq(Int), NEW r, CallFrame(s, c, r),
         NEW t, t = SubSeq(s, 1, Len(s) - 1)
  PROVE  /\ At(t, 0) = r["edi"] /\ At(t, 1) = r["esi"]
         /\ At(t, 2) = r["ebx"] /\ At(t, 3) = r["ebp"]
         /\ SubSeq(t, 1, Len(t) - 6) = c
<1>1. Len(c) \in Nat /\ Len(s) = Len(c) + 7
  BY DEF CallFrame
<1>2. t \in Seq(Int) /\ Len(t) = Len(c) + 6 /\ \A i \in 1 .. Len(c) + 6 : t[i] = s[i]
  BY <1>1, SubSeqProperties
<1>3. /\ t[Len(c) + 6] = r["edi"] /\ t[Len(c) + 5] = r["esi"]
      /\ t[Len(c) + 4] = r["ebx"] /\ t[Len(c) + 3] = r["ebp"]
  BY <1>1, <1>2 DEF CallFrame
<1>4. Extends(t, c)
  BY <1>1, <1>2 DEF Extends, CallFrame
<1>5. SubSeq(t, 1, Len(c)) = c
  BY <1>2, <1>4, Unwound
<1> QED
  BY <1>1, <1>2, <1>3, <1>5 DEF At

(* Both ways out of the assembly take its frame off.                       *)
LEMMA AsmReturnEffect ==
  ASSUME TrapTypeOK, CallFrame(stack, caller.stack, caller.reg),
         NEW eax \in Int, NEW ecx \in Int, NEW edx \in Int,
         asm_return(SubSeq(stack, 1, Len(stack) - 1), eax, ecx, edx)
  PROVE  /\ stack' = caller.stack /\ reg' \in [Saved -> Int]
         /\ \A r \in Callee : reg'[r] = caller.reg[r]
<1> DEFINE s == SubSeq(stack, 1, Len(stack) - 1)
<1>1. stack \in Seq(Int) /\ caller.stack \in Seq(Int) /\ \A r \in Callee : caller.reg[r] \in Int
  BY DEF TrapTypeOK
<1>2. /\ At(s, 0) = caller.reg["edi"] /\ At(s, 1) = caller.reg["esi"]
      /\ At(s, 2) = caller.reg["ebx"] /\ At(s, 3) = caller.reg["ebp"]
      /\ SubSeq(s, 1, Len(s) - 6) = caller.stack
  BY <1>1, FramePopped
<1>3. /\ reg' = [reg EXCEPT !["edi"] = At(s, 0), !["esi"] = At(s, 1), !["ebx"] = At(s, 2),
                            !["ebp"] = At(s, 3), !["eax"] = eax, !["ecx"] = ecx, !["edx"] = edx]
      /\ stack' = SubSeq(s, 1, Len(s) - 6)
  BY DEF asm_return
<1> HIDE DEF s
<1> QED
  BY <1>1, <1>2, <1>3 DEF TrapTypeOK, Saved, Callee

LEMMA AsmFailedInv ==
  ASSUME TrapIInv, asm_failed, UNCHANGED trapVars
  PROVE  TrapIInv'
<1> USE DEF TrapIInv, trapVars
<1>1. /\ pc = "vmfail" /\ pc' = "failed" /\ CallFrame(stack, caller.stack, caller.reg)
      /\ UNCHANGED <<sys, vmcs, call, caller, guest, crt_pos, cursor, vr>>
  BY DEF asm_failed, asm_return, InAssembly, Asm, screenVars, history
<1>2. /\ stack' = caller.stack /\ reg' \in [Saved -> Int]
      /\ \A r \in Callee : reg'[r] = caller.reg[r]
  BY <1>1, AsmReturnEffect DEF asm_failed, DEADBEEF
<1>3. TrapTypeOK'
  BY <1>1, <1>2 DEF TrapTypeOK, PCs, Run, Back
<1>4. HostRestored'
  BY <1>1, <1>2 DEF HostRestored, InAssembly, Asm
<1>5. (InAssembly /\ VmcsCurrent /\ GuestCarried /\ GuestRowKept)'
  BY <1>1 DEF InAssembly, VmcsCurrent, GuestCarried, GuestRowKept, Asm
<1>6. (MonitorStack /\ BreakpointsNested /\ TrapInProgress)'
  BY <1>1, <1>2 DEF MonitorStack, BreakpointsNested, TrapInProgress, Asm, Run, Back, Top
<1> QED
  BY <1>3, <1>4, <1>5, <1>6

LEMMA AsmVmexitInv ==
  ASSUME TrapIInv, asm_vmexit, UNCHANGED trapVars
  PROVE  TrapIInv'
<1> USE DEF TrapIInv, trapVars
<1>1. /\ pc = "vmexit" /\ pc' = "returned" /\ CallFrame(stack, caller.stack, caller.reg)
      /\ UNCHANGED <<sys, vmcs, call, caller, guest, crt_pos, cursor, left>>
  BY DEF asm_vmexit, asm_return, InAssembly, Asm, screenVars, history
<1>2. vr' = reg
  BY <1>1 DEF asm_vmexit, CallFrame, At, TrapTypeOK
<1>3. /\ stack' = caller.stack /\ reg' \in [Saved -> Int]
      /\ \A r \in Callee : reg'[r] = caller.reg[r]
  <2>1. reg["ecx"] \in Int /\ reg["edx"] \in Int
    BY DEF TrapTypeOK, Saved
  <2> QED
    BY <1>1, <2>1, AsmReturnEffect DEF asm_vmexit
<1>4. TrapTypeOK'
  BY <1>1, <1>2, <1>3 DEF TrapTypeOK, PCs, Run, Back
<1>5. HostRestored'
  BY <1>1, <1>3 DEF HostRestored, InAssembly, Asm
<1>6. (InAssembly /\ VmcsCurrent /\ GuestCarried /\ GuestRowKept)'
  BY <1>1, <1>2 DEF InAssembly, VmcsCurrent, GuestCarried, GuestRowKept, Asm
<1>7. (MonitorStack /\ BreakpointsNested /\ TrapInProgress)'
  BY <1>1, <1>3 DEF MonitorStack, BreakpointsNested, TrapInProgress, Asm, Run, Back, Top
<1> QED
  BY <1>4, <1>5, <1>6, <1>7

LEMMA VtReturnedInv ==
  ASSUME TrapIInv, vt_returned \/ vt_stop, UNCHANGED trapVars
  PROVE  TrapIInv'
<1> USE DEF TrapIInv, vt_returned, vt_stop, hostVars, history, trapVars
<1>1. TrapTypeOK'
  BY DEF TrapTypeOK, PCs, Run, Back
<1>2. (InAssembly /\ HostRestored /\ VmcsCurrent /\ GuestCarried /\ GuestRowKept)'
  BY DEF InAssembly, HostRestored, VmcsCurrent, GuestCarried, GuestRowKept, Asm
<1>3. (MonitorStack /\ BreakpointsNested /\ TrapInProgress)'
  BY DEF MonitorStack, BreakpointsNested, TrapInProgress, Asm, Run, Back, Top
<1> QED
  BY <1>1, <1>2, <1>3

(* do_cpuid's bit arithmetic hides VMX.                                    *)
Cleared(ecx) == ecx - VmxBit * ((ecx \div VmxBit) % 2)

LEMMA VmxHidden ==
  ASSUME NEW leaf
  PROVE  hide_vmx(leaf, Cpuid(leaf))
           = [Cpuid(leaf) EXCEPT !.ecx = IF leaf = Leaf1 THEN 1 ELSE @]
<1>1. Cleared(VmxBit + 1) = 1
  <2>1. VmxBit \in Nat /\ VmxBit >= 2
    BY VmxAssumption
  <2>2. (VmxBit + 1) \div VmxBit = 1
    BY <2>1, SMTT(30)
  <2>3. 1 % 2 = 1
    OBVIOUS
  <2> QED
    BY <2>1, <2>2, <2>3 DEF Cleared
<1>2. hide_vmx(leaf, Cpuid(leaf))
        = IF leaf = Leaf1 THEN [Cpuid(leaf) EXCEPT !.ecx = Cleared(@)] ELSE Cpuid(leaf)
  BY DEF hide_vmx, Cleared
<1>3. CASE leaf = Leaf1
  <2>1. Cpuid(leaf).ecx = VmxBit + 1
    BY <1>3 DEF Cpuid
  <2> QED
    BY <1>1, <1>2, <1>3, <2>1
<1>4. CASE leaf # Leaf1
  BY <1>2, <1>4 DEF Cpuid
<1> QED
  BY <1>3, <1>4

LEMMA DoCpuidInv ==
  ASSUME TrapIInv, do_cpuid, UNCHANGED trapVars
  PROVE  TrapIInv'
<1> USE DEF TrapIInv, trapVars
<1>1. /\ pc = "exit_reason" /\ pc' = "call" /\ call' = "resume" /\ vmcs.reason = "cpuid"
      /\ UNCHANGED <<sys, stack, reg, caller, guest, crt_pos, cursor>>
  BY DEF do_cpuid, hostVars, screenVars, history
<1>2. vr' = Answered(vr) /\ vr' \in [Saved -> Int]
  <2>1. vr' = vt_write_general_reg(hide_vmx(vr["eax"], Cpuid(vr["eax"])))
    BY DEF do_cpuid
  <2>2. vr \in [Saved -> Int] /\ VmxBit \in Int
    BY VmxAssumption DEF TrapTypeOK
  <2>3. vr' = Answered(vr)
    <3> DEFINE c   == Cpuid(vr["eax"])
               out == hide_vmx(vr["eax"], c)
    <3>1. out = [c EXCEPT !.ecx = IF vr["eax"] = Leaf1 THEN 1 ELSE @]
      BY VmxHidden
    <3>2. DOMAIN c = {"eax", "ebx", "ecx", "edx"}
      BY DEF Cpuid
    <3> HIDE DEF out
    <3>3. /\ out.eax = c.eax /\ out.ebx = c.ebx /\ out.edx = c.edx
          /\ out.ecx = IF vr["eax"] = Leaf1 THEN 1 ELSE c.ecx
      <4> HIDE DEF c
      <4> QED BY <3>1, <3>2
    <3>4. vr' = [vr EXCEPT !["eax"] = out.eax, !["ebx"] = out.ebx, !["ecx"] = out.ecx,
                           !["edx"] = out.edx]
      BY <2>1 DEF vt_write_general_reg, out
    <3>5. Answered(vr) = [vr EXCEPT !["eax"] = c.eax, !["ebx"] = c.ebx, !["edx"] = c.edx,
                                    !["ecx"] = IF vr["eax"] = Leaf1 THEN 1 ELSE c.ecx]
      BY DEF Answered
    <3> HIDE DEF c
    <3> QED
      BY <2>2, <3>3, <3>4, <3>5 DEF Saved, Callee
  <2>4. Answered(vr) \in [Saved -> Int]
    BY <2>2 DEF Answered, Cpuid, Saved, Callee
  <2> QED
    BY <2>3, <2>4
<1>3. /\ DOMAIN vmcs' = VmcsFields
      /\ vmcs'.rip = (vmcs.rip + vmcs.len) % RipMod
      /\ vmcs'.launched = vmcs.launched /\ vmcs'.host = vmcs.host
  BY DEF do_cpuid, add_ip, TrapTypeOK, VmcsFields
<1>4. TrapTypeOK'
  BY <1>1, <1>2, <1>3 DEF TrapTypeOK, PCs, Run
<1>5. (InAssembly /\ HostRestored /\ VmcsCurrent /\ GuestRowKept)'
  BY <1>1, <1>3 DEF InAssembly, HostRestored, VmcsCurrent, GuestRowKept, Asm
<1>6. GuestCarried'
  BY <1>1, <1>2, <1>3 DEF GuestCarried
<1>7. (MonitorStack /\ BreakpointsNested /\ TrapInProgress)'
  BY <1>1 DEF MonitorStack, BreakpointsNested, TrapInProgress, Asm, Run, Back, Top
<1> QED
  BY <1>4, <1>5, <1>6, <1>7

LEMMA VtMainEndInv ==
  ASSUME TrapIInv, vt_main_end, UNCHANGED trapVars
  PROVE  TrapIInv'
<1> USE DEF TrapIInv, vt_main_end, history, trapVars
<1>1. stack' = Front(stack) /\ stack' \in Seq(Int)
  <2>1. stack \in Seq(Int) /\ stack # <<>>
    BY DEF TrapTypeOK, MonitorStack, Run
  <2> QED
    BY <2>1, SubSeqProperties DEF Front
<1>2. TrapTypeOK'
  BY <1>1 DEF TrapTypeOK, PCs, Top
<1>3. (InAssembly /\ HostRestored /\ VmcsCurrent /\ GuestCarried /\ GuestRowKept)'
  BY DEF InAssembly, HostRestored, VmcsCurrent, GuestCarried, GuestRowKept, Asm
<1>4. (MonitorStack /\ BreakpointsNested /\ TrapInProgress)'
  BY <1>1 DEF MonitorStack, BreakpointsNested, TrapInProgress, Asm, Run, Back, Top
<1> QED
  BY <1>2, <1>3, <1>4

-----------------------------------------------------------------------------
(* The processor.                                                          *)
LEMMA ExitToHostEffect ==
  ASSUME TrapTypeOK, InAssembly, pc \in Asm, exit_to_host
  PROVE  /\ stack' = stack /\ sys' = caller.sys /\ call' = call /\ pc' = "vmexit"
         /\ UNCHANGED <<reg, vr, caller, crt_pos, cursor, left>>
<1>1. SubSeq(stack, 1, Len(stack)) = stack
  BY SubSeqFull DEF TrapTypeOK
<1> QED
  BY <1>1 DEF exit_to_host, InAssembly, screenVars

LEMMA VmEntryInv ==
  ASSUME TrapIInv, vm_entry, UNCHANGED trapVars
  PROVE  TrapIInv'
<1> USE DEF TrapIInv, trapVars
<1>1. pc = "vmentry" /\ pc \in Asm
  BY DEF vm_entry, Asm
<1>2. CASE /\ pc' = "vmfail"
           /\ UNCHANGED <<eptVars, nfree, hostVars, reg, vr, vmcs, call, screenVars, history>>
  <2> USE <1>1, <1>2 DEF hostVars, screenVars, history
  <2>1. TrapTypeOK'
    BY DEF TrapTypeOK, PCs, Asm
  <2>2. (InAssembly /\ HostRestored /\ VmcsCurrent /\ GuestCarried /\ GuestRowKept)'
    BY DEF InAssembly, HostRestored, VmcsCurrent, GuestCarried, GuestRowKept, Asm
  <2>3. (MonitorStack /\ BreakpointsNested /\ TrapInProgress)'
    BY DEF MonitorStack, BreakpointsNested, TrapInProgress, Asm, Run, Back, Top
  <2> QED
    BY <2>1, <2>2, <2>3
<1>3. CASE /\ vmcs.launched = (call = "resume")
           /\ vmcs' = [vmcs EXCEPT !.reason = "entry_failure"]
           /\ exit_to_host /\ UNCHANGED guest
  <2>1. /\ stack' = stack /\ sys' = caller.sys /\ call' = call /\ pc' = "vmexit"
        /\ UNCHANGED <<reg, vr, caller, crt_pos, cursor, guest, left>>
    BY <1>1, <1>3, ExitToHostEffect
  <2>2. /\ DOMAIN vmcs' = VmcsFields /\ vmcs'.reason = "entry_failure"
        /\ vmcs'.launched = vmcs.launched
        /\ vmcs'.host = vmcs.host /\ vmcs'.host_rsp = vmcs.host_rsp
        /\ vmcs'.host_rip = vmcs.host_rip
    BY <1>3 DEF TrapTypeOK, VmcsFields
  <2>3. TrapTypeOK'
    BY <2>1, <2>2 DEF TrapTypeOK, PCs, Asm
  <2>4. (InAssembly /\ HostRestored /\ VmcsCurrent /\ GuestCarried /\ GuestRowKept)'
    BY <1>1, <2>1, <2>2
       DEF InAssembly, HostRestored, VmcsCurrent, GuestCarried, GuestRowKept, Asm
  <2>5. (MonitorStack /\ BreakpointsNested /\ TrapInProgress)'
    BY <1>1, <2>1 DEF MonitorStack, BreakpointsNested, TrapInProgress, Asm, Run, Back, Top
  <2> QED
    BY <2>3, <2>4, <2>5
<1>4. CASE /\ vmcs.launched = (call = "resume")
           /\ vmcs' = [vmcs EXCEPT !.launched = TRUE, !.reason = "none", !.len = 0]
           /\ sys' = GuestSys /\ pc' = "guest" /\ left' = cursor
           /\ UNCHANGED <<eptVars, nfree, msr, stack, reg, vr, call, screenVars, runs, caller,
                          guest>>
  <2> USE <1>1, <1>4 DEF screenVars, history
  <2>1. /\ DOMAIN vmcs' = VmcsFields /\ vmcs'.launched = TRUE /\ vmcs'.rip = vmcs.rip
        /\ vmcs'.host = vmcs.host /\ vmcs'.host_rsp = vmcs.host_rsp
        /\ vmcs'.host_rip = vmcs.host_rip
    BY DEF TrapTypeOK, VmcsFields
  <2>2. TrapTypeOK'
    BY <2>1 DEF TrapTypeOK, PCs, Asm
  <2>3. (InAssembly /\ HostRestored /\ VmcsCurrent /\ GuestCarried /\ GuestRowKept)'
    BY <2>1 DEF InAssembly, HostRestored, VmcsCurrent, GuestCarried, GuestRowKept, Asm
  <2>4. (MonitorStack /\ BreakpointsNested /\ TrapInProgress)'
    BY DEF MonitorStack, BreakpointsNested, TrapInProgress, Asm, Run, Back, Top
  <2> QED
    BY <2>2, <2>3, <2>4
<1> QED
  BY <1>2, <1>3, <1>4 DEF vm_entry

LEMMA GuestRunInv ==
  ASSUME TrapIInv, guest_run, UNCHANGED trapVars
  PROVE  TrapIInv'
<1> USE DEF TrapIInv, trapVars
<1>1. /\ pc = "guest" /\ pc' = "guest"
      /\ UNCHANGED <<sys, stack, vr, call, caller>>
  BY DEF guest_run, hostVars
<1>2. /\ reg' \in [Saved -> Int] /\ guest' = [reg |-> guest'.reg, rip |-> guest'.rip]
      /\ guest'.reg = reg' /\ guest'.rip = vmcs'.rip
      /\ DOMAIN vmcs' = VmcsFields /\ vmcs'.launched = vmcs.launched
      /\ vmcs'.host = vmcs.host /\ vmcs'.host_rsp = vmcs.host_rsp
      /\ vmcs'.host_rip = vmcs.host_rip /\ left' = cursor'
  <2>0. /\ left = cursor /\ guest.reg = reg /\ guest.rip = vmcs.rip /\ reg \in [Saved -> Int]
        /\ guest = [reg |-> guest.reg, rip |-> guest.rip] /\ DOMAIN vmcs = VmcsFields
    BY <1>1 DEF GuestCarried, GuestRowKept, TrapTypeOK
  <2>1. CASE \E leaf \in Leaf, n \in Files :
               /\ reg' = GuestReg(leaf, n) /\ guest' = [guest EXCEPT !.reg = reg']
               /\ UNCHANGED <<vmcs, cursor, left>>
    <3>1. PICK leaf \in Leaf, n \in Files :
               /\ reg' = GuestReg(leaf, n) /\ guest' = [guest EXCEPT !.reg = reg']
               /\ UNCHANGED <<vmcs, cursor, left>>
      BY <2>1
    <3>2. leaf \in Int /\ n \in Int
      BY VmxAssumption
    <3>3. GuestReg(leaf, n) \in [Saved -> Int]
      BY <3>2 DEF GuestReg, Saved, Callee, Number
    <3> QED
      BY <2>0, <3>1, <3>3
  <2>2. CASE \E ip \in 0 .. RipMod - 1 :
               /\ vmcs' = [vmcs EXCEPT !.rip = ip] /\ guest' = [guest EXCEPT !.rip = ip]
               /\ UNCHANGED <<reg, cursor, left>>
    BY <2>0, <2>2 DEF VmcsFields
  <2>3. CASE cursor' \in 0 .. Rows - 1 /\ left' = cursor' /\ UNCHANGED <<reg, vmcs, guest>>
    BY <2>0, <2>3
  <2> QED
    BY <2>1, <2>2, <2>3 DEF guest_run
<1>3. TrapTypeOK'
  BY <1>1, <1>2 DEF TrapTypeOK
<1>4. (InAssembly /\ HostRestored /\ VmcsCurrent /\ GuestCarried /\ GuestRowKept)'
  BY <1>1, <1>2 DEF InAssembly, HostRestored, VmcsCurrent, GuestCarried, GuestRowKept, Asm
<1>5. (MonitorStack /\ BreakpointsNested /\ TrapInProgress)'
  BY <1>1 DEF MonitorStack, BreakpointsNested, TrapInProgress, Asm, Run, Back, Top
<1> QED
  BY <1>3, <1>4, <1>5

LEMMA VmExitInv ==
  ASSUME TrapIInv, vm_exit, UNCHANGED trapVars
  PROVE  TrapIInv'
<1> USE DEF TrapIInv, trapVars
<1>1. /\ pc = "guest" /\ pc \in Asm
      /\ stack' = stack /\ sys' = caller.sys /\ call' = call /\ pc' = "vmexit"
      /\ UNCHANGED <<reg, vr, caller, crt_pos, cursor, left>>
  BY ExitToHostEffect DEF vm_exit, Asm
<1>2. /\ guest' = [reg |-> guest'.reg, rip |-> guest'.rip] /\ guest'.reg \in [Saved -> Int]
      /\ DOMAIN vmcs' = VmcsFields /\ vmcs'.launched = vmcs.launched
      /\ vmcs'.host = vmcs.host /\ vmcs'.host_rsp = vmcs.host_rsp
      /\ vmcs'.host_rip = vmcs.host_rip
      /\ vmcs'.reason = "cpuid" => /\ guest'.reg = Answered(reg)
                                   /\ guest'.rip = (vmcs'.rip + vmcs'.len) % RipMod
  <2>0. /\ guest.reg = reg /\ guest.rip = vmcs.rip /\ reg \in [Saved -> Int]
        /\ guest = [reg |-> guest.reg, rip |-> guest.rip] /\ DOMAIN vmcs = VmcsFields
    BY <1>1 DEF GuestCarried, TrapTypeOK
  <2>1. Answered(reg) \in [Saved -> Int]
    <3>1. VmxBit \in Int
      BY VmxAssumption
    <3> QED
      BY <2>0, <3>1 DEF Answered, Cpuid, Saved, Callee
  <2>2. ASSUME NEW n \in Lengths, vmcs' = [vmcs EXCEPT !.reason = "cpuid", !.len = n],
               guest' = [reg |-> Answered(guest.reg), rip |-> (guest.rip + n) % RipMod]
        PROVE  <1>2!:
    BY <2>0, <2>1, <2>2 DEF VmcsFields
  <2>3. ASSUME NEW why \in {"ept", "other", "init"},
               vmcs' = [vmcs EXCEPT !.reason = why] /\ UNCHANGED guest
        PROVE  <1>2!:
    BY <2>0, <2>3 DEF VmcsFields
  <2> QED
    BY <2>2, <2>3 DEF vm_exit, Answered
<1>3. TrapTypeOK'
  BY <1>1, <1>2 DEF TrapTypeOK, PCs, Asm
<1>4. (InAssembly /\ HostRestored /\ VmcsCurrent /\ GuestRowKept)'
  BY <1>1, <1>2 DEF InAssembly, HostRestored, VmcsCurrent, GuestRowKept, Asm
<1>5. GuestCarried'
  BY <1>1, <1>2 DEF GuestCarried
<1>6. (MonitorStack /\ BreakpointsNested /\ TrapInProgress)'
  BY <1>1 DEF MonitorStack, BreakpointsNested, TrapInProgress, Asm, Run, Back, Top
<1> QED
  BY <1>3, <1>4, <1>5, <1>6

LEMMA MatrixStepInv ==
  ASSUME TrapIInv, MatrixStep, UNCHANGED trapVars
  PROVE  TrapIInv'
  BY HasVmxInv, NotImplementedInv, MonMatrixInv, SetupInv, VmcsSetupInv, AsmRegsInv, AsmFailedInv,
     AsmVmexitInv, VtReturnedInv, DoCpuidInv, VtMainEndInv, VmEntryInv, GuestRunInv, VmExitInv
  DEF MatrixStep, KernelStep

-----------------------------------------------------------------------------
(* Exceptions: t is s with five words pushed on it.                        *)
FiveWords(t, s, a, b, c, d, e) ==
  /\ t \in Seq(Int) /\ Len(t) = Len(s) + 5 /\ Extends(t, s)
  /\ t[Len(s) + 1] = a /\ t[Len(s) + 2] = b /\ t[Len(s) + 3] = c
  /\ t[Len(s) + 4] = d /\ t[Len(s) + 5] = e

LEMMA FivePushed ==
  ASSUME NEW s \in Seq(Int), NEW a \in Int, NEW b \in Int, NEW c \in Int, NEW d \in Int,
         NEW e \in Int
  PROVE  /\ FiveWords(s \o <<a, b, c>> \o <<d>> \o <<e>>, s, a, b, c, d, e)
         /\ FiveWords(s \o <<a, b, c>> \o <<>> \o <<d, e>>, s, a, b, c, d, e)
<1>1. FiveWords(s \o <<a, b, c>> \o <<d>> \o <<e>>, s, a, b, c, d, e)
  BY DEF FiveWords, Extends
<1>2. FiveWords(s \o <<a, b, c>> \o <<>> \o <<d, e>>, s, a, b, c, d, e)
  BY DEF FiveWords, Extends
<1> QED
  BY <1>1, <1>2

(* With or without an error code from the processor, two words are above   *)
(* the address: the delivered vectors are not the reserved 15, for which   *)
(* the handler expects an error code, nor 17, for which it does not.       *)
LEMMA TwoWords ==
  ASSUME NEW s \in Seq(Int), NEW a \in Int, NEW n \in Int, n \notin {15, 17}, NEW e \in Int,
         NEW err, err = IF n \in ErrorCode THEN <<e>> ELSE <<>>,
         NEW t, t = s \o <<EFLAGS, GD_KT, a>> \o err \o handler(n),
         NEW c, c = IF n \in ErrorCode THEN e ELSE 0
  PROVE  FiveWords(t, s, EFLAGS, GD_KT, a, c, n)
<1>0. EFLAGS \in Int /\ GD_KT \in Int /\ 0 \in Int
  BY DEF EFLAGS, GD_KT
<1>1. CASE n \in ErrorCode
  <2>1. handler(n) = <<n>> /\ err = <<e>> /\ c = e
    BY <1>1 DEF ErrorCode, TRAPHANDLER, handler
  <2> QED
    BY <1>0, <2>1, FivePushed, Zenon
<1>2. CASE n \notin ErrorCode
  <2>1. handler(n) = <<0, n>> /\ err = <<>> /\ c = 0
    BY <1>2 DEF ErrorCode, TRAPHANDLER, handler
  <2> QED
    BY <1>0, <2>1, FivePushed, Zenon
<1> QED
  BY <1>1, <1>2

LEMMA DeliveredVector ==
  ASSUME NEW v \in Nat \ {15, 17}, NEW e \in Nat
  PROVE  /\ Delivered(v, e)[1] \in Nat \ {15, 17} /\ Delivered(v, e)[2] \in Nat
         /\ v # T_BRKPT => Delivered(v, e)[1] # T_BRKPT
         /\ v = T_BRKPT => Delivered(v, e)[1] = T_BRKPT
  BY DEF Delivered, idt, T_BRKPT, T_DBLFLT, T_GPFLT

LEMMA RaiseEffect ==
  ASSUME TrapTypeOK, pc \in DOMAIN CCode,
         NEW v \in Nat \ {15, 17}, NEW e \in Nat, raise(v, e)
  PROVE  \E i \in Interrupted :
           /\ raised' = Append(raised, i)
           /\ i.vector = Delivered(v, e)[1] /\ i.reg = reg /\ i.stack = stack
           /\ i.pc = pc /\ i.tfs = tfs
           /\ stack' \in Seq(Int) /\ Len(stack') = Len(stack) + 5 /\ Pushed(stack', i)
<1> DEFINE d == Delivered(v, e)
           n == d[1]
           err == IF n \in ErrorCode THEN <<d[2]>> ELSE <<>>
           i == [vector |-> n, err |-> IF n \in ErrorCode THEN d[2] ELSE 0,
                 reg |-> reg, stack |-> stack, pc |-> pc, tfs |-> tfs]
<1>1. n \in Int /\ n \notin {15, 17} /\ d[2] \in Int
  BY DeliveredVector
<1>2. stack \in Seq(Int) /\ CCode[pc] \in Int
  BY DEF TrapTypeOK, CCode
<1>3. /\ stack' = stack \o <<EFLAGS, GD_KT, CCode[pc]>> \o err \o handler(n)
      /\ raised' = Append(raised, i)
  BY DEF raise
<1>4. i \in Interrupted
  BY <1>1, <1>2 DEF Interrupted, TrapTypeOK
<1>5. FiveWords(stack', stack, EFLAGS, GD_KT, CCode[pc], i.err, i.vector)
  <2>1. i.err = (IF n \in ErrorCode THEN d[2] ELSE 0) /\ i.vector = n
    OBVIOUS
  <2> HIDE DEF n, d, i
  <2> QED
    BY <1>1, <1>2, <1>3, <2>1, TwoWords, Zenon
<1>6. Pushed(stack', i)
  BY <1>5 DEF Pushed, FiveWords
<1> QED
  BY <1>3, <1>4, <1>5, <1>6 DEF FiveWords

(* Under one more trap the earlier ones are as they were.                  *)
LEMMA MonitorKept ==
  ASSUME NEW s, NEW t, NEW r, NEW q, NEW n, MonitorOf(s, t, r, n), n > 0 => q[n] = r[n]
  PROVE  MonitorOf(s, t, q, n)
  BY DEF MonitorOf

OneMore(t, s, x) ==
  /\ t \in Seq(Interrupted) /\ Len(t) = Len(s) + 1 /\ t # <<>>
  /\ \A k \in 1 .. Len(s) : t[k] = s[k]
  /\ t[Len(s) + 1] = x

LEMMA AppendOne ==
  ASSUME NEW s \in Seq(Interrupted), NEW x \in Interrupted
  PROVE  OneMore(Append(s, x), s, x)
  BY AppendProperties DEF OneMore

LEMMA RaiseInv ==
  ASSUME TrapIInv, pc \in DOMAIN CCode,
         NEW v \in Nat \ {15, 17}, NEW e \in Nat, raise(v, e),
         v = T_BRKPT => pc \in Top
  PROVE  TrapIInv'
<1> USE DEF TrapIInv
<1>1. PICK i \in Interrupted :
        /\ raised' = Append(raised, i)
        /\ i.vector = Delivered(v, e)[1] /\ i.reg = reg /\ i.stack = stack
        /\ i.pc = pc /\ i.tfs = tfs
        /\ stack' \in Seq(Int) /\ Len(stack') = Len(stack) + 5 /\ Pushed(stack', i)
  BY RaiseEffect
<1>2. /\ pc' = "_alltraps"
      /\ UNCHANGED <<reg, vr, vmcs, call, sys, caller, guest, crt_pos, cursor, tfs>>
  BY DEF raise, screenVars, history
<1>3. raised \in Seq(Interrupted) /\ Len(raised) \in Nat
  BY DEF TrapTypeOK
<1>4. /\ raised' \in Seq(Interrupted) /\ Len(raised') = Len(raised) + 1 /\ raised' # <<>>
      /\ \A k \in 1 .. Len(raised) : raised'[k] = raised[k]
      /\ raised'[Len(raised) + 1] = i
  <2>1. OneMore(raised', raised, i)
    BY <1>1, <1>3, AppendOne, Zenon
  <2> QED
    BY <1>1, <1>3, <2>1, Zenon DEF OneMore
<1>5. TrapTypeOK'
  BY <1>1, <1>2, <1>4 DEF TrapTypeOK, PCs
<1>6. (InAssembly /\ HostRestored /\ VmcsCurrent /\ GuestCarried /\ GuestRowKept)'
  BY <1>2 DEF InAssembly, HostRestored, VmcsCurrent, GuestCarried, GuestRowKept, Asm
<1>7. MonitorStack'
  BY <1>2 DEF MonitorStack, Asm, Run, Back, Top
<1>8. BreakpointsNested'
  <2> SUFFICES ASSUME NEW k \in 1 .. Len(raised'), raised'[k].vector = T_BRKPT
               PROVE  /\ raised'[k].pc \in Top /\ raised'[k].tfs # <<>>
                      /\ MonitorOf(raised'[k].stack, raised'[k].tfs, raised', k - 1)
    BY DEF BreakpointsNested
  <2>1. k - 1 > 0 => raised'[k - 1] = raised[k - 1]
    BY <1>3, <1>4
  <2>2. CASE k \in 1 .. Len(raised)
    <3>1. /\ raised[k].pc \in Top /\ raised[k].tfs # <<>>
          /\ MonitorOf(raised[k].stack, raised[k].tfs, raised, k - 1)
      BY <1>4, <2>2 DEF BreakpointsNested
    <3> QED
      BY <1>4, <2>1, <2>2, <3>1, MonitorKept
  <2>3. CASE k = Len(raised) + 1
    <3>1. raised'[k] = i /\ pc \in Top
      BY <1>1, <1>4, <2>3, DeliveredVector
    <3>2. tfs # <<>> /\ MonitorOf(stack, tfs, raised, k - 1)
      BY <1>3, <2>3, <3>1 DEF MonitorStack, TrapTypeOK
    <3> QED
      BY <1>1, <2>1, <3>1, <3>2, MonitorKept
  <2> QED
    BY <1>3, <1>4, <2>2, <2>3
<1>9. TrapInProgress'
  BY <1>1, <1>2, <1>3, <1>4 DEF TrapInProgress
<1> QED
  BY <1>5, <1>6, <1>7, <1>8, <1>9

LEMMA ExceptionInv ==
  ASSUME TrapIInv, breakpoint \/ fault \/ vmxon_fault
  PROVE  TrapIInv'
<1>1. CASE breakpoint
  <2>1. pc \in Top /\ pc \in DOMAIN CCode /\ raise(T_BRKPT, 0)
    BY <1>1 DEF breakpoint, Top, CCode
  <2>2. T_BRKPT \in Nat \ {15, 17} /\ 0 \in Nat
    BY DEF T_BRKPT
  <2> QED
    BY <2>1, <2>2, RaiseInv
<1>2. CASE fault
  <2>1. PICK f \in Faults : pc \in DOMAIN CCode /\ raise(f[1], f[2])
    BY <1>2 DEF fault
  <2>2. f[1] \in Nat \ {15, 17} /\ f[1] # T_BRKPT /\ f[2] \in Nat
    BY FaultAssumption
  <2> QED
    BY <2>1, <2>2, RaiseInv
<1>3. CASE vmxon_fault
  <2>1. pc \in DOMAIN CCode /\ raise(T_GPFLT, 0)
    BY <1>3 DEF vmxon_fault, CCode
  <2>2. T_GPFLT \in Nat \ {15, 17} /\ T_GPFLT # T_BRKPT /\ 0 \in Nat
    BY DEF T_GPFLT, T_BRKPT
  <2> QED
    BY <2>1, <2>2, RaiseInv
<1> QED
  BY <1>1, <1>2, <1>3

(* pushal, the segments and the argument complete the frame.               *)
TwoMore(t, s, m, a, b) ==
  /\ t \in Seq(Int) /\ Len(t) = m + 2 /\ \A j \in 1 .. m : t[j] = s[j]
  /\ t[m + 1] = a /\ t[m + 2] = b

LEMMA PushTwo ==
  ASSUME NEW s \in Seq(Int), NEW m \in Nat, Len(s) = m, NEW a \in Int, NEW b \in Int
  PROVE  TwoMore(s \o <<a, b>>, s, m, a, b)
  BY DEF TwoMore

EightWords(t, s, m, a, b, c, d, e, f, g, h) ==
  /\ t \in Seq(Int) /\ Len(t) = m + 8 /\ \A j \in 1 .. m : t[j] = s[j]
  /\ t[m + 1] = a /\ t[m + 2] = b /\ t[m + 3] = c /\ t[m + 4] = d
  /\ t[m + 5] = e /\ t[m + 6] = f /\ t[m + 7] = g /\ t[m + 8] = h

LEMMA Joined ==
  ASSUME NEW s \in Seq(Int), NEW w \in Seq(Int)
  PROVE  /\ s \o w \in Seq(Int) /\ Len(s \o w) = Len(s) + Len(w)
         /\ \A j \in 1 .. Len(s) : (s \o w)[j] = s[j]
         /\ \A j \in 1 .. Len(w) : (s \o w)[Len(s) + j] = w[j]
  BY ConcatProperties

LEMMA PushEight ==
  ASSUME NEW s \in Seq(Int), NEW m \in Nat, Len(s) = m, NEW a \in Int, NEW b \in Int,
         NEW c \in Int, NEW d \in Int, NEW e \in Int, NEW f \in Int, NEW g \in Int, NEW h \in Int
  PROVE  EightWords(s \o <<a, b, c, d, e, f, g, h>>, s, m, a, b, c, d, e, f, g, h)
<1> DEFINE w == <<a, b, c, d, e, f, g, h>>
           t == s \o w
<1>1. /\ w \in Seq(Int) /\ Len(w) = 8 /\ w[1] = a /\ w[2] = b /\ w[3] = c /\ w[4] = d
      /\ w[5] = e /\ w[6] = f /\ w[7] = g /\ w[8] = h
  OBVIOUS
<1> HIDE DEF w
<1>2. /\ t \in Seq(Int) /\ Len(t) = Len(s) + Len(w) /\ \A j \in 1 .. Len(s) : t[j] = s[j]
      /\ \A j \in 1 .. Len(w) : t[Len(s) + j] = w[j]
  BY <1>1, Joined, Zenon
<1> HIDE DEF t
<1>3. /\ t \in Seq(Int) /\ Len(t) = m + 8 /\ \A j \in 1 .. m : t[j] = s[j]
      /\ \A j \in 1 .. 8 : t[m + j] = w[j]
  BY <1>1, <1>2, Zenon
<1>4. /\ t[m + 1] = w[1] /\ t[m + 2] = w[2] /\ t[m + 3] = w[3] /\ t[m + 4] = w[4]
      /\ t[m + 5] = w[5] /\ t[m + 6] = w[6] /\ t[m + 7] = w[7] /\ t[m + 8] = w[8]
  BY <1>3
<1> QED
  BY <1>1, <1>3, <1>4, Zenon DEF EightWords, t, w

FrameAt(t, s, n, r) ==
  /\ Len(t) = n + 17 /\ \A j \in 1 .. n + 5 : t[j] = s[j]
  /\ t[n + 1] = s[n + 1] /\ t[n + 2] = s[n + 2] /\ t[n + 3] = s[n + 3]
  /\ t[n + 4] = s[n + 4] /\ t[n + 5] = s[n + 5]
  /\ t[n + 6] = GD_KD /\ t[n + 7] = GD_KD
  /\ t[n + 8] = r["eax"] /\ t[n + 9] = r["ecx"] /\ t[n + 10] = r["edx"]
  /\ t[n + 11] = r["ebx"] /\ t[n + 13] = r["ebp"] /\ t[n + 14] = r["esi"]
  /\ t[n + 15] = r["edi"] /\ t[n + 16] = n + 15

LEMMA SegmentWords ==
  ASSUME NEW s, NEW n \in Nat, NEW t, TwoMore(t, s, n + 5, GD_KD, GD_KD)
  PROVE  (\A j \in 1 .. n + 5 : t[j] = s[j]) /\ t[n + 6] = GD_KD /\ t[n + 7] = GD_KD
  BY DEF TwoMore

LEMMA FrameWords ==
  ASSUME NEW s, NEW n \in Nat, NEW r, NEW esp, NEW ret,
         NEW segs, TwoMore(segs, s, n + 5, GD_KD, GD_KD),
         NEW tf, EightWords(tf, segs, n + 7, r["eax"], r["ecx"], r["edx"], r["ebx"], esp,
                            r["ebp"], r["esi"], r["edi"]),
         NEW t, TwoMore(t, tf, n + 15, n + 15, ret)
  PROVE  FrameAt(t, s, n, r)
<1>1. /\ \A j \in 1 .. n + 5 : segs[j] = s[j]
      /\ segs[n + 6] = GD_KD /\ segs[n + 7] = GD_KD
  BY SegmentWords, Zenon
<1>2. /\ \A j \in 1 .. n + 7 : tf[j] = segs[j]
      /\ tf[n + 8] = r["eax"] /\ tf[n + 9] = r["ecx"] /\ tf[n + 10] = r["edx"]
      /\ tf[n + 11] = r["ebx"] /\ tf[n + 13] = r["ebp"] /\ tf[n + 14] = r["esi"]
      /\ tf[n + 15] = r["edi"]
  BY DEF EightWords
<1>3. \A j \in 1 .. n + 15 : t[j] = tf[j]
  BY DEF TwoMore
<1>8. t[n + 16] = n + 15
  BY DEF TwoMore
<1>9. Len(t) = n + 17
  BY DEF TwoMore
<1>4. \A j \in 1 .. n + 5 : t[j] = s[j]
  BY <1>1, <1>2, <1>3
<1>5. /\ t[n + 1] = s[n + 1] /\ t[n + 2] = s[n + 2] /\ t[n + 3] = s[n + 3]
      /\ t[n + 4] = s[n + 4] /\ t[n + 5] = s[n + 5]
  BY <1>4
<1>6. t[n + 6] = GD_KD /\ t[n + 7] = GD_KD
  BY <1>1, <1>2, <1>3
<1>7. /\ t[n + 8] = r["eax"] /\ t[n + 9] = r["ecx"] /\ t[n + 10] = r["edx"]
      /\ t[n + 11] = r["ebx"] /\ t[n + 13] = r["ebp"] /\ t[n + 14] = r["esi"]
      /\ t[n + 15] = r["edi"]
  BY <1>2, <1>3
<1> QED
  BY <1>4, <1>5, <1>6, <1>7, <1>8, <1>9, Zenon DEF FrameAt

(* What was interrupted is still under it.                                 *)
LEMMA StackKept ==
  ASSUME NEW i, NEW s, Pushed(s, i), Len(i.stack) \in Nat, NEW t,
         Len(t) = Len(i.stack) + 17, \A j \in 1 .. Len(i.stack) + 5 : t[j] = s[j]
  PROVE  Extends(t, i.stack)
<1> DEFINE n == Len(i.stack)
           b == i.stack
<1>1. \A j \in 1 .. n : s[j] = b[j]
  BY DEF Pushed, Extends
<1> HIDE DEF n
<1>2. n \in Nat /\ \A j \in 1 .. n + 5 : t[j] = s[j]
  BY DEF n
<1>3. \A j \in 1 .. n : t[j] = b[j]
  BY <1>1, <1>2
<1> QED
  BY <1>3 DEF Extends, n

LEMMA AlltrapsEffect ==
  ASSUME TrapIInv, _alltraps
  PROVE  stack' \in Seq(Int) /\ TrapCall(stack', raised[Len(raised)])
<1> DEFINE i    == raised[Len(raised)]
           n    == Len(i.stack)
           segs == stack \o <<GD_KD, GD_KD>>
           tf   == segs \o <<reg["eax"], reg["ecx"], reg["edx"], reg["ebx"], Len(segs),
                              reg["ebp"], reg["esi"], reg["edi"]>>
<1>1. stack' = tf \o <<Len(tf), Return>>
  BY DEF _alltraps
<1>2. i \in Interrupted /\ stack \in Seq(Int) /\ Pushed(stack, i) /\ reg = i.reg
      /\ Len(stack) = n + 5
  BY DEF TrapIInv, TrapTypeOK, TrapInProgress, _alltraps
<1>3. /\ reg["eax"] \in Int /\ reg["ecx"] \in Int /\ reg["edx"] \in Int /\ reg["ebx"] \in Int
      /\ reg["ebp"] \in Int /\ reg["esi"] \in Int /\ reg["edi"] \in Int
  BY DEF TrapIInv, TrapTypeOK, Saved, Callee
<1> HIDE DEF i
<1>4. n \in Nat /\ n + 5 \in Nat /\ n + 7 \in Nat /\ n + 15 \in Nat /\ n + 7 \in Int /\ n + 15 \in Int
  BY <1>2 DEF Interrupted
<1>5. GD_KD \in Int /\ Return \in Int
  BY DEF GD_KD, Return
<1> HIDE DEF n
<1>6. TwoMore(segs, stack, n + 5, GD_KD, GD_KD)
  BY <1>2, <1>4, <1>5, PushTwo, Zenon
<1> HIDE DEF segs
<1>7. segs \in Seq(Int) /\ Len(segs) = n + 7
  BY <1>4, <1>6 DEF TwoMore
<1>8. EightWords(tf, segs, n + 7, reg["eax"], reg["ecx"], reg["edx"], reg["ebx"], Len(segs),
                 reg["ebp"], reg["esi"], reg["edi"])
  <2>1. Len(segs) \in Int
    BY <1>4, <1>7
  <2> QED
    BY <1>3, <1>4, <1>7, <2>1, PushEight, Zenon
<1> HIDE DEF tf
<1>9. tf \in Seq(Int) /\ Len(tf) = n + 15
  BY <1>4, <1>8 DEF EightWords
<1>10. TwoMore(stack', tf, n + 15, n + 15, Return)
  <2>1. TwoMore(tf \o <<n + 15, Return>>, tf, n + 15, n + 15, Return)
    BY <1>4, <1>5, <1>9, PushTwo, Zenon
  <2> QED
    BY <1>1, <1>9, <2>1, Zenon
<1>11. TrapCall(stack', i)
  <2>1. FrameAt(stack', stack, n, reg)
    BY <1>4, <1>6, <1>8, <1>10, FrameWords
  <2>2. Extends(stack', i.stack)
    BY <1>2, <1>4, <2>1, StackKept, Zenon DEF n, FrameAt
  <2> QED
    BY <1>2, <2>1, <2>2, Zenon DEF TrapCall, Pushed, n, FrameAt
<1> QED
  BY <1>10, <1>11 DEF i, TwoMore

LEMMA AlltrapsInv ==
  ASSUME TrapIInv, _alltraps
  PROVE  TrapIInv'
<1> USE DEF TrapIInv
<1>1. stack' \in Seq(Int) /\ TrapCall(stack', raised[Len(raised)])
  BY AlltrapsEffect
<1>2. /\ pc = "_alltraps" /\ pc' = "trap"
      /\ UNCHANGED <<vr, vmcs, call, sys, caller, guest, crt_pos, cursor, tfs, raised>>
  BY DEF _alltraps, screenVars, history, trapVars
<1>3. TrapTypeOK'
  <2>1. reg' \in [Saved -> Int]
    <3>1. reg' = [reg EXCEPT !["eax"] = GD_KD] /\ reg \in [Saved -> Int]
      BY DEF _alltraps, TrapTypeOK
    <3> QED
      BY <3>1 DEF GD_KD, Saved, Callee
  <2> QED
    BY <1>1, <1>2, <2>1 DEF TrapTypeOK, PCs
<1>4. (InAssembly /\ HostRestored /\ VmcsCurrent /\ GuestCarried /\ GuestRowKept)'
  BY <1>2 DEF InAssembly, HostRestored, VmcsCurrent, GuestCarried, GuestRowKept, Asm
<1>5. (MonitorStack /\ BreakpointsNested /\ TrapInProgress)'
  BY <1>1, <1>2 DEF MonitorStack, BreakpointsNested, TrapInProgress, Asm, Run, Back, Top
<1> QED
  BY <1>3, <1>4, <1>5

(* struct Trapframe over the words that are there.                         *)
LEMMA FrameRead ==
  ASSUME NEW i \in Interrupted, TrapCall(stack, i)
  PROVE  LET n == Len(i.stack)
             f == Trapframe(n + 15)
         IN  /\ n \in Nat /\ Word(Len(stack), 1) = n + 15 /\ stack[n + 3] = CCode[i.pc]
             /\ f.trapno = i.vector /\ f.err = i.err
             /\ f.eip = CCode[i.pc] /\ f.cs = GD_KT /\ f.eflags = EFLAGS
             /\ f.es = GD_KD /\ f.ds = GD_KD
             /\ f.eax = i.reg["eax"] /\ f.ecx = i.reg["ecx"] /\ f.edx = i.reg["edx"]
             /\ f.ebx = i.reg["ebx"] /\ f.ebp = i.reg["ebp"] /\ f.esi = i.reg["esi"]
             /\ f.edi = i.reg["edi"]
<1> DEFINE n == Len(i.stack)
<1>1. n \in Nat
  BY DEF Interrupted
<1>2. /\ Len(stack) = n + 17
      /\ stack[n + 1] = EFLAGS /\ stack[n + 2] = GD_KT /\ stack[n + 3] = CCode[i.pc]
      /\ stack[n + 4] = i.err /\ stack[n + 5] = i.vector
      /\ stack[n + 6] = GD_KD /\ stack[n + 7] = GD_KD
      /\ stack[n + 8] = i.reg["eax"] /\ stack[n + 9] = i.reg["ecx"]
      /\ stack[n + 10] = i.reg["edx"] /\ stack[n + 11] = i.reg["ebx"]
      /\ stack[n + 13] = i.reg["ebp"] /\ stack[n + 14] = i.reg["esi"]
      /\ stack[n + 15] = i.reg["edi"] /\ stack[n + 16] = n + 15
  BY Zenon DEF TrapCall, Pushed
<1> HIDE DEF n
<1>3. /\ Word(n + 17, 1) = stack[n + 16]
      /\ Word(n + 15, 0) = stack[n + 15] /\ Word(n + 15, 1) = stack[n + 14]
      /\ Word(n + 15, 2) = stack[n + 13] /\ Word(n + 15, 4) = stack[n + 11]
      /\ Word(n + 15, 5) = stack[n + 10] /\ Word(n + 15, 6) = stack[n + 9]
      /\ Word(n + 15, 7) = stack[n + 8] /\ Word(n + 15, 8) = stack[n + 7]
      /\ Word(n + 15, 9) = stack[n + 6] /\ Word(n + 15, 10) = stack[n + 5]
      /\ Word(n + 15, 11) = stack[n + 4] /\ Word(n + 15, 12) = stack[n + 3]
      /\ Word(n + 15, 13) = stack[n + 2] /\ Word(n + 15, 14) = stack[n + 1]
  BY <1>1 DEF Word
<1> QED
  BY <1>1, <1>2, <1>3 DEF Trapframe, n

(* The last trap.                                                          *)
LEMMA LastTrap ==
  ASSUME raised \in Seq(Interrupted), raised # <<>>
  PROVE  Len(raised) \in 1 .. Len(raised) /\ raised[Len(raised)] \in Interrupted
  OBVIOUS

LEMMA TrapInv ==
  ASSUME TrapIInv, trap
  PROVE  TrapIInv'
<1> USE DEF TrapIInv
<1> DEFINE i == raised[Len(raised)]
           n == Len(i.stack)
<1>1. /\ pc = "trap"
      /\ UNCHANGED <<stack, reg, vr, vmcs, call, sys, caller, guest, raised>>
  BY DEF trap, hostVars, history
<1>2. raised # <<>> /\ i \in Interrupted /\ TrapCall(stack, i) /\ tfs = i.tfs
      /\ tfs \in Seq(Int) /\ Len(raised) > 0
  BY <1>1 DEF TrapInProgress, TrapTypeOK
<1>3. n \in Nat /\ Word(Len(stack), 1) = n + 15 /\ Trapframe(n + 15).trapno = i.vector
  BY <1>2, FrameRead
<1>4. CASE i.vector = T_BRKPT
  <2>1. tfs' = Append(tfs, n + 15) /\ pc' = "monitor" /\ UNCHANGED <<crt_pos, cursor>>
    BY <1>3, <1>4 DEF trap
  <2>2. tfs' \in Seq(Int) /\ tfs' # <<>> /\ tfs'[Len(tfs')] = n + 15
    <3>1. n + 15 \in Int
      BY <1>3
    <3> QED
      BY <1>2, <2>1, <3>1, FrontOfAppend
  <2>3. TrapTypeOK'
    BY <1>1, <2>1, <2>2 DEF TrapTypeOK, PCs, Top
  <2>4. (InAssembly /\ HostRestored /\ VmcsCurrent /\ GuestCarried /\ GuestRowKept)'
    BY <2>1 DEF InAssembly, HostRestored, VmcsCurrent, GuestCarried, GuestRowKept, Asm
  <2>5. MonitorStack'
    <3>1. MonitorOf(stack, tfs', raised, Len(raised))
      BY <1>2, <1>4, <2>1 DEF MonitorOf
    <3> QED
      BY <1>1, <2>1, <3>1 DEF MonitorStack, Asm, Run, Back, Top
  <2>6. (BreakpointsNested /\ TrapInProgress)'
    BY <1>1, <2>1 DEF BreakpointsNested, TrapInProgress
  <2> QED
    BY <2>3, <2>4, <2>5, <2>6
<1>5. CASE i.vector # T_BRKPT
  <2>1. pc' = "panic" /\ UNCHANGED tfs
    BY <1>3, <1>5 DEF trap
  <2>2. TrapTypeOK'
    BY <1>1, <2>1 DEF TrapTypeOK, PCs
  <2>3. (InAssembly /\ HostRestored /\ VmcsCurrent /\ GuestCarried /\ GuestRowKept)'
    BY <2>1 DEF InAssembly, HostRestored, VmcsCurrent, GuestCarried, GuestRowKept, Asm
  <2>4. (MonitorStack /\ BreakpointsNested /\ TrapInProgress)'
    BY <1>1, <2>1 DEF MonitorStack, BreakpointsNested, TrapInProgress, Asm, Run, Back, Top
  <2> QED
    BY <2>2, <2>3, <2>4
<1> QED
  BY <1>4, <1>5

(* A panic's monitor has no trap frame, and is never left.                 *)
LEMMA PanicInv ==
  ASSUME TrapIInv, panic_monitor
  PROVE  TrapIInv'
<1> USE DEF TrapIInv
<1>1. /\ pc = "panic" /\ pc' = "monitor" /\ tfs' = Append(tfs, 0)
      /\ UNCHANGED <<stack, reg, vr, vmcs, call, sys, caller, guest, raised>>
  BY DEF panic_monitor, panic, hostVars, history
<1>2. tfs' \in Seq(Int) /\ tfs' # <<>> /\ tfs'[Len(tfs')] = 0
  <2>1. tfs \in Seq(Int) /\ 0 \in Int
    BY DEF TrapTypeOK
  <2> QED
    BY <1>1, <2>1, FrontOfAppend
<1>3. TrapTypeOK'
  BY <1>1, <1>2 DEF TrapTypeOK, PCs, Top
<1>4. (InAssembly /\ HostRestored /\ VmcsCurrent /\ GuestCarried /\ GuestRowKept)'
  BY <1>1 DEF InAssembly, HostRestored, VmcsCurrent, GuestCarried, GuestRowKept, Asm
<1>5. MonitorStack'
  <2>1. MonitorOf(stack', tfs', raised', Len(raised'))
    BY <1>2 DEF MonitorOf
  <2> QED
    BY <1>1, <2>1 DEF MonitorStack, Asm, Run, Back, Top
<1>6. (BreakpointsNested /\ TrapInProgress)'
  BY <1>1 DEF BreakpointsNested, TrapInProgress
<1> QED
  BY <1>3, <1>4, <1>5, <1>6

LEMMA MonExitInv ==
  ASSUME TrapIInv, mon_exit
  PROVE  TrapIInv'
<1> USE DEF TrapIInv
<1> DEFINE m == Len(raised)
           i == raised[m]
<1>1. /\ pc = "monitor" /\ pc' = "trap returned" /\ tfs' = Front(tfs) /\ tfs[Len(tfs)] # 0
      /\ UNCHANGED <<stack, vr, vmcs, call, sys, caller, guest, crt_pos, cursor, raised>>
  BY DEF mon_exit, hostVars, screenVars, history, Front
<1>2. reg' \in [Saved -> Int]
  <2>1. /\ reg' = [reg EXCEPT !["eax"] = DEADBEEF, !["ecx"] = DEADBEEF, !["edx"] = DEADBEEF]
        /\ reg \in [Saved -> Int]
    BY DEF mon_exit, TrapTypeOK
  <2> QED
    BY <2>1 DEF DEADBEEF, Saved, Callee
<1>3. /\ m > 0 /\ i.vector = T_BRKPT /\ TrapCall(stack, i)
      /\ tfs = Append(i.tfs, Len(i.stack) + 15)
  BY <1>1 DEF MonitorStack, MonitorOf, Top
<1>4. i \in Interrupted /\ m \in 1 .. Len(raised) /\ raised # <<>>
  BY <1>3 DEF TrapTypeOK
<1>5. tfs' = i.tfs /\ tfs' \in Seq(Int)
  <2>1. i.tfs \in Seq(Int) /\ Len(i.stack) + 15 \in Int
    BY <1>4 DEF Interrupted
  <2>2. Front(Append(i.tfs, Len(i.stack) + 15)) = i.tfs
    BY <2>1, FrontOfAppend
  <2> QED
    BY <1>1, <1>3, <2>1, <2>2
<1>6. tfs' # <<>>
  BY <1>3, <1>4, <1>5 DEF BreakpointsNested
<1>7. TrapTypeOK'
  BY <1>1, <1>2, <1>5, <1>6 DEF TrapTypeOK, PCs
<1>8. (InAssembly /\ HostRestored /\ VmcsCurrent /\ GuestCarried /\ GuestRowKept)'
  BY <1>1 DEF InAssembly, HostRestored, VmcsCurrent, GuestCarried, GuestRowKept, Asm
<1>9. (MonitorStack /\ BreakpointsNested)'
  BY <1>1 DEF MonitorStack, BreakpointsNested, Asm, Run, Back, Top
<1>10. TrapInProgress'
  BY <1>1, <1>3, <1>4, <1>5 DEF TrapInProgress
<1> QED
  BY <1>7, <1>8, <1>9, <1>10

(* Every address of interruptible code is a different one.                 *)
LEMMA CodeFound == \A p \in DOMAIN CCode : CodeAt(CCode[p]) = p
<1> SUFFICES ASSUME NEW p \in DOMAIN CCode PROVE CodeAt(CCode[p]) = p
  OBVIOUS
<1>1. \A q \in DOMAIN CCode : CCode[q] = CCode[p] => q = p
  BY DEF CCode
<1> HIDE DEF CCode
<1> QED
  BY <1>1 DEF CodeAt

(* Returning from the trap: the frame is popped and the code goes on.      *)
LEMMA ReturnEffect ==
  ASSUME TrapIInv, _alltraps_return
  PROVE  LET i == raised[Len(raised)] IN
         /\ stack' = i.stack /\ pc' = i.pc /\ tfs' = i.tfs
         /\ reg' \in [Saved -> Int] /\ \A r \in Saved \ {"cr2"} : reg'[r] = i.reg[r]
<1> USE DEF TrapIInv
<1> DEFINE i == raised[Len(raised)]
           n == Len(i.stack)
           f == Trapframe(n + 15)
<1>1. pc = "trap returned"
  BY DEF _alltraps_return
<1>2. raised # <<>> /\ i \in Interrupted /\ TrapCall(stack, i) /\ tfs = i.tfs
  <2>1. raised # <<>> /\ TrapCall(stack, i) /\ tfs = i.tfs
    BY <1>1 DEF TrapInProgress
  <2>2. raised \in Seq(Interrupted)
    BY DEF TrapTypeOK
  <2> QED
    BY <2>1, <2>2, LastTrap
<1>3. n \in Nat /\ Word(Len(stack), 1) = n + 15 /\ stack[n + 3] = CCode[i.pc]
      /\ f.eax = i.reg["eax"] /\ f.ecx = i.reg["ecx"] /\ f.edx = i.reg["edx"]
      /\ f.ebx = i.reg["ebx"] /\ f.ebp = i.reg["ebp"] /\ f.esi = i.reg["esi"]
      /\ f.edi = i.reg["edi"]
  BY <1>2, FrameRead
<1>5. /\ reg' = [reg EXCEPT !["edi"] = f.edi, !["esi"] = f.esi, !["ebp"] = f.ebp,
                            !["ebx"] = f.ebx, !["edx"] = f.edx, !["ecx"] = f.ecx,
                            !["eax"] = f.eax]
      /\ pc' = CodeAt(stack[n + 3]) /\ stack' = SubSeq(stack, 1, n) /\ tfs' = tfs
  <2> DEFINE tf  == Word(Len(stack), 1)
             esp == skip_words(tf - 10)
  <2>1. reg' = [reg EXCEPT !["edi"] = Trapframe(tf).edi, !["esi"] = Trapframe(tf).esi,
                           !["ebp"] = Trapframe(tf).ebp, !["ebx"] = Trapframe(tf).ebx,
                           !["edx"] = Trapframe(tf).edx, !["ecx"] = Trapframe(tf).ecx,
                           !["eax"] = Trapframe(tf).eax]
    BY Zenon DEF _alltraps_return
  <2>2. pc' = CodeAt(stack[esp]) /\ stack' = SubSeq(stack, 1, esp - 3)
    BY Zenon DEF _alltraps_return
  <2>3. tfs' = tfs
    BY DEF _alltraps_return
  <2>4. tf = n + 15
    BY <1>3
  <2> HIDE DEF tf, n
  <2>5. reg' = [reg EXCEPT !["edi"] = f.edi, !["esi"] = f.esi, !["ebp"] = f.ebp,
                           !["ebx"] = f.ebx, !["edx"] = f.edx, !["ecx"] = f.ecx,
                           !["eax"] = f.eax]
    BY <2>1, <2>4, Zenon
  <2>6. esp = n + 3 /\ esp - 3 = n
    BY <1>3, <2>4 DEF skip_words
  <2> HIDE DEF esp
  <2>7. pc' = CodeAt(stack[n + 3])
    BY <2>2, <2>6
  <2>8. stack' = SubSeq(stack, 1, n)
    BY <2>2, <2>6
  <2> QED
    BY <2>3, <2>5, <2>7, <2>8, Zenon
<1>6. stack' = i.stack
  <2>1. stack \in Seq(Int) /\ i.stack \in Seq(Int) /\ Extends(stack, i.stack)
    BY <1>2 DEF TrapTypeOK, Interrupted, TrapCall, Pushed
  <2> QED
    BY <1>5, <2>1, Unwound
<1>7. pc' = i.pc
  <2>1. i.pc \in DOMAIN CCode
    BY <1>2 DEF Interrupted
  <2> QED
    BY <1>3, <1>5, <2>1, CodeFound
<1>8. i.reg \in [Saved -> Int] /\ reg \in [Saved -> Int]
  BY <1>2 DEF Interrupted, TrapTypeOK
<1> HIDE DEF f, i, n
<1>9. reg' \in [Saved -> Int] /\ \A r \in Saved \ {"cr2"} : reg'[r] = i.reg[r]
  BY <1>3, <1>5, <1>8 DEF Saved, Callee
<1> QED
  BY <1>2, <1>5, <1>6, <1>7, <1>9 DEF i

LEMMA ReturnInv ==
  ASSUME TrapIInv, _alltraps_return
  PROVE  TrapIInv'
<1> USE DEF TrapIInv
<1> DEFINE m == Len(raised)
           i == raised[m]
<1>1. /\ pc = "trap returned" /\ raised' = SubSeq(raised, 1, m - 1)
      /\ UNCHANGED <<vr, vmcs, call, sys, caller, guest, crt_pos, cursor, tfs>>
  BY DEF _alltraps_return, screenVars, history
<1>2. stack' = i.stack /\ pc' = i.pc /\ tfs = i.tfs /\ reg' \in [Saved -> Int]
  BY <1>1, ReturnEffect
<1>3. raised \in Seq(Interrupted) /\ m \in 1 .. Len(raised) /\ i \in Interrupted
      /\ i.vector = T_BRKPT
  <2>1. raised # <<>> /\ i.vector = T_BRKPT
    BY <1>1 DEF TrapInProgress
  <2>2. raised \in Seq(Interrupted)
    BY DEF TrapTypeOK
  <2> QED
    BY <2>1, <2>2, LastTrap
<1>4. i.stack \in Seq(Int)
  BY <1>3 DEF Interrupted
<1>5. i.pc \in Top /\ MonitorOf(i.stack, i.tfs, raised, m - 1)
  BY <1>3 DEF BreakpointsNested
<1>6. /\ raised' \in Seq(Interrupted) /\ Len(raised') = m - 1
      /\ \A k \in 1 .. m - 1 : raised'[k] = raised[k]
  <2>1. m \in Nat /\ m > 0 /\ \A k \in 1 .. m - 1 : raised[k] \in Interrupted
    BY <1>3
  <2>2. /\ SubSeq(raised, 1, m - 1) \in Seq(Interrupted)
        /\ Len(SubSeq(raised, 1, m - 1)) = m - 1
        /\ \A k \in 1 .. m - 1 : SubSeq(raised, 1, m - 1)[k] = raised[k]
    <3> HIDE DEF m
    <3> QED BY <2>1, SubSeqProperties
  <2> QED
    BY <1>1, <2>2
<1>7. \A k \in 0 .. m - 1 : k > 0 => raised'[k] = raised[k]
  BY <1>3, <1>6
<1>8. TrapTypeOK'
  BY <1>1, <1>2, <1>4, <1>5, <1>6 DEF TrapTypeOK, PCs
<1>9. (InAssembly /\ HostRestored /\ VmcsCurrent /\ GuestCarried /\ GuestRowKept)'
  BY <1>1, <1>2, <1>5
     DEF InAssembly, HostRestored, VmcsCurrent, GuestCarried, GuestRowKept, Asm, Top
<1>10. MonitorStack'
  <2>1. MonitorOf(stack', tfs', raised', Len(raised'))
    <3>1. m - 1 \in 0 .. m - 1
      BY <1>3
    <3>2. MonitorOf(i.stack, i.tfs, raised', m - 1)
      BY <1>5, <1>7, <3>1, MonitorKept
    <3> QED
      BY <1>1, <1>2, <1>6, <3>2
  <2> QED
    BY <1>2, <1>5, <2>1 DEF MonitorStack, Asm, Run, Back, Top
<1>11. BreakpointsNested'
  <2> SUFFICES ASSUME NEW k \in 1 .. Len(raised'), raised'[k].vector = T_BRKPT
               PROVE  /\ raised'[k].pc \in Top /\ raised'[k].tfs # <<>>
                      /\ MonitorOf(raised'[k].stack, raised'[k].tfs, raised', k - 1)
    BY DEF BreakpointsNested
  <2>1. k \in 1 .. Len(raised) /\ raised'[k] = raised[k] /\ k - 1 \in 0 .. m - 1
    BY <1>3, <1>6
  <2>2. /\ raised[k].pc \in Top /\ raised[k].tfs # <<>>
        /\ MonitorOf(raised[k].stack, raised[k].tfs, raised, k - 1)
    BY <2>1 DEF BreakpointsNested
  <2> QED
    BY <1>7, <2>1, <2>2, MonitorKept
<1>12. TrapInProgress'
  BY <1>2, <1>5 DEF TrapInProgress, Top
<1> QED
  BY <1>8, <1>9, <1>10, <1>11, <1>12

-----------------------------------------------------------------------------
LEMMA NextInv == TrapIInv /\ [Next]_vars => TrapIInv'
<1> SUFFICES ASSUME TrapIInv, [Next]_vars PROVE TrapIInv'
  OBVIOUS
<1>1. CASE MatrixStep /\ UNCHANGED trapVars
  BY <1>1, MatrixStepInv
<1>2. CASE TrapStep
  BY <1>2, ExceptionInv, AlltrapsInv, TrapInv, PanicInv, MonExitInv, ReturnInv DEF TrapStep
<1>3. CASE UNCHANGED vars
  <2> USE <1>3 DEF TrapIInv, vars, matrixVars, trapVars
  <2>1. TrapTypeOK'
    BY DEF TrapTypeOK
  <2>2. (InAssembly /\ HostRestored /\ VmcsCurrent /\ GuestCarried /\ GuestRowKept)'
    BY DEF InAssembly, HostRestored, VmcsCurrent, GuestCarried, GuestRowKept
  <2>3. (MonitorStack /\ BreakpointsNested /\ TrapInProgress)'
    BY DEF MonitorStack, BreakpointsNested, TrapInProgress
  <2> QED
    BY <2>1, <2>2, <2>3
<1> QED
  BY <1>1, <1>2, <1>3 DEF Next

(* The inductive invariant holds in every state of the composed system.    *)
THEOREM TrapInvariant == Spec => []TrapIInv
  BY InitInv, NextInv, PTL DEF Spec

(* Whatever the guest did and whichever way the assembly was left, the     *)
(* kernel has its registers, its stack and its system registers back, also *)
(* when breakpoints and faults come between.                               *)
THEOREM HostAlwaysRestored == Spec => []HostRestored
<1>1. TrapIInv => HostRestored
  BY DEF TrapIInv
<1> QED
  BY <1>1, TrapInvariant, PTL

(* The guest never sees that it was left: its registers and instruction    *)
(* pointer are those its own code made, for every answer of CPUID and      *)
(* every length of the instruction.                                        *)
THEOREM GuestNeverDisturbed == Spec => []GuestUndisturbed
<1>1. TrapIInv => GuestUndisturbed
  BY DEF TrapIInv, GuestUndisturbed, GuestCarried, TrapTypeOK
<1> QED
  BY <1>1, TrapInvariant, PTL

(* vmlaunch and vmresume are only executed on a VMCS in the state they     *)
(* need, with the host state that is current, in any number of runs.       *)
THEOREM EntriesLegal == Spec => []EntryLegal
<1>1. TrapIInv => EntryLegal
  <2> SUFFICES ASSUME TrapIInv, pc = "vmentry" PROVE EntryLegal
    BY DEF EntryLegal
  <2>1. vmcs.launched \in BOOLEAN /\ (vmcs.launched <=> call = "resume")
    BY DEF TrapIInv, TrapTypeOK, VmcsCurrent
  <2>2. vmcs.host = sys /\ vmcs.host_rsp = Len(stack) /\ vmcs.host_rip = call
    BY DEF TrapIInv, InAssembly, Asm
  <2>3. vmcs.launched = (call = "resume")
    BY <2>1, Zenon
  <2> QED
    BY <2>2, <2>3, Zenon DEF EntryLegal
<1> QED
  BY <1>1, TrapInvariant, PTL

(* A guest that was resumed finds "VM Stopped" where it stopped writing:   *)
(* the kernel is silent from its last exit to get_cursor_loc.              *)
THEOREM StopMessagePlaced == Spec => []StopsAtGuestCursor
<1>1. TrapIInv => StopsAtGuestCursor
  BY DEF TrapIInv, GuestRowKept, StopsAtGuestCursor
<1> QED
  BY <1>1, TrapInvariant, PTL

(* struct Trapframe describes the words that processor, handler and        *)
(* _alltraps push, for every fault with or without an error code.          *)
THEOREM TrapFramesRight == Spec => []TrapFrameRight
<1>1. TrapIInv => TrapFrameRight
  <2> SUFFICES ASSUME TrapIInv, pc = "trap" PROVE TrapFrameRight
    BY DEF TrapFrameRight
  <2> DEFINE i == raised[Len(raised)]
             f == Trapframe(Word(Len(stack), 1))
  <2>1. i \in Interrupted /\ TrapCall(stack, i)
    <3>1. raised # <<>> /\ TrapCall(stack, i) /\ raised \in Seq(Interrupted)
      BY DEF TrapIInv, TrapInProgress, TrapTypeOK
    <3> QED
      BY <3>1, LastTrap
  <2>2. /\ f.trapno = i.vector /\ f.err = i.err
        /\ f.eip = CCode[i.pc] /\ f.cs = GD_KT /\ f.eflags = EFLAGS
        /\ f.es = GD_KD /\ f.ds = GD_KD
        /\ f.eax = i.reg["eax"] /\ f.ecx = i.reg["ecx"] /\ f.edx = i.reg["edx"]
        /\ f.ebx = i.reg["ebx"] /\ f.ebp = i.reg["ebp"] /\ f.esi = i.reg["esi"]
        /\ f.edi = i.reg["edi"]
    BY <2>1, FrameRead
  <2> HIDE DEF f
  <2>3. [eax |-> f.eax, ecx |-> f.ecx, edx |-> f.edx, ebx |-> f.ebx,
         ebp |-> f.ebp, esi |-> f.esi, edi |-> f.edi]
          = [r \in Saved \ {"cr2"} |-> i.reg[r]]
    BY <2>2 DEF Saved, Callee
  <2> QED
    BY <2>2, <2>3, Zenon DEF TrapFrameRight, f
<1> QED
  BY <1>1, TrapInvariant, PTL

(* A breakpoint returns to the code it interrupted, with its registers,    *)
(* its stack and the monitors under it, for every depth of nesting and     *)
(* whatever was run in its monitor.                                        *)
THEOREM BreakpointsReturn == Spec => InterruptedCodeResumes
<1> DEFINE Resumes == pc = "trap returned" =>
                        LET i == raised[Len(raised)] IN
                        /\ stack' = i.stack /\ pc' = i.pc /\ tfs' = i.tfs
                        /\ \A r \in Saved \ {"cr2"} : reg'[r] = i.reg[r]
<1>1. TrapIInv /\ [Next]_vars => [Resumes]_vars
  <2> SUFFICES ASSUME TrapIInv, Next, pc = "trap returned" PROVE Resumes
    OBVIOUS
  <2>1. _alltraps_return
    BY DEF Next, MatrixStep, KernelStep, TrapStep, has_vmx, not_implemented, vmx_on, vt_ept, EptStep,
           ept_setup, ept_descend, ept_new_table, ept_last_level, ept_not_implemented, vmcs_setup,
           asm_regs, asm_failed, vt_entry_failed, asm_vmexit, vt_returned, do_cpuid, vt_fatal,
           vt_stop, vt_main_end, mon_matrix, vm_entry, guest_run, vm_exit, breakpoint, fault,
           vmxon_fault, _alltraps, trap, panic_monitor, panic, mon_exit, CCode
  <2> QED
    BY <2>1, ReturnEffect
<1> QED
  BY <1>1, TrapInvariant, PTL DEF Spec, InterruptedCodeResumes
-----------------------------------------------------------------------------
(* Numbers: Euclid's division, and the least member of a set.              *)
LEMMA DivMod ==
  ASSUME NEW m \in Nat, m > 0, NEW a \in Nat
  PROVE  a \div m \in Nat /\ a % m \in 0 .. m - 1 /\ a = m * (a \div m) + (a % m)
OBVIOUS

LEMMA MulMono ==
  ASSUME NEW m \in Nat, NEW a \in Nat, NEW b \in Nat, a <= b
  PROVE  m * a <= m * b
OBVIOUS

LEMMA MulStrict ==
  ASSUME NEW m \in Nat, NEW a \in Nat, NEW b \in Nat, a < b
  PROVE  m * a + m <= m * b
<1>1. m * (a + 1) <= m * b
  BY MulMono, a + 1 \in Nat, a + 1 <= b
<1> QED
  BY <1>1, m * (a + 1) = m * a + m

LEMMA DivUnique ==
  ASSUME NEW m \in Nat, m > 0, NEW q \in Nat, NEW r \in 0 .. m - 1,
         NEW a \in Nat, a = m * q + r
  PROVE  a \div m = q /\ a % m = r
<1> DEFINE k == a \div m
<1>1. k \in Nat /\ a % m \in 0 .. m - 1 /\ a = m * k + (a % m)
  BY DivMod
<1> HIDE DEF k
<1>2. ~ (k < q)
  <2> SUFFICES ASSUME k < q PROVE FALSE
    OBVIOUS
  <2>1. m * k + m <= m * q
    BY <1>1, MulStrict
  <2>2. m * k \in Nat /\ m * q \in Nat
    BY <1>1
  <2> QED
    BY <1>1, <2>1, <2>2
<1>3. ~ (q < k)
  <2> SUFFICES ASSUME q < k PROVE FALSE
    OBVIOUS
  <2>1. m * q + m <= m * k
    BY <1>1, MulStrict
  <2>2. m * k \in Nat /\ m * q \in Nat
    BY <1>1
  <2> QED
    BY <1>1, <2>1, <2>2
<1>4. k = q
  BY <1>1, <1>2, <1>3
<1> QED
  BY <1>1, <1>4 DEF k

LEMMA LeastNumber ==
  ASSUME NEW S \in SUBSET Nat, S # {}
  PROVE  \E m \in S : \A k \in S : m <= k
<1> DEFINE T == {0 .. n : n \in S}
<1>1. T \subseteq FiniteSubsetsOf(Nat) /\ T # {}
  <2>1. ASSUME NEW n \in S PROVE 0 .. n \in SUBSET Nat /\ IsFiniteSet(0 .. n)
    BY FS_Interval
  <2> QED
    BY <2>1 DEF FiniteSubsetsOf
<1>2. IsWellFoundedOn(StrictSubsetOrdering(Nat), FiniteSubsetsOf(Nat))
  BY FS_StrictSubsetOrderingWellFounded
<1>3. PICK x \in T : \A y \in T : ~ (<<y, x>> \in StrictSubsetOrdering(Nat))
  <2> HIDE DEF T
  <2> QED
    BY <1>1, <1>2, WFMin
<1>4. PICK m \in S : x = 0 .. m
  OBVIOUS
<1>5. ASSUME NEW k \in S PROVE m <= k
  <2> SUFFICES ASSUME k < m PROVE FALSE
    OBVIOUS
  <2>1. 0 .. k \in T /\ 0 .. k \in SUBSET Nat /\ 0 .. m \in SUBSET Nat
    OBVIOUS
  <2>2. 0 .. k \subseteq 0 .. m /\ m \in 0 .. m /\ m \notin 0 .. k
    OBVIOUS
  <2>3. <<0 .. k, 0 .. m>> \in StrictSubsetOrdering(Nat)
    BY <2>1, <2>2 DEF StrictSubsetOrdering
  <2> QED
    BY <1>3, <1>4, <2>1, <2>3
<1> QED
  BY <1>5

-----------------------------------------------------------------------------
(* The recursive functions of module Ept satisfy their equations.          *)
LEMMA FramesDef ==
  Frames = [l \in 0 .. EPT_DEFAULT_WL + 1 |->
              IF l = 0 THEN 1 ELSE EPT_EACHTABLE_ENTRIES * Frames[l - 1]]
<1> DEFINE Good(m, g) ==
             g = [l \in 0 .. m |-> IF l = 0 THEN 1 ELSE EPT_EACHTABLE_ENTRIES * g[l - 1]]
<1>1. \E g : Good(EPT_DEFAULT_WL + 1, g)
  <2> DEFINE Bad == {m \in Nat : ~ \E g : Good(m, g)}
  <2>0. EPT_DEFAULT_WL + 1 \in Nat
    BY EptAssumption
  <2> SUFFICES ASSUME Bad # {} PROVE FALSE
    BY <2>0
  <2>1. PICK m \in Nat : /\ ~ \E g : Good(m, g)
                         /\ \A k \in Nat : k < m => \E g : Good(k, g)
    <3> HIDE DEF Good
    <3>1. PICK m \in Bad : \A k \in Bad : m <= k
      <4>1. Bad \in SUBSET Nat
        OBVIOUS
      <4> HIDE DEF Bad
      <4> QED
        BY <4>1, LeastNumber
    <3> QED
      BY <3>1
  <2>2. m # 0
    <3>1. Good(0, [l \in 0 .. 0 |-> 1])
      OBVIOUS
    <3> QED
      BY <2>1, <3>1
  <2>3. m - 1 \in Nat /\ m - 1 < m
    BY <2>2
  <2>4. PICK g : Good(m - 1, g)
    BY <2>1, <2>3, Zenon
  <2> DEFINE h == [l \in 0 .. m |-> IF l # m THEN g[l] ELSE EPT_EACHTABLE_ENTRIES * g[m - 1]]
  <2>5. ASSUME NEW l \in 0 .. m
        PROVE  h[l] = IF l = 0 THEN 1 ELSE EPT_EACHTABLE_ENTRIES * h[l - 1]
    <3>1. l # 0 => h[l - 1] = g[l - 1]
      BY <2>2, <2>3
    <3>2. l # m => /\ l \in 0 .. m - 1
                   /\ g[l] = IF l = 0 THEN 1 ELSE EPT_EACHTABLE_ENTRIES * g[l - 1]
      BY <2>2, <2>3, <2>4
    <3> QED
      BY <2>2, <3>1, <3>2
  <2>6. Good(m, h)
    BY <2>5
  <2> QED
    BY <2>1, <2>6, Zenon
<1>2. Frames = CHOOSE g : Good(EPT_DEFAULT_WL + 1, g)
  BY DEF Frames
<1> HIDE DEF Good
<1>3. Good(EPT_DEFAULT_WL + 1, CHOOSE g : Good(EPT_DEFAULT_WL + 1, g))
  BY <1>1, Zenon
<1>4. Good(EPT_DEFAULT_WL + 1, Frames)
  BY <1>2, <1>3, Zenon
<1> QED
  BY <1>4, Zenon DEF Good

LEMMA FramesAre ==
  /\ Frames[0] = 1
  /\ \A l \in 0 .. EPT_DEFAULT_WL : Frames[l + 1] = EPT_EACHTABLE_ENTRIES * Frames[l]
  /\ \A l \in 0 .. EPT_DEFAULT_WL + 1 : Frames[l] \in Nat /\ Frames[l] > 0
<1> USE EptAssumption
<1>1. Frames[0] = 1
  BY FramesDef
<1>2. ASSUME NEW l \in 0 .. EPT_DEFAULT_WL
      PROVE  Frames[l + 1] = EPT_EACHTABLE_ENTRIES * Frames[l]
  <2>1. l + 1 \in 0 .. EPT_DEFAULT_WL + 1 /\ l + 1 # 0 /\ (l + 1) - 1 = l
    OBVIOUS
  <2> QED
    BY <2>1, FramesDef
<1>3. \A l \in 0 .. EPT_DEFAULT_WL + 1 : Frames[l] \in Nat /\ Frames[l] > 0
  <2> DEFINE Bad == {l \in 0 .. EPT_DEFAULT_WL + 1 : ~ (Frames[l] \in Nat /\ Frames[l] > 0)}
  <2> SUFFICES ASSUME Bad # {} PROVE FALSE
    OBVIOUS
  <2>1. PICK l \in Bad : \A k \in Bad : l <= k
    <3>1. Bad \in SUBSET Nat
      OBVIOUS
    <3> HIDE DEF Bad
    <3> QED
      BY <3>1, LeastNumber
  <2>2. l # 0
    BY <1>1
  <2>3. l - 1 \in 0 .. EPT_DEFAULT_WL /\ l - 1 \notin Bad /\ (l - 1) + 1 = l
    BY <2>1, <2>2
  <2>4. Frames[l - 1] \in Nat /\ Frames[l - 1] > 0
    BY <2>3
  <2>5. Frames[l] = EPT_EACHTABLE_ENTRIES * Frames[l - 1]
    BY <1>2, <2>3
  <2> QED
    BY <2>4, <2>5
<1> QED
  BY <1>1, <1>2, <1>3

(* The entry of a table for a frame, and the frames it stands for: the     *)
(* shift of ept_update_identity_table and the processor's index agree.     *)
LEMMA Entries ==
  ASSUME NEW g \in Nat, NEW l \in 0 .. EPT_DEFAULT_WL
  PROVE  /\ g \div Frames[l] \in Nat /\ Frames[l] * (g \div Frames[l]) <= g
         /\ g \div Frames[l + 1] \in Nat
         /\ offset(g, l) = Index(g, l) /\ Index(g, l) \in Slot
         /\ g \div Frames[l] = EPT_EACHTABLE_ENTRIES * (g \div Frames[l + 1]) + Index(g, l)
<1> DEFINE F == Frames[l]
           B == EPT_EACHTABLE_ENTRIES
           q == g \div F
           p == q \div B
<1>1. F \in Nat /\ F > 0 /\ B \in Nat /\ B > 0 /\ Frames[l + 1] = B * F
      /\ l + 1 \in 0 .. EPT_DEFAULT_WL + 1
  BY FramesAre, EptAssumption
<1>2. Frames[l + 1] \in Nat /\ Frames[l + 1] > 0
  BY <1>1, FramesAre
<1> HIDE DEF F, B
<1>3. q \in Nat /\ g % F \in 0 .. F - 1 /\ g = F * q + (g % F)
  BY <1>1, DivMod
<1> HIDE DEF q
<1>4. p \in Nat /\ q % B \in 0 .. B - 1 /\ q = B * p + (q % B)
  BY <1>1, <1>3, DivMod
<1> HIDE DEF p
<1> DEFINE r == F * (q % B) + (g % F)
<1>5. r \in 0 .. B * F - 1
  <2>1. F * (q % B) + F <= F * B
    BY <1>1, <1>4, MulStrict
  <2>2. F * (q % B) \in Nat /\ F * B = B * F /\ F * B \in Nat
    BY <1>1, <1>4
  <2> QED
    BY <1>1, <1>3, <2>1, <2>2
<1>6. g = (B * F) * p + r
  <2>1. F * q = F * (B * p) + F * (q % B)
    BY <1>1, <1>3, <1>4
  <2>2. F * (B * p) = (B * F) * p
    BY <1>1, <1>4
  <2> QED
    BY <1>1, <1>3, <1>4, <2>1, <2>2
<1>7. r \in Nat /\ r \div F = q % B
  <2>1. r \in Nat
    BY <1>5
  <2> QED
    BY <1>1, <1>3, <1>4, <2>1, DivUnique
<1> HIDE DEF r
<1>8. g \div (B * F) = p /\ g % (B * F) = r
  BY <1>1, <1>2, <1>4, <1>5, <1>6, DivUnique
<1>9. offset(g, l) = q % B /\ Index(g, l) = q % B
  BY <1>1, <1>7, <1>8 DEF offset, Index, F, B, q
<1>10. F * q <= g
  BY <1>1, <1>3
<1> QED
  BY <1>1, <1>3, <1>4, <1>8, <1>9, <1>10 DEF Slot, F, B, q

-----------------------------------------------------------------------------
(* The tables of the current tree have labels: table t is of level lv[t],  *)
(* and the entry i of it is number EntryNo(pre, t, i) on that level.       *)
EntryType == [p : BOOLEAN, mfn : Nat]
Table     == [Slot -> EntryType]
EntryNo(pre, t, i) == EPT_EACHTABLE_ENTRIES * pre[t] + i

Labelled(e, root, lv, pre) ==
  /\ DOMAIN lv \subseteq 1 .. Len(e) /\ DOMAIN pre = DOMAIN lv
  /\ \A t \in DOMAIN lv : lv[t] \in 0 .. EPT_DEFAULT_WL /\ pre[t] \in Nat
  /\ root \in DOMAIN lv /\ lv[root] = EPT_DEFAULT_WL /\ pre[root] = 0

(* Entry x leads to the table of level l with number n.                    *)
Leads(x, lv, pre, l, n) == \E u \in DOMAIN lv : x = Epte(u) /\ lv[u] = l /\ pre[u] = n

(* Table t maps its frames.                                                *)
Filled(e, pre, t) == \A i \in Slot : e[t][i] = Epte(Placed(EntryNo(pre, t, i)))

(* All frames up to the last one are mapped.                               *)
Whole(e, root) ==
  \E lv, pre :
    /\ Labelled(e, root, lv, pre)
    /\ \A t \in DOMAIN lv : lv[t] = 0 => Filled(e, pre, t)
    /\ \A t \in DOMAIN lv, i \in Slot :
         lv[t] > 0 /\ Frames[lv[t]] * EntryNo(pre, t, i) <= LastGfn =>
           Leads(e[t][i], lv, pre, lv[t] - 1, EntryNo(pre, t, i))

(* Frame n is being added, and the tables down to cur, of level lev, are   *)
(* there.                                                                  *)
Growing(e, root, n, cur, lev, lv, pre) ==
  /\ Labelled(e, root, lv, pre)
  /\ cur \in DOMAIN lv /\ lv[cur] = lev /\ pre[cur] = n \div Frames[lev + 1]
  /\ \A t, u \in DOMAIN lv : lv[t] = lv[u] /\ pre[t] = pre[u] => t = u
  /\ \A t \in DOMAIN lv :
       \/ Frames[lv[t] + 1] * pre[t] < n
       \/ Frames[lv[t] + 1] * pre[t] = n /\ lv[t] >= lev
  /\ \A t \in DOMAIN lv : lv[t] = 0 /\ ~ (t = cur /\ lev = 0) => Filled(e, pre, t)
  /\ \A t \in DOMAIN lv, i \in Slot :
       /\ lv[t] > 0
       /\ \/ e[t][i] # Absent
          \/ Frames[lv[t]] * EntryNo(pre, t, i) < n
          \/ Frames[lv[t]] * EntryNo(pre, t, i) = n /\ lv[t] > lev
       => Leads(e[t][i], lv, pre, lv[t] - 1, EntryNo(pre, t, i))

-----------------------------------------------------------------------------
(* A walk through a tree that is whole ends at the frame's place.          *)
LEMMA VisitedDef ==
  ASSUME NEW root, NEW g
  PROVE  Visited(root, g) =
           [n \in 0 .. EPT_DEFAULT_WL |->
              IF n = 0 THEN root
              ELSE Lookup(Visited(root, g)[n - 1], Index(g, EPT_DEFAULT_WL + 1 - n)).mfn]
<1> DEFINE Step(t, n) == Lookup(t, Index(g, EPT_DEFAULT_WL + 1 - n)).mfn
           Good(m, f) == f = [n \in 0 .. m |-> IF n = 0 THEN root ELSE Step(f[n - 1], n)]
<1>1. \E f : Good(EPT_DEFAULT_WL, f)
  <2> HIDE DEF Step
  <2> DEFINE Bad == {m \in Nat : ~ \E f : Good(m, f)}
  <2>0. EPT_DEFAULT_WL \in Nat
    BY EptAssumption
  <2> SUFFICES ASSUME Bad # {} PROVE FALSE
    BY <2>0
  <2>1. PICK m \in Nat : /\ ~ \E f : Good(m, f)
                         /\ \A k \in Nat : k < m => \E f : Good(k, f)
    <3> HIDE DEF Good
    <3>1. PICK m \in Bad : \A k \in Bad : m <= k
      <4>1. Bad \in SUBSET Nat
        OBVIOUS
      <4> HIDE DEF Bad
      <4> QED
        BY <4>1, LeastNumber
    <3> QED
      BY <3>1
  <2>2. m # 0
    <3>1. Good(0, [n \in 0 .. 0 |-> root])
      OBVIOUS
    <3> QED
      BY <2>1, <3>1
  <2>3. m - 1 \in Nat /\ m - 1 < m
    BY <2>2
  <2>4. PICK f : Good(m - 1, f)
    BY <2>1, <2>3, Zenon
  <2> DEFINE h == [n \in 0 .. m |-> IF n # m THEN f[n] ELSE Step(f[m - 1], m)]
  <2>5. ASSUME NEW n \in 0 .. m
        PROVE  h[n] = IF n = 0 THEN root ELSE Step(h[n - 1], n)
    <3>1. n # 0 => h[n - 1] = f[n - 1]
      BY <2>2, <2>3
    <3>2. n # m => n \in 0 .. m - 1 /\ f[n] = IF n = 0 THEN root ELSE Step(f[n - 1], n)
      BY <2>2, <2>3, <2>4
    <3> QED
      BY <2>2, <3>1, <3>2
  <2>6. Good(m, h)
    BY <2>5
  <2> QED
    BY <2>1, <2>6, Zenon
<1>2. Visited(root, g) = CHOOSE f : Good(EPT_DEFAULT_WL, f)
  BY DEF Visited
<1> HIDE DEF Good
<1>3. Good(EPT_DEFAULT_WL, CHOOSE f : Good(EPT_DEFAULT_WL, f))
  BY <1>1, Zenon
<1>4. Good(EPT_DEFAULT_WL, Visited(root, g))
  BY <1>2, <1>3, Zenon
<1> QED
  BY <1>4, Zenon DEF Good

LEMMA WholeWalk ==
  ASSUME NEW root, ept \in Seq(Table), Whole(ept, root), NEW g \in 0 .. LastGfn
  PROVE  Walk(root, g) = Epte(Placed(g))
<1> USE EptAssumption
<1> DEFINE WL == EPT_DEFAULT_WL
           v == Visited(root, g)
<1>0. g \in Nat /\ DOMAIN ept = 1 .. Len(ept)
  OBVIOUS
<1>1. PICK lv, pre :
        /\ Labelled(ept, root, lv, pre)
        /\ \A t \in DOMAIN lv : lv[t] = 0 => Filled(ept, pre, t)
        /\ \A t \in DOMAIN lv, i \in Slot :
             lv[t] > 0 /\ Frames[lv[t]] * EntryNo(pre, t, i) <= LastGfn =>
               Leads(ept[t][i], lv, pre, lv[t] - 1, EntryNo(pre, t, i))
  BY Zenon DEF Whole
<1> DEFINE There(n) == /\ v[n] \in DOMAIN lv /\ lv[v[n]] = WL - n
                       /\ pre[v[n]] = g \div Frames[WL - n + 1]
<1>2. There(0)
  <2>1. v[0] = root
    BY VisitedDef
  <2>2. g \div Frames[WL + 1] = 0
    <3>0. WL + 1 \in 0 .. WL + 1
      OBVIOUS
    <3>1. Frames[WL + 1] \in Nat /\ Frames[WL + 1] > 0
      BY <3>0, FramesAre, Zenon
    <3>2. g < Frames[WL + 1]
      BY <3>1
    <3>3. g = Frames[WL + 1] * 0 + g /\ g \in 0 .. Frames[WL + 1] - 1 /\ 0 \in Nat
      BY <3>1, <3>2, <1>0
    <3> QED
      BY <3>1, <3>3, <1>0, DivUnique
  <2> QED
    BY <1>1, <2>1, <2>2 DEF Labelled
<1>3. ASSUME NEW n \in 1 .. WL, There(n - 1)
      PROVE  There(n)
  <2> DEFINE t == v[n - 1]
             l == WL + 1 - n
             i == Index(g, l)
  <2>1. l \in 1 .. WL /\ l - 1 = WL - n /\ l = WL - (n - 1) /\ l + 1 = WL - (n - 1) + 1
        /\ WL - n + 1 = l /\ l \in 0 .. WL /\ l \in 0 .. WL + 1
    OBVIOUS
  <2>2. t \in DOMAIN lv /\ lv[t] = l /\ pre[t] = g \div Frames[l + 1]
    BY <1>3, <2>1
  <2>3. v[n] = Lookup(t, i).mfn
    BY VisitedDef
  <2> HIDE DEF t, l
  <2>4. i \in Slot /\ EntryNo(pre, t, i) = g \div Frames[l] /\ Frames[l] * (g \div Frames[l]) <= g
    <3>1. /\ Frames[l] * (g \div Frames[l]) <= g /\ Index(g, l) \in Slot
          /\ g \div Frames[l] = EPT_EACHTABLE_ENTRIES * (g \div Frames[l + 1]) + Index(g, l)
      BY <1>0, <2>1, Entries
    <3> QED
      BY <2>2, <3>1, Zenon DEF EntryNo
  <2> HIDE DEF i
  <2>5. Frames[l] * EntryNo(pre, t, i) <= LastGfn
    <3>0. Frames[l] \in Nat
      BY <2>1, FramesAre
    <3>1. Frames[l] \in Nat /\ g \div Frames[l] \in Nat
      BY <2>1, <1>0, <3>0, Entries
    <3>2. Frames[l] * (g \div Frames[l]) \in Nat
      BY <3>1
    <3> QED
      BY <2>4, <3>2
  <2>6. PICK u \in DOMAIN lv : /\ ept[t][i] = Epte(u) /\ lv[u] = l - 1
                               /\ pre[u] = EntryNo(pre, t, i)
    <3>1. lv[t] > 0 /\ Frames[lv[t]] * EntryNo(pre, t, i) <= LastGfn
      BY <2>1, <2>2, <2>5
    <3>2. Leads(ept[t][i], lv, pre, lv[t] - 1, EntryNo(pre, t, i))
      BY <1>1, <2>2, <2>4, <3>1, Zenon
    <3> QED
      BY <2>2, <3>2, Zenon DEF Leads
  <2>7. v[n] = u
    <3>1. t \in DOMAIN ept
      BY <1>0, <1>1, <2>2 DEF Labelled
    <3> QED
      BY <2>3, <2>6, <3>1 DEF Lookup, Epte
  <2> QED
    BY <2>1, <2>4, <2>6, <2>7
<1> HIDE DEF v
<1>4. There(WL)
  <2> DEFINE Bad == {n \in 0 .. WL : ~ There(n)}
  <2> HIDE DEF There
  <2> SUFFICES ASSUME Bad # {} PROVE FALSE
    OBVIOUS
  <2>1. PICK n \in Bad : \A k \in Bad : n <= k
    <3>1. Bad \in SUBSET Nat
      OBVIOUS
    <3> HIDE DEF Bad
    <3> QED
      BY <3>1, LeastNumber
  <2>2. n # 0
    BY <1>2
  <2>3. n \in 1 .. WL /\ n - 1 \in 0 .. WL /\ n - 1 \notin Bad
    BY <2>1, <2>2
  <2>4. There(n - 1)
    BY <2>3
  <2> QED
    BY <1>3, <2>3, <2>4
<1> DEFINE t == v[WL]
<1>5. t \in DOMAIN lv /\ lv[t] = 0 /\ pre[t] = g \div Frames[1]
  <2>1. WL - WL = 0 /\ WL - WL + 1 = 1
    OBVIOUS
  <2> QED
    BY <1>4, <2>1
<1> HIDE DEF t, There
<1>6. Index(g, 0) \in Slot /\ EntryNo(pre, t, Index(g, 0)) = g
  <2>1. 0 \in 0 .. WL /\ 0 + 1 = 1 /\ g \div Frames[0] = g
    BY <1>0, FramesAre
  <2>2. /\ Index(g, 0) \in Slot
        /\ g \div Frames[0] = EPT_EACHTABLE_ENTRIES * (g \div Frames[0 + 1]) + Index(g, 0)
    BY <1>0, <2>1, Entries
  <2>3. EPT_EACHTABLE_ENTRIES * (g \div Frames[1]) + Index(g, 0) = g
    BY <2>1, <2>2
  <2> QED
    BY <1>5, <2>2, <2>3, Zenon DEF EntryNo
<1>7. ept[t][Index(g, 0)] = Epte(Placed(g))
  BY <1>1, <1>5, <1>6, Zenon DEF Filled
<1>8. t \in DOMAIN ept
  BY <1>0, <1>1, <1>5 DEF Labelled
<1> QED
  BY <1>7, <1>8 DEF Walk, Lookup, v, t

-----------------------------------------------------------------------------
(* The entry for frame n in the table being visited is the only one of its *)
(* level at which n can be the first frame.                                *)
Sole(n, cur, lev, lv, pre) ==
  \A t \in DOMAIN lv, i \in Slot :
    lv[t] = lev /\ Frames[lev] * EntryNo(pre, t, i) = n => t = cur /\ i = Index(n, lev)

LEMMA OnlyEntry ==
  ASSUME NEW e, NEW root, NEW n \in Nat, NEW cur, NEW lev \in 0 .. EPT_DEFAULT_WL,
         NEW lv, NEW pre, Growing(e, root, n, cur, lev, lv, pre)
  PROVE  Sole(n, cur, lev, lv, pre)
<1> SUFFICES ASSUME NEW t \in DOMAIN lv, NEW i \in Slot, lv[t] = lev,
                    Frames[lev] * EntryNo(pre, t, i) = n
             PROVE  t = cur /\ i = Index(n, lev)
  BY DEF Sole
<1> DEFINE B == EPT_EACHTABLE_ENTRIES
           F == Frames[lev]
           q == n \div F
<1>0. F \in Nat /\ F > 0 /\ B \in Nat /\ B > 0
  BY FramesAre, EptAssumption
<1>1. /\ pre[t] \in Nat /\ i \in 0 .. B - 1
      /\ cur \in DOMAIN lv /\ lv[cur] = lev /\ pre[cur] = n \div Frames[lev + 1]
  BY DEF Growing, Labelled, Slot
<1>2. /\ q \in Nat /\ n \div Frames[lev + 1] \in Nat /\ Index(n, lev) \in 0 .. B - 1
      /\ q = B * (n \div Frames[lev + 1]) + Index(n, lev)
  BY Entries DEF Slot
<1>3. EntryNo(pre, t, i) = B * pre[t] + i
  BY DEF EntryNo
<1> HIDE DEF B, F, q
<1>4. EntryNo(pre, t, i) \in Nat
  BY <1>0, <1>1, <1>3
<1>5. q = EntryNo(pre, t, i)
  <2>1. n = F * EntryNo(pre, t, i) + 0 /\ 0 \in 0 .. F - 1
    BY <1>0, <1>4 DEF F
  <2> QED
    BY <1>0, <1>4, <2>1, DivUnique DEF q
<1>6. q \div B = pre[t] /\ q % B = i
  <2>1. q = B * pre[t] + i
    BY <1>3, <1>5
  <2>2. B \in Nat /\ B > 0 /\ pre[t] \in Nat /\ i \in 0 .. B - 1 /\ q \in Nat
    BY <1>0, <1>1, <1>2
  <2>3. PICK p \in Nat : p = pre[t]
    BY <2>2
  <2>4. q = B * p + i
    BY <2>1, <2>3
  <2>5. q \div B = p /\ q % B = i
    BY <2>2, <2>4, DivUnique
  <2> QED
    BY <2>3, <2>5
<1>7. q \div B = n \div Frames[lev + 1] /\ q % B = Index(n, lev)
  BY <1>0, <1>2, DivUnique
<1>8. pre[t] = pre[cur] /\ lv[t] = lv[cur]
  BY <1>1, <1>6, <1>7
<1> QED
  BY <1>1, <1>6, <1>7, <1>8 DEF Growing

(* The call through an entry that is set.                                  *)
LEMMA Descends ==
  ASSUME NEW e, NEW root, NEW n \in Nat, NEW cur, NEW lev \in 1 .. EPT_DEFAULT_WL,
         NEW lv, NEW pre, Growing(e, root, n, cur, lev, lv, pre),
         e[cur][Index(n, lev)] # Absent
  PROVE  Growing(e, root, n, e[cur][Index(n, lev)].mfn, lev - 1, lv, pre)
<1> DEFINE i == Index(n, lev)
<1>0. lev \in 0 .. EPT_DEFAULT_WL /\ lev - 1 + 1 = lev /\ lev - 1 \in 0 .. EPT_DEFAULT_WL
  BY EptAssumption
<1>1. i \in Slot /\ n \div Frames[lev] = EPT_EACHTABLE_ENTRIES * (n \div Frames[lev + 1]) + i
  BY <1>0, Entries
<1>2. cur \in DOMAIN lv /\ lv[cur] = lev /\ pre[cur] = n \div Frames[lev + 1]
  BY DEF Growing
<1>3. EntryNo(pre, cur, i) = n \div Frames[lev]
  BY <1>1, <1>2, Zenon DEF EntryNo
<1>4. Sole(n, cur, lev, lv, pre)
  BY <1>0, OnlyEntry
<1> HIDE DEF i
<1>5. Leads(e[cur][i], lv, pre, lev - 1, EntryNo(pre, cur, i))
  <2>1. lev > 0
    OBVIOUS
  <2> QED
    BY <1>1, <1>2, <2>1, Zenon DEF Growing, i
<1>6. PICK u \in DOMAIN lv : e[cur][i] = Epte(u) /\ lv[u] = lev - 1 /\ pre[u] = n \div Frames[lev]
  BY <1>3, <1>5, Zenon DEF Leads
<1>7. e[cur][i].mfn = u
  BY <1>6 DEF Epte
<1>8. ASSUME NEW t \in DOMAIN lv, NEW j \in Slot, lv[t] > 0,
             \/ e[t][j] # Absent
             \/ Frames[lv[t]] * EntryNo(pre, t, j) < n
             \/ Frames[lv[t]] * EntryNo(pre, t, j) = n /\ lv[t] > lev - 1
      PROVE  Leads(e[t][j], lv, pre, lv[t] - 1, EntryNo(pre, t, j))
  <2>1. CASE lv[t] = lev /\ Frames[lv[t]] * EntryNo(pre, t, j) = n
    <3>1. t = cur /\ j = i
      <4>1. lv[t] = lev /\ Frames[lev] * EntryNo(pre, t, j) = n
        BY <2>1, Zenon
      <4> QED
        BY <1>4, <4>1, Zenon DEF i, Sole
    <3> QED
      BY <1>2, <1>5, <3>1, Zenon
  <2>2. CASE ~ (lv[t] = lev /\ Frames[lv[t]] * EntryNo(pre, t, j) = n)
    <3>1. lv[t] \in Nat
      BY DEF Growing, Labelled
    <3>2. \/ e[t][j] # Absent
          \/ Frames[lv[t]] * EntryNo(pre, t, j) < n
          \/ Frames[lv[t]] * EntryNo(pre, t, j) = n /\ lv[t] > lev
      <4> DEFINE x == Frames[lv[t]] * EntryNo(pre, t, j)
      <4> HIDE DEF x
      <4> SUFFICES e[t][j] # Absent \/ x < n \/ (x = n /\ lv[t] > lev)
        BY DEF x
      <4> QED
        BY <1>8, <2>2, <3>1 DEF x
    <3> QED
      BY <1>8, <3>2, Zenon DEF Growing
  <2> QED
    BY <2>1, <2>2
<1>9. ASSUME NEW t \in DOMAIN lv
      PROVE  \/ Frames[lv[t] + 1] * pre[t] < n
             \/ Frames[lv[t] + 1] * pre[t] = n /\ lv[t] >= lev - 1
  <2> DEFINE x == Frames[lv[t] + 1] * pre[t]
  <2>1. lv[t] \in Nat /\ (x < n \/ (x = n /\ lv[t] >= lev))
    BY DEF Growing, Labelled
  <2> HIDE DEF x
  <2>2. x < n \/ (x = n /\ lv[t] >= lev - 1)
    BY <2>1
  <2> QED
    BY <2>2 DEF x
<1>10. ASSUME NEW t \in DOMAIN lv, lv[t] = 0
      PROVE  Filled(e, pre, t)
  <2>1. lev # 0
    OBVIOUS
  <2> QED
    BY <1>10, <2>1, Zenon DEF Growing
<1>11. Growing(e, root, n, u, lev - 1, lv, pre)
  <2>1. /\ Labelled(e, root, lv, pre)
        /\ \A t, v \in DOMAIN lv : lv[t] = lv[v] /\ pre[t] = pre[v] => t = v
    BY Zenon DEF Growing
  <2>2. pre[u] = n \div Frames[lev - 1 + 1]
    BY <1>0, <1>6
  <2> QED
    BY <1>6, <1>8, <1>9, <1>10, <2>1, <2>2, Zenon DEF Growing
<1> QED
  BY <1>7, <1>11 DEF i

-----------------------------------------------------------------------------
LEMMA Rearranged ==
  ASSUME NEW a \in Nat, NEW b \in Nat, NEW c \in Nat, NEW d \in Nat
  PROVE  a * (b * c + d) = (b * a) * c + a * d
OBVIOUS

(* The tree e with entry i of table t leading to a new, empty table.       *)
Grown(e, t, i) == Append([e EXCEPT ![t][i] = Epte(Len(e) + 1)], NewTable)

LEMMA GrownIs ==
  ASSUME NEW e \in Seq(Table), NEW t \in 1 .. Len(e), NEW i \in Slot
  PROVE  /\ Grown(e, t, i) \in Seq(Table) /\ Len(Grown(e, t, i)) = Len(e) + 1
         /\ Grown(e, t, i)[Len(e) + 1] = NewTable
         /\ \A u \in 1 .. Len(e), j \in Slot :
              Grown(e, t, i)[u][j] = IF u = t /\ j = i THEN Epte(Len(e) + 1) ELSE e[u][j]
<1> DEFINE f == [e EXCEPT ![t][i] = Epte(Len(e) + 1)]
<1>1. Len(e) \in Nat /\ e \in [1 .. Len(e) -> Table]
  OBVIOUS
<1>2. Epte(Len(e) + 1) \in EntryType
  BY <1>1 DEF Epte, EntryType
<1>3. NewTable \in Table
  BY DEF NewTable, Table, Absent, EntryType
<1>4. f \in [1 .. Len(e) -> Table]
      /\ \A u \in 1 .. Len(e), j \in Slot :
           f[u][j] = IF u = t /\ j = i THEN Epte(Len(e) + 1) ELSE e[u][j]
  <2> HIDE DEF Slot
  <2> QED
    BY <1>1, <1>2 DEF Table
<1>5. f \in Seq(Table) /\ Len(f) = Len(e)
  BY <1>1, <1>4
<1> HIDE DEF f
<1>6. Grown(e, t, i) = Append(f, NewTable)
  BY DEF Grown, f
<1>7. /\ Append(f, NewTable) \in Seq(Table) /\ Len(Append(f, NewTable)) = Len(f) + 1
      /\ \A u \in 1 .. Len(f) : Append(f, NewTable)[u] = f[u]
      /\ Append(f, NewTable)[Len(f) + 1] = NewTable
  BY <1>3, <1>5, AppendProperties
<1> QED
  BY <1>4, <1>5, <1>6, <1>7

(* Exercise 3's new table continues the tree.                              *)
LEMMA Grows ==
  ASSUME NEW e \in Seq(Table), NEW root, NEW n \in Nat, NEW cur,
         NEW lev \in 1 .. EPT_DEFAULT_WL, NEW lv, NEW pre,
         Growing(e, root, n, cur, lev, lv, pre), e[cur][Index(n, lev)] = Absent
  PROVE  \E lw, pw :
           Growing(Grown(e, cur, Index(n, lev)), root, n, Len(e) + 1, lev - 1, lw, pw)
<1> DEFINE i == Index(n, lev)
           q == n \div Frames[lev]
           d == Grown(e, cur, i)
           s == Len(e) + 1
           lw == [t \in DOMAIN lv \cup {s} |-> IF t = s THEN lev - 1 ELSE lv[t]]
           pw == [t \in DOMAIN lv \cup {s} |-> IF t = s THEN q ELSE pre[t]]
<1>0. /\ lev \in 0 .. EPT_DEFAULT_WL /\ lev - 1 + 1 = lev /\ lev - 1 \in 0 .. EPT_DEFAULT_WL
      /\ lev \in 0 .. EPT_DEFAULT_WL + 1 /\ lev - 1 \in Nat
  BY EptAssumption
<1>1. /\ i \in Slot /\ q \in Nat /\ Frames[lev] * q <= n
      /\ q = EPT_EACHTABLE_ENTRIES * (n \div Frames[lev + 1]) + i
  BY <1>0, Entries
<1>2. /\ cur \in DOMAIN lv /\ lv[cur] = lev /\ pre[cur] = n \div Frames[lev + 1]
      /\ DOMAIN lv \subseteq 1 .. Len(e) /\ DOMAIN pre = DOMAIN lv
      /\ \A t \in DOMAIN lv : lv[t] \in 0 .. EPT_DEFAULT_WL /\ pre[t] \in Nat
      /\ root \in DOMAIN lv /\ lv[root] = EPT_DEFAULT_WL /\ pre[root] = 0
  BY DEF Growing, Labelled
<1>3. EntryNo(pre, cur, i) = q
  BY <1>1, <1>2, Zenon DEF EntryNo
<1>4. Sole(n, cur, lev, lv, pre)
  BY <1>0, OnlyEntry
<1>5. Frames[lev] \in Nat /\ Frames[lev] > 0 /\ Frames[lev - 1] \in Nat
      /\ Frames[lev] = EPT_EACHTABLE_ENTRIES * Frames[lev - 1] /\ EPT_EACHTABLE_ENTRIES \in Nat
  <2>1. lev - 1 \in 0 .. EPT_DEFAULT_WL + 1
    BY <1>0, EptAssumption
  <2>2. Frames[lev - 1 + 1] = EPT_EACHTABLE_ENTRIES * Frames[lev - 1]
    BY <1>0, FramesAre, Zenon
  <2>3. Frames[lev] \in Nat /\ Frames[lev] > 0 /\ Frames[lev - 1] \in Nat
    BY <1>0, <2>1, FramesAre, Zenon
  <2> QED
    BY <1>0, <2>2, <2>3, EptAssumption
<1>6. s \notin DOMAIN lv /\ s \in 1 .. Len(e) + 1 /\ cur \in 1 .. Len(e)
  BY <1>2
<1>7. /\ d \in Seq(Table) /\ Len(d) = s /\ d[s] = NewTable
      /\ \A u \in 1 .. Len(e), j \in Slot :
           d[u][j] = IF u = cur /\ j = i THEN Epte(s) ELSE e[u][j]
  BY <1>1, <1>6, GrownIs
<1> HIDE DEF i, d, q, s
<1>8. Frames[lev] * q = n
  <2>1. Frames[lev] * q \in Nat
    BY <1>1, <1>5
  <2> SUFFICES ASSUME Frames[lev] * q < n PROVE FALSE
    BY <1>1, <2>1
  <2>2. Leads(e[cur][i], lv, pre, lev - 1, q)
    <3>1. lv[cur] > 0 /\ Frames[lv[cur]] * EntryNo(pre, cur, i) < n
      BY <1>2, <1>3
    <3>2. Leads(e[cur][i], lv, pre, lv[cur] - 1, EntryNo(pre, cur, i))
      BY <1>1, <1>2, <3>1, Zenon DEF Growing
    <3> QED
      BY <1>2, <1>3, <3>2, Zenon
  <2>3. e[cur][i] = Absent
    BY DEF i
  <2> QED
    BY <2>2, <2>3 DEF Leads, Epte, Absent
<1>9. /\ DOMAIN lw = DOMAIN lv \cup {s} /\ DOMAIN pw = DOMAIN lv \cup {s}
      /\ lw[s] = lev - 1 /\ pw[s] = q
      /\ \A t \in DOMAIN lv : lw[t] = lv[t] /\ pw[t] = pre[t]
  BY <1>6
<1> HIDE DEF lw, pw
<1>10. Labelled(d, root, lw, pw)
  <2>1. DOMAIN lw \subseteq 1 .. Len(d) /\ DOMAIN pw = DOMAIN lw
    BY <1>2, <1>6, <1>7, <1>9 DEF s
  <2>2. \A t \in DOMAIN lw : lw[t] \in 0 .. EPT_DEFAULT_WL /\ pw[t] \in Nat
    BY <1>0, <1>1, <1>2, <1>9, Zenon
  <2>3. root \in DOMAIN lw /\ lw[root] = EPT_DEFAULT_WL /\ pw[root] = 0
    BY <1>2, <1>9, Zenon
  <2> QED
    BY <2>1, <2>2, <2>3 DEF Labelled
<1>11. \A t \in DOMAIN lv :
         \/ Frames[lv[t] + 1] * pre[t] < n
         \/ Frames[lv[t] + 1] * pre[t] = n /\ lv[t] >= lev
  BY Zenon DEF Growing
<1>12. ASSUME NEW t \in DOMAIN lw, NEW u \in DOMAIN lw, lw[t] = lw[u], pw[t] = pw[u]
       PROVE  t = u
  <2>1. ASSUME NEW v \in DOMAIN lv PROVE ~ (lv[v] = lev - 1 /\ pre[v] = q)
    <3> SUFFICES ASSUME lv[v] = lev - 1, pre[v] = q PROVE FALSE
      OBVIOUS
    <3>1. Frames[lv[v] + 1] * pre[v] = n /\ ~ (n < n) /\ ~ (lv[v] >= lev)
      <4>1. Frames[lev - 1 + 1] = Frames[lev] /\ ~ (n < n) /\ ~ (lev - 1 >= lev)
        BY <1>0
      <4> QED
        BY <1>8, <4>1
    <3> QED
      BY <1>11, <3>1
  <2>2. CASE t = s
    <3> SUFFICES ASSUME u # s PROVE FALSE
      BY <2>2
    <3> QED
      BY <1>9, <1>12, <2>1, <2>2, Zenon
  <2>3. CASE t # s /\ u = s
    BY <1>9, <1>12, <2>1, <2>3, Zenon
  <2>4. CASE t # s /\ u # s
    <3>1. t \in DOMAIN lv /\ u \in DOMAIN lv /\ lv[t] = lv[u] /\ pre[t] = pre[u]
      BY <1>9, <1>12, <2>4, Zenon
    <3> QED
      BY <3>1, Zenon DEF Growing
  <2> QED
    BY <2>2, <2>3, <2>4
<1>13. ASSUME NEW t \in DOMAIN lw
       PROVE  \/ Frames[lw[t] + 1] * pw[t] < n
              \/ Frames[lw[t] + 1] * pw[t] = n /\ lw[t] >= lev - 1
  <2>1. CASE t = s
    <3>1. Frames[lw[t] + 1] * pw[t] = n /\ lev - 1 >= lev - 1
      BY <1>0, <1>8, <1>9, <2>1
    <3> QED
      BY <1>9, <2>1, <3>1
  <2>2. CASE t # s
    <3> DEFINE x == Frames[lv[t] + 1] * pre[t]
    <3>1. t \in DOMAIN lv /\ lw[t] = lv[t] /\ pw[t] = pre[t]
      BY <1>9, <2>2, Zenon
    <3>2. lv[t] \in Nat /\ (x < n \/ (x = n /\ lv[t] >= lev))
      BY <1>2, <1>11, <3>1
    <3> HIDE DEF x
    <3>3. x < n \/ (x = n /\ lv[t] >= lev - 1)
      BY <3>2
    <3> QED
      BY <3>1, <3>3 DEF x
  <2> QED
    BY <2>1, <2>2
<1>14. ASSUME NEW t \in DOMAIN lw, lw[t] = 0, ~ (t = s /\ lev - 1 = 0)
       PROVE  Filled(d, pw, t)
  <2>1. t # s /\ t \in DOMAIN lv /\ lv[t] = 0 /\ pw[t] = pre[t]
    BY <1>9, <1>14, Zenon
  <2>2. t # cur /\ lev # 0 /\ t \in 1 .. Len(e)
    BY <1>2, <2>1
  <2>3. Filled(e, pre, t)
    BY <2>1, <2>2, Zenon DEF Growing
  <2> QED
    BY <1>7, <2>1, <2>2, <2>3, Zenon DEF Filled, EntryNo
<1>15. ASSUME NEW t \in DOMAIN lw, NEW j \in Slot, lw[t] > 0,
              \/ d[t][j] # Absent
              \/ Frames[lw[t]] * EntryNo(pw, t, j) < n
              \/ Frames[lw[t]] * EntryNo(pw, t, j) = n /\ lw[t] > lev - 1
       PROVE  Leads(d[t][j], lw, pw, lw[t] - 1, EntryNo(pw, t, j))
  <2>1. CASE t = s
    <3>1. d[t][j] = Absent
      BY <1>7, <2>1 DEF NewTable
    <3>2. Frames[lw[t]] * EntryNo(pw, t, j) >= n /\ ~ (lw[t] > lev - 1)
      <4>1. EntryNo(pw, t, j) = EPT_EACHTABLE_ENTRIES * q + j /\ lw[t] = lev - 1
        BY <1>9, <2>1 DEF EntryNo
      <4>2. j \in Nat
        BY <1>5 DEF Slot
      <4>3. Frames[lev - 1] * (EPT_EACHTABLE_ENTRIES * q + j)
              = (EPT_EACHTABLE_ENTRIES * Frames[lev - 1]) * q + Frames[lev - 1] * j
        <5>1. PICK a \in Nat : a = Frames[lev - 1]
          BY <1>5
        <5>2. a * (EPT_EACHTABLE_ENTRIES * q + j) = (EPT_EACHTABLE_ENTRIES * a) * q + a * j
          BY <1>1, <1>5, <4>2, Rearranged
        <5> QED
          BY <5>1, <5>2
      <4>4. Frames[lev - 1] * j \in Nat
        BY <1>5, <4>2
      <4> QED
        BY <1>0, <1>5, <1>8, <4>1, <4>3, <4>4
    <3>3. Frames[lw[t]] * EntryNo(pw, t, j) \in Int
      <4>1. EntryNo(pw, t, j) \in Int /\ lw[t] = lev - 1
        BY <1>1, <1>5, <1>9, <2>1 DEF EntryNo, Slot
      <4> QED
        BY <1>5, <4>1
    <3> QED
      BY <1>15, <3>1, <3>2, <3>3
  <2>2. CASE t = cur /\ j = i
    <3>1. d[t][j] = Epte(s) /\ lw[t] - 1 = lw[s] /\ EntryNo(pw, t, j) = q /\ pw[s] = q
      BY <1>2, <1>3, <1>6, <1>7, <1>9, <2>2 DEF EntryNo
    <3> QED
      BY <1>9, <3>1, Zenon DEF Leads
  <2>3. CASE t # s /\ ~ (t = cur /\ j = i)
    <3>1. /\ t \in DOMAIN lv /\ lw[t] = lv[t] /\ EntryNo(pw, t, j) = EntryNo(pre, t, j)
          /\ t \in 1 .. Len(e) /\ d[t][j] = e[t][j]
      BY <1>2, <1>7, <1>9, <2>3 DEF EntryNo
    <3>2. lv[t] \in Nat /\ ~ (lv[t] = lev /\ Frames[lev] * EntryNo(pre, t, j) = n)
      BY <1>2, <1>4, <2>3, <3>1 DEF i, Sole
    <3>3. \/ e[t][j] # Absent
          \/ Frames[lv[t]] * EntryNo(pre, t, j) < n
          \/ Frames[lv[t]] * EntryNo(pre, t, j) = n /\ lv[t] > lev
      <4> DEFINE x == Frames[lv[t]] * EntryNo(pre, t, j)
      <4>1. e[t][j] # Absent \/ x < n \/ (x = n /\ lv[t] > lev - 1)
        BY <1>15, <3>1
      <4>2. lv[t] = lev => x # n
        BY <3>2
      <4> HIDE DEF x
      <4>3. e[t][j] # Absent \/ x < n \/ (x = n /\ lv[t] > lev)
        BY <3>2, <4>1, <4>2
      <4> QED
        BY <4>3 DEF x
    <3>4. Leads(e[t][j], lv, pre, lv[t] - 1, EntryNo(pre, t, j))
      <4>1. lv[t] > 0
        BY <1>15, <3>1
      <4> QED
        BY <3>1, <3>3, <4>1, Zenon DEF Growing
    <3> QED
      BY <1>9, <3>1, <3>4, Zenon DEF Leads
  <2> QED
    BY <1>6, <1>2, <2>1, <2>2, <2>3
<1>16. Growing(d, root, n, s, lev - 1, lw, pw)
  <2>1. s \in DOMAIN lw /\ lw[s] = lev - 1 /\ pw[s] = n \div Frames[lev - 1 + 1]
    BY <1>0, <1>9 DEF q
  <2> QED
    BY <1>10, <1>12, <1>13, <1>14, <1>15, <2>1, Zenon DEF Growing
<1> QED
  BY <1>16 DEF d, s, i

-----------------------------------------------------------------------------
(* A last-level table filled, and ept_create_table's next turn.            *)
Fill(e, t, g) == [e EXCEPT ![t] = [i \in Slot |-> Epte(Placed(g + i))]]

LEMMA FillIs ==
  ASSUME NEW e \in Seq(Table), NEW t \in 1 .. Len(e), NEW g \in Nat
  PROVE  /\ Fill(e, t, g) \in Seq(Table) /\ Len(Fill(e, t, g)) = Len(e)
         /\ \A u \in 1 .. Len(e) : u # t => Fill(e, t, g)[u] = e[u]
         /\ \A i \in Slot : Fill(e, t, g)[t][i] = Epte(Placed(g + i))
<1> DEFINE new == [i \in Slot |-> Epte(Placed(g + i))]
<1>1. Len(e) \in Nat /\ e \in [1 .. Len(e) -> Table]
  OBVIOUS
<1>2. new \in Table
  <2>1. ASSUME NEW i \in Slot PROVE Epte(Placed(g + i)) \in EntryType
    BY EptAssumption DEF Slot, Placed, Epte, EntryType
  <2> QED
    BY <2>1 DEF Table
<1>3. \A i \in Slot : new[i] = Epte(Placed(g + i))
  OBVIOUS
<1>4. Fill(e, t, g) = [e EXCEPT ![t] = new]
  BY DEF Fill
<1> HIDE DEF new
<1>5. [e EXCEPT ![t] = new] \in [1 .. Len(e) -> Table]
  BY <1>1, <1>2
<1>6. [e EXCEPT ![t] = new] \in Seq(Table) /\ Len([e EXCEPT ![t] = new]) = Len(e)
  BY <1>1, <1>5
<1> QED
  BY <1>1, <1>3, <1>4, <1>6

LEMMA Fills ==
  ASSUME NEW e \in Seq(Table), NEW root, NEW n \in Nat, n % EPT_EACHTABLE_ENTRIES = 0,
         NEW cur, NEW lv, NEW pre, Growing(e, root, n, cur, 0, lv, pre)
  PROVE  LET m == n + EPT_EACHTABLE_ENTRIES IN
         /\ m % EPT_EACHTABLE_ENTRIES = 0
         /\ m < LastGfn =>
              Growing(Fill(e, cur, n), root, m, root, EPT_DEFAULT_WL, lv, pre)
         /\ m >= LastGfn => Whole(Fill(e, cur, n), root)
<1> DEFINE B == EPT_EACHTABLE_ENTRIES
           WL == EPT_DEFAULT_WL
           m == n + B
           d == Fill(e, cur, n)
           p == n \div B
<1>0. B \in Nat /\ B > 0 /\ WL \in Nat /\ m \in Nat /\ n < m /\ LastGfn \in Nat
  BY EptAssumption
<1>1. /\ cur \in DOMAIN lv /\ lv[cur] = 0 /\ pre[cur] = n \div Frames[0 + 1]
      /\ DOMAIN lv \subseteq 1 .. Len(e) /\ DOMAIN pre = DOMAIN lv
      /\ \A t \in DOMAIN lv : lv[t] \in 0 .. WL /\ pre[t] \in Nat
      /\ root \in DOMAIN lv /\ lv[root] = WL /\ pre[root] = 0
  BY DEF Growing, Labelled
<1>2. pre[cur] = p
  <2>1. 0 + 1 = 1 /\ Frames[0 + 1] = B * Frames[0] /\ Frames[0] = 1
    BY <1>0, FramesAre
  <2> QED
    BY <1>0, <1>1, <2>1
<1>3. p \in Nat /\ n = B * p
  BY <1>0, DivMod
<1>4. m % B = 0
  <2>1. m = B * (p + 1) + 0
    BY <1>0, <1>3
  <2>2. p + 1 \in Nat /\ 0 \in 0 .. B - 1
    BY <1>0, <1>3
  <2> HIDE DEF p, m, B
  <2>3. PICK y \in Nat, r \in 0 .. B - 1 : y = p + 1 /\ r = 0
    BY <2>2
  <2>4. m = B * y + r
    BY <2>1, <2>3
  <2>5. m % B = r
    BY <1>0, <2>4, DivUnique
  <2> QED
    BY <2>3, <2>5
<1> HIDE DEF p
<1>5. /\ Len(d) = Len(e)
      /\ \A u \in 1 .. Len(e) : u # cur => d[u] = e[u]
      /\ \A i \in Slot : d[cur][i] = Epte(Placed(n + i))
  BY <1>1, FillIs
<1> HIDE DEF d, B, m
<1>6. Labelled(d, root, lv, pre)
  BY <1>1, <1>5 DEF Labelled
<1>7. ASSUME NEW t \in DOMAIN lv, lv[t] = 0
      PROVE  Filled(d, pre, t)
  <2>1. CASE t = cur
    <3>1. ASSUME NEW i \in Slot PROVE EntryNo(pre, t, i) = n + i
      BY <1>2, <1>3, <2>1 DEF EntryNo, B
    <3> QED
      BY <1>5, <2>1, <3>1, Zenon DEF Filled
  <2>2. CASE t # cur
    <3>1. Filled(e, pre, t)
      BY <1>7, <2>2, Zenon DEF Growing
    <3>2. d[t] = e[t]
      BY <1>1, <1>5, <2>2
    <3> QED
      BY <3>1, <3>2, Zenon DEF Filled
  <2> QED
    BY <2>1, <2>2
<1>8. ASSUME NEW t \in DOMAIN lv, NEW i \in Slot, lv[t] > 0,
             d[t][i] # Absent \/ Frames[lv[t]] * EntryNo(pre, t, i) < m
      PROVE  Leads(d[t][i], lv, pre, lv[t] - 1, EntryNo(pre, t, i))
  <2> DEFINE x == Frames[lv[t]] * EntryNo(pre, t, i)
             k == EntryNo(pre, t, i)
  <2>1. d[t] = e[t]
    <3>1. t # cur /\ t \in 1 .. Len(e)
      BY <1>1, <1>8
    <3> QED
      BY <1>5, <3>1
  <2>2. lv[t] \in Nat /\ lv[t] - 1 \in 0 .. WL /\ lv[t] - 1 + 1 = lv[t]
        /\ lv[t] - 1 \in 0 .. WL + 1
    BY <1>0, <1>1, <1>8
  <2>3. PICK f \in Nat : Frames[lv[t]] = B * f
    <3>1. Frames[lv[t] - 1 + 1] = B * Frames[lv[t] - 1]
      BY <2>2, FramesAre, Zenon DEF B
    <3>2. Frames[lv[t] - 1] \in Nat
      BY <2>2, FramesAre, Zenon
    <3> QED
      BY <2>2, <3>1, <3>2
  <2>4. k \in Nat
    BY <1>0, <1>1 DEF EntryNo, B, Slot
  <2> HIDE DEF k
  <2>5. x = B * (f * k) /\ f * k \in Nat /\ x \in Nat
    BY <1>0, <2>3, <2>4 DEF k
  <2>6. x < m => x <= n
    <3> SUFFICES ASSUME x < m, n < x PROVE FALSE
      BY <1>0, <2>5
    <3>1. PICK y \in Nat : y = f * k
      BY <2>5
    <3>2. x = B * y
      BY <2>5, <3>1
    <3>3. p < y
      <4> SUFFICES ASSUME y <= p PROVE FALSE
        BY <1>3
      <4>1. B * y <= B * p
        BY <1>0, <1>3, MulMono
      <4> QED
        BY <1>3, <2>5, <3>2, <4>1
    <3>4. B * p + B <= B * y
      BY <1>0, <1>3, <3>3, MulStrict
    <3> QED
      BY <1>0, <1>3, <2>5, <3>2, <3>4 DEF m
  <2>7. e[t][i] # Absent \/ x < n \/ (x = n /\ lv[t] > 0)
    <3>1. e[t][i] # Absent \/ x < m
      BY <1>8, <2>1
    <3> HIDE DEF x
    <3> QED
      BY <1>8, <2>5, <2>6, <3>1
  <2>8. Leads(e[t][i], lv, pre, lv[t] - 1, EntryNo(pre, t, i))
    BY <1>8, <2>7, Zenon DEF Growing
  <2> QED
    BY <2>1, <2>8
<1>9. ASSUME m < LastGfn
      PROVE  Growing(d, root, m, root, WL, lv, pre)
  <2>1. pre[root] = m \div Frames[WL + 1]
    <3>1. WL + 1 \in 0 .. WL + 1
      BY <1>0
    <3>2. Frames[WL + 1] \in Nat /\ Frames[WL + 1] > 0
      BY <3>1, FramesAre, Zenon
    <3>3. m < Frames[WL + 1]
      BY <1>0, <1>9, <3>2, EptAssumption
    <3>4. m = Frames[WL + 1] * 0 + m /\ m \in 0 .. Frames[WL + 1] - 1 /\ 0 \in Nat
      BY <1>0, <3>2, <3>3
    <3>5. PICK f \in Nat : f = Frames[WL + 1]
      BY <3>2
    <3>6. m \div f = 0
      BY <1>0, <3>2, <3>4, <3>5, DivUnique
    <3> QED
      BY <1>1, <3>5, <3>6
  <2>2. ASSUME NEW t \in DOMAIN lv
        PROVE  Frames[lv[t] + 1] * pre[t] < m
    <3> DEFINE x == Frames[lv[t] + 1] * pre[t]
    <3>1. x < n \/ x = n
      BY Zenon DEF Growing
    <3>2. x \in Nat
      <4>1. lv[t] + 1 \in 0 .. WL + 1 /\ pre[t] \in Nat
        BY <1>0, <1>1
      <4>2. Frames[lv[t] + 1] \in Nat
        BY <4>1, FramesAre, Zenon
      <4> QED
        BY <4>1, <4>2
    <3> HIDE DEF x
    <3>3. x < m
      BY <1>0, <3>1, <3>2
    <3> QED
      BY <3>3 DEF x
  <2>3. ASSUME NEW t \in DOMAIN lv PROVE ~ (lv[t] > WL)
    BY <1>0, <1>1
  <2>4. \A t, u \in DOMAIN lv : lv[t] = lv[u] /\ pre[t] = pre[u] => t = u
    BY Zenon DEF Growing
  <2> QED
    BY <1>1, <1>6, <1>7, <1>8, <2>1, <2>2, <2>3, <2>4, Zenon DEF Growing
<1>10. ASSUME m >= LastGfn
       PROVE  Whole(d, root)
  <2>1. LastGfn < m
    BY <1>0, <1>4, <1>10, EptAssumption DEF B
  <2>2. ASSUME NEW t \in DOMAIN lv, NEW i \in Slot, lv[t] > 0,
               Frames[lv[t]] * EntryNo(pre, t, i) <= LastGfn
        PROVE  Leads(d[t][i], lv, pre, lv[t] - 1, EntryNo(pre, t, i))
    <3> DEFINE x == Frames[lv[t]] * EntryNo(pre, t, i)
    <3>1. x \in Nat
      <4>1. lv[t] \in 0 .. WL + 1 /\ EntryNo(pre, t, i) \in Nat
        BY <1>0, <1>1 DEF EntryNo, B, Slot
      <4>2. Frames[lv[t]] \in Nat
        BY <4>1, FramesAre, Zenon
      <4> QED
        BY <4>1, <4>2
    <3>2. x <= LastGfn
      BY <2>2
    <3> HIDE DEF x
    <3>3. x < m
      BY <1>0, <2>1, <3>1, <3>2
    <3> QED
      BY <1>8, <2>2, <3>3 DEF x
  <2> QED
    BY <1>6, <1>7, <2>2, Zenon DEF Whole
<1> QED
  BY <1>4, <1>9, <1>10 DEF B, m, d

-----------------------------------------------------------------------------
(* While the table is built it grows towards the last frame; from the VMCS *)
(* being set up to the guest's last exit the tree it names is whole.       *)
Guesting == {"call", "vmentry", "guest", "vmexit", "returned", "exit_reason"}

EptInv ==
  /\ ept \in Seq(Table)
  /\ pc = "ept_update" =>
       /\ gfn \in Nat /\ gfn % EPT_EACHTABLE_ENTRIES = 0 /\ level \in 0 .. EPT_DEFAULT_WL
       /\ \E lv, pre : Growing(ept, asr, gfn, pt, level, lv, pre)
  /\ pc = "vmcs_setup" => Whole(ept, asr)
  /\ pc \in Guesting => Whole(ept, vmcs.eptp)

LEMMA RootAllocated ==
  ASSUME NEW e \in Seq(Table)
  PROVE  /\ Append(e, NewTable) \in Seq(Table)
         /\ \E lv, pre : Growing(Append(e, NewTable), Len(e) + 1, 0, Len(e) + 1,
                                 EPT_DEFAULT_WL, lv, pre)
<1> DEFINE s == Len(e) + 1
           d == Append(e, NewTable)
           WL == EPT_DEFAULT_WL
           lv == [t \in {s} |-> WL]
           pre == [t \in {s} |-> 0]
<1>0. WL \in Nat /\ Len(e) \in Nat /\ NewTable \in Table
  BY EptAssumption DEF NewTable, Table, Absent, EntryType
<1>1. d \in Seq(Table) /\ Len(d) = s /\ d[s] = NewTable
  BY <1>0, AppendProperties
<1>2. DOMAIN lv = {s} /\ DOMAIN pre = {s} /\ lv[s] = WL /\ pre[s] = 0
  OBVIOUS
<1>3. s \in 1 .. s
  BY <1>0
<1> HIDE DEF s, d, lv, pre
<1>4. Labelled(d, s, lv, pre)
  BY <1>0, <1>1, <1>2, <1>3 DEF Labelled
<1>5. Frames[WL + 1] \in Nat /\ Frames[WL + 1] > 0 /\ Frames[WL] \in Nat
  <2>1. WL + 1 \in 0 .. WL + 1 /\ WL \in 0 .. WL + 1
    BY <1>0
  <2> QED
    BY <2>1, FramesAre, Zenon
<1>6. pre[s] = 0 \div Frames[WL + 1] /\ Frames[WL + 1] * 0 = 0
  <2>1. PICK f \in Nat : f = Frames[WL + 1]
    BY <1>5
  <2>2. 0 \div f = 0 /\ f * 0 = 0
    BY <1>5, <2>1
  <2> QED
    BY <1>2, <2>1, <2>2
<1>7. ASSUME NEW i \in Slot
      PROVE  d[s][i] = Absent /\ ~ (Frames[WL] * EntryNo(pre, s, i) < 0)
  <2>1. EntryNo(pre, s, i) \in Nat
    BY <1>2, EptAssumption DEF EntryNo, Slot
  <2>2. Frames[WL] * EntryNo(pre, s, i) \in Nat
    BY <1>5, <2>1
  <2> QED
    BY <1>1, <2>2 DEF NewTable
<1>8. ~ (WL > WL) /\ WL >= WL
  BY <1>0
<1>9. \A t \in DOMAIN lv : t = s
  BY <1>2
<1>10. \A t, u \in DOMAIN lv : lv[t] = lv[u] /\ pre[t] = pre[u] => t = u
  BY <1>9, Zenon
<1>11. \A t \in DOMAIN lv :
         \/ Frames[lv[t] + 1] * pre[t] < 0
         \/ Frames[lv[t] + 1] * pre[t] = 0 /\ lv[t] >= WL
  BY <1>2, <1>6, <1>8, <1>9, Zenon
<1>12. \A t \in DOMAIN lv : ~ (lv[t] = 0 /\ ~ (t = s /\ WL = 0))
  BY <1>2, <1>9, Zenon
<1>13. \A t \in DOMAIN lv, i \in Slot :
         ~ (\/ d[t][i] # Absent
            \/ Frames[lv[t]] * EntryNo(pre, t, i) < 0
            \/ Frames[lv[t]] * EntryNo(pre, t, i) = 0 /\ lv[t] > WL)
  BY <1>2, <1>7, <1>8, <1>9, Zenon
<1>14. Growing(d, s, 0, s, WL, lv, pre)
  <2>1. s \in DOMAIN lv
    BY <1>2
  <2> QED
    BY <1>2, <1>4, <1>6, <1>10, <1>11, <1>12, <1>13, <2>1, Zenon DEF Growing
<1> QED
  BY <1>1, <1>14 DEF d, s

(* The steps of vt_ept.c.                                                  *)
LEMMA EptStepKeeps ==
  ASSUME TrapIInv, EptInv, vt_ept
  PROVE  EptInv'
<1> USE EptAssumption
<1>0. ept \in Seq(Table) /\ vmcs' = vmcs
  BY DEF EptInv, vt_ept
<1>1. CASE ept_setup
  <2>1. CASE nfree = 0
    <3>1. pc' = "panic" /\ ept' = ept
      BY <1>1, <2>1 DEF ept_setup, eptVars
    <3> QED
      BY <1>0, <3>1 DEF EptInv, Guesting
  <2>2. CASE nfree # 0
    <3>1. /\ pc' = "ept_update" /\ ept' = Append(ept, NewTable) /\ asr' = Len(ept) + 1
          /\ pt' = Len(ept) + 1 /\ gfn' = 0 /\ level' = EPT_DEFAULT_WL
      BY <1>1, <2>2 DEF ept_setup
    <3>2. /\ ept' \in Seq(Table)
          /\ \E lv, pre : Growing(ept', asr', gfn', pt', level', lv, pre)
      BY <1>0, <3>1, RootAllocated
    <3>3. gfn' \in Nat /\ gfn' % EPT_EACHTABLE_ENTRIES = 0 /\ level' \in 0 .. EPT_DEFAULT_WL
      BY <3>1
    <3> QED
      BY <3>1, <3>2, <3>3 DEF EptInv, Guesting
  <2> QED
    BY <2>1, <2>2
<1>2. CASE ept_not_implemented
  <2>1. pc' = "panic" /\ ept' = ept
    BY <1>2 DEF ept_not_implemented, eptVars
  <2> QED
    BY <1>0, <2>1 DEF EptInv, Guesting
<1>3. CASE ept_descend \/ ept_new_table \/ ept_last_level
  <2>0. pc = "ept_update"
    BY <1>3 DEF ept_descend, ept_new_table, ept_last_level
  <2>1. gfn \in Nat /\ gfn % EPT_EACHTABLE_ENTRIES = 0 /\ level \in 0 .. EPT_DEFAULT_WL
    BY <2>0 DEF EptInv
  <2>2. PICK lv, pre : Growing(ept, asr, gfn, pt, level, lv, pre)
    BY <2>0 DEF EptInv
  <2>3. offset(gfn, level) = Index(gfn, level) /\ Index(gfn, level) \in Slot
    BY <2>1, Entries
  <2>4. CASE ept_descend
    <3>1. /\ level \in 1 .. EPT_DEFAULT_WL /\ ept[pt][Index(gfn, level)] # Absent
          /\ pt' = ept[pt][Index(gfn, level)].mfn /\ level' = level - 1
          /\ UNCHANGED <<ept, asr, gfn, pc>>
      BY <2>1, <2>3, <2>4 DEF ept_descend, Entry
    <3>2. Growing(ept, asr, gfn, ept[pt][Index(gfn, level)].mfn, level - 1, lv, pre)
      BY <2>1, <2>2, <3>1, Descends
    <3>3. Growing(ept', asr', gfn', pt', level', lv, pre)
      BY <3>1, <3>2
    <3>4. level' \in 0 .. EPT_DEFAULT_WL
      BY <3>1
    <3> QED
      BY <1>0, <2>0, <2>1, <3>1, <3>3, <3>4 DEF EptInv, Guesting
  <2>5. CASE ept_new_table
    <3>1. /\ level \in 1 .. EPT_DEFAULT_WL /\ ept[pt][Index(gfn, level)] = Absent
          /\ ept' = Grown(ept, pt, Index(gfn, level)) /\ pt' = Len(ept) + 1
          /\ level' = level - 1
          /\ UNCHANGED <<asr, gfn, pc>>
      BY <2>1, <2>3, <2>5 DEF ept_new_table, Entry, Grown
    <3>2. \E lw, pw : Growing(Grown(ept, pt, Index(gfn, level)), asr, gfn, Len(ept) + 1,
                              level - 1, lw, pw)
      BY <1>0, <2>1, <2>2, <3>1, Grows
    <3>3. \E lw, pw : Growing(ept', asr', gfn', pt', level', lw, pw)
      BY <3>1, <3>2
    <3>4. level' \in 0 .. EPT_DEFAULT_WL
      BY <3>1
    <3>5. ept' \in Seq(Table)
      <4>1. pt \in 1 .. Len(ept)
        BY <2>2 DEF Growing, Labelled
      <4> QED
        BY <1>0, <2>3, <3>1, <4>1, GrownIs
    <3> QED
      BY <2>0, <2>1, <3>1, <3>3, <3>4, <3>5 DEF EptInv, Guesting
  <2>6. CASE ept_last_level
    <3> DEFINE m == gfn + EPT_EACHTABLE_ENTRIES
    <3>1. /\ level = 0 /\ ept' = Fill(ept, pt, gfn) /\ gfn' = m
          /\ level' = EPT_DEFAULT_WL /\ pt' = asr /\ asr' = asr
          /\ pc' = IF m < LastGfn THEN "ept_update" ELSE "vmcs_setup"
      BY <2>6 DEF ept_last_level, ept_fill, Fill
    <3>2. Growing(ept, asr, gfn, pt, 0, lv, pre)
      BY <2>2, <3>1
    <3>3. /\ m % EPT_EACHTABLE_ENTRIES = 0
          /\ m < LastGfn => Growing(Fill(ept, pt, gfn), asr, m, asr, EPT_DEFAULT_WL, lv, pre)
          /\ m >= LastGfn => Whole(Fill(ept, pt, gfn), asr)
      BY <1>0, <2>1, <3>2, Fills
    <3>4. ept' \in Seq(Table)
      <4>1. pt \in 1 .. Len(ept)
        BY <2>2 DEF Growing, Labelled
      <4> QED
        BY <1>0, <2>1, <3>1, <4>1, FillIs
    <3>5. m \in Nat /\ EPT_DEFAULT_WL \in 0 .. EPT_DEFAULT_WL
      BY <2>1
    <3>6. CASE m < LastGfn
      <4>1. Growing(ept', asr', gfn', pt', level', lv, pre) /\ pc' = "ept_update"
        BY <3>1, <3>3, <3>6
      <4>2. /\ gfn' \in Nat /\ gfn' % EPT_EACHTABLE_ENTRIES = 0
            /\ level' \in 0 .. EPT_DEFAULT_WL
        BY <3>1, <3>3, <3>5
      <4> QED
        BY <3>4, <4>1, <4>2 DEF EptInv, Guesting
    <3>7. CASE m >= LastGfn
      <4>1. Whole(ept', asr') /\ pc' = "vmcs_setup"
        BY <3>1, <3>3, <3>5, <3>7
      <4> QED
        BY <3>4, <4>1 DEF EptInv, Guesting
    <3> QED
      BY <3>5, <3>6, <3>7
  <2> QED
    BY <1>3, <2>4, <2>5, <2>6
<1> QED
  BY <1>1, <1>2, <1>3 DEF vt_ept, EptStep

(* All others leave the tables alone, and go on with the tree they have.   *)
LEMMA TreeKept ==
  ASSUME EptInv, ept' = ept, pc' # "ept_update", pc' # "vmcs_setup",
         pc' \in Guesting => \/ pc \in Guesting /\ vmcs'.eptp = vmcs.eptp
                             \/ pc = "vmcs_setup" /\ vmcs'.eptp = asr
  PROVE  EptInv'
BY DEF EptInv

LEMMA VmxStepKeeps ==
  ASSUME TrapIInv, EptInv, MatrixStep, ~ vt_ept
  PROVE  EptInv'
<1>0. /\ DOMAIN vmcs = VmcsFields /\ "eptp" \in VmcsFields
      /\ pc \in PCs
  BY DEF TrapIInv, TrapTypeOK, VmcsFields
<1>1. CASE not_implemented \/ has_vmx \/ vmx_on \/ mon_matrix \/ asm_failed \/ vt_entry_failed
           \/ vt_fatal \/ vt_stop \/ vt_main_end
  <2>1. ept' = ept /\ pc' \in {"panic", "monitor", "has_vmx", "vmx_on", "ept_setup",
                               "vmxon_fault", "failed", "stopped"}
    BY <1>1 DEF not_implemented, has_vmx, vmx_on, mon_matrix, asm_failed, asm_return,
                vt_entry_failed, vt_fatal, vt_stop, vt_main_end, eptVars
  <2> QED
    BY <2>1, TreeKept DEF Guesting
<1>2. CASE vmcs_setup
  <2>1. ept' = ept /\ pc = "vmcs_setup" /\ pc' = "call" /\ vmcs'.eptp = asr
    BY <1>0, <1>2 DEF vmcs_setup, eptVars, set_vmcs_ctl, set_vmcs_host_state,
                      set_vmcs_guest_state
  <2> QED
    BY <2>1, TreeKept DEF Guesting
<1>3. CASE asm_regs \/ asm_vmexit \/ vt_returned \/ do_cpuid \/ vm_entry \/ guest_run \/ vm_exit
  <2>1. ept' = ept /\ pc \in Guesting /\ pc' # "ept_update" /\ pc' # "vmcs_setup"
    BY <1>3 DEF asm_regs, asm_vmexit, asm_return, vt_returned, do_cpuid, vm_entry, guest_run,
                vm_exit, exit_to_host, eptVars, Guesting
  <2>2. vmcs'.eptp = vmcs.eptp
    <3>1. CASE asm_regs
      BY <1>0, <3>1 DEF asm_regs
    <3>2. CASE asm_vmexit \/ vt_returned
      BY <3>2 DEF asm_vmexit, asm_return, vt_returned
    <3>3. CASE do_cpuid
      BY <1>0, <3>3 DEF do_cpuid, add_ip
    <3>4. CASE vm_entry
      BY <1>0, <3>4 DEF vm_entry
    <3>5. CASE guest_run
      BY <1>0, <3>5 DEF guest_run
    <3>6. CASE vm_exit
      BY <1>0, <3>6 DEF vm_exit
    <3> QED
      BY <1>3, <3>1, <3>2, <3>3, <3>4, <3>5, <3>6
  <2> QED
    BY <2>1, <2>2, TreeKept
<1> QED
  BY <1>1, <1>2, <1>3 DEF MatrixStep, KernelStep

LEMMA TrapStepKeeps ==
  ASSUME TrapIInv, EptInv, TrapStep
  PROVE  EptInv'
<1>1. CASE _alltraps_return
  <2>1. /\ ept' = ept /\ pc = "trap returned"
    BY <1>1 DEF _alltraps_return, eptVars
  <2>2. pc' \in Top
    <3> DEFINE i == raised[Len(raised)]
    <3>1. pc' = i.pc
      BY <1>1, ReturnEffect
    <3>2. raised # <<>> /\ i.vector = T_BRKPT /\ raised \in Seq(Interrupted)
      BY <2>1 DEF TrapIInv, TrapInProgress, TrapTypeOK
    <3>3. Len(raised) \in 1 .. Len(raised)
      BY <3>2
    <3> QED
      BY <3>1, <3>2, <3>3 DEF TrapIInv, BreakpointsNested
  <2> QED
    BY <2>1, <2>2, TreeKept DEF Top, Guesting
<1>2. CASE breakpoint \/ fault \/ vmxon_fault \/ _alltraps \/ trap \/ panic_monitor \/ mon_exit
  <2>1. ept' = ept /\ pc' \in {"_alltraps", "trap", "monitor", "panic", "trap returned"}
    BY <1>2 DEF breakpoint, fault, vmxon_fault, raise, _alltraps, trap, panic_monitor, panic,
                mon_exit, eptVars
  <2> QED
    BY <2>1, TreeKept DEF Guesting
<1> QED
  BY <1>1, <1>2 DEF TrapStep

(* Whenever the guest runs, every frame of its memory is mapped to where   *)
(* the picture in ept_update_identity_table puts it: for any number of     *)
(* levels and of entries per table, any size of JOS memory and any number  *)
(* of runs, each with a table of its own.                                  *)
THEOREM GuestMemoryComplete == Spec => []GuestMemoryMapped
<1>1. Init => EptInv
  <2> SUFFICES ASSUME Init PROVE EptInv
    OBVIOUS
  <2>1. ept = <<>> /\ pc = "has_vmx"
    BY DEF Init, MatrixInit
  <2> QED
    BY <2>1 DEF EptInv, Guesting
<1>2. TrapIInv /\ EptInv /\ [Next]_vars => EptInv'
  <2> SUFFICES ASSUME TrapIInv, EptInv, [Next]_vars PROVE EptInv'
    OBVIOUS
  <2>1. CASE MatrixStep
    BY <2>1, EptStepKeeps, VmxStepKeeps
  <2>2. CASE TrapStep
    BY <2>2, TrapStepKeeps
  <2>3. CASE UNCHANGED vars
    BY <2>3 DEF EptInv, vars, matrixVars, eptVars
  <2> QED
    BY <2>1, <2>2, <2>3 DEF Next
<1>3. EptInv => GuestMemoryMapped
  <2> SUFFICES ASSUME EptInv, pc = "guest", NEW g \in 0 .. LastGfn
               PROVE  Walk(vmcs.eptp, g) = Epte(Placed(g))
    BY DEF GuestMemoryMapped
  <2>1. ept \in Seq(Table) /\ Whole(ept, vmcs.eptp)
    BY DEF EptInv, Guesting
  <2> QED
    BY <2>1, WholeWalk
<1> QED
  BY <1>1, <1>2, <1>3, TrapInvariant, PTL DEF Spec
=============================================================================

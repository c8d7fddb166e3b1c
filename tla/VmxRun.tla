-------------------------------- MODULE VmxRun --------------------------------
(***************************************************************************)
(* The command "matrix": vt_main of hvm/vt.c, from vt_init through the     *)
(* launch, exit and resume loop, with the assembly of hvm/asm_vmop.S that  *)
(* carries the general registers between kernel and guest, the kernel's    *)
(* stack as its words, and the screen both write to.  The guest and the    *)
(* processor's entries and exits are external.                             *)
(*                                                                         *)
(* has_vmx, vmx_on, set_vmcs_ctl and vmcs_setup hold exercises that panic  *)
(* as committed; here they do what their comments ask, or panic.           *)
(***************************************************************************)
EXTENDS Ept

CONSTANTS
  Leaf, Leaf1,      \* values the guest gives to CPUID; CPUID_1 is one of them
  Files,            \* contents the guest gives to its other registers
  VmxBit,           \* CPUID_1_ECX_VMX_BIT
  RipMod,           \* number of instruction addresses
  Lengths,          \* lengths a CPUID instruction can have, prefixes included
  Rows,             \* rows of the screen
  MaxRuns           \* bound: "matrix" commands

VARIABLES
  msr,        \* MSR_IA32_FEATURE_CONTROL
  reg,        \* the processor's general registers and CR2
  sys,        \* its control registers, and whose segments and tables it uses
  stack,      \* the words on the kernel stack
  vr,         \* the guest's registers while the kernel runs
  vmcs,
  call,       \* which of the two assembly functions runs
  crt_pos, cursor,  \* row the kernel writes to next, row the 6845 shows
  panicstr,
  runs,
  caller,     \* history: what the last call of the assembly found
  guest,      \* history: the guest's registers as its own code left them
  left        \* history: the row of the cursor when the guest last ran

hostVars   == <<msr, sys, stack>>
screenVars == <<crt_pos, cursor, panicstr>>
history    == <<runs, caller, guest, left>>
matrixVars == <<eptVars, nfree, pc, msr, reg, sys, stack, vr, vmcs, call, crt_pos,
                cursor, panicstr, runs, caller, guest, left>>

(* struct vt_vmentry_regs; the registers C functions preserve; the words   *)
(* of the kernel stack and of its registers, apart from the guest's.       *)
Callee == {"ebp", "ebx", "esi", "edi"}
Saved  == Callee \cup {"eax", "ecx", "edx", "cr2"}
VR     == -1
Return == -2
Frame  == -3
DEADBEEF == -4
Number == [eax |-> 0, ecx |-> 1, edx |-> 2, ebx |-> 3, cr2 |-> 4, ebp |-> 5, esi |-> 6, edi |-> 7]
KernelReg == [r \in Saved |-> -10 - Number[r]]

(* Registers of a guest: no two alike, so that none can pass for another.  *)
GuestReg(leaf, n) == [r \in Saved |-> IF r = "eax" THEN leaf ELSE 10 * n + Number[r]]

(* The control register bits VMX needs set, and those it allows.           *)
Fixed0   == {"PG", "NE"}
Fixed1   == {"PG", "NE", "VMXE"}
GuestSys == [cr |-> {"NE", "VMXE"}, seg |-> "guest"]

(* What the processor's CPUID instruction gives for a leaf (external).     *)
Cpuid(leaf) ==
  IF leaf = Leaf1 THEN [eax |-> 0, ebx |-> 1, ecx |-> VmxBit + 1, edx |-> 0]
                  ELSE [eax |-> 1, ebx |-> 0, ecx |-> 0, edx |-> 1]

ASSUME VmxAssumption ==
  /\ Leaf \subseteq Nat /\ Leaf1 \in Leaf /\ Files \subseteq Nat
  /\ VmxBit \in Nat \ {0, 1} /\ RipMod \in Nat \ {0} /\ Lengths \subseteq Nat
  /\ Rows \in Nat \ {0} /\ MaxRuns \in Nat

MatrixInit ==
  /\ ept = <<>> /\ asr = 0 /\ gfn = 0 /\ level = 0 /\ pt = 0
  /\ nfree \in FreePages
  /\ pc = "has_vmx"
  /\ msr \in SUBSET {"LOCK", "VMXON"}
  /\ reg = KernelReg
  /\ sys = [cr |-> {"PG", "TS"}, seg |-> "kernel"]
  /\ stack = <<>>
  /\ vr = [r \in Saved |-> 0]
  /\ vmcs = [launched |-> FALSE, eptp |-> 0, host |-> sys, host_rsp |-> DEADBEEF,
             host_rip |-> "none", rip |-> 0, len |-> 0, reason |-> "none"]
  /\ call = "launch"
  /\ crt_pos = 0 /\ cursor = 0 /\ panicstr = FALSE
  /\ runs = 0
  /\ caller = [reg |-> [r \in Callee |-> KernelReg[r]], stack |-> <<>>, sys |-> sys]
  /\ guest = [reg |-> vr, rip |-> 0] /\ left = 0

-----------------------------------------------------------------------------
(* Text printed by cprintf: one row for what a function prints.            *)
next_row(p) == IF p = Rows - 1 THEN p ELSE p + 1
println == crt_pos' = next_row(crt_pos) /\ cursor' = crt_pos'

(* _panic: a message the first time, and a monitor that is never left, on  *)
(* top of whatever is on the stack.                                        *)
panic ==
  /\ pc = "panic" /\ pc' = "monitor"
  /\ panicstr' = TRUE
  /\ IF panicstr THEN UNCHANGED <<crt_pos, cursor>> ELSE println
  /\ left' = 0
  /\ UNCHANGED <<eptVars, nfree, hostVars, reg, vr, vmcs, call, runs, caller, guest>>

(* Exercises 1 and 4 panic as committed.                                   *)
not_implemented ==
  /\ pc \in {"has_vmx", "vmcs_setup"} /\ pc' = "panic"
  /\ UNCHANGED <<eptVars, nfree, hostVars, reg, vr, vmcs, call, screenVars, history>>

(* has_vmx at boot: one turn of msr_enable_loop.  i386_init ignores its    *)
(* result, also when the firmware has locked VMXON off.                    *)
has_vmx ==
  /\ pc = "has_vmx"
  /\ IF "LOCK" \in msr THEN pc' = "monitor" /\ UNCHANGED msr
     ELSE msr' = msr \cup {"LOCK", "VMXON"} /\ UNCHANGED pc
  /\ println
  /\ UNCHANGED <<eptVars, nfree, sys, stack, reg, vr, vmcs, call, panicstr, history>>

(* The monitor prints its prompt, reads "matrix" and runs it.              *)
mon_matrix ==
  /\ pc = "monitor" /\ runs < MaxRuns
  /\ runs' = runs + 1
  /\ stack' = Append(stack, Frame)
  /\ println
  /\ pc' = "vmx_on"
  /\ UNCHANGED <<eptVars, nfree, msr, sys, reg, vr, vmcs, call, panicstr, caller, guest, left>>

(* vmx_on: the fixed bits, and then the panic as committed, or exercise 2: *)
(* VMXE, a page for the VMXON region, and vmxon, which faults unless the   *)
(* feature MSR allows it (module Trap goes on from there).                 *)
vmx_on ==
  /\ pc = "vmx_on"
  /\ LET fixed == (sys.cr \cap Fixed1) \cup Fixed0 IN
     \/ /\ sys' = [sys EXCEPT !.cr = fixed]
        /\ pc' = "panic" /\ UNCHANGED nfree
     \/ /\ sys' = [sys EXCEPT !.cr = fixed \cup {"VMXE"}]
        /\ IF nfree = 0 THEN pc' = "panic" /\ UNCHANGED nfree
           ELSE /\ nfree' = nfree - 1
                /\ pc' = IF msr = {"LOCK", "VMXON"} THEN "ept_setup" ELSE "vmxon_fault"
  /\ UNCHANGED <<eptVars, msr, stack, reg, vr, vmcs, call, screenVars, history>>

(* ept_setup, hvm/vt_ept.c.                                                *)
vt_ept ==
  /\ EptStep
  /\ UNCHANGED <<hostVars, reg, vr, vmcs, call, screenVars, history>>

(* The fields written by set_vmcs_ctl (of the controls, the EPT pointer),  *)
(* set_vmcs_host_state (the registers vt_get_current_regs_host reads) and  *)
(* set_vmcs_guest_state (the guest starts at 0x7c00).                      *)
set_vmcs_ctl(v) == [v EXCEPT !.eptp = asr]
vt_get_current_regs_host == sys
set_vmcs_host_state(v) ==
  [v EXCEPT !.host = vt_get_current_regs_host, !.host_rsp = DEADBEEF, !.host_rip = "none"]
set_vmcs_guest_state(v) == [v EXCEPT !.rip = 0]

(* Seeded fault: the VMCS is not cleared first.                            *)
vmcs_setup_unclear ==
  /\ pc = "vmcs_setup" /\ nfree > 0 /\ nfree' = nfree - 1
  /\ vmcs' = set_vmcs_guest_state(set_vmcs_host_state(set_vmcs_ctl(vmcs)))
  /\ guest' = [reg |-> vr, rip |-> 0]
  /\ println
  /\ call' = "launch" /\ pc' = "call"
  /\ UNCHANGED <<eptVars, hostVars, reg, vr, panicstr, runs, caller, left>>

(* vmcs_setup: exercise 4 (a page, vmclear, vmptrld), then the fields;     *)
(* back in vt_main, "Start VM...".  vr keeps what an earlier guest left in *)
(* it.                                                                     *)
vmcs_setup ==
  /\ pc = "vmcs_setup" /\ nfree > 0 /\ nfree' = nfree - 1
  /\ LET cleared == [vmcs EXCEPT !.launched = FALSE] IN
     vmcs' = set_vmcs_guest_state(set_vmcs_host_state(set_vmcs_ctl(cleared)))
  /\ guest' = [reg |-> vr, rip |-> 0]
  /\ println
  /\ call' = "launch" /\ pc' = "call"
  /\ UNCHANGED <<eptVars, hostVars, reg, vr, panicstr, runs, caller, left>>

-----------------------------------------------------------------------------
(* The word n words below the top of stack s.                              *)
At(s, n) == s[Len(s) - n]
(* vr through a pointer; anything may be behind another one.               *)
Load(ptr) == IF ptr = VR THEN vr ELSE [r \in Saved |-> DEADBEEF]

(* Seeded fault: esi and edi are pushed in the other order.                *)
asm_regs_swapped ==
  /\ pc = "call" /\ pc' = "vmentry"
  /\ LET pushed == stack \o <<VR, Return, reg["ebp"], reg["ebx"], reg["edi"], reg["esi"]>>
         edi    == At(pushed, 5)
     IN  /\ stack' = Append(pushed, edi)
         /\ vmcs' = [vmcs EXCEPT !.host_rsp = Len(stack'), !.host_rip = call]
         /\ reg' = Load(edi)
  /\ caller' = [reg |-> [r \in Callee |-> reg[r]], stack |-> stack, sys |-> sys]
  /\ UNCHANGED <<eptVars, nfree, msr, sys, vr, call, screenVars, runs, guest, left>>

(* vt_vmlaunch or vt_vmresume calls asm_vm..._regs_32 with &vr: up to the  *)
(* vmlaunch or vmresume instruction.                                       *)
asm_regs ==
  /\ pc = "call" /\ pc' = "vmentry"
  /\ LET pushed == stack \o <<VR, Return, reg["ebp"], reg["ebx"], reg["esi"], reg["edi"]>>
         edi    == At(pushed, 5)
     IN  /\ stack' = Append(pushed, edi)
         /\ vmcs' = [vmcs EXCEPT !.host_rsp = Len(stack'), !.host_rip = call]
         /\ reg' = Load(edi)
  /\ caller' = [reg |-> [r \in Callee |-> reg[r]], stack |-> stack, sys |-> sys]
  /\ UNCHANGED <<eptVars, nfree, msr, sys, vr, call, screenVars, runs, guest, left>>

(* From label 2 on with stack s: the pops, ret, and the caller dropping    *)
(* the argument.                                                           *)
asm_return(s, eax, ecx, edx) ==
  /\ reg' = [reg EXCEPT !["edi"] = At(s, 0), !["esi"] = At(s, 1), !["ebx"] = At(s, 2),
                        !["ebp"] = At(s, 3), !["eax"] = eax, !["ecx"] = ecx, !["edx"] = edx]
  /\ stack' = SubSeq(s, 1, Len(s) - 6)
  /\ UNCHANGED <<eptVars, nfree, msr, sys, vmcs, call, screenVars, history>>

(* The instruction failed and execution goes on behind it; vt_first_run or *)
(* vt_run sees the status.                                                 *)
asm_failed ==
  /\ pc = "vmfail" /\ pc' = "failed"
  /\ asm_return(SubSeq(stack, 1, Len(stack) - 1), DEADBEEF, 0, 0)
  /\ UNCHANGED vr

vt_entry_failed ==
  /\ pc = "failed" /\ pc' = "panic"
  /\ UNCHANGED <<eptVars, nfree, hostVars, reg, vr, vmcs, call, screenVars, history>>

(* Seeded fault: the exchange with the stack is forgotten, so edi is not   *)
(* the guest's when it is saved.                                           *)
asm_vmexit_edi ==
  /\ pc = "vmexit" /\ pc' = "returned"
  /\ vr' = IF At(stack, 0) = VR THEN [reg EXCEPT !["edi"] = At(stack, 0)] ELSE vr
  /\ asm_return(SubSeq(stack, 1, Len(stack) - 1), 0, reg["ecx"], reg["edx"])

(* Label 1, where a VM exit arrives: the guest's registers go to *vr, its  *)
(* edi by way of the stack.                                                *)
asm_vmexit ==
  /\ pc = "vmexit" /\ pc' = "returned"
  /\ vr' = IF At(stack, 0) = VR THEN reg ELSE vr
  /\ asm_return(SubSeq(stack, 1, Len(stack) - 1), 0, reg["ecx"], reg["edx"])

-----------------------------------------------------------------------------
(* Seeded fault: the message is printed in the loop, for every exit.       *)
vt_returned_chatty ==
  /\ pc = "returned" /\ pc' = "exit_reason"
  /\ println
  /\ UNCHANGED <<eptVars, nfree, hostVars, reg, vr, vmcs, call, panicstr, history>>

(* vt_main after vt_first_run or vt_run returns: "VM launch Success" goes  *)
(* where the kernel printed last, whatever the guest has done to the       *)
(* screen, and takes the cursor with it.                                   *)
vt_returned ==
  /\ pc = "returned" /\ pc' = "exit_reason"
  /\ IF call = "launch" THEN println ELSE UNCHANGED <<crt_pos, cursor>>
  /\ UNCHANGED <<eptVars, nfree, hostVars, reg, vr, vmcs, call, panicstr, history>>

(* do_cpuid's "remove vmx support in Matrix".                              *)
hide_vmx(leaf, out) ==
  IF leaf = Leaf1 THEN [out EXCEPT !.ecx = @ - VmxBit * ((@ \div VmxBit) % 2)] ELSE out

(* vt_write_general_reg for the four registers CPUID writes.               *)
vt_write_general_reg(out) ==
  [vr EXCEPT !["eax"] = out.eax, !["ebx"] = out.ebx, !["ecx"] = out.ecx, !["edx"] = out.edx]

add_ip == [vmcs EXCEPT !.rip = (@ + vmcs.len) % RipMod]

(* vt_exit_reason: do_cpuid, and then vt_run.  Exercise 5's branch for the *)
(* leaf 0xFeedCafe is empty as committed, so that leaf, too, gets the      *)
(* processor's answer.                                                     *)
do_cpuid ==
  /\ pc = "exit_reason" /\ vmcs.reason = "cpuid"
  /\ vr' = vt_write_general_reg(hide_vmx(vr["eax"], Cpuid(vr["eax"])))
  /\ vmcs' = add_ip
  /\ call' = "resume" /\ pc' = "call"
  /\ UNCHANGED <<eptVars, nfree, hostVars, reg, screenVars, history>>

(* vt_exit_reason: everything that panics; do_ept_violation and            *)
(* do_ept_misconfig print what happened first.                             *)
vt_fatal ==
  /\ pc = "exit_reason" /\ vmcs.reason \in {"entry_failure", "ept", "other"}
  /\ IF vmcs.reason = "ept" THEN println ELSE UNCHANGED <<crt_pos, cursor>>
  /\ pc' = "panic"
  /\ UNCHANGED <<eptVars, nfree, hostVars, reg, vr, vmcs, call, panicstr, history>>

(* vt_exit_reason returns false; get_cursor_loc.                           *)
vt_stop ==
  /\ pc = "exit_reason" /\ vmcs.reason = "init" /\ pc' = "stopped"
  /\ crt_pos' = cursor
  /\ UNCHANGED <<eptVars, nfree, hostVars, reg, vr, vmcs, call, cursor, panicstr, history>>

(* "VM Stopped", and vt_main and mon_matrix return.                        *)
vt_main_end ==
  /\ pc = "stopped" /\ pc' = "monitor"
  /\ println
  /\ stack' = SubSeq(stack, 1, Len(stack) - 1)
  /\ left' = 0
  /\ UNCHANGED <<eptVars, nfree, msr, sys, reg, vr, vmcs, call, panicstr, runs, caller, guest>>

-----------------------------------------------------------------------------
(* The processor leaves the guest, or does not get into it: the kernel     *)
(* goes on with the system registers, stack and address the VMCS names.    *)
exit_to_host ==
  /\ sys' = vmcs.host
  /\ stack' = SubSeq(stack, 1, vmcs.host_rsp)
  /\ call' = vmcs.host_rip
  /\ pc' = "vmexit"
  /\ UNCHANGED <<eptVars, nfree, msr, reg, vr, screenVars, runs, caller, left>>

(* vmlaunch needs a clear VMCS and vmresume a launched one; either may     *)
(* also fail for what is in the VMCS, before or after guest state is       *)
(* loaded.  The exit fields are dead until the next exit writes them.      *)
vm_entry ==
  /\ pc = "vmentry"
  /\ \/ /\ pc' = "vmfail"
        /\ UNCHANGED <<eptVars, nfree, hostVars, reg, vr, vmcs, call, screenVars, history>>
     \/ /\ vmcs.launched = (call = "resume")
        /\ vmcs' = [vmcs EXCEPT !.reason = "entry_failure"]
        /\ exit_to_host /\ UNCHANGED guest
     \/ /\ vmcs.launched = (call = "resume")
        /\ vmcs' = [vmcs EXCEPT !.launched = TRUE, !.reason = "none", !.len = 0]
        /\ sys' = GuestSys /\ pc' = "guest" /\ left' = cursor
        /\ UNCHANGED <<eptVars, nfree, msr, stack, reg, vr, call, screenVars, runs, caller, guest>>

(* The guest's own instructions: its registers, a jump, or the cursor.     *)
guest_run ==
  /\ pc = "guest"
  /\ \/ \E leaf \in Leaf, n \in Files :
          /\ reg' = GuestReg(leaf, n) /\ guest' = [guest EXCEPT !.reg = reg']
          /\ UNCHANGED <<vmcs, cursor, left>>
     \/ \E ip \in 0 .. RipMod - 1 :
          /\ vmcs' = [vmcs EXCEPT !.rip = ip] /\ guest' = [guest EXCEPT !.rip = ip]
          /\ UNCHANGED <<reg, cursor, left>>
     \/ cursor' \in 0 .. Rows - 1 /\ left' = cursor' /\ UNCHANGED <<reg, vmcs, guest>>
  /\ UNCHANGED <<eptVars, nfree, pc, hostVars, vr, call, crt_pos, panicstr, runs, caller>>

(* A VM exit.  For CPUID, guest records what the instruction should do:    *)
(* the processor's answer without VMX, and the next instruction.           *)
vm_exit ==
  /\ pc = "guest"
  /\ \/ \E n \in Lengths :
          /\ vmcs' = [vmcs EXCEPT !.reason = "cpuid", !.len = n]
          /\ LET out == Cpuid(guest.reg["eax"]) IN
             guest' = [reg |-> [guest.reg EXCEPT
                                  !["eax"] = out.eax, !["ebx"] = out.ebx, !["edx"] = out.edx,
                                  !["ecx"] = IF guest.reg["eax"] = Leaf1 THEN 1 ELSE out.ecx],
                       rip |-> (guest.rip + n) % RipMod]
     \/ \E why \in {"ept", "other", "init"} :
          vmcs' = [vmcs EXCEPT !.reason = why] /\ UNCHANGED guest
  /\ exit_to_host

KernelStep ==
  \/ not_implemented \/ has_vmx \/ vmx_on \/ vt_ept \/ vmcs_setup
  \/ asm_regs \/ asm_failed \/ vt_entry_failed \/ asm_vmexit
  \/ vt_returned \/ do_cpuid \/ vt_fatal \/ vt_stop \/ vt_main_end

MatrixStep == KernelStep \/ mon_matrix \/ vm_entry \/ guest_run \/ vm_exit

-----------------------------------------------------------------------------
(* Whichever way asm_vmlaunch_regs_32 or asm_vmresume_regs_32 is left (a   *)
(* VM exit, a failed entry, a failed instruction), the registers C keeps   *)
(* across a call, the stack, the control registers and the segments are    *)
(* what they were when it was called, whatever the guest had in them.      *)
HostRestored ==
  pc \in {"returned", "exit_reason", "failed"} =>
    /\ \A r \in Callee : reg[r] = caller.reg[r]
    /\ stack = caller.stack
    /\ sys = caller.sys

(* The guest does not notice its exits: whenever it runs, its registers    *)
(* and instruction pointer are as its own instructions left them, CPUID    *)
(* having answered like the processor but without VMX.                     *)
GuestUndisturbed ==
  pc = "guest" => guest = [reg |-> reg, rip |-> vmcs.rip]

(* vmlaunch is executed on a clear VMCS and vmresume on a launched one, in *)
(* every run of "matrix" and after every failed one, and the host state to *)
(* come back to is the current one, never the 0xDEADBEEF of vmcs_setup.    *)
EntryLegal ==
  pc = "vmentry" =>
    /\ vmcs.launched = (call = "resume")
    /\ vmcs.host = sys /\ vmcs.host_rsp = Len(stack) /\ vmcs.host_rip = call

(* A guest never runs on a partial page table: every frame below 4 GB is   *)
(* translated, by the walk the processor makes, to where the picture in    *)
(* ept_update_identity_table puts it: on a machine whose memory ends at    *)
(* 64 MB, never into JOS memory.                                           *)
GuestMemoryMapped ==
  pc = "guest" => \A g \in 0 .. LastGfn : Walk(vmcs.eptp, g) = Epte(Placed(g))

(* "VM Stopped" goes where the guest left the cursor, however it moved     *)
(* it, if the guest was resumed: from its last exit until get_cursor_loc   *)
(* the kernel keeps off the screen.  (A guest that stops at its first exit *)
(* has its cursor moved by "VM launch Success" first.)                     *)
StopsAtGuestCursor == pc = "stopped" /\ call = "resume" => crt_pos = left
=============================================================================

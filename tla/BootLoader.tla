------------------------------ MODULE BootLoader ------------------------------
(***************************************************************************)
(* boot/boot.S and boot/main.c on the image mkbootdisk wrote: the BIOS     *)
(* reads sector 0, boot.S opens the A20 gate, bootmain reads the ELF       *)
(* header and the program segments sector by sector and jumps to the       *)
(* kernel.  The keyboard controller, which holds the gate, and the disk    *)
(* answer in their own time.                                               *)
(***************************************************************************)
EXTENDS BootDisk

CONSTANTS
  PAGESIZE,     \* bytes of the kernel file bootmain reads for its header
  BOOT, ELFHDR, \* addresses of the boot sector and of the header
  A20,          \* the address line that is low until the gate is open, a power of 2
  VaMask,       \* 0xFFFFFF + 1
  MemSize,      \* bytes of memory
  ByteMod       \* values of a byte of a disk register

VARIABLES
  mem,          \* what each byte of memory holds
  kbc, a20,     \* keyboard controller: the byte it works on; the gate
  ide,          \* disk controller: busy, and the registers readsect writes
  ph,           \* bootmain: program header to load next
  seg,          \* readseg: va, end_va, memsz, offset
  pc
loaderVars == <<mem, kbc, a20, ide, ph, seg, pc>>
vars == <<diskVars, loaderVars>>

Junk == <<-1, 0>>   \* what memory holds before anything is loaded

(* Where a store goes while the gate is closed, or open.                   *)
Phys(a) == IF a20 THEN a ELSE a - A20 * ((a \div A20) % 2)

(* What a linker makes (external): segments inside memory, as far into a   *)
(* sector as into the file's sector, in sectors of their own, none of them *)
(* the header's; and a file that holds all of them and their headers.      *)
Base(s) == s.va % VaMask
Sectors(a, n) == (a \div SECTSIZE) .. ((a + n - 1) \div SECTSIZE)
IsSegment(s) ==
  /\ s.va \in Nat /\ s.filesz \in Nat /\ s.memsz \in Nat /\ s.offset \in Nat
  /\ s.filesz <= s.memsz /\ Base(s) + s.memsz <= MemSize
  /\ Base(s) % SECTSIZE = s.offset % SECTSIZE
  /\ Sectors(Base(s), s.memsz) \cap Sectors(ELFHDR, PAGESIZE) = {}
LinkedKernel(in) ==
  /\ Len(in.segments) \in Nat /\ Len(in.segments) < PAGESIZE
  /\ \A n \in 1 .. Len(in.segments) : LET s == in.segments[n] IN
       /\ IsSegment(s)
       /\ \A m \in 1 .. Len(in.segments) \ {n} : LET t == in.segments[m] IN
            Sectors(Base(s), s.memsz) \cap Sectors(Base(t), t.memsz) = {}
  /\ \A k \in 1 .. Len(in.args) : LET a == in.args[k] IN
       a.kind = "file" /\ a.id = Kernel =>
         /\ Len(in.segments) < a.size
         /\ \A n \in 1 .. Len(in.segments) :
              in.segments[n].offset + in.segments[n].filesz <= a.size

ASSUME BootLoaderAssumption ==
  /\ PAGESIZE \in Nat \ {0} /\ BOOT \in Nat /\ ELFHDR \in Nat /\ A20 \in Nat \ {0}
  /\ PAGESIZE % SECTSIZE = 0 /\ BOOT % SECTSIZE = 0 /\ ELFHDR % SECTSIZE = 0
  /\ MemSize \in Nat /\ VaMask \in Nat \ {0} /\ MemSize <= VaMask
  /\ ELFHDR + PAGESIZE <= MemSize /\ ByteMod \in Nat \ {0, 1}
  /\ \A in \in Inputs : LinkedKernel(in)

Init ==
  /\ DiskInit
  /\ mem = [a \in 0 .. MemSize - 1 |-> Junk]
  /\ kbc \in {"idle", "busy"} /\ a20 = FALSE
  /\ ide = [busy |-> TRUE, lba |-> <<0, 0, 0, 0>>]
  /\ ph = 0
  /\ seg = [va |-> 0, end_va |-> 0, memsz |-> 0, offset |-> 0]
  /\ pc = "off"

-----------------------------------------------------------------------------
(* The machine (external).  The BIOS boots a disk with the signature; the  *)
(* controllers finish what they were given.  A disk needs longer for a     *)
(* command than the keyboard controller for a byte: boot.S does not wait   *)
(* for the gate to open.                                                   *)
bios ==
  /\ pc = "off" /\ tool = "done"
  /\ IF SubSeq(Sector(0), SECTSIZE - 1, SECTSIZE) = <<Sig55, SigAA>>
     THEN /\ mem' = [a \in DOMAIN mem |-> IF a \in BOOT .. BOOT + SECTSIZE - 1
                                          THEN image[a - BOOT + 1] ELSE mem[a]]
          /\ pc' = "seta20.1"
     ELSE pc' = "no boot disk" /\ UNCHANGED mem
  /\ UNCHANGED <<diskVars, kbc, a20, ide, ph, seg>>

kbc_done ==
  /\ kbc # "idle" /\ kbc' = "idle"
  /\ a20' = (a20 \/ kbc = "0xdf")
  /\ UNCHANGED <<diskVars, mem, ide, ph, seg, pc>>

ide_done ==
  /\ ide.busy /\ kbc = "idle"
  /\ ide' = [ide EXCEPT !.busy = FALSE]
  /\ UNCHANGED <<diskVars, mem, kbc, a20, ph, seg, pc>>

-----------------------------------------------------------------------------
(* boot.S: wait, command "write output port"; wait, the byte that opens    *)
(* the gate.                                                               *)
seta20 ==
  /\ pc \in {"seta20.1", "seta20.2"} /\ kbc = "idle"
  /\ IF pc = "seta20.1" THEN kbc' = "0xd1" /\ pc' = "seta20.2"
                        ELSE kbc' = "0xdf" /\ pc' = "protcseg"
  /\ UNCHANGED <<diskVars, mem, a20, ide, ph, seg>>

(* Seeded fault: the address is not rounded down to a sector boundary.     *)
readseg_unrounded(va, filesz, memsz, offset) ==
  LET a == va % VaMask IN
  [va |-> a, end_va |-> a + filesz, memsz |-> memsz + a, offset |-> offset \div SECTSIZE + 1]

(* readseg up to its loop: addresses are cut to 24 bits and rounded down   *)
(* to a sector; the kernel file starts at sector 1.                        *)
readseg(va, filesz, memsz, offset) ==
  LET a == va % VaMask IN
  [va |-> a - (a % SECTSIZE), end_va |-> a + filesz, memsz |-> memsz + a,
   offset |-> offset \div SECTSIZE + 1]

(* Into protected mode, and bootmain reads the first page off disk.        *)
protcseg ==
  /\ pc = "protcseg" /\ pc' = "readseg"
  /\ seg' = readseg(ELFHDR, PAGESIZE, PAGESIZE, 0)
  /\ UNCHANGED <<diskVars, mem, kbc, a20, ide, ph>>

(* readsect, first half: when the disk is ready, the sector number in four *)
(* bytes and the command.                                                  *)
readsect ==
  /\ pc = "readseg" /\ seg.va < seg.end_va /\ ~ide.busy
  /\ LET n == seg.offset IN
     ide' = [busy |-> TRUE, lba |-> <<n % ByteMod, (n \div ByteMod) % ByteMod,
                                      (n \div (ByteMod * ByteMod)) % ByteMod,
                                      n \div (ByteMod * ByteMod * ByteMod)>>]
  /\ pc' = "insl"
  /\ UNCHANGED <<diskVars, mem, kbc, a20, ph, seg>>

(* What the disk returns: the sector its registers name (external).        *)
Data ==
  LET n == ide.lba[1] + ByteMod * (ide.lba[2] + ByteMod * (ide.lba[3] + ByteMod * ide.lba[4])) IN
  IF n < Len(image) \div SECTSIZE THEN Sector(n) ELSE Zeros(SECTSIZE)

(* Bytes a .. a + SECTSIZE - 1 as the processor addresses them.            *)
Stored(a, bytes) ==
  [x \in DOMAIN mem |->
    IF \E i \in 1 .. SECTSIZE : Phys(a + i - 1) = x
    THEN bytes[CHOOSE i \in 1 .. SECTSIZE : Phys(a + i - 1) = x] ELSE mem[x]]

(* readsect, second half, and the rest of readseg's loop body.             *)
insl ==
  /\ pc = "insl" /\ ~ide.busy /\ pc' = "readseg"
  /\ mem' = Stored(seg.va, Data)
  /\ seg' = [seg EXCEPT !.va = @ + SECTSIZE, !.offset = @ + 1]
  /\ UNCHANGED <<diskVars, kbc, a20, ide, ph>>

(* All sectors read: clear the rest of the segment and return.             *)
clear_bss ==
  /\ pc = "readseg" /\ seg.va >= seg.end_va /\ pc' = "bootmain"
  /\ mem' = [x \in DOMAIN mem |->
               IF \E a \in seg.end_va .. seg.memsz - 1 : Phys(a) = x THEN Zero ELSE mem[x]]
  /\ UNCHANGED <<diskVars, kbc, a20, ide, ph, seg>>

(* The header's fields, from memory: byte 0 of the file stands for the     *)
(* magic, phnum and entry, byte n for program header n.  Memory that holds *)
(* anything else there gives no segment.                                   *)
Header(n)  == mem[ELFHDR + n] = Byte(Kernel, n)
Proghdr(n) == IF Header(n) THEN input.segments[n]
                           ELSE [va |-> 0, filesz |-> 0, memsz |-> 0, offset |-> 0]

(* Seeded fault: the loop over the program headers does not advance.       *)
bootmain_same_header ==
  /\ pc = "bootmain"
  /\ IF ~(Header(0) /\ input.elf) THEN pc' = "spin" /\ UNCHANGED <<ph, seg>>
     ELSE LET p == Proghdr(1) IN
          /\ ph' = 1
          /\ seg' = readseg(p.va, p.filesz, p.memsz, p.offset)
          /\ pc' = "readseg"
  /\ UNCHANGED <<diskVars, mem, kbc, a20, ide>>

(* bootmain after a readseg: the magic is checked once, then the next      *)
(* program header is loaded, or the kernel entered at seg.va.              *)
bootmain ==
  /\ pc = "bootmain"
  /\ IF ph = 0 /\ ~(Header(0) /\ input.elf) THEN pc' = "spin" /\ UNCHANGED <<ph, seg>>
     ELSE IF ph < Len(input.segments)
     THEN LET p == Proghdr(ph + 1) IN
          /\ ph' = ph + 1
          /\ seg' = readseg(p.va, p.filesz, p.memsz, p.offset)
          /\ pc' = "readseg"
     ELSE /\ seg' = [seg EXCEPT !.va = IF Header(0) THEN input.entry % VaMask ELSE 0]
          /\ pc' = "kernel" /\ UNCHANGED ph
  /\ UNCHANGED <<diskVars, mem, kbc, a20, ide>>

Ended == tool = "usage" \/ pc \in {"spin", "kernel", "no boot disk"}

Loader == seta20 \/ protcseg \/ readsect \/ insl \/ clear_bss \/ bootmain
Next ==
  \/ mkbootdisk /\ UNCHANGED loaderVars
  \/ bios \/ kbc_done \/ ide_done \/ Loader
  \/ Ended /\ UNCHANGED vars
Spec == Init /\ [][Next]_vars /\ WF_vars(mkbootdisk /\ UNCHANGED loaderVars) /\ WF_vars(bios)
             /\ WF_vars(kbc_done) /\ WF_vars(ide_done) /\ WF_vars(Loader)

-----------------------------------------------------------------------------
(* When the kernel is entered, every byte of every segment is where its    *)
(* header says, 24 bits of it: file bytes first, zeros up to p_memsz, in   *)
(* whatever order and alignment the linker placed the segments, and the    *)
(* jump goes to e_entry.  bootmain enters only what has the magic and      *)
(* begins at sector 1 of the image.                                        *)
KernelLoaded ==
  pc = "kernel" =>
    /\ input.elf /\ Sector(1)[1] = Byte(Kernel, 0)
    /\ seg.va = input.entry % VaMask
    /\ \A n \in 1 .. Len(input.segments) :
         LET s == input.segments[n] IN
         \A i \in 0 .. s.memsz - 1 :
           mem[(s.va % VaMask) + i] = IF i < s.filesz THEN Byte(Kernel, s.offset + i) ELSE Zero

(* With controllers that finish what they are given, the loader ends in    *)
(* the kernel or in boot.S's spin loop.                                    *)
LoaderEnds == <>Ended
=============================================================================

------------------------------- MODULE BootMem -------------------------------
(***************************************************************************)
(* How the kernel gets its memory: boot_mem_init and page_init of          *)
(* kern/pmap.c, from the machine state kern/entry.S leaves.  The boot-time *)
(* allocator carves the page directory, the page tables and the pages      *)
(* array out of the memory behind the kernel image; the kernel then turns  *)
(* paging on and replaces its segments without ever losing the mapping it  *)
(* runs on; page_init hands what is left to the page allocator (PageMap).  *)
(*                                                                         *)
(* Addresses are counted in pages, except that boot_alloc counts bytes, of *)
(* which a page has PGSIZE.  A directory and a table have N entries each;  *)
(* linear page la has directory index la \div N and table index la % N.    *)
(***************************************************************************)
EXTENDS Integers, FiniteSets, Sequences

CONSTANTS
  PGSIZE,        \* bytes in a page
  N,             \* NPDENTRIES = NPTENTRIES
  KERNBASE,      \* first linear page of the kernel's window on physical memory
  KSTKPAGES,     \* KSTKSIZE, in pages
  IOPHYSMEM, EXTPHYSMEM,   \* the I/O hole, in pages
  bootstack,     \* physical page of the boot stack, inside the kernel image
  gdtpage,       \* physical page of mygdt and gdt, inside the kernel image
  end,           \* first byte behind the kernel image
  SizeofPage,    \* sizeof(struct Page)
  KBPerPage,     \* kilobytes in a page
  BaseKB, ExtKB, \* what the CMOS can report, in kilobytes
  JunkWord,      \* what uninitialised memory may be full of
  NULL, ListHead

Limit     == N * N                        \* pages of linear address space
VPT       == KERNBASE - N
KSTACKTOP == VPT
PhysPage  == 0 .. Limit - KERNBASE - 1    \* physical pages the window reaches
Word == [ppn : PhysPage, p : BOOLEAN]
Zero == [ppn |-> 0, p |-> FALSE]
Fault == -1

SegRegs == <<"gs", "fs", "es", "ds", "ss", "cs">>   \* in reload order
UsedSegs == {"es", "ds", "ss", "cs"}                \* the ones compiled C code uses

ASSUME LayoutAssumption ==
  /\ {PGSIZE, N, KERNBASE, KSTKPAGES, IOPHYSMEM, EXTPHYSMEM, bootstack, gdtpage, end,
      SizeofPage, KBPerPage} \subseteq Nat \ {0}
  /\ PGSIZE > 1
  /\ KERNBASE % N = 0 /\ KERNBASE > 2 * N /\ KERNBASE < Limit /\ KSTKPAGES < N
  /\ IOPHYSMEM < EXTPHYSMEM
  /\ EXTPHYSMEM <= bootstack /\ (bootstack + KSTKPAGES) * PGSIZE <= end
  /\ EXTPHYSMEM <= gdtpage /\ gdtpage * PGSIZE < end
  /\ end <= N * PGSIZE                    \* "Limits our kernel to <4MB"
  /\ JunkWord \in Word

ASSUME PointerAssumption == NULL \notin Nat /\ ListHead \notin Nat /\ ListHead # NULL

VARIABLES
  npages, n_base_pages,   \* set by i386_mem_detect
  nextfree,               \* boot_alloc's static pointer, as a physical byte address
  kern_pgdir,             \* page of the page directory
  mem,                    \* physical memory, read as page tables
  pages_at,               \* the bytes of the pages array: <<first, size>>
  pages,                  \* the array itself
  lh_first,               \* page_free_list.lh_first
  base,                   \* segment bases: 0 or -KERNBASE
  gdtr,                   \* linear page of the loaded GDT
  cr3, paging,            \* installed directory; CR0_PG
  tlb,                    \* cached translations of directory slot 0
  pc, i                   \* the statement reached and the loop index

bootVars == <<npages, n_base_pages, nextfree, kern_pgdir, mem, pages_at>>
listVars == <<pages, lh_first>>
cpuVars  == <<base, gdtr, cr3, paging, tlb>>
vars     == <<bootVars, listVars, cpuVars, pc, i>>

ROUNDUP(b) == ((b + PGSIZE - 1) \div PGSIZE) * PGSIZE
PGNUM(b)   == b \div PGSIZE

(* The machine has a page behind the image, for the directory: kern_pgdir  *)
(* is the one block boot_mem_init uses without a KADDR to check it.  The   *)
(* CMOS counts in 16 bits, and the window is larger than that.             *)
ASSUME MemoryAssumption ==
  /\ BaseKB \subseteq Nat /\ ExtKB \subseteq Nat
  /\ \A x \in ExtKB : EXTPHYSMEM + x \div KBPerPage
                       \in PGNUM(ROUNDUP(end)) + 1 .. Limit - KERNBASE

-----------------------------------------------------------------------------
(* entry.S: paging is off, and every segment the C code uses has base      *)
(* -KERNBASE, so that virtual KERNBASE+x is physical x.                    *)
Init ==
  /\ npages = 0 /\ n_base_pages = 0
  /\ nextfree = 0 /\ kern_pgdir = 0 /\ pages_at = <<0, 0>>
  /\ \E w \in {Zero, JunkWord} : mem = [q \in PhysPage |-> [x \in 0 .. N - 1 |-> w]]
  /\ pages = << >> /\ lh_first = NULL
  /\ base = [s \in {SegRegs[k] : k \in 1 .. 6} |-> IF s \in UsedSegs THEN -KERNBASE ELSE 0]
  /\ gdtr = gdtpage
  /\ cr3 = 0 /\ paging = FALSE /\ tlb = {}
  /\ pc = "i386_mem_detect" /\ i = 0

(* i386_mem_detect: the CMOS reports kilobytes, at most 65535 of each.     *)
i386_mem_detect ==
  /\ pc = "i386_mem_detect"
  /\ \E b \in BaseKB, x \in ExtKB :
       LET n_extended_pages == x \div KBPerPage IN
       /\ n_base_pages' = b \div KBPerPage
       /\ npages' = IF n_extended_pages # 0 THEN EXTPHYSMEM + n_extended_pages
                    ELSE b \div KBPerPage
  /\ pc' = "kern_pgdir" /\ i' = 0
  /\ UNCHANGED <<nextfree, kern_pgdir, mem, pages_at, listVars, cpuVars>>

(* Seeded fault: a block may start in the page the last one ends in.       *)
boot_top_unaligned == IF nextfree = 0 THEN ROUNDUP(end) ELSE nextfree

(* boot_alloc(n): the block starts at boot_top, the new nextfree is behind *)
(* it.  Nothing compares it with the end of memory.                        *)
boot_top == IF nextfree = 0 THEN ROUNDUP(end) ELSE ROUNDUP(nextfree)

boot_alloc(n) == nextfree' = boot_top + n

(* Stores reach memory the machine has; others are lost.                   *)
InMemory(q) == q < npages /\ q \in PhysPage

stored(m, q, x, w) == IF InMemory(q) THEN [m EXCEPT ![q][x] = w] ELSE m

(* boot_mem_init: kern_pgdir = boot_alloc(PGSIZE), cleared, and entered in *)
(* itself at VPT.                                                          *)
alloc_pgdir ==
  LET q == PGNUM(boot_top)
      m == IF InMemory(q) THEN [mem EXCEPT ![q] = [x \in 0 .. N - 1 |-> Zero]] ELSE mem
  IN
  /\ pc = "kern_pgdir"
  /\ boot_alloc(PGSIZE)
  /\ kern_pgdir' = q
  /\ mem' = stored(m, q, VPT \div N, [ppn |-> q, p |-> TRUE])
  /\ pc' = "map_stack" /\ i' = 0
  /\ UNCHANGED <<npages, n_base_pages, pages_at, listVars, cpuVars>>

(* Seeded faults: the table's address is used unchecked; the loop index is *)
(* not advanced.                                                           *)
boot_map_page_unchecked(la, pa) ==
  LET pde  == mem[kern_pgdir][la \div N]
      t    == IF pde.p THEN pde.ppn ELSE PGNUM(boot_top)
      m    == IF pde.p THEN mem
              ELSE stored(mem, kern_pgdir, la \div N, [ppn |-> t, p |-> TRUE])
  IN
  /\ IF pde.p THEN UNCHANGED nextfree ELSE boot_alloc(PGSIZE)
  /\ mem' = stored(m, t, la % N, [ppn |-> pa, p |-> TRUE])
  /\ i' = i + 1 /\ pc' = pc
  /\ UNCHANGED <<npages, n_base_pages, kern_pgdir, pages_at, listVars, cpuVars>>

boot_map_page_stuck(la, pa) ==
  LET pde  == mem[kern_pgdir][la \div N]
      t    == IF pde.p THEN pde.ppn ELSE PGNUM(boot_top)
      m    == IF pde.p THEN mem
              ELSE stored(mem, kern_pgdir, la \div N, [ppn |-> t, p |-> TRUE])
  IN
  /\ IF pde.p THEN UNCHANGED nextfree ELSE boot_alloc(PGSIZE)
  /\ mem' = stored(m, t, la % N, [ppn |-> pa, p |-> TRUE])
  /\ UNCHANGED <<npages, n_base_pages, kern_pgdir, pages_at, listVars, cpuVars, i, pc>>

(* One iteration of boot_map_segment for linear page la and physical page  *)
(* pa.  boot_pgdir_walk allocates a missing table, which it does not       *)
(* clear; KADDR panics when the table is not in memory.                    *)
boot_map_page(la, pa) ==
  LET pde  == mem[kern_pgdir][la \div N]
      t    == IF pde.p THEN pde.ppn ELSE PGNUM(boot_top)
      m    == IF pde.p THEN mem
              ELSE stored(mem, kern_pgdir, la \div N, [ppn |-> t, p |-> TRUE])
  IN
  /\ IF pde.p THEN UNCHANGED nextfree ELSE boot_alloc(PGSIZE)
  /\ IF t < npages
     THEN /\ mem' = stored(m, t, la % N, [ppn |-> pa, p |-> TRUE])
          /\ i' = i + 1 /\ pc' = pc
     ELSE mem' = m /\ pc' = "panic" /\ i' = i
  /\ UNCHANGED <<npages, n_base_pages, kern_pgdir, pages_at, listVars, cpuVars>>

(* boot_map_segment(la, size, pa, PTE_W), size in bytes; `then' is what    *)
(* boot_mem_init does after it.                                            *)
boot_map_segment(la, size, pa, then) ==
  \/ /\ i * PGSIZE < size
     /\ boot_map_page(la + i, pa + i)
  \/ /\ i * PGSIZE >= size
     /\ pc' = then /\ i' = 0
     /\ UNCHANGED <<bootVars, listVars, cpuVars>>

map_stack ==
  /\ pc = "map_stack"
  /\ boot_map_segment(KSTACKTOP - KSTKPAGES, KSTKPAGES * PGSIZE, bootstack, "map_kern")

(* Seeded fault: the window starts at the end of the I/O hole.             *)
map_kern_offset ==
  /\ pc = "map_kern"
  /\ boot_map_segment(KERNBASE, (Limit - KERNBASE) * PGSIZE - 1, 1, "pages")

(* The size passed, 0xffffffff - KERNBASE, is one byte short of the window *)
(* and not a multiple of PGSIZE.                                           *)
map_kern ==
  /\ pc = "map_kern"
  /\ boot_map_segment(KERNBASE, (Limit - KERNBASE) * PGSIZE - 1, 0, "pages")

(* pages = boot_alloc(npages * sizeof(struct Page)), cleared.  Nothing     *)
(* checks that the array is in memory; when it is not, page_init keeps     *)
(* every page and reads nothing back from it.                              *)
ZeroPage == [le_next |-> NULL, le_prev |-> NULL, pp_ref |-> 0]

(* Seeded fault: the array is left as it is found.                         *)
alloc_pages_raw ==
  /\ pc = "pages"
  /\ boot_alloc(npages * SizeofPage)
  /\ pages_at' = <<boot_top, npages * SizeofPage>>
  /\ pages' = [q \in 0 .. npages - 1 |-> [ZeroPage EXCEPT !.le_prev = ListHead]]
  /\ pc' = "boot_mem_check"
  /\ UNCHANGED <<npages, n_base_pages, kern_pgdir, mem, lh_first, cpuVars, i>>

alloc_pages ==
  /\ pc = "pages"
  /\ boot_alloc(npages * SizeofPage)
  /\ pages_at' = <<boot_top, npages * SizeofPage>>
  /\ pages' = [q \in 0 .. npages - 1 |-> ZeroPage]
  /\ pc' = "boot_mem_check"
  /\ UNCHANGED <<npages, n_base_pages, kern_pgdir, mem, lh_first, cpuVars, i>>

-----------------------------------------------------------------------------
(* The page walk, by software (check_va2pa) and, from cr3, by hardware.    *)

check_va2pa(dir, la) ==
  LET pde == mem[dir][la \div N] IN
  IF ~ pde.p THEN Fault
  ELSE LET pte == mem[pde.ppn][la % N] IN IF pte.p THEN pte.ppn ELSE Fault

(* The assertions of boot_mem_check; a directory entry of a clear slot is  *)
(* compared with 0, the others with not 0.                                 *)
boot_mem_asserts ==
  /\ \A q \in PhysPage : check_va2pa(kern_pgdir, KERNBASE + q) = q
  /\ \A k \in 0 .. KSTKPAGES - 1 :
       check_va2pa(kern_pgdir, KSTACKTOP - KSTKPAGES + k) = bootstack + k
  /\ \A d \in 0 .. N - 1 :
       (mem[kern_pgdir][d] # Zero) <=>
         (d = VPT \div N \/ d = (KSTACKTOP - 1) \div N \/ d >= KERNBASE \div N)

boot_mem_check ==
  /\ pc = "boot_mem_check"
  /\ pc' = IF boot_mem_asserts THEN "low_map" ELSE "panic"
  /\ UNCHANGED <<bootVars, listVars, cpuVars, i>>

-----------------------------------------------------------------------------
(* Seeded fault: the low mapping is not installed.                         *)
low_map_skipped ==
  /\ pc = "low_map"
  /\ pc' = "lcr3"
  /\ UNCHANGED <<bootVars, listVars, cpuVars, i>>

(* The switch to paging.  kern_pgdir[0] = kern_pgdir[PDX(KERNBASE)].       *)
low_map ==
  /\ pc = "low_map"
  /\ mem' = stored(mem, kern_pgdir, 0, mem[kern_pgdir][KERNBASE \div N])
  /\ pc' = "lcr3"
  /\ UNCHANGED <<npages, n_base_pages, nextfree, kern_pgdir, pages_at, listVars, cpuVars, i>>

lcr3 ==
  /\ pc = "lcr3"
  /\ cr3' = kern_pgdir /\ tlb' = {}
  /\ pc' = "lcr0"
  /\ UNCHANGED <<bootVars, listVars, base, gdtr, paging, i>>

lcr0 ==
  /\ pc = "lcr0"
  /\ paging' = TRUE
  /\ pc' = "lgdt"
  /\ UNCHANGED <<bootVars, listVars, base, gdtr, cr3, tlb, i>>

(* lgdt gdt_pd: the descriptor holds gdt's link address.                   *)
lgdt ==
  /\ pc = "lgdt"
  /\ gdtr' = KERNBASE + gdtpage
  /\ pc' = "reload" /\ i' = 1
  /\ UNCHANGED <<bootVars, listVars, base, cr3, paging, tlb>>

(* movw %ax,%gs ... ljmp: one segment register after the other.            *)
reload_segment ==
  /\ pc = "reload"
  /\ base' = [base EXCEPT ![SegRegs[i]] = 0]
  /\ i' = i + 1
  /\ pc' = IF i = Len(SegRegs) THEN "low_unmap" ELSE "reload"
  /\ UNCHANGED <<bootVars, listVars, gdtr, cr3, paging, tlb>>

(* kern_pgdir[0] = 0.                                                      *)
low_unmap ==
  /\ pc = "low_unmap"
  /\ mem' = stored(mem, kern_pgdir, 0, Zero)
  /\ pc' = "flush"
  /\ UNCHANGED <<npages, n_base_pages, nextfree, kern_pgdir, pages_at, listVars, cpuVars, i>>

(* Seeded fault: the directory is changed, cr3 is not reloaded.            *)
lcr3_flush_skipped ==
  /\ pc = "flush"
  /\ pc' = "page_init" /\ i' = 0
  /\ UNCHANGED <<bootVars, listVars, cpuVars>>

(* lcr3 again, for its flush of the TLB.                                   *)
lcr3_flush ==
  /\ pc = "flush"
  /\ cr3' = kern_pgdir /\ tlb' = {}
  /\ pc' = "page_init" /\ i' = 0
  /\ UNCHANGED <<bootVars, listVars, base, gdtr, paging>>

-----------------------------------------------------------------------------
(* page_init: page i is kept out, or pushed on the free list.  The third   *)
(* test is PGNUM(PADDR(KERNBASE)) <= i < PGNUM(PADDR(boot_alloc(0))).      *)
pushed(q) ==
  [k \in DOMAIN pages |->
     IF k = q THEN [le_next |-> lh_first, le_prev |-> ListHead, pp_ref |-> 0]
     ELSE IF k = lh_first THEN [pages[k] EXCEPT !.le_prev = q] ELSE pages[k]]

kept_by_hole(q) == q >= IOPHYSMEM /\ q < EXTPHYSMEM

kept_by_kernel(q) == q >= 0 /\ q < PGNUM(boot_top)

page_init ==
  /\ pc = "page_init"
  /\ i' = IF i < npages THEN i + 1 ELSE i
  /\ pc' = IF i < npages THEN pc ELSE "done"
  /\ IF i < npages /\ i # 0 /\ ~ kept_by_hole(i)
     THEN boot_alloc(0) ELSE UNCHANGED nextfree
  /\ IF i < npages /\ i # 0 /\ ~ kept_by_hole(i) /\ ~ kept_by_kernel(i)
     THEN pages' = pushed(i) /\ lh_first' = i
     ELSE /\ pages' = IF i < npages THEN [pages EXCEPT ![i].pp_ref = 0] ELSE pages
          /\ UNCHANGED lh_first
  /\ UNCHANGED <<npages, n_base_pages, kern_pgdir, mem, pages_at, cpuVars>>

-----------------------------------------------------------------------------
(* The processor may cache any translation of directory slot 0 while       *)
(* paging is on and the slot is mapped, used by the kernel or not.         *)
tlb_fill ==
  /\ paging
  /\ \E la \in 0 .. N - 1 : /\ check_va2pa(cr3, la) # Fault
                            /\ la \notin tlb
                            /\ tlb' = tlb \cup {la}
  /\ UNCHANGED <<bootVars, listVars, base, gdtr, cr3, paging, pc, i>>

BootStep ==
  \/ i386_mem_detect \/ alloc_pgdir \/ map_stack \/ map_kern \/ alloc_pages
  \/ boot_mem_check \/ low_map \/ lcr3 \/ lcr0 \/ lgdt \/ reload_segment
  \/ low_unmap \/ lcr3_flush \/ page_init

Next == BootStep \/ tlb_fill

Spec == Init /\ [][Next]_vars /\ WF_vars(BootStep)
-----------------------------------------------------------------------------
FreePages == {q \in DOMAIN pages : pages[q].le_prev # NULL}

(* The physical page an instruction reaches through segment register s at  *)
(* virtual page va: segment base, then the page walk if paging is on.      *)
Reaches(s, va) ==
  LET la == (va + base[s]) % Limit IN
  IF paging THEN check_va2pa(cr3, la) ELSE la

(* "From here on down we must maintain this VA KERNBASE + x => PA x        *)
(* mapping, even though we are turning on paging and reconfiguring         *)
(* segmentation": at every step of the switch, through every segment       *)
(* register compiled code uses and whatever mix of old and new bases they  *)
(* hold, each page of the kernel image is where it was; and the GDT the    *)
(* next reload reads is at the linear address in gdtr.                     *)
KernelStaysMapped ==
  /\ \A s \in UsedSegs, q \in EXTPHYSMEM .. PGNUM(end - 1) : Reaches(s, KERNBASE + q) = q
  /\ (IF paging THEN check_va2pa(cr3, gdtr) ELSE gdtr) = gdtpage

(* The kernel boots unless memory ends before its page tables do: KADDR    *)
(* panics for nothing else, and every assertion of boot_mem_check holds of *)
(* the tables boot_map_segment built in uncleared memory.  And it panics   *)
(* before it uses a table that is not there: as long as it runs, every     *)
(* table the directory points to is in memory.                             *)
PanicsOnlyOutOfMemory ==
  /\ pc = "panic" => nextfree > npages * PGSIZE
  /\ pc \notin {"i386_mem_detect", "kern_pgdir", "panic"} =>
       \A d \in 0 .. N - 1 : mem[kern_pgdir][d].p => mem[kern_pgdir][d].ppn < npages

(* No page on the free list is page 0, in the I/O hole, beyond memory, in  *)
(* the kernel image, the page directory, a page table the directory points *)
(* to, or one of the pages the pages array lies in.                        *)
FreePagesUnused ==
  \A q \in FreePages :
    /\ q # 0 /\ q < npages /\ ~ (IOPHYSMEM <= q /\ q < EXTPHYSMEM)
    /\ ~ (EXTPHYSMEM <= q /\ q * PGSIZE < end) /\ q # kern_pgdir
    /\ \A d \in 0 .. N - 1 : mem[kern_pgdir][d].p => mem[kern_pgdir][d].ppn # q
    /\ ~ \E b \in pages_at[1] .. pages_at[1] + pages_at[2] - 1 : PGNUM(b) = q

(* Once page_init runs, low addresses translate to nothing: not in the     *)
(* directory, and not in a translation the processor cached while the      *)
(* kernel ran on the temporary mapping.                                    *)
LowMappingGone ==
  pc \in {"page_init", "done"} =>
    tlb = {} /\ \A la \in 0 .. N - 1 : check_va2pa(cr3, la) = Fault

(* When page_init returns, page_free_list is what the page functions rely  *)
(* on: every page behind the boot-time allocations is on it, the links     *)
(* agree in both directions and lead to ever lower pages, so that no walk  *)
(* runs in circles and every listed page is met; a page that is not listed *)
(* has null links, and no page is referenced.                              *)
FreeListHandedOver ==
  pc = "done" =>
    /\ PGNUM(boot_top) .. npages - 1 \subseteq FreePages
    /\ lh_first # NULL => lh_first \in FreePages
    /\ \A q \in 0 .. npages - 1 :
         LET next == pages[q].le_next  prev == pages[q].le_prev IN
         /\ pages[q].pp_ref = 0
         /\ prev = ListHead <=> lh_first = q
         /\ prev \notin {NULL, ListHead} => prev \in FreePages /\ pages[prev].le_next = q
         /\ next # NULL =>
              q \in FreePages /\ next \in FreePages /\ next < q /\ pages[next].le_prev = q

(* Booting ends, in page_init's return or in a panic.                      *)
BootEnds == <>(pc \in {"done", "panic"})

-----------------------------------------------------------------------------
(* What a comment of pmap.c promises and the code does not do.             *)

(* page_init: "2) Mark the rest of base memory as free."  The pages of     *)
(* base memory the CMOS reports, but for page 0 and the I/O hole, are on   *)
(* the free list when page_init returns.                                   *)
BaseMemoryFreed ==
  pc = "done" => \A q \in 1 .. n_base_pages - 1 : kept_by_hole(q) \/ q \in FreePages
=============================================================================

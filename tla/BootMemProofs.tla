---------------------------- MODULE BootMemProofs ----------------------------
(***************************************************************************)
(* Theorems about BootMem, for every size of pages and tables, every       *)
(* layout of the kernel image and every amount of memory the CMOS reports: *)
(* the kernel keeps its mapping through the switch to paging, panics only  *)
(* when memory is short, and gives away no page it uses.                   *)
(*                                                                         *)
(* boot_mem_init goes through three phases.  While the tables are being    *)
(* built (TablesBuilt) every linear page mapped so far translates as asked *)
(* and every table is a page of its own.  Once they are complete           *)
(* (WindowStands) only slot 0 of the directory changes, and the window on  *)
(* physical memory stays.  page_init then pushes the pages behind the last *)
(* block in order (ListSoFar).                                             *)
(***************************************************************************)
EXTENDS BootMem, TLAPS

Entry    == [ppn : Nat, p : BOOLEAN]
Dir      == mem[kern_pgdir]
FirstDir == KERNBASE \div N           \* first directory slot of the window
First    == PGNUM(ROUNDUP(end))       \* first page behind the image
Top      == PGNUM(boot_top)           \* first page behind the blocks given out

Detecting == {"i386_mem_detect"}
Paged     == {"lgdt", "reload", "low_unmap", "flush", "page_init", "done"}
LowMapped == {"lcr3", "lcr0", "lgdt", "reload", "low_unmap"}
LowGone   == {"flush", "page_init", "done"}
Flat      == {"low_unmap", "flush", "page_init", "done"}
Complete  == {"low_map", "flush", "page_init", "done"} \cup LowMapped
Listed    == {"boot_mem_check"} \cup Complete
Labels    == Detecting \cup {"kern_pgdir", "map_stack", "map_kern", "pages", "panic"}
             \cup Listed

BootTypeOK ==
  /\ pc \in Labels
  /\ npages \in Nat /\ nextfree \in Nat /\ i \in Nat
  /\ mem \in [PhysPage -> [0 .. N - 1 -> Entry]]
  /\ pc # "i386_mem_detect" => npages \in First + 1 .. Limit - KERNBASE
  /\ IF pc \in {"i386_mem_detect", "kern_pgdir"} THEN nextfree = 0
     ELSE nextfree # 0 /\ kern_pgdir = First

(* The linear pages boot_map_segment has mapped, and where to.             *)
Stack(n)  == {KSTACKTOP - KSTKPAGES + j : j \in 0 .. n - 1}
Window(n) == {KERNBASE + j : j \in 0 .. n - 1}
Target(la) == IF la >= KERNBASE THEN la - KERNBASE
              ELSE bootstack + (la - (KSTACKTOP - KSTKPAGES))

(* The tables that map the pages of M: an entry of the directory is clear  *)
(* or points to a page given out by boot_alloc, no two to the same, and    *)
(* only the self-map to the directory.                                     *)
TablesBuilt(M) ==
  /\ \A d \in 0 .. N - 1 : Dir[d].p <=> d = VPT \div N \/ \E la \in M : d = la \div N
  /\ \A d \in 0 .. N - 1 :
       IF Dir[d].p THEN Dir[d].ppn < Top /\ Dir[d].ppn < npages
                   ELSE Dir[d] = Zero
  /\ \A d \in 0 .. N - 1 : Dir[d].p => (Dir[d].ppn = kern_pgdir <=> d = VPT \div N)
  /\ \A d, e \in 0 .. N - 1 : Dir[d].p /\ Dir[e].p /\ Dir[d].ppn = Dir[e].ppn => d = e
  /\ \A la \in M : check_va2pa(kern_pgdir, la) = Target(la)

Building ==
  /\ pc = "map_stack" => i \in 0 .. KSTKPAGES /\ TablesBuilt(Stack(i))
  /\ pc = "map_kern"  => /\ i \in 0 .. Limit - KERNBASE
                         /\ TablesBuilt(Stack(KSTKPAGES) \cup Window(i))
  /\ pc \in {"pages", "boot_mem_check"} =>
       TablesBuilt(Stack(KSTKPAGES) \cup Window(Limit - KERNBASE))
  /\ pc = "panic" => nextfree > npages * PGSIZE

WindowMapped == \A q \in PhysPage : check_va2pa(kern_pgdir, KERNBASE + q) = q

(* The window, and slot 0 of the directory.                                *)
WindowStands ==
  pc \in Complete =>
    /\ \A d \in 0 .. N - 1 : Dir[d].p => Dir[d].ppn < Top /\ Dir[d].ppn < npages
    /\ \A d \in FirstDir .. N - 1 : Dir[d].p /\ Dir[d].ppn # kern_pgdir
    /\ WindowMapped
    /\ pc \in LowMapped => Dir[0] = Dir[FirstDir]
    /\ pc \in LowGone => Dir[0] = Zero

(* How far the switch to paging and flat segments has come.                *)
Switched ==
  /\ paging \in BOOLEAN /\ (paging <=> pc \in Paged)
  /\ pc \in Paged \cup {"lcr0"} => cr3 = kern_pgdir
  /\ base \in [{"gs", "fs", "es", "ds", "ss", "cs"} -> {0, -KERNBASE}]
  /\ pc \notin Flat \cup {"reload"} => \A s \in UsedSegs : base[s] = -KERNBASE
  /\ pc = "reload" => i \in 1 .. 6 /\ \A k \in 1 .. i - 1 : base[SegRegs[k]] = 0
  /\ pc \in Flat => \A s \in UsedSegs : base[s] = 0
  /\ gdtr = IF pc \in Flat \cup {"reload"} THEN KERNBASE + gdtpage ELSE gdtpage
  /\ pc \in {"page_init", "done"} => tlb = {}

(* The free list when page_init has looked at the pages below n.           *)
ListSoFar(n) ==
  /\ lh_first = IF n > Top THEN n - 1 ELSE NULL
  /\ pages = [q \in 0 .. npages - 1 |->
                [le_next |-> IF q > Top /\ q < n THEN q - 1 ELSE NULL,
                 le_prev |-> IF q < Top \/ q >= n THEN NULL
                             ELSE IF q = n - 1 THEN ListHead ELSE q + 1,
                 pp_ref |-> 0]]

FreeListBuilt ==
  /\ pc \notin Listed => pages = << >> /\ lh_first = NULL
  /\ pc \in Listed =>
       /\ ListSoFar(IF pc \in {"page_init", "done"} THEN i ELSE 0)
       /\ pages_at[1] \in Nat /\ pages_at[2] \in Nat
       /\ pages_at[1] + pages_at[2] <= boot_top /\ First < Top
  /\ pc = "page_init" => i <= npages
  /\ pc = "done" => i = npages

BootInv == BootTypeOK /\ Building /\ WindowStands /\ Switched /\ FreeListBuilt
-----------------------------------------------------------------------------
(* Arithmetic of slots and pages.                                          *)

LEMMA Layout ==
  /\ PGSIZE \in Nat /\ PGSIZE > 1 /\ N \in Nat /\ N > 0
  /\ KERNBASE \in Nat /\ KSTKPAGES \in Nat /\ KSTKPAGES > 0 /\ KSTKPAGES < N
  /\ IOPHYSMEM \in Nat /\ IOPHYSMEM > 0 /\ EXTPHYSMEM \in Nat /\ IOPHYSMEM < EXTPHYSMEM
  /\ bootstack \in Nat /\ gdtpage \in Nat /\ end \in Nat /\ end > 0
  /\ SizeofPage \in Nat /\ KBPerPage \in Nat /\ KBPerPage > 0
BY LayoutAssumption

(* Euclid's division, the one fact about \div and % the rest uses.         *)
LEMMA DivMod ==
  ASSUME NEW m \in Nat, m > 0, NEW a \in Nat
  PROVE  /\ a \div m \in Nat /\ a % m \in 0 .. m - 1
         /\ a = m * (a \div m) + (a % m)
OBVIOUS

LEMMA MulMono ==
  ASSUME NEW m \in Nat, NEW a \in Nat, NEW b \in Nat, a <= b
  PROVE  m * a <= m * b
OBVIOUS

LEMMA MulCancel ==
  ASSUME NEW m \in Nat, m > 0, NEW a \in Nat, NEW b \in Nat, m * a <= m * b
  PROVE  a <= b
<1> SUFFICES ASSUME b < a PROVE FALSE
  OBVIOUS
<1>1. m * (b + 1) <= m * a
  BY MulMono, b + 1 <= a, b + 1 \in Nat
<1>2. m * (b + 1) = m * b + m
  OBVIOUS
<1> QED BY <1>1, <1>2

(* The quotient is the only one that leaves a remainder below m.           *)
LEMMA DivUnique ==
  ASSUME NEW m \in Nat, m > 0, NEW q \in Nat, NEW r \in 0 .. m - 1
  PROVE  (m * q + r) \div m = q /\ (m * q + r) % m = r
<1> DEFINE a == m * q + r
           k == a \div m
<1>1. a \in Nat
  OBVIOUS
<1>2. k \in Nat /\ a % m \in 0 .. m - 1 /\ a = m * k + (a % m)
  BY <1>1, DivMod
<1>3. ~ (k < q)
  <2> SUFFICES ASSUME k < q PROVE FALSE
    OBVIOUS
  <2>1. m * (k + 1) <= m * q
    BY <1>2, MulMono, k + 1 <= q, k + 1 \in Nat
  <2>2. m * (k + 1) = m * k + m
    BY <1>2
  <2> QED BY <2>1, <2>2, <1>2
<1>4. ~ (q < k)
  <2> SUFFICES ASSUME q < k PROVE FALSE
    OBVIOUS
  <2>1. m * (q + 1) <= m * k
    BY <1>2, MulMono, q + 1 <= k, q + 1 \in Nat
  <2>2. m * (q + 1) = m * q + m
    OBVIOUS
  <2> QED BY <2>1, <2>2, <1>2
<1>5. k = q
  BY <1>2, <1>3, <1>4
<1> QED BY <1>2, <1>5

LEMMA DivMono ==
  ASSUME NEW m \in Nat, m > 0, NEW a \in Nat, NEW b \in Nat, a <= b
  PROVE  a \div m <= b \div m
<1>1. a \div m \in Nat /\ a % m \in 0 .. m - 1 /\ a = m * (a \div m) + (a % m)
  BY DivMod
<1>2. b \div m \in Nat /\ b % m \in 0 .. m - 1 /\ b = m * (b \div m) + (b % m)
  BY DivMod
<1> SUFFICES ASSUME b \div m < a \div m PROVE FALSE
  BY <1>1, <1>2
<1>3. m * (b \div m + 1) <= m * (a \div m)
  BY <1>1, <1>2, MulMono, b \div m + 1 <= a \div m, b \div m + 1 \in Nat
<1>4. m * (b \div m + 1) = m * (b \div m) + m
  BY <1>2
<1> QED BY <1>1, <1>2, <1>3, <1>4

(* The directory slots of the window, the self-map and the kernel stack.   *)
LEMMA WindowSlots ==
  /\ FirstDir \in Nat /\ KERNBASE = N * FirstDir /\ FirstDir >= 3 /\ FirstDir < N
  /\ Limit = N * N /\ Limit - KERNBASE >= N
  /\ VPT \div N = FirstDir - 1 /\ (KSTACKTOP - 1) \div N = FirstDir - 2
<1>1. FirstDir \in Nat /\ KERNBASE = N * FirstDir
  BY Layout, DivMod, LayoutAssumption DEF FirstDir
<1>2. FirstDir >= 3
  <2> SUFFICES ASSUME FirstDir <= 2 PROVE FALSE
    BY <1>1
  <2>1. N * FirstDir <= N * 2
    BY <1>1, Layout, MulMono
  <2> QED BY <1>1, <2>1, LayoutAssumption
<1>3. FirstDir < N
  <2> SUFFICES ASSUME N <= FirstDir PROVE FALSE
    BY <1>1, Layout
  <2>1. N * N <= N * FirstDir
    BY <1>1, Layout, MulMono
  <2> QED BY <1>1, <2>1, LayoutAssumption, Layout DEF Limit
<1>4. Limit - KERNBASE >= N
  <2>1. N * (FirstDir + 1) <= N * N
    BY <1>1, <1>3, Layout, MulMono, FirstDir + 1 \in Nat, FirstDir + 1 <= N
  <2>2. N * (FirstDir + 1) = N * FirstDir + N
    BY <1>1, Layout
  <2> QED BY <1>1, <2>1, <2>2, Layout DEF Limit
<1>5. VPT \div N = FirstDir - 1
  <2>1. VPT = N * (FirstDir - 1) + 0
    BY <1>1, Layout DEF VPT
  <2> QED BY <1>1, <1>2, <2>1, Layout, DivUnique, FirstDir - 1 \in Nat, 0 \in 0 .. N - 1
<1>6. (KSTACKTOP - 1) \div N = FirstDir - 2
  <2>1. KSTACKTOP - 1 = N * (FirstDir - 2) + (N - 1)
    BY <1>1, Layout DEF VPT, KSTACKTOP
  <2> QED BY <1>1, <1>2, <2>1, Layout, DivUnique, FirstDir - 2 \in Nat, N - 1 \in 0 .. N - 1
<1> QED BY <1>1, <1>2, <1>3, <1>4, <1>5, <1>6 DEF Limit

(* A linear page is its directory index and its table index.               *)
LEMMA LinearPage ==
  ASSUME NEW la \in 0 .. Limit - 1
  PROVE  la \div N \in 0 .. N - 1 /\ la % N \in 0 .. N - 1
<1>1. la \div N \in Nat /\ la % N \in 0 .. N - 1 /\ la = N * (la \div N) + (la % N)
  BY DivMod, Layout, WindowSlots
<1> SUFFICES ASSUME N <= la \div N PROVE FALSE
  BY <1>1, Layout
<1>2. N * N <= N * (la \div N)
  BY <1>1, MulMono, Layout
<1> QED BY <1>1, <1>2, Layout DEF Limit

LEMMA SamePage ==
  ASSUME NEW la \in 0 .. Limit - 1, NEW lb \in 0 .. Limit - 1,
         la \div N = lb \div N, la % N = lb % N
  PROVE  la = lb
<1>1. la = N * (la \div N) + (la % N) /\ lb = N * (lb \div N) + (lb % N)
  BY DivMod, Layout
<1> QED BY <1>1

LEMMA StackPages ==
  ASSUME NEW j \in 0 .. KSTKPAGES - 1
  PROVE  /\ KSTACKTOP - KSTKPAGES + j \in 0 .. Limit - 1
         /\ KSTACKTOP - KSTKPAGES + j < KERNBASE
         /\ (KSTACKTOP - KSTKPAGES + j) \div N = FirstDir - 2
<1> DEFINE r == N - KSTKPAGES + j
<1>1. KSTACKTOP = N * (FirstDir - 2) + N
  BY WindowSlots, Layout DEF KSTACKTOP, VPT
<1>2. KSTACKTOP - KSTKPAGES + j = N * (FirstDir - 2) + r /\ r \in 0 .. N - 1
  BY <1>1, Layout, WindowSlots
<1>3. N * (FirstDir - 2) \in Nat
  BY WindowSlots, Layout
<1>4. KERNBASE = KSTACKTOP + N
  BY WindowSlots, Layout DEF KSTACKTOP, VPT
<1> QED BY <1>1, <1>2, <1>3, <1>4, WindowSlots, Layout, DivUnique, FirstDir - 2 \in Nat DEF KSTACKTOP, VPT

LEMMA WindowPages ==
  ASSUME NEW j \in PhysPage
  PROVE  /\ KERNBASE + j \in 0 .. Limit - 1
         /\ (KERNBASE + j) \div N >= FirstDir
         /\ j < N => (KERNBASE + j) \div N = FirstDir /\ (KERNBASE + j) % N = j
<1>1. KERNBASE + j \in 0 .. Limit - 1 /\ j \in Nat
  BY WindowSlots, Layout DEF PhysPage, Limit
<1>2. (KERNBASE + j) \div N >= FirstDir
  BY <1>1, DivMono, Layout, KERNBASE <= KERNBASE + j DEF FirstDir
<1>3. ASSUME j < N
      PROVE  (KERNBASE + j) \div N = FirstDir /\ (KERNBASE + j) % N = j
  BY <1>1, <1>3, DivUnique, WindowSlots, Layout, j \in 0 .. N - 1
<1> QED BY <1>1, <1>2, <1>3

(* Every slot from FirstDir on holds a page of the window.                 *)
LEMMA WindowReaches ==
  ASSUME NEW d \in FirstDir .. N - 1
  PROVE  \E j \in PhysPage : d = (KERNBASE + j) \div N
<1>1. d \in Nat /\ N * d + N <= Limit
  <2>1. d \in Nat /\ d + 1 \in Nat /\ d + 1 <= N
    BY WindowSlots, Layout
  <2>2. N * (d + 1) <= N * N
    BY <2>1, Layout, MulMono
  <2>3. N * (d + 1) = N * d + N
    BY <2>1, Layout
  <2> QED BY <2>1, <2>2, <2>3, WindowSlots
<1>2. N * FirstDir <= N * d
  BY <1>1, WindowSlots, Layout, MulMono
<1>3. N * d \in Nat /\ N * d - KERNBASE \in PhysPage
  BY <1>1, <1>2, WindowSlots, Layout DEF PhysPage
<1>4. (KERNBASE + (N * d - KERNBASE)) \div N = d
  <2>1. KERNBASE + (N * d - KERNBASE) = N * d + 0
    BY <1>3, Layout
  <2> QED BY <1>1, <2>1, Layout, DivUnique, 0 \in 0 .. N - 1
<1> QED BY <1>3, <1>4

LEMMA LowPages ==
  ASSUME NEW q \in 0 .. N - 1
  PROVE  q \div N = 0 /\ q % N = q /\ q \in 0 .. Limit - 1 /\ q \in PhysPage
<1>1. N * 0 + q = q
  BY Layout
<1>2. q \div N = 0 /\ q % N = q
  BY <1>1, DivUnique, Layout
<1>3. N <= Limit - KERNBASE
  BY WindowSlots, Layout
<1> QED BY <1>2, <1>3, WindowSlots, Layout DEF PhysPage, Limit

(* Rounding to pages.                                                      *)
LEMMA WholePages ==
  ASSUME NEW k \in Nat
  PROVE  PGNUM(PGSIZE * k) = k /\ ROUNDUP(PGSIZE * k) = PGSIZE * k
<1>1. (PGSIZE * k + 0) \div PGSIZE = k
  BY DivUnique, Layout, 0 \in 0 .. PGSIZE - 1
<1>2. (PGSIZE * k + (PGSIZE - 1)) \div PGSIZE = k
  BY DivUnique, Layout, PGSIZE - 1 \in 0 .. PGSIZE - 1
<1>3. PGSIZE * k + 0 = PGSIZE * k /\ PGSIZE * k + PGSIZE - 1 = PGSIZE * k + (PGSIZE - 1)
      /\ k * PGSIZE = PGSIZE * k
  BY Layout
<1> QED BY <1>1, <1>2, <1>3 DEF PGNUM, ROUNDUP

LEMMA RoundedUp ==
  ASSUME NEW b \in Nat
  PROVE  /\ ROUNDUP(b) \in Nat /\ PGNUM(ROUNDUP(b)) \in Nat
         /\ ROUNDUP(b) = PGSIZE * PGNUM(ROUNDUP(b))
         /\ b <= ROUNDUP(b)
<1> DEFINE c == b + PGSIZE - 1
           k == c \div PGSIZE
<1>1. c \in Nat
  BY Layout
<1>2. k \in Nat /\ c % PGSIZE \in 0 .. PGSIZE - 1 /\ c = PGSIZE * k + (c % PGSIZE)
  BY <1>1, DivMod, Layout
<1>3. ROUNDUP(b) = PGSIZE * k
  BY <1>2, Layout DEF ROUNDUP
<1>4. PGNUM(ROUNDUP(b)) = k
  BY <1>2, <1>3, WholePages
<1>5. b <= PGSIZE * k
  BY <1>2, Layout
<1> QED BY <1>2, <1>3, <1>4, <1>5, Layout

LEMMA BelowPage ==
  ASSUME NEW b \in Nat, NEW k \in Nat
  PROVE  (PGNUM(b) < k <=> b < PGSIZE * k) /\ PGNUM(b) \in Nat
<1>1. PGNUM(b) \in Nat /\ b % PGSIZE \in 0 .. PGSIZE - 1
      /\ b = PGSIZE * PGNUM(b) + (b % PGSIZE)
  BY DivMod, Layout DEF PGNUM
<1>2. ASSUME PGNUM(b) < k PROVE b < PGSIZE * k
  <2>1. PGSIZE * (PGNUM(b) + 1) <= PGSIZE * k
    BY <1>1, <1>2, MulMono, Layout, PGNUM(b) + 1 <= k, PGNUM(b) + 1 \in Nat
  <2>2. PGSIZE * (PGNUM(b) + 1) = PGSIZE * PGNUM(b) + PGSIZE
    BY <1>1, Layout
  <2> QED BY <1>1, <2>1, <2>2, Layout
<1>3. ASSUME k <= PGNUM(b) PROVE PGSIZE * k <= b
  <2>1. PGSIZE * k <= PGSIZE * PGNUM(b)
    BY <1>1, <1>3, MulMono, Layout
  <2> QED BY <1>1, <2>1, Layout
<1> QED BY <1>1, <1>2, <1>3, Layout

(* The image lies in the first table's reach, the first block behind it.   *)
LEMMA Image ==
  /\ First \in Nat /\ EXTPHYSMEM < First
  /\ \A q \in EXTPHYSMEM .. PGNUM(end - 1) : q \in 0 .. N - 1 /\ q < First
  /\ gdtpage \in 0 .. N - 1
<1>1. First \in Nat /\ ROUNDUP(end) = PGSIZE * First /\ end <= PGSIZE * First
  BY RoundedUp, Layout DEF First
<1>2. gdtpage * PGSIZE < end /\ end <= N * PGSIZE /\ EXTPHYSMEM <= gdtpage
  BY LayoutAssumption
<1>3. gdtpage < First
  <2> SUFFICES ASSUME First <= gdtpage PROVE FALSE
    BY <1>1, Layout
  <2>1. PGSIZE * First <= PGSIZE * gdtpage
    BY <1>1, MulMono, Layout
  <2> QED BY <1>1, <1>2, <2>1, Layout
<1>4. gdtpage < N
  <2> SUFFICES ASSUME N <= gdtpage PROVE FALSE
    BY Layout
  <2>1. PGSIZE * N <= PGSIZE * gdtpage
    BY MulMono, Layout
  <2> QED BY <1>2, <2>1, Layout
<1>5. PGNUM(end - 1) \in Nat /\ PGNUM(end - 1) < N /\ PGNUM(end - 1) < First
  <2>1. end - 1 \in Nat /\ end - 1 < PGSIZE * N /\ end - 1 < PGSIZE * First
    BY <1>1, <1>2, Layout
  <2> QED BY <2>1, <1>1, BelowPage, Layout
<1> QED BY <1>1, <1>2, <1>3, <1>4, <1>5, Layout

(* boot_alloc.                                                             *)
LEMMA BootTop ==
  ASSUME nextfree \in Nat
  PROVE  /\ boot_top \in Nat /\ Top \in Nat /\ boot_top = PGSIZE * Top
         /\ boot_top > 0 /\ nextfree <= boot_top
         /\ nextfree = 0 => Top = First
         /\ \A b \in Nat : b < boot_top => PGNUM(b) < Top
<1>1. CASE nextfree = 0
  <2>1. boot_top = ROUNDUP(end)
    BY <1>1 DEF boot_top
  <2> QED BY <1>1, <2>1, RoundedUp, BelowPage, Layout DEF Top, First
<1>2. CASE nextfree # 0
  <2>1. boot_top = ROUNDUP(nextfree)
    BY <1>2 DEF boot_top
  <2> QED BY <1>2, <2>1, RoundedUp, BelowPage, Layout DEF Top, First
<1> QED BY <1>1, <1>2

LEMMA BootAlloc ==
  ASSUME nextfree \in Nat, NEW n \in Nat, boot_alloc(n)
  PROVE  /\ nextfree' \in Nat /\ nextfree' # 0 /\ nextfree' = boot_top + n
         /\ Top <= Top' /\ boot_top <= boot_top' /\ nextfree' <= boot_top'
         /\ n = PGSIZE => Top' = Top + 1
         /\ n = 0 => Top' = Top /\ boot_top' = boot_top
<1>1. boot_top \in Nat /\ Top \in Nat /\ boot_top = PGSIZE * Top /\ boot_top > 0
  BY BootTop
<1>2. nextfree' \in Nat /\ nextfree' # 0 /\ nextfree' = boot_top + n
  BY <1>1 DEF boot_alloc
<1>3. boot_top' = ROUNDUP(nextfree') /\ Top' = PGNUM(ROUNDUP(nextfree'))
  BY <1>2 DEF boot_top, Top
<1>4. boot_top' \in Nat /\ Top' \in Nat /\ boot_top' = PGSIZE * Top' /\ nextfree' <= boot_top'
  BY <1>2, <1>3, RoundedUp
<1>5. Top <= Top'
  <2>1. boot_top <= nextfree'
    BY <1>1, <1>2
  <2>2. PGSIZE * Top <= PGSIZE * Top'
    BY <1>1, <1>2, <1>4, <2>1
  <2> DEFINE s == Top
             t == Top'
  <2>3. s \in Nat /\ t \in Nat /\ PGSIZE * s <= PGSIZE * t
    BY <1>1, <1>4, <2>2
  <2> HIDE DEF s, t
  <2>4. s <= t
    BY <2>3, MulCancel, Layout
  <2> QED BY <2>4 DEF s, t
<1>6. ASSUME n = PGSIZE PROVE Top' = Top + 1
  <2>1. nextfree' = PGSIZE * (Top + 1)
    BY <1>1, <1>2, <1>6, Layout
  <2> QED BY <2>1, <1>1, <1>3, WholePages, Top + 1 \in Nat
<1>7. ASSUME n = 0 PROVE Top' = Top /\ boot_top' = boot_top
  <2>1. nextfree' = PGSIZE * Top
    BY <1>1, <1>2, <1>7, Layout
  <2> QED BY <2>1, <1>1, <1>3, WholePages
<1> QED BY <1>1, <1>2, <1>4, <1>5, <1>6, <1>7

-----------------------------------------------------------------------------
(* One turn of boot_map_segment.                                           *)
Mappable == {la \in 0 .. Limit - 1 : la \div N # VPT \div N}

MemType == [PhysPage -> [0 .. N - 1 -> Entry]]

(* In memory: the directory and every table.                               *)
LEMMA DirInMemory ==
  ASSUME BootTypeOK, pc \notin {"i386_mem_detect", "kern_pgdir"}
  PROVE  /\ kern_pgdir \in PhysPage /\ InMemory(kern_pgdir) /\ Dir \in [0 .. N - 1 -> Entry]
         /\ \A q \in Nat : q < npages => q \in PhysPage /\ InMemory(q)
<1>1. npages \in First + 1 .. Limit - KERNBASE /\ kern_pgdir = First /\ First \in Nat
  BY Image DEF BootTypeOK
<1>2. \A q \in Nat : q < npages => q \in PhysPage /\ InMemory(q)
  BY <1>1, WindowSlots, Layout DEF PhysPage, InMemory
<1>3. kern_pgdir \in Nat /\ kern_pgdir < npages
  BY <1>1, WindowSlots, Layout
<1> QED BY <1>2, <1>3 DEF BootTypeOK, Dir

LEMMA MapOne ==
  ASSUME BootTypeOK, pc \notin {"i386_mem_detect", "kern_pgdir"},
         NEW M \in SUBSET Mappable, NEW la \in Mappable, la \notin M,
         Target(la) \in Nat, TablesBuilt(M), boot_map_page(la, Target(la))
  PROVE  /\ nextfree' \in Nat /\ nextfree' # 0 /\ mem' \in MemType
         /\ \/ pc' = "panic" /\ i' = i /\ nextfree' > npages * PGSIZE
            \/ pc' = pc /\ i' = i + 1 /\ TablesBuilt(M \cup {la})'
<1> DEFINE x == la \div N
           y == la % N
           kd == kern_pgdir
           D == Dir
           e == [ppn |-> Target(la), p |-> TRUE]
           Tr(m, lb) == IF ~ m[kd][lb \div N].p THEN Fault
                        ELSE IF m[m[kd][lb \div N].ppn][lb % N].p
                             THEN m[m[kd][lb \div N].ppn][lb % N].ppn ELSE Fault
<1>1. /\ x \in 0 .. N - 1 /\ y \in 0 .. N - 1 /\ x # VPT \div N
      /\ \A lb \in M : /\ lb \div N \in 0 .. N - 1 /\ lb % N \in 0 .. N - 1
                       /\ lb \div N # VPT \div N
                       /\ lb \div N = x => lb % N # y
  BY LinearPage, SamePage DEF Mappable
<1>2. VPT \div N \in 0 .. N - 1
  BY WindowSlots, Layout
<1>3. /\ kd \in PhysPage /\ InMemory(kd) /\ D \in [0 .. N - 1 -> Entry]
      /\ \A q \in Nat : q < npages => q \in PhysPage /\ InMemory(q)
      /\ D = mem[kd] /\ npages \in Nat /\ mem \in MemType
  BY DirInMemory DEF Dir, BootTypeOK, MemType
<1>4. /\ kern_pgdir' = kd /\ npages' = npages
  BY DEF boot_map_page
<1>5. /\ boot_top \in Nat /\ Top \in Nat /\ boot_top = PGSIZE * Top
      /\ nextfree \in Nat /\ nextfree # 0 /\ nextfree <= boot_top
  BY BootTop DEF BootTypeOK
<1>6. e \in Entry /\ e.p /\ e.ppn = Target(la)
  BY DEF Entry
<1>7. \A lb \in M : Tr(mem, lb) = Target(lb)
  BY DEF TablesBuilt, check_va2pa
<1>8. ASSUME \A lb \in M \cup {la} : Tr(mem', lb) = Target(lb)
      PROVE  \A lb \in M \cup {la} : check_va2pa(kern_pgdir, lb)' = Target(lb)
  BY <1>4, <1>8 DEF check_va2pa
<1>9. CASE D[x].p
  <2> DEFINE t == D[x].ppn
  <2>1. t \in Nat /\ t < npages /\ t # kd /\ t \in PhysPage /\ InMemory(t)
    BY <1>1, <1>3, <1>9 DEF TablesBuilt, Entry
  <2>2. /\ nextfree' = nextfree /\ pc' = pc /\ i' = i + 1
        /\ mem' = [mem EXCEPT ![t][y] = e]
    BY <1>3, <1>9, <2>1 DEF boot_map_page, stored
  <2> HIDE DEF t
  <2>3. mem' \in MemType /\ mem'[kd] = D /\ mem'[t] = [mem[t] EXCEPT ![y] = e]
        /\ \A q \in PhysPage \ {t} : mem'[q] = mem[q]
    BY <1>1, <1>3, <1>6, <2>1, <2>2 DEF MemType
  <2>4. Dir' = D /\ Top' = Top
    BY <1>4, <2>2, <2>3 DEF Dir, Top, boot_top
  <2>5. Tr(mem', la) = Target(la)
    <3>1. mem'[t][y] = e
      BY <1>1, <1>3, <2>1, <2>3 DEF MemType
    <3> QED BY <3>1, <1>6, <1>9, <2>3 DEF t
  <2>6. ASSUME NEW lb \in M PROVE Tr(mem', lb) = Tr(mem, lb)
    <3> DEFINE u == D[lb \div N].ppn
               z == lb % N
    <3>1. D[lb \div N].p /\ u \in PhysPage
      BY <1>1, <1>3, <2>6 DEF TablesBuilt, Entry
    <3>2. mem'[u][z] = mem[u][z]
      <4>1. CASE lb \div N = x
        BY <4>1, <1>1, <1>3, <2>1, <2>3, <2>6 DEF t, MemType
      <4>2. CASE lb \div N # x
        BY <4>2, <1>1, <1>9, <2>3, <3>1 DEF t, TablesBuilt
      <4> QED BY <4>1, <4>2
    <3> QED BY <3>1, <3>2, <2>3, <1>3
  <2>7. TablesBuilt(M \cup {la})'
    <3>1. \A d \in 0 .. N - 1 : D[d].p <=> d = VPT \div N \/ \E lb \in M \cup {la} : d = lb \div N
      BY <1>9 DEF TablesBuilt
    <3>2. \A lb \in M \cup {la} : check_va2pa(kern_pgdir, lb)' = Target(lb)
      <4>1. \A lb \in M \cup {la} : Tr(mem', lb) = Target(lb)
        BY <1>7, <2>5, <2>6
      <4> QED BY <1>8, <4>1
    <3> QED BY <1>4, <2>4, <3>1, <3>2 DEF TablesBuilt
  <2> QED BY <1>5, <2>2, <2>3, <2>7
<1>10. CASE ~ D[x].p
  <2> DEFINE t == Top
             w == [ppn |-> t, p |-> TRUE]
             m == [mem EXCEPT ![kd][x] = w]
             E == [D EXCEPT ![x] = w]
  <2>1. boot_alloc(PGSIZE)
    BY <1>3, <1>10 DEF boot_map_page
  <2>2. nextfree' \in Nat /\ nextfree' # 0 /\ nextfree' = boot_top + PGSIZE /\ Top' = Top + 1
    BY <1>5, <2>1, BootAlloc, Layout
  <2>3. m = stored(mem, kd, x, w) /\ w \in Entry /\ w.p /\ w.ppn = t
    BY <1>3, <1>5 DEF stored, Entry
  <2>4. m \in MemType /\ m[kd] = E /\ E \in [0 .. N - 1 -> Entry]
        /\ \A q \in PhysPage \ {kd} : m[q] = mem[q]
    BY <1>1, <1>3, <2>3 DEF MemType
  <2>5. CASE t >= npages
    <3>1. mem' = m /\ pc' = "panic" /\ i' = i
      BY <1>3, <1>5, <1>10, <2>3, <2>5 DEF boot_map_page, Top
    <3>2. nextfree' > npages * PGSIZE
      <4>1. PGSIZE * npages <= PGSIZE * Top
        BY <1>3, <1>5, <2>5, MulMono, Layout
      <4> QED BY <4>1, <1>3, <1>5, <2>2, Layout
    <3> QED BY <2>2, <2>4, <3>1, <3>2
  <2>6. CASE t < npages
    <3>1. t \in PhysPage /\ InMemory(t) /\ t # kd
      BY <1>2, <1>3, <1>5, <2>6 DEF TablesBuilt
    <3>2. /\ pc' = pc /\ i' = i + 1
          /\ mem' = [m EXCEPT ![t][y] = e]
      BY <1>3, <1>5, <1>10, <2>3, <2>6, <3>1 DEF boot_map_page, Top, stored
    <3> HIDE DEF t, m
    <3>3. mem' \in MemType /\ mem'[kd] = E /\ mem'[t][y] = e
          /\ \A q \in PhysPage \ {t, kd} : mem'[q] = mem[q]
      BY <1>1, <1>3, <1>6, <2>4, <3>1, <3>2 DEF MemType
    <3>4. Dir' = E
      BY <1>4, <3>3 DEF Dir
    <3>5. E[x] = w /\ \A d \in 0 .. N - 1 : d # x => E[d] = D[d]
      BY <1>1, <1>3
    <3> HIDE DEF E
    <3>6. Tr(mem', la) = Target(la)
      BY <1>6, <2>3, <3>3, <3>5
    <3>7. ASSUME NEW lb \in M PROVE Tr(mem', lb) = Tr(mem, lb)
      <4> DEFINE u == D[lb \div N].ppn
      <4>1. D[lb \div N].p /\ lb \div N # x /\ u \in Nat /\ u < Top /\ u < npages /\ u # kd
        BY <1>1, <1>3, <1>10, <3>7 DEF TablesBuilt, Entry
      <4>2. mem'[u] = mem[u]
        BY <4>1, <1>3, <3>3, <1>5 DEF t
      <4>3. E[lb \div N] = D[lb \div N]
        BY <4>1, <1>1, <3>5
      <4> QED BY <4>1, <4>2, <4>3, <3>3, <1>3
    <3>8. TablesBuilt(M \cup {la})'
      <4>1. \A d \in 0 .. N - 1 : E[d].p <=> d = VPT \div N \/ \E lb \in M \cup {la} : d = lb \div N
        BY <1>1, <1>10, <2>3, <3>5 DEF TablesBuilt
      <4>2. \A d \in 0 .. N - 1 : IF E[d].p THEN E[d].ppn < Top + 1 /\ E[d].ppn < npages
                                            ELSE E[d] = Zero
        <5>1. \A d \in 0 .. N - 1 : D[d].p => D[d].ppn \in Nat /\ D[d].ppn < Top
                                               /\ D[d].ppn < npages
          BY <1>3 DEF TablesBuilt, Entry
        <5>2. \A d \in 0 .. N - 1 : ~ D[d].p => D[d] = Zero
          BY DEF TablesBuilt
        <5> QED BY <1>1, <1>5, <2>3, <2>6, <3>5, <5>1, <5>2 DEF t
      <4>3. \A d \in 0 .. N - 1 : E[d].p => (E[d].ppn = kd <=> d = VPT \div N)
        BY <1>1, <2>3, <3>1, <3>5 DEF TablesBuilt
      <4>4. \A d \in 0 .. N - 1 : D[d].p => D[d].ppn # Top
        BY <1>3, <1>5 DEF TablesBuilt, Entry
      <4>5. \A d, f \in 0 .. N - 1 : E[d].p /\ E[f].p /\ E[d].ppn = E[f].ppn => d = f
        BY <1>1, <2>3, <3>5, <4>4 DEF TablesBuilt, t
      <4>6. \A lb \in M \cup {la} : check_va2pa(kern_pgdir, lb)' = Target(lb)
        <5>1. \A lb \in M \cup {la} : Tr(mem', lb) = Target(lb)
          BY <1>7, <3>6, <3>7
        <5> QED BY <1>8, <5>1
      <4> QED BY <1>4, <2>2, <3>4, <4>1, <4>2, <4>3, <4>5, <4>6 DEF TablesBuilt
    <3> QED BY <2>2, <3>2, <3>3, <3>8
  <2> QED BY <1>3, <1>5, <2>5, <2>6
<1> QED BY <1>9, <1>10

-----------------------------------------------------------------------------
(* The invariant holds at first and every step preserves it.               *)

LEMMA SegNames ==
  /\ SegRegs[1] = "gs" /\ SegRegs[2] = "fs" /\ SegRegs[3] = "es" /\ SegRegs[4] = "ds"
  /\ SegRegs[5] = "ss" /\ SegRegs[6] = "cs" /\ Len(SegRegs) = 6
BY DEF SegRegs

LEMMA InitInv ==
  ASSUME Init
  PROVE  BootInv
<1>1. mem \in [PhysPage -> [0 .. N - 1 -> Entry]]
  <2>1. PICK w \in {Zero, JunkWord} : mem = [q \in PhysPage |-> [x \in 0 .. N - 1 |-> w]]
    BY DEF Init
  <2>2. w \in Entry
    <3>1. PhysPage \subseteq Nat
      BY Layout, WindowSlots DEF PhysPage
    <3>2. JunkWord \in Word
      BY LayoutAssumption
    <3>3. JunkWord \in Entry
      BY <3>1, <3>2 DEF Word, Entry
    <3>4. Zero \in Entry
      BY DEF Zero, Entry
    <3> QED BY <2>1, <3>3, <3>4
  <2> QED BY <2>1, <2>2
<1>2. base \in [{"gs", "fs", "es", "ds", "ss", "cs"} -> {0, -KERNBASE}]
      /\ \A s \in UsedSegs : base[s] = -KERNBASE
  <2>1. {SegRegs[k] : k \in 1 .. 6} = {"gs", "fs", "es", "ds", "ss", "cs"}
    <3>1. \A k \in 1 .. 6 : k = 1 \/ k = 2 \/ k = 3 \/ k = 4 \/ k = 5 \/ k = 6
      OBVIOUS
    <3> QED BY <3>1, SegNames
  <2> QED BY <2>1 DEF Init, UsedSegs
<1>3. BootTypeOK
  BY <1>1 DEF Init, BootTypeOK, Labels, Detecting
<1>4. Building /\ WindowStands
  BY DEF Init, Building, WindowStands, Complete, LowMapped
<1>5. Switched
  <2>1. pc \notin Paged \cup Flat \cup {"reload", "lcr0", "page_init", "done"}
    BY DEF Init, Paged, Flat
  <2> QED BY <1>2, <2>1 DEF Init, Switched
<1>6. FreeListBuilt
  BY DEF Init, FreeListBuilt, Listed, Complete, LowMapped
<1> QED BY <1>3, <1>4, <1>5, <1>6 DEF BootInv

LEMMA DetectInv ==
  ASSUME BootInv, i386_mem_detect
  PROVE  BootInv'
<1> USE DEF BootInv
<1>1. /\ pc = "i386_mem_detect" /\ pc' = "kern_pgdir" /\ i' = 0
      /\ UNCHANGED <<nextfree, kern_pgdir, mem, pages_at, pages, lh_first,
                     base, gdtr, cr3, paging, tlb>>
  BY DEF i386_mem_detect, listVars, cpuVars
<1>2. npages' \in First + 1 .. Limit - KERNBASE /\ npages' \in Nat
  <2>1. PICK b \in BaseKB, x \in ExtKB :
          npages' = IF x \div KBPerPage # 0 THEN EXTPHYSMEM + x \div KBPerPage
                    ELSE b \div KBPerPage
    BY DEF i386_mem_detect
  <2>2. EXTPHYSMEM + x \div KBPerPage \in First + 1 .. Limit - KERNBASE
    BY MemoryAssumption DEF First
  <2>3. x \div KBPerPage # 0
    BY <2>2, Image, Layout, WindowSlots
  <2> QED BY <2>1, <2>2, <2>3, Image, Layout, WindowSlots
<1>3. BootTypeOK'
  BY <1>1, <1>2 DEF BootTypeOK, Labels
<1>4. Building' /\ WindowStands'
  BY <1>1 DEF Building, WindowStands, Complete, LowMapped
<1>5. Switched'
  BY <1>1 DEF Switched, Paged, Flat
<1>6. FreeListBuilt'
  BY <1>1 DEF FreeListBuilt, Listed, Complete, LowMapped
<1> QED BY <1>3, <1>4, <1>5, <1>6

LEMMA AllocDirInv ==
  ASSUME BootInv, alloc_pgdir
  PROVE  BootInv'
<1> USE DEF BootInv
<1> DEFINE q == First
           self == [ppn |-> q, p |-> TRUE]
           s == VPT \div N
           clear == [x \in 0 .. N - 1 |-> Zero]
<1>1. /\ pc = "kern_pgdir" /\ pc' = "map_stack" /\ i' = 0
      /\ UNCHANGED <<npages, pages_at, pages, lh_first, base, gdtr, cr3, paging, tlb>>
      /\ boot_alloc(PGSIZE)
  BY DEF alloc_pgdir, listVars, cpuVars
<1>2. nextfree = 0 /\ npages \in First + 1 .. Limit - KERNBASE /\ npages \in Nat
      /\ mem \in MemType /\ nextfree \in Nat
  BY <1>1 DEF BootTypeOK, MemType
<1>3. Top = q /\ q \in Nat /\ q < npages /\ q \in PhysPage /\ InMemory(q)
  BY <1>2, BootTop, Image, WindowSlots, Layout DEF PhysPage, InMemory
<1>4. nextfree' \in Nat /\ nextfree' # 0 /\ Top' = q + 1
  BY <1>1, <1>2, <1>3, BootAlloc, Layout
<1>5. kern_pgdir' = q /\ mem' = [[mem EXCEPT ![q] = clear] EXCEPT ![q][s] = self]
  BY <1>3 DEF alloc_pgdir, stored, Top
<1>6. s \in 0 .. N - 1 /\ self \in Entry /\ Zero \in Entry
  BY <1>3, WindowSlots, Layout DEF Entry, Zero
<1>7. mem' \in MemType /\ mem'[q] = [clear EXCEPT ![s] = self]
  BY <1>2, <1>3, <1>5, <1>6 DEF MemType
<1>8. Dir' = [clear EXCEPT ![s] = self]
  BY <1>5, <1>7 DEF Dir
<1>9. BootTypeOK'
  BY <1>1, <1>2, <1>4, <1>5, <1>7 DEF BootTypeOK, Labels, MemType
<1>10. TablesBuilt({})'
  <2>1. /\ Dir'[s] = self /\ self.p /\ self.ppn = q
        /\ \A d \in 0 .. N - 1 : d # s => Dir'[d] = Zero
    BY <1>6, <1>8
  <2>2. ~ Zero.p
    BY DEF Zero
  <2> HIDE DEF self, clear
  <2> QED BY <1>1, <1>3, <1>4, <1>5, <2>1, <2>2 DEF TablesBuilt
<1>11. Building' /\ WindowStands'
  <2>1. Stack(0) = {}
    BY Layout DEF Stack
  <2> QED BY <1>1, <1>10, <2>1, Layout DEF Building, WindowStands, Complete, LowMapped
<1>12. Switched'
  BY <1>1 DEF Switched, Paged, Flat
<1>13. FreeListBuilt'
  BY <1>1 DEF FreeListBuilt, Listed, Complete, LowMapped
<1> QED BY <1>9, <1>11, <1>12, <1>13

LEMMA EarlyFrame ==
  ASSUME BootInv, pc \in {"map_stack", "map_kern"},
         pc' \in {"map_stack", "map_kern", "pages", "panic"}, UNCHANGED <<listVars, cpuVars>>
  PROVE  WindowStands' /\ Switched' /\ FreeListBuilt'
<1> USE DEF BootInv, listVars, cpuVars
<1>1. WindowStands'
  BY DEF WindowStands, Complete, LowMapped
<1>2. Switched'
  BY DEF Switched, Paged, Flat
<1>3. FreeListBuilt'
  BY DEF FreeListBuilt, Listed, Complete, LowMapped
<1> QED BY <1>1, <1>2, <1>3

LEMMA TablesKept ==
  ASSUME NEW M, TablesBuilt(M), UNCHANGED bootVars
  PROVE  TablesBuilt(M)'
BY DEF TablesBuilt, bootVars, Dir, Top, boot_top, check_va2pa

LEMMA OneMorePage ==
  ASSUME NEW b \in Int, NEW n \in Nat
  PROVE  /\ {b + j : j \in 0 .. (n + 1) - 1} = {b + j : j \in 0 .. n - 1} \cup {b + n}
         /\ b + n \notin {b + j : j \in 0 .. n - 1}
<1>1. 0 .. (n + 1) - 1 = (0 .. n - 1) \cup {n}
  OBVIOUS
<1>2. {b + j : j \in 0 .. (n + 1) - 1} = {b + j : j \in 0 .. n - 1} \cup {b + n}
  BY <1>1
<1>3. b + n \notin {b + j : j \in 0 .. n - 1}
  OBVIOUS
<1> QED BY <1>2, <1>3

LEMMA StackMappable ==
  ASSUME NEW n \in 0 .. KSTKPAGES
  PROVE  Stack(n) \in SUBSET Mappable
<1> SUFFICES ASSUME NEW la \in Stack(n) PROVE la \in Mappable
  OBVIOUS
<1>1. PICK j \in 0 .. n - 1 : la = KSTACKTOP - KSTKPAGES + j
  BY DEF Stack
<1>2. j \in 0 .. KSTKPAGES - 1
  BY Layout
<1> QED BY <1>1, <1>2, StackPages, WindowSlots, FirstDir - 2 # FirstDir - 1 DEF Mappable

LEMMA WindowMappable ==
  ASSUME NEW n \in 0 .. Limit - KERNBASE
  PROVE  Window(n) \in SUBSET Mappable
<1> SUFFICES ASSUME NEW la \in Window(n) PROVE la \in Mappable
  OBVIOUS
<1>1. PICK j \in 0 .. n - 1 : la = KERNBASE + j
  BY DEF Window
<1>2. j \in PhysPage
  BY WindowSlots, Layout DEF PhysPage
<1>3. la \in 0 .. Limit - 1 /\ la \div N >= FirstDir
  BY <1>1, <1>2, WindowPages
<1>4. la \div N # FirstDir - 1
  BY <1>3, WindowSlots, LinearPage, Layout
<1> QED BY <1>3, <1>4, WindowSlots DEF Mappable

LEMMA MapStackInv ==
  ASSUME BootInv, map_stack
  PROVE  BootInv'
<1> USE DEF BootInv
<1>1. pc = "map_stack" /\ i \in 0 .. KSTKPAGES /\ TablesBuilt(Stack(i)) /\ i \in Nat
  BY Layout DEF map_stack, Building
<1>2. CASE i * PGSIZE < KSTKPAGES * PGSIZE
           /\ boot_map_page(KSTACKTOP - KSTKPAGES + i, bootstack + i)
  <2>1. i \in 0 .. KSTKPAGES - 1
    <3> SUFFICES ASSUME KSTKPAGES <= i PROVE FALSE
      BY <1>1, Layout
    <3>1. PGSIZE * KSTKPAGES <= PGSIZE * i
      BY <1>1, MulMono, Layout
    <3> QED BY <1>1, <1>2, <3>1, Layout
  <2>2. PICK n \in 0 .. KSTKPAGES - 1 : n = i
    BY <2>1
  <2> DEFINE la == KSTACKTOP - KSTKPAGES + n
             M == Stack(n)
  <2>3. /\ M \in SUBSET Mappable /\ la \in Mappable /\ la \notin M /\ Stack(n + 1) = M \cup {la}
    <3>1. n \in 0 .. KSTKPAGES /\ n + 1 \in 0 .. KSTKPAGES /\ n \in Nat
      BY Layout
    <3>2. Stack(n + 1) = M \cup {la} /\ la \notin M
      BY <3>1, OneMorePage, Layout, KSTACKTOP - KSTKPAGES \in Int DEF Stack, KSTACKTOP, VPT
    <3> QED BY <3>1, <3>2, StackMappable
  <2>4. Target(la) = bootstack + n /\ Target(la) \in Nat
    BY StackPages, Layout DEF Target, KSTACKTOP, VPT
  <2>5. boot_map_page(la, Target(la))
    BY <1>2, <2>2, <2>4
  <2>6. TablesBuilt(M)
    BY <1>1, <2>2
  <2>7. pc \notin {"i386_mem_detect", "kern_pgdir"}
    BY <1>1
  <2> HIDE DEF la, M
  <2>8. /\ nextfree' \in Nat /\ nextfree' # 0 /\ mem' \in MemType
        /\ \/ pc' = "panic" /\ i' = i /\ nextfree' > npages * PGSIZE
           \/ pc' = pc /\ i' = i + 1 /\ TablesBuilt(M \cup {la})'
    BY <2>3, <2>4, <2>5, <2>6, <2>7, MapOne
  <2>9. UNCHANGED <<npages, kern_pgdir, listVars, cpuVars>>
    BY <1>2 DEF boot_map_page
  <2>10. BootTypeOK'
    BY <1>1, <2>8, <2>9 DEF BootTypeOK, Labels, MemType
  <2>11. Building'
    <3>1. CASE pc' = "panic"
      BY <3>1, <2>8, <2>9, <1>1 DEF Building
    <3>2. CASE pc' = pc /\ i' = i + 1 /\ TablesBuilt(M \cup {la})'
      <4>1. i' = n + 1 /\ i' \in 0 .. KSTKPAGES
        BY <2>2, <3>2, Layout
      <4>2. TablesBuilt(Stack(i))'
        BY <2>3, <3>2, <4>1
      <4> QED BY <1>1, <3>2, <4>1, <4>2 DEF Building
    <3> QED BY <2>8, <3>1, <3>2, <1>1
  <2>12. pc' \in {"map_stack", "map_kern", "pages", "panic"}
    BY <1>1, <2>8
  <2> QED BY <1>1, <2>9, <2>10, <2>11, <2>12, EarlyFrame
<1>3. CASE i * PGSIZE >= KSTKPAGES * PGSIZE /\ pc' = "map_kern" /\ i' = 0
           /\ UNCHANGED <<bootVars, listVars, cpuVars>>
  <2>1. i = KSTKPAGES
    <3>1. PGSIZE * KSTKPAGES <= PGSIZE * i
      BY <1>1, <1>3, Layout
    <3>2. KSTKPAGES <= i
      BY <1>1, <3>1, MulCancel, Layout
    <3> QED BY <1>1, <3>2, Layout
  <2>2. TablesBuilt(Stack(KSTKPAGES))
    BY <1>1, <2>1
  <2>3. TablesBuilt(Stack(KSTKPAGES) \cup Window(i))'
    <3>1. Stack(KSTKPAGES) \cup Window(0) = Stack(KSTKPAGES)
      BY DEF Window
    <3>2. TablesBuilt(Stack(KSTKPAGES))'
      BY <1>3, <2>2, TablesKept
    <3> QED BY <1>3, <3>1, <3>2
  <2>4. BootTypeOK'
    BY <1>1, <1>3 DEF BootTypeOK, Labels, bootVars
  <2>5. Building'
    BY <1>3, <2>3, WindowSlots, Layout DEF Building
  <2> QED BY <1>1, <1>3, <2>4, <2>5, EarlyFrame
<1> QED BY <1>2, <1>3 DEF map_stack, boot_map_segment

LEMMA MapKernInv ==
  ASSUME BootInv, map_kern
  PROVE  BootInv'
<1> USE DEF BootInv
<1> DEFINE W == Limit - KERNBASE
           S == Stack(KSTKPAGES)
<1>1. pc = "map_kern" /\ i \in 0 .. W /\ TablesBuilt(S \cup Window(i)) /\ i \in Nat
  BY WindowSlots, Layout DEF map_kern, Building
<1>2. W \in Nat /\ W > 0 /\ KERNBASE \in Nat
  BY WindowSlots, Layout
<1> HIDE DEF W, S
<1>3. CASE i * PGSIZE < W * PGSIZE - 1 /\ boot_map_page(KERNBASE + i, 0 + i)
  <2>1. i \in 0 .. W - 1
    <3> SUFFICES ASSUME W <= i PROVE FALSE
      BY <1>1, <1>2
    <3>1. PGSIZE * W <= PGSIZE * i
      BY <1>1, <1>2, MulMono, Layout
    <3> QED BY <1>1, <1>2, <1>3, <3>1, Layout
  <2>2. PICK n \in 0 .. W - 1 : n = i
    BY <2>1
  <2> DEFINE la == KERNBASE + n
             M == S \cup Window(n)
  <2>3. n \in 0 .. W /\ n + 1 \in 0 .. W /\ n \in Nat
    BY <1>2
  <2>4. Window(n + 1) = Window(n) \cup {la} /\ la \notin Window(n)
    BY <1>2, <2>3, OneMorePage DEF Window
  <2>5. S \in SUBSET Mappable /\ la \notin S
    <3>1. S \in SUBSET Mappable
      BY StackMappable, Layout DEF S
    <3>2. \A l \in S : l < KERNBASE
      BY StackPages DEF S, Stack
    <3> QED BY <1>2, <2>3, <3>1, <3>2
  <2>6. M \in SUBSET Mappable /\ la \in Mappable /\ la \notin M
        /\ S \cup Window(n + 1) = M \cup {la}
    BY <2>3, <2>4, <2>5, WindowMappable DEF W
  <2>7. Target(la) = 0 + n /\ Target(la) \in Nat
    BY <1>2, <2>3 DEF Target
  <2>8. boot_map_page(la, Target(la))
    BY <1>3, <2>2, <2>7
  <2>9. TablesBuilt(M)
    BY <1>1, <2>2
  <2>10. pc \notin {"i386_mem_detect", "kern_pgdir"}
    BY <1>1
  <2> HIDE DEF la, M
  <2>11. /\ nextfree' \in Nat /\ nextfree' # 0 /\ mem' \in MemType
         /\ \/ pc' = "panic" /\ i' = i /\ nextfree' > npages * PGSIZE
            \/ pc' = pc /\ i' = i + 1 /\ TablesBuilt(M \cup {la})'
    BY <2>6, <2>7, <2>8, <2>9, <2>10, MapOne
  <2>12. UNCHANGED <<npages, kern_pgdir, listVars, cpuVars>>
    BY <1>3 DEF boot_map_page
  <2>13. BootTypeOK'
    BY <1>1, <2>11, <2>12 DEF BootTypeOK, Labels, MemType
  <2>14. Building'
    <3>1. CASE pc' = "panic"
      BY <3>1, <2>11, <2>12, <1>1 DEF Building
    <3>2. CASE pc' = pc /\ i' = i + 1 /\ TablesBuilt(M \cup {la})'
      <4>1. i' = n + 1 /\ i' \in 0 .. W
        BY <2>2, <2>3, <3>2
      <4>2. TablesBuilt(S \cup Window(i))'
        BY <2>6, <3>2, <4>1
      <4> QED BY <1>1, <3>2, <4>1, <4>2 DEF Building, W, S
    <3> QED BY <2>11, <3>1, <3>2, <1>1
  <2>15. pc' \in {"map_stack", "map_kern", "pages", "panic"}
    BY <1>1, <2>11
  <2> QED BY <1>1, <2>12, <2>13, <2>14, <2>15, EarlyFrame
<1>4. CASE i * PGSIZE >= W * PGSIZE - 1 /\ pc' = "pages" /\ i' = 0
           /\ UNCHANGED <<bootVars, listVars, cpuVars>>
  <2>1. i = W
    <3> SUFFICES ASSUME i < W PROVE FALSE
      BY <1>1, <1>2
    <3>1. PGSIZE * (i + 1) <= PGSIZE * W
      BY <1>1, <1>2, MulMono, Layout, i + 1 \in Nat, i + 1 <= W
    <3>2. PGSIZE * (i + 1) = PGSIZE * i + PGSIZE
      BY <1>1, Layout
    <3> QED BY <1>1, <1>2, <1>4, <3>1, <3>2, Layout
  <2>2. TablesBuilt(S \cup Window(W))
    BY <1>1, <2>1
  <2>3. TablesBuilt(S \cup Window(W))'
    BY <1>4, <2>2, TablesKept
  <2>4. BootTypeOK'
    BY <1>1, <1>4 DEF BootTypeOK, Labels, bootVars
  <2>5. Building'
    BY <1>4, <2>3 DEF Building, S, W
  <2> QED BY <1>1, <1>4, <2>4, <2>5, EarlyFrame
<1> QED BY <1>3, <1>4 DEF map_kern, boot_map_segment, W

LEMMA AllocPagesInv ==
  ASSUME BootInv, alloc_pages
  PROVE  BootInv'
<1> USE DEF BootInv
<1> DEFINE M == Stack(KSTKPAGES) \cup Window(Limit - KERNBASE)
<1>1. /\ pc = "pages" /\ pc' = "boot_mem_check"
      /\ boot_alloc(npages * SizeofPage)
      /\ pages_at' = <<boot_top, npages * SizeofPage>>
      /\ pages' = [q \in 0 .. npages - 1 |-> ZeroPage]
      /\ UNCHANGED <<npages, kern_pgdir, mem, lh_first, base, gdtr, cr3, paging, tlb, i>>
  BY DEF alloc_pages, cpuVars
<1>2. npages * SizeofPage \in Nat /\ npages \in Nat /\ nextfree \in Nat /\ lh_first = NULL
  BY <1>1, Layout DEF BootTypeOK, FreeListBuilt, Listed, Complete, LowMapped
<1>3. boot_top \in Nat /\ Top \in Nat
  BY <1>2, BootTop
<1>4. /\ nextfree' \in Nat /\ nextfree' # 0 /\ nextfree' = boot_top + npages * SizeofPage
      /\ Top <= Top' /\ nextfree' <= boot_top'
  BY <1>1, <1>2, BootAlloc
<1>5. boot_top' \in Nat /\ Top' \in Nat
  <2>1. (nextfree \in Nat)' => (boot_top \in Nat /\ Top \in Nat)'
    BY BootTop, RoundedUp, <1>4 DEF boot_top, Top
  <2> QED BY <1>4, <2>1
<1>6. BootTypeOK'
  BY <1>1, <1>2, <1>4 DEF BootTypeOK, Labels, Listed
<1>7. TablesBuilt(M)'
  <2>1. TablesBuilt(M)
    BY <1>1 DEF Building
  <2>2. Dir' = Dir /\ Dir \in [0 .. N - 1 -> Entry]
    BY <1>1, DirInMemory DEF Dir
  <2> HIDE DEF M
  <2>3. \A d \in 0 .. N - 1 : IF Dir[d].p THEN Dir[d].ppn < Top' /\ Dir[d].ppn < npages
                                          ELSE Dir[d] = Zero
    BY <2>1, <2>2, <1>3, <1>4, <1>5 DEF TablesBuilt, Entry
  <2>4. \A la \in M : check_va2pa(kern_pgdir, la)' = Target(la)
    BY <1>1, <2>1 DEF TablesBuilt, check_va2pa
  <2> QED BY <1>1, <2>1, <2>2, <2>3, <2>4 DEF TablesBuilt
<1>8. Building' /\ WindowStands'
  BY <1>1, <1>7 DEF Building, WindowStands, Complete, LowMapped
<1>9. Switched'
  BY <1>1 DEF Switched, Paged, Flat
<1>10. FreeListBuilt'
  <2>1. ListSoFar(0)'
    <3>1. \A q \in 0 .. npages - 1 :
            [le_next |-> IF q > Top' /\ q < 0 THEN q - 1 ELSE NULL,
             le_prev |-> IF q < Top' \/ q >= 0 THEN NULL
                         ELSE IF q = 0 - 1 THEN ListHead ELSE q + 1,
             pp_ref |-> 0] = ZeroPage
      BY <1>2, <1>5 DEF ZeroPage
    <3> QED BY <1>1, <1>2, <1>5, <3>1 DEF ListSoFar
  <2>2. pages_at'[1] = boot_top /\ pages_at'[2] = npages * SizeofPage
    BY <1>1
  <2>3. First < Top'
    <3>1. TablesBuilt(M) /\ kern_pgdir = First /\ VPT \div N \in 0 .. N - 1
      BY <1>1, WindowSlots, Layout DEF Building, BootTypeOK
    <3> HIDE DEF M
    <3>2. First < Top
      BY <3>1 DEF TablesBuilt
    <3> QED BY <3>2, <1>3, <1>4, <1>5, Image
  <2> QED BY <1>1, <1>2, <1>3, <1>4, <2>1, <2>2, <2>3 DEF FreeListBuilt, Listed, Complete, LowMapped
<1> QED BY <1>6, <1>8, <1>9, <1>10

(* The tables boot_map_segment built are those boot_mem_check asks for.    *)
LEMMA TablesComplete ==
  ASSUME TablesBuilt(Stack(KSTKPAGES) \cup Window(Limit - KERNBASE))
  PROVE  /\ boot_mem_asserts /\ WindowMapped
         /\ \A d \in FirstDir .. N - 1 : Dir[d].p /\ Dir[d].ppn # kern_pgdir
<1> DEFINE W == Limit - KERNBASE
           M == Stack(KSTKPAGES) \cup Window(W)
<1>1. W \in Nat /\ KERNBASE \in Nat /\ PhysPage = 0 .. W - 1
  BY WindowSlots, Layout DEF PhysPage
<1>2. \A la \in M : check_va2pa(kern_pgdir, la) = Target(la)
  BY DEF TablesBuilt
<1> HIDE DEF W
<1>3. ASSUME NEW q \in PhysPage
      PROVE  KERNBASE + q \in M /\ check_va2pa(kern_pgdir, KERNBASE + q) = q
  <2>1. KERNBASE + q \in M
    BY <1>1, <1>3 DEF Window
  <2>2. Target(KERNBASE + q) = q
    BY <1>1, <1>3 DEF Target
  <2> QED BY <2>1, <2>2, <1>2
<1>4. ASSUME NEW k \in 0 .. KSTKPAGES - 1
      PROVE  /\ KSTACKTOP - KSTKPAGES + k \in M
             /\ check_va2pa(kern_pgdir, KSTACKTOP - KSTKPAGES + k) = bootstack + k
  <2>1. KSTACKTOP - KSTKPAGES + k \in M
    BY <1>4 DEF Stack
  <2>2. Target(KSTACKTOP - KSTKPAGES + k) = bootstack + k
    BY <1>4, StackPages, Layout DEF Target, KSTACKTOP, VPT
  <2> QED BY <2>1, <2>2, <1>2
<1>5. ASSUME NEW d \in 0 .. N - 1
      PROVE  (\E la \in M : d = la \div N)
             <=> d = (KSTACKTOP - 1) \div N \/ d >= KERNBASE \div N
  <2>1. ASSUME NEW la \in M, d = la \div N
        PROVE  d = (KSTACKTOP - 1) \div N \/ d >= KERNBASE \div N
    <3>1. CASE la \in Stack(KSTKPAGES)
      BY <3>1, <2>1, StackPages, WindowSlots DEF Stack
    <3>2. CASE la \in Window(W)
      BY <3>2, <2>1, <1>1, WindowPages DEF Window, FirstDir
    <3> QED BY <2>1, <3>1, <3>2
  <2>2. ASSUME d = (KSTACKTOP - 1) \div N PROVE \E la \in M : d = la \div N
    <3>1. 0 \in 0 .. KSTKPAGES - 1
      BY Layout
    <3> QED BY <2>2, <3>1, <1>4, StackPages, WindowSlots
  <2>3. ASSUME d >= KERNBASE \div N PROVE \E la \in M : d = la \div N
    <3>1. d \in FirstDir .. N - 1
      BY <2>3, <1>5, WindowSlots, Layout DEF FirstDir
    <3>2. PICK j \in PhysPage : d = (KERNBASE + j) \div N
      BY <3>1, WindowReaches
    <3> QED BY <3>2, <1>3
  <2> QED BY <2>1, <2>2, <2>3
<1>6. ASSUME NEW d \in 0 .. N - 1 PROVE Dir[d].p <=> Dir[d] # Zero
  BY <1>6 DEF TablesBuilt, Zero
<1>7. \A d \in 0 .. N - 1 : Dir[d].p <=> d = VPT \div N \/ \E la \in M : d = la \div N
  BY DEF TablesBuilt, W
<1>8. boot_mem_asserts
  <2>1. \A d \in 0 .. N - 1 :
          (Dir[d] # Zero) <=> (d = VPT \div N \/ d = (KSTACKTOP - 1) \div N \/ d >= KERNBASE \div N)
    BY <1>5, <1>6, <1>7
  <2> QED BY <1>3, <1>4, <2>1 DEF boot_mem_asserts, Dir
<1>9. ASSUME NEW d \in FirstDir .. N - 1 PROVE Dir[d].p /\ Dir[d].ppn # kern_pgdir
  <2>1. d \in 0 .. N - 1 /\ d >= KERNBASE \div N /\ d # VPT \div N
    BY <1>9, WindowSlots, Layout DEF FirstDir
  <2>2. Dir[d].p
    BY <2>1, <1>5, <1>7
  <2> QED BY <2>1, <2>2 DEF TablesBuilt
<1>10. WindowMapped
  BY <1>3 DEF WindowMapped
<1> QED BY <1>8, <1>9, <1>10

LEMMA CheckInv ==
  ASSUME BootInv, boot_mem_check
  PROVE  BootInv'
<1> USE DEF BootInv
<1> DEFINE M == Stack(KSTKPAGES) \cup Window(Limit - KERNBASE)
<1>1. pc = "boot_mem_check" /\ TablesBuilt(M)
  BY DEF boot_mem_check, Building
<1>2. /\ boot_mem_asserts /\ WindowMapped
      /\ \A d \in FirstDir .. N - 1 : Dir[d].p /\ Dir[d].ppn # kern_pgdir
  BY <1>1, TablesComplete
<1>3. pc' = "low_map" /\ UNCHANGED <<npages, nextfree, kern_pgdir, mem, pages_at, pages, lh_first,
                                      base, gdtr, cr3, paging, tlb, i>>
  BY <1>2 DEF boot_mem_check, bootVars, listVars, cpuVars
<1>4. Dir' = Dir /\ Top' = Top /\ boot_top' = boot_top /\ WindowMapped'
  BY <1>2, <1>3 DEF Dir, Top, boot_top, WindowMapped, check_va2pa
<1>5. BootTypeOK'
  BY <1>1, <1>3 DEF BootTypeOK, Labels, Listed, Complete
<1>6. Building'
  BY <1>3 DEF Building
<1>7. WindowStands'
  <2>1. \A d \in 0 .. N - 1 : Dir[d].p => Dir[d].ppn < Top /\ Dir[d].ppn < npages
    BY <1>1 DEF TablesBuilt
  <2> QED BY <1>2, <1>3, <1>4, <2>1 DEF WindowStands, LowMapped, LowGone
<1>8. Switched'
  BY <1>1, <1>3 DEF Switched, Paged, Flat
<1>9. FreeListBuilt'
  <2>1. ListSoFar(0) => ListSoFar(0)'
    BY <1>3, <1>4 DEF ListSoFar
  <2> QED BY <1>1, <1>3, <1>4, <2>1 DEF FreeListBuilt, Listed, Complete, LowMapped
<1> QED BY <1>5, <1>6, <1>7, <1>8, <1>9

(* Slot 0 of the directory changes, the window does not.                   *)
LEMMA SlotZero ==
  ASSUME BootInv, pc \in Complete, NEW v \in Entry, v.p => v.ppn < Top /\ v.ppn < npages,
         mem' = stored(mem, kern_pgdir, 0, v), UNCHANGED <<npages, nextfree, kern_pgdir>>
  PROVE  /\ mem' \in MemType /\ Dir'[0] = v /\ Dir'[FirstDir] = Dir[FirstDir] /\ WindowMapped'
         /\ \A d \in 0 .. N - 1 : Dir'[d].p => Dir'[d].ppn < Top' /\ Dir'[d].ppn < npages'
         /\ \A d \in FirstDir .. N - 1 : Dir'[d].p /\ Dir'[d].ppn # kern_pgdir'
<1> USE DEF BootInv
<1> DEFINE kd == kern_pgdir
<1>1. /\ pc \notin {"i386_mem_detect", "kern_pgdir"} /\ BootTypeOK /\ mem \in MemType
      /\ npages \in Nat
  BY DEF Complete, LowMapped, BootTypeOK, MemType
<1>2. /\ kd \in PhysPage /\ InMemory(kd) /\ Dir \in [0 .. N - 1 -> Entry]
      /\ \A q \in Nat : q < npages => q \in PhysPage
  BY <1>1, DirInMemory
<1>3. 0 \in 0 .. N - 1 /\ 0 \notin FirstDir .. N - 1 /\ FirstDir \in FirstDir .. N - 1
      /\ FirstDir .. N - 1 \subseteq 0 .. N - 1
  BY WindowSlots, Layout
<1>4. mem' = [mem EXCEPT ![kd][0] = v]
  BY <1>2 DEF stored
<1>5. mem' \in MemType /\ mem'[kd] = [Dir EXCEPT ![0] = v]
      /\ \A q \in PhysPage \ {kd} : mem'[q] = mem[q]
  BY <1>1, <1>2, <1>3, <1>4 DEF MemType, Dir
<1>6. Dir' = [Dir EXCEPT ![0] = v] /\ Top' = Top
  BY <1>5 DEF Dir, Top, boot_top
<1>7. Dir'[0] = v /\ \A d \in 0 .. N - 1 : d # 0 => Dir'[d] = Dir[d]
  BY <1>2, <1>3, <1>6
<1>8. /\ \A d \in 0 .. N - 1 : Dir[d].p => Dir[d].ppn < Top /\ Dir[d].ppn < npages
      /\ \A d \in FirstDir .. N - 1 : Dir[d].p /\ Dir[d].ppn # kd
      /\ WindowMapped
  BY DEF WindowStands
<1>9. WindowMapped'
  <2> SUFFICES ASSUME NEW q \in PhysPage
               PROVE  check_va2pa(kern_pgdir, KERNBASE + q)' = q
    BY DEF WindowMapped
  <2> DEFINE x == (KERNBASE + q) \div N
             y == (KERNBASE + q) % N
             u == Dir[x].ppn
  <2>1. KERNBASE + q \in 0 .. Limit - 1 /\ x >= FirstDir
    BY WindowPages
  <2>2. x \in 0 .. N - 1
    BY <2>1, LinearPage
  <2>3. x \in FirstDir .. N - 1 /\ x # 0
    BY <2>1, <2>2, WindowSlots, Layout
  <2> HIDE DEF x
  <2>4. Dir[x].p /\ u # kd /\ u \in PhysPage
    BY <1>2, <1>8, <2>2, <2>3 DEF Entry
  <2>5. Dir'[x] = Dir[x] /\ mem'[u] = mem[u]
    BY <1>5, <1>7, <2>2, <2>3, <2>4
  <2>6. check_va2pa(kern_pgdir, KERNBASE + q) = q
    BY <1>8 DEF WindowMapped
  <2>7. mem[u][y].p /\ mem[u][y].ppn = q
    <3>1. (IF mem[u][y].p THEN mem[u][y].ppn ELSE Fault) = q
      BY <2>4, <2>6 DEF check_va2pa, Dir, x
    <3>2. q # Fault
      BY WindowSlots, Layout DEF PhysPage, Fault
    <3> QED BY <3>1, <3>2
  <2> QED BY <2>4, <2>5, <2>7 DEF check_va2pa, Dir, x
<1>10. \A d \in 0 .. N - 1 : Dir'[d].p => Dir'[d].ppn < Top' /\ Dir'[d].ppn < npages'
  BY <1>6, <1>7, <1>8
<1>11. \A d \in FirstDir .. N - 1 : Dir'[d].p /\ Dir'[d].ppn # kern_pgdir'
  BY <1>3, <1>7, <1>8
<1>12. Dir'[FirstDir] = Dir[FirstDir]
  BY <1>3, <1>7
<1> QED BY <1>5, <1>7, <1>9, <1>10, <1>11, <1>12

LEMMA ListKept ==
  ASSUME BootInv, pc \in Complete \ {"page_init", "done"}, pc' \in Complete,
         pc' # "done", pc' = "page_init" => i' = 0,
         UNCHANGED <<npages, nextfree, pages_at, pages, lh_first>>
  PROVE  FreeListBuilt'
<1> USE DEF BootInv
<1>1. Top' = Top /\ boot_top' = boot_top /\ npages \in Nat
  BY DEF Top, boot_top, BootTypeOK
<1>2. pc \in Listed /\ pc' \in Listed
  BY DEF Listed
<1>3. ListSoFar(0)
  BY <1>2 DEF FreeListBuilt
<1>4. ListSoFar(0)'
  BY <1>1, <1>3 DEF ListSoFar
<1>5. /\ pages_at[1] \in Nat /\ pages_at[2] \in Nat
      /\ pages_at[1] + pages_at[2] <= boot_top /\ First < Top
  BY <1>2 DEF FreeListBuilt
<1> QED BY <1>1, <1>2, <1>4, <1>5 DEF FreeListBuilt

LEMMA LowMapInv ==
  ASSUME BootInv, low_map
  PROVE  BootInv'
<1> USE DEF BootInv
<1> DEFINE v == Dir[FirstDir]
<1>1. /\ pc = "low_map" /\ pc' = "lcr3" /\ mem' = stored(mem, kern_pgdir, 0, v)
      /\ UNCHANGED <<npages, nextfree, kern_pgdir, pages_at, pages, lh_first,
                     base, gdtr, cr3, paging, tlb, i>>
  BY DEF low_map, Dir, FirstDir, listVars, cpuVars
<1>2. pc \in Complete /\ pc' \in Complete /\ pc \notin {"i386_mem_detect", "kern_pgdir"}
  BY <1>1 DEF Complete, LowMapped
<1>3. FirstDir \in 0 .. N - 1
  BY WindowSlots, Layout
<1>4. v \in Entry /\ (v.p => v.ppn < Top /\ v.ppn < npages)
  BY <1>2, <1>3, DirInMemory DEF WindowStands
<1>5. /\ mem' \in MemType /\ Dir'[0] = v /\ Dir'[FirstDir] = v /\ WindowMapped'
      /\ \A d \in 0 .. N - 1 : Dir'[d].p => Dir'[d].ppn < Top' /\ Dir'[d].ppn < npages'
      /\ \A d \in FirstDir .. N - 1 : Dir'[d].p /\ Dir'[d].ppn # kern_pgdir'
  <2> HIDE DEF v
  <2>1. UNCHANGED <<npages, nextfree, kern_pgdir>> /\ mem' = stored(mem, kern_pgdir, 0, v)
    BY <1>1
  <2> QED BY <1>2, <1>4, <2>1, SlotZero DEF v
<1>6. BootTypeOK'
  BY <1>1, <1>5 DEF BootTypeOK, Labels, Listed, Complete, LowMapped, MemType
<1>7. Building'
  BY <1>1 DEF Building
<1>8. WindowStands'
  BY <1>1, <1>5 DEF WindowStands, LowGone
<1>9. Switched'
  BY <1>1 DEF Switched, Paged, Flat
<1>10. FreeListBuilt'
  BY <1>1, <1>2, ListKept
<1> QED BY <1>6, <1>7, <1>8, <1>9, <1>10

LEMMA LowUnmapInv ==
  ASSUME BootInv, low_unmap
  PROVE  BootInv'
<1> USE DEF BootInv
<1>1. /\ pc = "low_unmap" /\ pc' = "flush" /\ mem' = stored(mem, kern_pgdir, 0, Zero)
      /\ UNCHANGED <<npages, nextfree, kern_pgdir, pages_at, pages, lh_first,
                     base, gdtr, cr3, paging, tlb, i>>
  BY DEF low_unmap, listVars, cpuVars
<1>2. pc \in Complete /\ pc' \in Complete /\ Zero \in Entry /\ ~ Zero.p
  BY <1>1 DEF Complete, LowMapped, Zero, Entry
<1>3. /\ mem' \in MemType /\ Dir'[0] = Zero /\ WindowMapped'
      /\ \A d \in 0 .. N - 1 : Dir'[d].p => Dir'[d].ppn < Top' /\ Dir'[d].ppn < npages'
      /\ \A d \in FirstDir .. N - 1 : Dir'[d].p /\ Dir'[d].ppn # kern_pgdir'
  <2>1. UNCHANGED <<npages, nextfree, kern_pgdir>> /\ mem' = stored(mem, kern_pgdir, 0, Zero)
    BY <1>1
  <2> QED BY <1>2, <2>1, SlotZero
<1>4. BootTypeOK'
  BY <1>1, <1>3 DEF BootTypeOK, Labels, Listed, Complete, MemType
<1>5. Building'
  BY <1>1 DEF Building
<1>6. WindowStands'
  BY <1>1, <1>3 DEF WindowStands, LowMapped
<1>7. Switched'
  BY <1>1 DEF Switched, Paged, Flat
<1>8. FreeListBuilt'
  BY <1>1, <1>2, ListKept
<1> QED BY <1>4, <1>5, <1>6, <1>7, <1>8

(* Steps of the switch that store nothing.                                 *)
LEMMA NoStore ==
  ASSUME BootInv, pc \in Complete, pc' \in Complete, UNCHANGED bootVars, i' \in Nat,
         pc' \in LowMapped => pc \in LowMapped, pc' \in LowGone => pc \in LowGone
  PROVE  BootTypeOK' /\ Building' /\ WindowStands'
<1> USE DEF BootInv, bootVars
<1>1. Dir' = Dir /\ Top' = Top /\ (WindowMapped => WindowMapped')
  BY DEF Dir, Top, boot_top, WindowMapped, check_va2pa
<1>2. BootTypeOK'
  BY DEF BootTypeOK, Labels, Listed, Complete, LowMapped
<1>3. Building'
  BY DEF Building, Complete, LowMapped
<1>4. WindowStands'
  BY <1>1 DEF WindowStands
<1> QED BY <1>2, <1>3, <1>4

LEMMA SwitchInv ==
  ASSUME BootInv, lcr3 \/ lcr0 \/ lgdt \/ reload_segment \/ lcr3_flush
  PROVE  BootInv'
<1> USE DEF BootInv
<1>1. i \in Nat
  BY DEF BootTypeOK
<1>2. /\ UNCHANGED bootVars /\ UNCHANGED <<npages, nextfree, kern_pgdir, pages_at, pages, lh_first>>
      /\ pc \in {"lcr3", "lcr0", "lgdt", "reload", "flush"}
      /\ pc' \in {"lcr0", "lgdt", "reload", "low_unmap", "page_init"}
      /\ pc = "flush" <=> pc' = "page_init"
      /\ pc' = "page_init" => i' = 0
      /\ i' \in Nat
  BY <1>1 DEF lcr3, lcr0, lgdt, reload_segment, lcr3_flush, bootVars, listVars
<1>3. BootTypeOK' /\ Building' /\ WindowStands'
  BY <1>2, NoStore DEF Complete, LowMapped, LowGone
<1>4. FreeListBuilt'
  BY <1>2, ListKept DEF Complete, LowMapped
<1>5. Switched'
  <2>1. CASE lcr3
    BY <2>1, <1>2 DEF lcr3, Switched, Paged, Flat
  <2>2. CASE lcr0
    BY <2>2, <1>2 DEF lcr0, Switched, Paged, Flat
  <2>3. CASE lgdt
    BY <2>3, <1>2 DEF lgdt, Switched, Paged, Flat
  <2>4. CASE reload_segment
    <3>1. /\ pc = "reload" /\ i' = i + 1 /\ pc' = IF i = 6 THEN "low_unmap" ELSE "reload"
          /\ base' = [base EXCEPT ![SegRegs[i]] = 0]
          /\ UNCHANGED <<gdtr, cr3, paging, tlb, kern_pgdir>>
      BY <2>4, <1>2, SegNames DEF reload_segment
    <3>2. i \in 1 .. 6 /\ \A k \in 1 .. i - 1 : base[SegRegs[k]] = 0
      BY <3>1 DEF Switched
    <3>3. \A k \in 1 .. 6 : SegRegs[k] \in {"gs", "fs", "es", "ds", "ss", "cs"}
      BY SegNames
    <3>4. base \in [{"gs", "fs", "es", "ds", "ss", "cs"} -> {0, -KERNBASE}]
      BY DEF Switched
    <3>5. base' \in [{"gs", "fs", "es", "ds", "ss", "cs"} -> {0, -KERNBASE}]
          /\ \A k \in 1 .. i : base'[SegRegs[k]] = 0
      BY <3>1, <3>2, <3>3, <3>4
    <3>6. ASSUME i = 6 PROVE \A s \in UsedSegs : base'[s] = 0
      BY <3>5, <3>6, SegNames DEF UsedSegs
    <3>7. i # 6 => i' \in 1 .. 6 /\ \A k \in 1 .. i' - 1 : base'[SegRegs[k]] = 0
      BY <3>1, <3>2, <3>5
    <3>8. CASE i = 6
      BY <3>1, <3>5, <3>6, <3>8 DEF Switched, Paged, Flat
    <3>9. CASE i # 6
      BY <3>1, <3>5, <3>7, <3>9 DEF Switched, Paged, Flat
    <3> QED BY <3>8, <3>9
  <2>5. CASE lcr3_flush
    BY <2>5, <1>2 DEF lcr3_flush, Switched, Paged, Flat
  <2> QED BY <2>1, <2>2, <2>3, <2>4, <2>5
<1> QED BY <1>3, <1>4, <1>5

(* A low linear page goes through slot 0 of the directory.                 *)
LEMMA LowWalk ==
  ASSUME NEW la \in 0 .. N - 1, Dir[0] = Zero
  PROVE  check_va2pa(kern_pgdir, la) = Fault
BY LowPages DEF check_va2pa, Dir, Zero

LEMMA TlbFillInv ==
  ASSUME BootInv, tlb_fill
  PROVE  BootInv'
<1> USE DEF BootInv
<1>1. UNCHANGED <<npages, nextfree, kern_pgdir, mem, pages_at, pages, lh_first, base, gdtr, cr3,
                  paging, pc, i>>
  BY DEF tlb_fill, bootVars, listVars
<1>2. pc \notin {"page_init", "done"}
  <2> SUFFICES ASSUME pc \in {"page_init", "done"} PROVE FALSE
    OBVIOUS
  <2>1. cr3 = kern_pgdir /\ Dir[0] = Zero
    BY DEF Switched, WindowStands, Paged, Complete, LowGone
  <2> QED BY <2>1, LowWalk DEF tlb_fill
<1>3. pc \in Complete
  BY DEF tlb_fill, Switched, Paged, Complete, LowMapped
<1>4. BootTypeOK' /\ Building' /\ WindowStands'
  BY <1>1, <1>3, NoStore DEF bootVars, tlb_fill, BootTypeOK
<1>5. Switched'
  BY <1>1, <1>2 DEF Switched
<1>6. FreeListBuilt'
  BY <1>1, <1>2, <1>3, ListKept DEF Complete
<1> QED BY <1>4, <1>5, <1>6

-----------------------------------------------------------------------------
(* page_init.                                                              *)
PageAt(q, top, n) ==
  [le_next |-> IF q > top /\ q < n THEN q - 1 ELSE NULL,
   le_prev |-> IF q < top \/ q >= n THEN NULL ELSE IF q = n - 1 THEN ListHead ELSE q + 1,
   pp_ref |-> 0]

(* LIST_INSERT_HEAD of page n on the list of the pages from top to n - 1.  *)
LEMMA PushPage ==
  ASSUME NEW top \in Nat, NEW n \in Nat, top <= n, NEW q \in Nat, NEW first,
         first = IF n > top THEN n - 1 ELSE NULL
  PROVE  PageAt(q, top, n + 1)
         = IF q = n THEN [le_next |-> first, le_prev |-> ListHead, pp_ref |-> 0]
           ELSE IF q = first THEN [PageAt(q, top, n) EXCEPT !.le_prev = n]
           ELSE PageAt(q, top, n)
<1>1. CASE q = n
  BY <1>1 DEF PageAt
<1>2. CASE q # n /\ q = first
  <2>1. q = n - 1 /\ n > top
    BY <1>2, PointerAssumption
  <2>2. [PageAt(q, top, n) EXCEPT !.le_prev = n]
        = [le_next |-> PageAt(q, top, n).le_next, le_prev |-> n, pp_ref |-> 0]
    BY DEF PageAt
  <2>3. PageAt(q, top, n).le_next = IF q > top THEN q - 1 ELSE NULL
    BY <2>1 DEF PageAt
  <2>4. PageAt(q, top, n + 1) = [le_next |-> IF q > top THEN q - 1 ELSE NULL,
                                 le_prev |-> n, pp_ref |-> 0]
    BY <2>1 DEF PageAt
  <2> QED BY <1>2, <2>2, <2>3, <2>4
<1>3. CASE q # n /\ q # first
  <2>1. ~ (q = n - 1 /\ n > top)
    BY <1>3
  <2>2. q < n + 1 <=> q < n
    BY <1>3
  <2>3. q < top \/ q >= n \/ (q # n - 1 /\ q # (n + 1) - 1)
    BY <1>3, <2>1
  <2> QED BY <1>3, <2>1, <2>2, <2>3 DEF PageAt
<1> QED BY <1>1, <1>2, <1>3

LEMMA PageInitInv ==
  ASSUME BootInv, page_init
  PROVE  BootInv'
<1> USE DEF BootInv
<1>1. /\ pc = "page_init" /\ pc \in Listed /\ pc \in Complete /\ i \in Nat /\ npages \in Nat
      /\ nextfree \in Nat /\ nextfree # 0 /\ i <= npages /\ kern_pgdir = First
      /\ UNCHANGED <<npages, kern_pgdir, mem, pages_at, base, gdtr, cr3, paging, tlb>>
  BY DEF page_init, cpuVars, BootTypeOK, FreeListBuilt, Listed, Complete
<1>2. /\ nextfree' \in Nat /\ nextfree' # 0 /\ boot_top' = boot_top /\ Top' = Top
      /\ boot_top \in Nat /\ Top \in Nat
  <2>1. CASE boot_alloc(0)
    BY <1>1, <2>1, BootAlloc, BootTop
  <2>2. CASE UNCHANGED nextfree
    BY <1>1, <2>2, BootTop DEF Top, boot_top
  <2> QED BY <2>1, <2>2 DEF page_init
<1>3. /\ lh_first = IF i > Top THEN i - 1 ELSE NULL
      /\ pages = [q \in 0 .. npages - 1 |-> PageAt(q, Top, i)]
      /\ pages_at[1] \in Nat /\ pages_at[2] \in Nat
      /\ pages_at[1] + pages_at[2] <= boot_top /\ First < Top
  BY <1>1 DEF FreeListBuilt, ListSoFar, PageAt
<1>4. pc' \in {"page_init", "done"} /\ i' \in Nat
      /\ (IF i < npages THEN i' = i + 1 /\ pc' = "page_init" ELSE i' = i /\ pc' = "done")
  BY <1>1 DEF page_init
<1>5. /\ lh_first' = IF i' > Top THEN i' - 1 ELSE NULL
      /\ pages' = [q \in 0 .. npages - 1 |-> PageAt(q, Top, i')]
  <2>1. CASE i >= npages
    <3>1. pages' = pages /\ lh_first' = lh_first /\ i' = i
      BY <1>1, <2>1 DEF page_init
    <3> QED BY <1>3, <3>1
  <2>2. CASE i < npages /\ i < Top
    <3>1. i = 0 \/ kept_by_hole(i) \/ kept_by_kernel(i)
      BY <1>1, <2>2 DEF kept_by_kernel, Top
    <3>2. pages' = [pages EXCEPT ![i].pp_ref = 0] /\ lh_first' = lh_first /\ i' = i + 1
      BY <1>1, <2>2, <3>1 DEF page_init
    <3>3. i \in 0 .. npages - 1 /\ PageAt(i, Top, i) = [PageAt(i, Top, i) EXCEPT !.pp_ref = 0]
      BY <1>1, <2>2 DEF PageAt
    <3>4. pages' = pages
      BY <1>3, <3>2, <3>3
    <3>5. \A q \in 0 .. npages - 1 : PageAt(q, Top, i + 1) = PageAt(q, Top, i)
      BY <1>1, <1>2, <2>2 DEF PageAt
    <3>6. lh_first' = NULL /\ ~ (i + 1 > Top)
      BY <1>1, <1>2, <1>3, <2>2, <3>2
    <3> QED BY <1>3, <3>2, <3>4, <3>5, <3>6
  <2>3. CASE i < npages /\ i >= Top
    <3>1. i # 0 /\ ~ kept_by_hole(i) /\ ~ kept_by_kernel(i)
      <4>1. First \in Nat /\ EXTPHYSMEM < First /\ EXTPHYSMEM \in Nat
        BY Image, Layout
      <4>2. i > EXTPHYSMEM
        BY <4>1, <1>1, <1>2, <1>3, <2>3
      <4> QED BY <4>1, <4>2, <1>1, <1>2, <2>3 DEF kept_by_hole, kept_by_kernel, Top
    <3>2. pages' = pushed(i) /\ lh_first' = i /\ i' = i + 1
      BY <1>1, <2>3, <3>1 DEF page_init
    <3>3. DOMAIN pages = 0 .. npages - 1 /\ \A q \in 0 .. npages - 1 : pages[q] = PageAt(q, Top, i)
      BY <1>3
    <3>4. ASSUME NEW q \in 0 .. npages - 1
          PROVE  PageAt(q, Top, i + 1)
                 = IF q = i THEN [le_next |-> lh_first, le_prev |-> ListHead, pp_ref |-> 0]
                   ELSE IF q = lh_first THEN [pages[q] EXCEPT !.le_prev = i] ELSE pages[q]
      <4> DEFINE n == i
                 t == Top
                 f == lh_first
      <4>1. /\ t \in Nat /\ n \in Nat /\ t <= n /\ q \in Nat
            /\ f = IF n > t THEN n - 1 ELSE NULL
        BY <1>1, <1>2, <1>3, <2>3, <3>4
      <4>2. pages[q] = PageAt(q, t, n)
        BY <3>3, <3>4
      <4> HIDE DEF n, t, f
      <4>3. PageAt(q, t, n + 1)
            = IF q = n THEN [le_next |-> f, le_prev |-> ListHead, pp_ref |-> 0]
              ELSE IF q = f THEN [PageAt(q, t, n) EXCEPT !.le_prev = n]
              ELSE PageAt(q, t, n)
        BY <4>1, PushPage
      <4> QED BY <4>2, <4>3, Zenon DEF n, t, f
    <3>5. pages' = [q \in 0 .. npages - 1 |-> PageAt(q, Top, i + 1)]
      BY <3>2, <3>3, <3>4, Zenon DEF pushed
    <3>6. i + 1 > Top /\ (i + 1) - 1 = i
      BY <1>1, <1>2, <2>3
    <3> QED BY <3>2, <3>5, <3>6
  <2> QED BY <1>1, <2>1, <2>2, <2>3, <1>2
<1>6. BootTypeOK'
  BY <1>1, <1>2, <1>4 DEF BootTypeOK, Labels, Listed, Complete
<1>7. Building'
  BY <1>4 DEF Building
<1>8. WindowStands'
  <2>1. Dir' = Dir /\ (WindowMapped => WindowMapped')
    BY <1>1 DEF Dir, WindowMapped, check_va2pa
  <2>2. pc \in LowGone /\ pc' \notin LowMapped
    BY <1>1, <1>4 DEF LowGone, LowMapped
  <2> QED BY <1>1, <1>2, <2>1, <2>2 DEF WindowStands
<1>9. Switched'
  BY <1>1, <1>4 DEF Switched, Paged, Flat
<1>10. FreeListBuilt'
  <2>1. ListSoFar(i)'
    BY <1>1, <1>2, <1>5 DEF ListSoFar, PageAt
  <2>2. pc' \in Listed /\ (pc' = "page_init" => i' <= npages) /\ (pc' = "done" => i' = npages)
    BY <1>1, <1>4 DEF Listed, Complete
  <2> QED BY <1>1, <1>2, <1>3, <1>4, <2>1, <2>2 DEF FreeListBuilt
<1> QED BY <1>6, <1>7, <1>8, <1>9, <1>10

-----------------------------------------------------------------------------
LEMMA StutterInv ==
  ASSUME BootInv, UNCHANGED vars
  PROVE  BootInv'
<1> USE DEF BootInv, vars, bootVars, listVars, cpuVars
<1>1. Dir' = Dir /\ Top' = Top /\ boot_top' = boot_top /\ (WindowMapped => WindowMapped')
  BY DEF Dir, Top, boot_top, WindowMapped, check_va2pa
<1>2. BootTypeOK'
  BY DEF BootTypeOK
<1>3. Building'
  <2>1. \A M : TablesBuilt(M) => TablesBuilt(M)'
    BY TablesKept
  <2>2. pc = "map_stack" => TablesBuilt(Stack(i))'
    <3>1. PICK n : n = i
      OBVIOUS
    <3> QED BY <2>1, <3>1 DEF Building
  <2>3. pc = "map_kern" => TablesBuilt(Stack(KSTKPAGES) \cup Window(i))'
    <3>1. PICK n : n = i
      OBVIOUS
    <3> QED BY <2>1, <3>1 DEF Building
  <2>4. pc \in {"pages", "boot_mem_check"} =>
          TablesBuilt(Stack(KSTKPAGES) \cup Window(Limit - KERNBASE))'
    BY <2>1 DEF Building
  <2> QED BY <2>2, <2>3, <2>4 DEF Building
<1>4. WindowStands'
  BY <1>1 DEF WindowStands
<1>5. Switched'
  BY DEF Switched
<1>6. FreeListBuilt'
  BY <1>1 DEF FreeListBuilt, ListSoFar
<1> QED BY <1>2, <1>3, <1>4, <1>5, <1>6

(* The tables, the processor's state and the free list are right at every  *)
(* step of boot_mem_init and page_init, in memory of any contents.         *)
THEOREM BootInvariant == Spec => []BootInv
<1>1. Init => BootInv
  BY InitInv
<1>2. BootInv /\ [Next]_vars => BootInv'
  <2> SUFFICES ASSUME BootInv, [Next]_vars PROVE BootInv'
    OBVIOUS
  <2>1. CASE BootStep
    BY <2>1, DetectInv, AllocDirInv, MapStackInv, MapKernInv, AllocPagesInv, CheckInv, LowMapInv,
       SwitchInv, LowUnmapInv, PageInitInv DEF BootStep
  <2>2. CASE tlb_fill
    BY <2>2, TlbFillInv
  <2>3. CASE UNCHANGED vars
    BY <2>3, StutterInv
  <2> QED BY <2>1, <2>2, <2>3 DEF Next
<1> QED BY <1>1, <1>2, PTL DEF Spec

(* Linear addresses wrap at the end of the address space.                  *)
LEMMA Unwrapped ==
  ASSUME NEW la \in 0 .. Limit - 1
  PROVE  la % Limit = la
<1>1. Limit \in Nat /\ Limit > 0
  BY WindowSlots, Layout
<1>2. Limit * 0 + la = la
  BY <1>1
<1> QED BY <1>1, <1>2, DivUnique, 0 \in Nat

LEMMA InvKeepsMapping ==
  ASSUME BootInv
  PROVE  KernelStaysMapped
<1> USE DEF BootInv
<1>1. \A q \in EXTPHYSMEM .. PGNUM(end - 1) : q \in 0 .. N - 1
  BY Image
<1>2. ASSUME NEW q \in 0 .. N - 1
      PROVE  /\ q \in 0 .. Limit - 1 /\ KERNBASE + q \in 0 .. Limit - 1
             /\ KERNBASE + q + 0 = KERNBASE + q /\ KERNBASE + q + (-KERNBASE) = q
  <2>1. q \in 0 .. Limit - 1 /\ q \in PhysPage
    BY <1>2, LowPages
  <2>2. KERNBASE + q \in 0 .. Limit - 1
    BY <2>1, WindowPages
  <2>3. KERNBASE + q + 0 = KERNBASE + q /\ KERNBASE + q + (-KERNBASE) = q
    BY <1>2, Layout
  <2> QED BY <2>1, <2>2, <2>3
<1>3. CASE ~ paging
  <2>1. pc \notin Flat \cup {"reload"}
    BY <1>3 DEF Switched, Paged, Flat
  <2>2. gdtr = gdtpage /\ \A s \in UsedSegs : base[s] = -KERNBASE
    BY <2>1 DEF Switched
  <2>3. ASSUME NEW s \in UsedSegs, NEW q \in EXTPHYSMEM .. PGNUM(end - 1)
        PROVE  Reaches(s, KERNBASE + q) = q
    BY <1>1, <1>2, <1>3, <2>2, <2>3, Unwrapped DEF Reaches
  <2> QED BY <1>3, <2>2, <2>3 DEF KernelStaysMapped
<1>4. CASE paging
  <2>1. pc \in Paged /\ pc \in Complete /\ cr3 = kern_pgdir /\ WindowMapped
    BY <1>4 DEF Switched, WindowStands, Paged, Complete, LowMapped
  <2>2. ASSUME NEW q \in 0 .. N - 1
        PROVE  check_va2pa(cr3, KERNBASE + q) = q
    BY <2>1, <2>2, LowPages DEF WindowMapped
  <2>3. ASSUME NEW q \in 0 .. N - 1, pc \in LowMapped
        PROVE  check_va2pa(cr3, q) = q
    <3>1. Dir[0] = Dir[FirstDir]
      BY <2>1, <2>3 DEF WindowStands
    <3>2. /\ q \div N = 0 /\ q % N = q /\ q \in PhysPage
          /\ (KERNBASE + q) \div N = FirstDir /\ (KERNBASE + q) % N = q
      <4>1. q \div N = 0 /\ q % N = q /\ q \in PhysPage /\ q < N
        BY <2>3, LowPages, Layout
      <4> QED BY <4>1, WindowPages
    <3>3. check_va2pa(kern_pgdir, q) = check_va2pa(kern_pgdir, KERNBASE + q)
      BY <3>1, <3>2 DEF check_va2pa, Dir
    <3> QED BY <2>1, <2>2, <2>3, <3>3
  <2>4. ASSUME NEW s \in UsedSegs, NEW q \in EXTPHYSMEM .. PGNUM(end - 1)
        PROVE  Reaches(s, KERNBASE + q) = q
    <3>1. q \in 0 .. N - 1 /\ base[s] \in {0, -KERNBASE}
      BY <1>1, <2>4 DEF Switched, UsedSegs
    <3>2. CASE base[s] = 0
      BY <1>2, <1>4, <2>2, <3>1, <3>2, Unwrapped DEF Reaches
    <3>3. CASE base[s] = -KERNBASE
      <4>1. base[s] # 0
        BY <3>3, WindowSlots, LayoutAssumption
      <4>2. pc \in LowMapped
        BY <2>1, <2>4, <4>1 DEF Switched, Paged, Flat, LowMapped
      <4> QED BY <1>2, <1>4, <2>3, <3>1, <3>3, <4>2, Unwrapped DEF Reaches
    <3> QED BY <3>1, <3>2, <3>3
  <2>5. check_va2pa(cr3, gdtr) = gdtpage
    <3>1. gdtpage \in 0 .. N - 1
      BY Image
    <3>2. CASE pc = "lgdt"
      BY <3>1, <3>2, <2>3 DEF Switched, Flat, LowMapped
    <3>3. CASE pc # "lgdt"
      BY <3>1, <3>3, <2>1, <2>2 DEF Switched, Flat, Paged
    <3> QED BY <3>2, <3>3
  <2> QED BY <1>4, <2>4, <2>5 DEF KernelStaysMapped
<1> QED BY <1>3, <1>4 DEF Switched

(* From entry.S to the end of page_init the kernel image is where it was,  *)
(* through every segment register, whatever mix of old and new segments    *)
(* and page tables is in force.                                            *)
THEOREM MappingNeverLost == Spec => []KernelStaysMapped
BY BootInvariant, InvKeepsMapping, PTL

LEMMA InvPanics ==
  ASSUME BootInv
  PROVE  PanicsOnlyOutOfMemory
<1> USE DEF BootInv
<1>1. pc = "panic" => nextfree > npages * PGSIZE
  BY DEF Building
<1>2. ASSUME pc \notin {"i386_mem_detect", "kern_pgdir", "panic"}
      PROVE  \A d \in 0 .. N - 1 : Dir[d].p => Dir[d].ppn < npages
  <2>1. CASE pc \in Complete
    BY <2>1 DEF WindowStands
  <2>2. CASE pc \notin Complete
    <3>1. pc \in {"map_stack", "map_kern", "pages", "boot_mem_check"}
      BY <1>2, <2>2 DEF BootTypeOK, Labels, Detecting, Listed
    <3>2. PICK M : TablesBuilt(M)
      BY <3>1 DEF Building
    <3> QED BY <3>2 DEF TablesBuilt
  <2> QED BY <2>1, <2>2
<1> QED BY <1>1, <1>2 DEF PanicsOnlyOutOfMemory, Dir

(* Booting fails only for want of memory, and before a table that is not   *)
(* there is used; boot_mem_check's assertions never fail.                  *)
THEOREM BootFailsOnlyForMemory == Spec => []PanicsOnlyOutOfMemory
BY BootInvariant, InvPanics, PTL

LEMMA InvLowGone ==
  ASSUME BootInv
  PROVE  LowMappingGone
<1> SUFFICES ASSUME pc \in {"page_init", "done"}
             PROVE  tlb = {} /\ \A la \in 0 .. N - 1 : check_va2pa(cr3, la) = Fault
  BY DEF LowMappingGone
<1>1. tlb = {} /\ cr3 = kern_pgdir /\ Dir[0] = Zero
  BY DEF BootInv, Switched, WindowStands, Paged, Complete, LowGone
<1> QED BY <1>1, LowWalk

(* The temporary mapping of low addresses is gone from the directory and   *)
(* from the TLB before page_init.                                          *)
THEOREM LowAddressesUnmapped == Spec => []LowMappingGone
BY BootInvariant, InvLowGone, PTL

LEMMA InvFree ==
  ASSUME BootInv
  PROVE  FreePagesUnused
<1> USE DEF BootInv
<1> SUFFICES ASSUME NEW q \in FreePages
             PROVE  /\ q # 0 /\ q < npages /\ ~ (IOPHYSMEM <= q /\ q < EXTPHYSMEM)
                    /\ ~ (EXTPHYSMEM <= q /\ q * PGSIZE < end) /\ q # kern_pgdir
                    /\ \A d \in 0 .. N - 1 : Dir[d].p => Dir[d].ppn # q
                    /\ ~ \E b \in pages_at[1] .. pages_at[1] + pages_at[2] - 1 : PGNUM(b) = q
  BY DEF FreePagesUnused, Dir
<1>1. pc \in Listed
  BY DEF FreeListBuilt, FreePages
<1>2. /\ npages \in Nat /\ nextfree \in Nat /\ kern_pgdir = First
      /\ pc \notin {"i386_mem_detect", "kern_pgdir"}
  BY <1>1 DEF BootTypeOK, Listed, Complete, LowMapped
<1>3. boot_top \in Nat /\ Top \in Nat /\ \A b \in Nat : b < boot_top => PGNUM(b) < Top
  BY <1>2, BootTop
<1>4. First \in Nat /\ First < Top /\ EXTPHYSMEM < First /\ EXTPHYSMEM \in Nat
      /\ pages_at[1] \in Nat /\ pages_at[2] \in Nat /\ pages_at[1] + pages_at[2] <= boot_top
  BY <1>1, Image, Layout DEF FreeListBuilt
<1>5. q \in 0 .. npages - 1 /\ q >= Top
  <2> DEFINE n == IF pc \in {"page_init", "done"} THEN i ELSE 0
  <2>1. ListSoFar(n)
    BY <1>1 DEF FreeListBuilt
  <2> HIDE DEF n
  <2>2. q \in 0 .. npages - 1 /\ pages[q].le_prev # NULL
    BY <2>1 DEF ListSoFar, FreePages
  <2>3. ~ (q < Top)
    BY <2>1, <2>2 DEF ListSoFar
  <2> QED BY <2>2, <2>3, <1>2, <1>3
<1>6. \A d \in 0 .. N - 1 : Dir[d].p => Dir[d].ppn # q
  <2>1. Dir \in [0 .. N - 1 -> Entry]
    BY <1>2, DirInMemory
  <2>2. \A d \in 0 .. N - 1 : Dir[d].p => Dir[d].ppn < Top
    BY <1>1 DEF Listed, Building, WindowStands, TablesBuilt
  <2> QED BY <1>2, <1>3, <1>5, <2>1, <2>2 DEF Entry
<1>7. ASSUME NEW b \in pages_at[1] .. pages_at[1] + pages_at[2] - 1 PROVE PGNUM(b) # q
  <2>1. b \in Nat /\ b < boot_top
    BY <1>3, <1>4, <1>7
  <2>2. PGNUM(b) < Top /\ PGNUM(b) \in Nat
    BY <1>3, <2>1, BelowPage
  <2> QED BY <2>2, <1>2, <1>3, <1>5
<1>8. ~ (q * PGSIZE < end)
  <2>1. end <= PGSIZE * First /\ PGSIZE * First <= PGSIZE * q
    BY <1>2, <1>3, <1>4, <1>5, RoundedUp, MulMono, Layout DEF First
  <2> QED BY <2>1, <1>4, <1>5, Layout
<1> QED BY <1>2, <1>3, <1>4, <1>5, <1>6, <1>7, <1>8

(* No page on the free list is in use by the kernel or does not exist.     *)
THEOREM FreedPagesUnused == Spec => []FreePagesUnused
BY BootInvariant, InvFree, PTL

LEMMA InvHandedOver ==
  ASSUME BootInv
  PROVE  FreeListHandedOver
<1> SUFFICES ASSUME pc = "done"
             PROVE  /\ Top .. npages - 1 \subseteq FreePages
                    /\ lh_first # NULL => lh_first \in FreePages
                    /\ \A q \in 0 .. npages - 1 :
                         LET next == pages[q].le_next  prev == pages[q].le_prev IN
                         /\ pages[q].pp_ref = 0
                         /\ prev = ListHead <=> lh_first = q
                         /\ prev \notin {NULL, ListHead} =>
                              prev \in FreePages /\ pages[prev].le_next = q
                         /\ next # NULL => /\ q \in FreePages /\ next \in FreePages
                                           /\ next < q /\ pages[next].le_prev = q
  BY DEF FreeListHandedOver, Top
<1>1. ListSoFar(npages) /\ npages \in Nat /\ nextfree \in Nat
  BY DEF BootInv, BootTypeOK, FreeListBuilt, Listed, Complete
<1>2. Top \in Nat
  BY <1>1, BootTop
<1>3. /\ lh_first = IF npages > Top THEN npages - 1 ELSE NULL
      /\ DOMAIN pages = 0 .. npages - 1
      /\ \A q \in 0 .. npages - 1 :
           /\ pages[q].le_next = IF q > Top THEN q - 1 ELSE NULL
           /\ pages[q].le_prev = IF q < Top THEN NULL
                                 ELSE IF q = npages - 1 THEN ListHead ELSE q + 1
           /\ pages[q].pp_ref = 0
  BY <1>1, <1>2 DEF ListSoFar
<1>4. FreePages = Top .. npages - 1
  BY <1>1, <1>2, <1>3, PointerAssumption DEF FreePages
<1>5. lh_first # NULL => lh_first \in FreePages
  <2>1. CASE npages > Top
    <3>1. lh_first = npages - 1 /\ npages - 1 \in Top .. npages - 1
      BY <1>1, <1>2, <1>3, <2>1
    <3> QED BY <1>4, <3>1
  <2>2. CASE ~ (npages > Top)
    BY <1>3, <2>2
  <2> QED BY <2>1, <2>2
<1>6. ASSUME NEW q \in 0 .. npages - 1
      PROVE  /\ pages[q].le_prev = ListHead <=> lh_first = q
             /\ pages[q].le_prev \notin {NULL, ListHead} =>
                  pages[q].le_prev \in FreePages /\ pages[pages[q].le_prev].le_next = q
             /\ pages[q].le_next # NULL =>
                  /\ q \in FreePages /\ pages[q].le_next \in FreePages
                  /\ pages[q].le_next < q /\ pages[pages[q].le_next].le_prev = q
  <2>1. q \in Nat /\ q <= npages - 1
    BY <1>1, <1>6
  <2>2. pages[q].le_prev = ListHead <=> lh_first = q
    BY <1>1, <1>2, <1>3, <1>6, <2>1, PointerAssumption
  <2>3. ASSUME pages[q].le_prev \notin {NULL, ListHead}
        PROVE  pages[q].le_prev \in FreePages /\ pages[pages[q].le_prev].le_next = q
    <3>1. pages[q].le_prev = q + 1 /\ q >= Top /\ q + 1 \in 0 .. npages - 1
      BY <1>1, <1>2, <1>3, <1>6, <2>1, <2>3
    <3>2. pages[q + 1].le_next = q
      BY <1>2, <1>3, <2>1, <3>1
    <3> QED BY <1>1, <1>2, <1>4, <2>1, <3>1, <3>2
  <2>4. ASSUME pages[q].le_next # NULL
        PROVE  /\ q \in FreePages /\ pages[q].le_next \in FreePages
               /\ pages[q].le_next < q /\ pages[pages[q].le_next].le_prev = q
    <3>1. pages[q].le_next = q - 1 /\ q > Top /\ q - 1 \in 0 .. npages - 1
      BY <1>1, <1>2, <1>3, <1>6, <2>1, <2>4
    <3>2. pages[q - 1].le_prev = q
      BY <1>1, <1>2, <1>3, <2>1, <3>1
    <3> QED BY <1>1, <1>2, <1>4, <2>1, <3>1, <3>2
  <2> QED BY <2>2, <2>3, <2>4
<1> QED BY <1>3, <1>4, <1>5, <1>6

(* page_init leaves a free list the page functions can work with.          *)
THEOREM ListHandedOver == Spec => []FreeListHandedOver
BY BootInvariant, InvHandedOver, PTL
=============================================================================

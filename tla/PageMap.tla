------------------------------- MODULE PageMap -------------------------------
(***************************************************************************)
(* The physical page allocator and the page-table operations of            *)
(* kern/pmap.c as they run after page_init: page_alloc, page_free,         *)
(* page_decref, pgdir_walk, page_insert, page_lookup, page_remove and      *)
(* tlb_invalidate, on the intrusive LIST of inc/queue.h, with the          *)
(* processor's TLB beside them.                                            *)
(*                                                                         *)
(* The kernel runs on one CPU with interrupts off, so two calls never      *)
(* overlap.  What does run beside a call is the hardware page walker,      *)
(* which may cache a translation between any two stores of the kernel.     *)
(* A call that edits the tables is therefore a sequence of steps, one per  *)
(* store (or group of stores) the walker can see, and `pc' says which      *)
(* store of page_insert or page_remove comes next.                         *)
(***************************************************************************)
EXTENDS Integers, FiniteSets

CONSTANTS
  NPages,       \* npages
  FirstFree,    \* the first page page_init puts on the free list
  PDX, PTX,     \* page directory and page table indices below ULIM
  Perms,        \* the values perm|PTE_P can have
  RefMod,       \* pp_ref is an unsigned counter modulo RefMod (2^16 in the code)
  Junk,         \* a word of memory nobody has initialised
  NULL, ListHead    \* the null pointer, and &page_free_list.lh_first

Page == 0 .. NPages - 1
VA   == PDX \X PTX

(* A page table entry: a page number and flag bits; Zero is the word 0, so *)
(* PTE_ADDR of an empty entry is the address of page 0.                    *)
Word == [ppn : Page, flags : Perms \cup {0}]
Zero == [ppn |-> 0, flags |-> 0]

ASSUME SizeAssumption ==
  /\ NPages \in Nat /\ FirstFree \in 1 .. NPages - 1
  /\ RefMod \in Nat /\ RefMod > 2
ASSUME IndexAssumption == IsFiniteSet(PDX) /\ IsFiniteSet(PTX)
ASSUME WordAssumption  == 0 \notin Perms /\ Junk \in Word
ASSUME PointerAssumption ==
  NULL # ListHead /\ NULL \notin Page /\ ListHead \notin Page /\ NULL \notin [va : VA, new : Word]

VARIABLES
  lh_first,     \* page_free_list.lh_first
  le_next,      \* pages[p].pp_link.le_next
  le_prev,      \* pages[p].pp_link.le_prev: a page q stands for &pages[q].pp_link.le_next
  pp_ref,       \* pages[p].pp_ref
  pgdir,        \* kern_pgdir[d]: NULL for the word 0, else the page of the table
  mem,          \* the words of each physical page, read as a page table
  tlb,          \* the translation the processor caches for va, Zero if none
  stray,        \* history: the va whose cached translation was read from a raw table
  held,         \* pages a client got from page_alloc and has neither mapped nor freed
  pc, op        \* the table-editing call in progress and its arguments

listVars == <<lh_first, le_next, le_prev>>
vars == <<lh_first, le_next, le_prev, pp_ref, pgdir, mem, tlb, stray, held, pc, op>>

PC == {"idle", "memset", "count", "decref", "clear", "invlpg", "write"}

-----------------------------------------------------------------------------
(* page_init pushes the usable pages in increasing order, so the free list *)
(* starts with the highest page; page_free_list and pages[] are otherwise  *)
(* zero, and no page below ULIM has a table.                               *)
page_init ==
  /\ lh_first = NPages - 1
  /\ le_next = [p \in Page |-> IF p > FirstFree THEN p - 1 ELSE NULL]
  /\ le_prev = [p \in Page |-> IF p < FirstFree THEN NULL
                               ELSE IF p = NPages - 1 THEN ListHead ELSE p + 1]
  /\ pp_ref = [p \in Page |-> 0]

Init ==
  /\ page_init
  /\ pgdir = [d \in PDX |-> NULL]
  /\ mem = [p \in Page |-> [x \in PTX |-> Junk]]
  /\ tlb = [va \in VA |-> Zero] /\ stray = {}
  /\ held = {}
  /\ pc = "idle" /\ op = NULL

-----------------------------------------------------------------------------
(* The LIST operations pmap.c uses.                                        *)

LIST_EMPTY == lh_first = NULL

(* Seeded fault: the old list is not linked behind the new element.        *)
LIST_INSERT_HEAD_unlinked(p) ==
  /\ lh_first' = p
  /\ le_next' = [le_next EXCEPT ![p] = NULL]
  /\ le_prev' = [q \in Page |-> IF q = p THEN ListHead
                                ELSE IF q = lh_first THEN p ELSE le_prev[q]]

LIST_INSERT_HEAD(p) ==
  /\ lh_first' = p
  /\ le_next' = [le_next EXCEPT ![p] = lh_first]
  /\ le_prev' = [q \in Page |-> IF q = p THEN ListHead
                                ELSE IF q = lh_first THEN p ELSE le_prev[q]]

(* Seeded fault: the successor keeps its old back pointer.                 *)
LIST_REMOVE_stale_prev(p) ==
  /\ lh_first' = IF le_prev[p] = ListHead THEN le_next[p] ELSE lh_first
  /\ le_next' = [q \in Page |-> IF q = p THEN NULL
                                ELSE IF q = le_prev[p] THEN le_next[p] ELSE le_next[q]]
  /\ le_prev' = [le_prev EXCEPT ![p] = NULL]

(* LIST_REMOVE(p), then the memset of *p that page_alloc does next.        *)
LIST_REMOVE(p) ==
  /\ lh_first' = IF le_prev[p] = ListHead THEN le_next[p] ELSE lh_first
  /\ le_next' = [q \in Page |-> IF q = p THEN NULL
                                ELSE IF q = le_prev[p] THEN le_next[p] ELSE le_next[q]]
  /\ le_prev' = [q \in Page |-> IF q = p THEN NULL
                                ELSE IF q = le_next[p] THEN le_prev[p] ELSE le_prev[q]]

(* The success path of page_alloc: unlink the first page and clear its     *)
(* struct; `ref' is the count the caller leaves in the cleared struct.     *)
take_first_page(ref) ==
  /\ ~ LIST_EMPTY
  /\ LIST_REMOVE(lh_first)
  /\ pp_ref' = [pp_ref EXCEPT ![lh_first] = ref]

(* Seeded faults: a page is freed one reference early, or never.           *)
page_decref_early(p) ==
  LET ref == (pp_ref[p] - 1) % RefMod IN
  /\ pp_ref' = [pp_ref EXCEPT ![p] = ref]
  /\ IF ref <= 1 THEN LIST_INSERT_HEAD(p) ELSE UNCHANGED listVars

page_decref_leak(p) ==
  /\ pp_ref' = [pp_ref EXCEPT ![p] = (pp_ref[p] - 1) % RefMod]
  /\ UNCHANGED listVars

page_decref(p) ==
  LET ref == (pp_ref[p] - 1) % RefMod IN
  /\ pp_ref' = [pp_ref EXCEPT ![p] = ref]
  /\ IF ref = 0 THEN LIST_INSERT_HEAD(p) ELSE UNCHANGED listVars

-----------------------------------------------------------------------------
(* Reading the tables.                                                     *)

(* check_va2pa, and what the hardware walker finds: Zero when va has no    *)
(* page table or an empty entry.                                           *)
check_va2pa(va) == IF pgdir[va[1]] = NULL THEN Zero ELSE mem[pgdir[va[1]]][va[2]]

(* page_lookup: the page whose struct is returned, NULL only when there is *)
(* no page table.                                                          *)
page_lookup(va) == IF pgdir[va[1]] = NULL THEN NULL ELSE mem[pgdir[va[1]]][va[2]].ppn

set_pte(va, w) == mem' = [mem EXCEPT ![pgdir[va[1]]][va[2]] = w]

Mapped(p) == \E va \in VA : check_va2pa(va) # Zero /\ check_va2pa(va).ppn = p

-----------------------------------------------------------------------------
(* Calls of a client between two table-editing calls.                      *)

(* Seeded fault: an empty list is not reported, *pp_store is NULL.         *)
page_alloc_unchecked ==
  /\ pc = "idle"
  /\ held' = held \cup {lh_first}
  /\ \/ take_first_page(0)
     \/ LIST_EMPTY /\ UNCHANGED <<listVars, pp_ref>>
  /\ UNCHANGED <<pgdir, mem, tlb, stray, pc, op>>

page_alloc ==
  /\ pc = "idle"
  /\ \/ /\ take_first_page(0)
        /\ held' = held \cup {lh_first}
     \/ /\ LIST_EMPTY                              \* -E_NO_MEM
        /\ UNCHANGED <<listVars, pp_ref, held>>
  /\ UNCHANGED <<pgdir, mem, tlb, stray, pc, op>>

page_free(p) ==
  /\ pc = "idle"
  /\ LIST_INSERT_HEAD(p)
  /\ held' = held \ {p}
  /\ UNCHANGED <<pp_ref, pgdir, mem, tlb, stray, pc, op>>

(* page_insert calls pgdir_walk with create set.  A missing table is taken *)
(* from the free list and published in pgdir before it is cleared.         *)
page_insert(va, p, perm) ==
  /\ pc = "idle"
  /\ \/ /\ pgdir[va[1]] = NULL
        /\ take_first_page(1)
        /\ pgdir' = [pgdir EXCEPT ![va[1]] = lh_first]
        /\ pc' = "memset"
        /\ op' = [va |-> va, new |-> [ppn |-> p, flags |-> perm]]
     \/ /\ pgdir[va[1]] = NULL
        /\ LIST_EMPTY                              \* -E_NO_MEM
        /\ UNCHANGED <<listVars, pp_ref, pgdir, pc, op>>
     \/ /\ pgdir[va[1]] # NULL
        /\ pc' = "count"
        /\ op' = [va |-> va, new |-> [ppn |-> p, flags |-> perm]]
        /\ UNCHANGED <<listVars, pp_ref, pgdir>>
  /\ UNCHANGED <<mem, tlb, stray, held>>

(* page_remove returns at once when page_lookup returns NULL.              *)
page_remove(va) ==
  /\ pc = "idle"
  /\ IF page_lookup(va) = NULL
     THEN UNCHANGED <<pc, op>>
     ELSE pc' = "decref" /\ op' = [va |-> va, new |-> Zero]
  /\ UNCHANGED <<listVars, pp_ref, pgdir, mem, tlb, stray, held>>

-----------------------------------------------------------------------------
(* The steps of the call in progress.  page_remove runs decref, clear and  *)
(* invlpg; page_insert runs memset (new table only), count, page_remove's  *)
(* three steps if the entry is not zero, then write.                       *)

Inserting == pc # "idle" /\ op.new # Zero

(* Seeded fault: the new table keeps what the page held before.            *)
walk_memset_skipped ==
  /\ pc = "memset"
  /\ pc' = "count"
  /\ UNCHANGED <<listVars, pp_ref, pgdir, mem, tlb, stray, held, op>>

(* pgdir_walk: memset(pte, 0, PGSIZE).                                     *)
walk_memset ==
  /\ pc = "memset"
  /\ mem' = [mem EXCEPT ![pgdir[op.va[1]]] = [x \in PTX |-> Zero]]
  /\ pc' = "count"
  /\ UNCHANGED <<listVars, pp_ref, pgdir, tlb, stray, held, op>>

(* Seeded faults: mapping a page again where it is mapped already is not   *)
(* counted, or returns at once.                                            *)
insert_count_once ==
  /\ pc = "count"
  /\ pp_ref' = [pp_ref EXCEPT ![op.new.ppn] =
                  IF page_lookup(op.va) = op.new.ppn THEN @ ELSE (@ + 1) % RefMod]
  /\ held' = held \ {op.new.ppn}
  /\ pc' = IF check_va2pa(op.va) # Zero THEN "decref" ELSE "write"
  /\ UNCHANGED <<listVars, pgdir, mem, tlb, stray, op>>

insert_count_shortcut ==
  /\ pc = "count"
  /\ IF page_lookup(op.va) = op.new.ppn
     THEN pc' = "idle" /\ op' = NULL /\ UNCHANGED <<pp_ref, held>>
     ELSE /\ pp_ref' = [pp_ref EXCEPT ![op.new.ppn] = (@ + 1) % RefMod]
          /\ held' = held \ {op.new.ppn}
          /\ pc' = IF check_va2pa(op.va) # Zero THEN "decref" ELSE "write"
          /\ op' = op
  /\ UNCHANGED <<listVars, pgdir, mem, tlb, stray>>

(* page_insert: pp->pp_ref++ and the test of *pte.  From here on the page  *)
(* belongs to the tables, no longer to the client.                         *)
insert_count ==
  /\ pc = "count"
  /\ pp_ref' = [pp_ref EXCEPT ![op.new.ppn] = (@ + 1) % RefMod]
  /\ held' = held \ {op.new.ppn}
  /\ pc' = IF check_va2pa(op.va) # Zero THEN "decref" ELSE "write"
  /\ UNCHANGED <<listVars, pgdir, mem, tlb, stray, op>>

(* page_remove: page_decref(pp) for the page page_lookup returned.         *)
remove_decref ==
  /\ pc = "decref"
  /\ page_decref(page_lookup(op.va))
  /\ pc' = "clear"
  /\ UNCHANGED <<pgdir, mem, tlb, stray, held, op>>

(* page_remove: *pte_store = 0.                                            *)
remove_clear ==
  /\ pc = "clear"
  /\ set_pte(op.va, Zero)
  /\ pc' = "invlpg"
  /\ UNCHANGED <<listVars, pp_ref, pgdir, tlb, stray, held, op>>

(* Seeded fault: the cached translation survives.                          *)
tlb_invalidate_skipped ==
  /\ pc = "invlpg"
  /\ IF Inserting THEN pc' = "write" /\ op' = op ELSE pc' = "idle" /\ op' = NULL
  /\ UNCHANGED <<listVars, pp_ref, pgdir, mem, tlb, stray, held>>

(* page_remove: tlb_invalidate(pgdir, va), and the return.                 *)
tlb_invalidate ==
  /\ pc = "invlpg"
  /\ tlb' = [tlb EXCEPT ![op.va] = Zero] /\ stray' = stray \ {op.va}
  /\ IF Inserting THEN pc' = "write" /\ op' = op ELSE pc' = "idle" /\ op' = NULL
  /\ UNCHANGED <<listVars, pp_ref, pgdir, mem, held>>

(* page_insert: *pte = page2pa(pp) | PTE_P | perm, and the return.         *)
insert_write ==
  /\ pc = "write"
  /\ set_pte(op.va, op.new)
  /\ pc' = "idle" /\ op' = NULL
  /\ UNCHANGED <<listVars, pp_ref, pgdir, tlb, stray, held>>

KernelStep ==
  \/ walk_memset \/ insert_count \/ remove_decref
  \/ remove_clear \/ tlb_invalidate \/ insert_write

-----------------------------------------------------------------------------
(* The processor: it caches a present translation whenever it likes and    *)
(* forgets it whenever it likes; it never caches an absent one.  Nothing   *)
(* keeps it from a table that is published but not yet cleared, whose      *)
(* words are whatever the page held before.                                *)

RawTable(va) == pc = "memset" /\ va[1] = op.va[1]

tlb_fill(va) ==
  /\ tlb[va] = Zero /\ check_va2pa(va).flags # 0
  /\ tlb' = [tlb EXCEPT ![va] = check_va2pa(va)]
  /\ stray' = IF RawTable(va) THEN stray \cup {va} ELSE stray
  /\ UNCHANGED <<listVars, pp_ref, pgdir, mem, held, pc, op>>

tlb_evict(va) ==
  /\ tlb[va] # Zero
  /\ tlb' = [tlb EXCEPT ![va] = Zero] /\ stray' = stray \ {va}
  /\ UNCHANGED <<listVars, pp_ref, pgdir, mem, held, pc, op>>

-----------------------------------------------------------------------------
(* What a client may do: free what it holds, map what it holds or what is  *)
(* mapped already, unmap what is mapped (or has no table), and keep the    *)
(* number of mappings of a page within pp_ref's range.  SpecRemoveAny      *)
(* drops what unmapping asks for.                                          *)

Owned(p) == p \in held \/ Mapped(p)

ClientStep ==
  \/ page_alloc
  \/ \E p \in held : page_free(p)
  \/ \E va \in VA, p \in Page, perm \in Perms :
       Owned(p) /\ pp_ref[p] < RefMod - 1 /\ page_insert(va, p, perm)
  \/ \E va \in VA :
       (pgdir[va[1]] = NULL \/ check_va2pa(va) # Zero) /\ page_remove(va)

ProcessorStep ==
  \E va \in VA : tlb_fill(va) \/ tlb_evict(va)

Next == ClientStep \/ KernelStep \/ ProcessorStep

(* A call in progress keeps running: the kernel is one thread with         *)
(* interrupts off, and none of its steps waits for anything.               *)
Spec == Init /\ [][Next]_vars /\ WF_vars(KernelStep)

(* The client also unmaps addresses at which nothing is mapped.            *)
SpecRemoveAny ==
  Init /\ [][Next \/ \E va \in VA : page_remove(va)]_vars /\ WF_vars(KernelStep)

-----------------------------------------------------------------------------
(* Type invariant of the allocator and table state.                        *)
TypeOK ==
  /\ lh_first \in Page \cup {NULL}
  /\ le_next \in [Page -> Page \cup {NULL}]
  /\ le_prev \in [Page -> Page \cup {NULL, ListHead}]
  /\ pp_ref \in [Page -> 0 .. RefMod - 1]
  /\ pgdir \in [PDX -> Page \cup {NULL}]
  /\ mem \in [Page -> [PTX -> Word]]
  /\ tlb \in [VA -> Word] /\ stray \in SUBSET VA
  /\ held \in SUBSET Page
  /\ pc \in PC
  /\ op \in [va : VA, new : Word] \cup {NULL}

(* page_alloc clears the links of a page and page_init leaves those of a   *)
(* reserved page clear, so a page is on a list iff le_prev is set.         *)
OnList(p) == le_prev[p] # NULL

(* The links of page_free_list agree with each other in both directions,   *)
(* so LIST_REMOVE and LIST_INSERT_HEAD never write through a stale link.   *)
FreeListLinked ==
  /\ lh_first # NULL => le_prev[lh_first] = ListHead
  /\ \A p \in Page :
       /\ le_prev[p] = ListHead => lh_first = p
       /\ le_prev[p] \in Page => le_next[le_prev[p]] = p /\ OnList(le_prev[p])
       /\ OnList(p) /\ le_next[p] # NULL => le_prev[le_next[p]] = p
       /\ ~ OnList(p) => le_next[p] = NULL

(* n links after the first page of the free list.                          *)
nth_free ==
  LET nth[n \in 0 .. NPages] ==
        IF n = 0 THEN lh_first
        ELSE IF nth[n - 1] = NULL THEN NULL ELSE le_next[nth[n - 1]]
  IN nth

(* Walking page_free_list from its head meets every page that was freed    *)
(* and not allocated since, and ends: no free page is lost behind a cycle  *)
(* or cut off by a LIST_REMOVE.                                            *)
FreeListComplete ==
  /\ nth_free[NPages] = NULL
  /\ {p \in Page : OnList(p)} = {nth_free[n] : n \in 0 .. NPages} \ {NULL}

(* The entries of va that count as references: not those of a table that   *)
(* is still raw, nor the one page_remove has uncounted but not yet zeroed. *)
Counted(va) == /\ ~ RawTable(va)
               /\ ~ (pc = "clear" /\ va = op.va)
               /\ check_va2pa(va) # Zero

PteRefs(p) == {va \in VA : Counted(va) /\ check_va2pa(va).ppn = p}
PdeRefs(p) == {d \in PDX : pgdir[d] = p}

(* page_insert has counted a reference it has not stored yet.              *)
PendingRef(p) ==
  IF pc \in {"decref", "clear", "invlpg", "write"} /\ Inserting /\ op.new.ppn = p
  THEN 1 ELSE 0

(* pp_ref is the number of page table and page directory entries that      *)
(* point to the page, at every step of every call, page_insert's early     *)
(* increment and page_remove's early decrement included (inc/memlayout.h:  *)
(* "pp_ref is the count of pointers ... to this page").                    *)
RefCountExact ==
  \A p \in Page :
    pp_ref[p] = Cardinality(PteRefs(p)) + Cardinality(PdeRefs(p)) + PendingRef(p)

(* Every page is exactly one of reserved by page_init, on the free list,   *)
(* held by a client, or referenced from the tables: no call sequence leaks *)
(* a page, gives one page to two owners or frees a page in use.            *)
PagePartition ==
  \A p \in Page :
    /\ p < FirstFree => ~ OnList(p) /\ p \notin held /\ pp_ref[p] = 0
    /\ OnList(p)     => p \notin held /\ pp_ref[p] = 0
    /\ p \in held    => pp_ref[p] = 0
    /\ p < FirstFree \/ OnList(p) \/ p \in held \/ pp_ref[p] > 0

(* What the processor caches for va from a table that had been cleared     *)
(* when it was read.                                                       *)
Cached(va) == IF va \in stray THEN Zero ELSE tlb[va]

(* A translation the processor read from a cleared table is in the TLB     *)
(* only while the tables hold it, except for the one entry between         *)
(* page_remove's store and its invlpg.  TLBFollowsTables, below, is about  *)
(* the other translations.                                                 *)
TLBCoherent ==
  \A va \in VA : \/ Cached(va) \in {Zero, check_va2pa(va)}
                 \/ pc = "invlpg" /\ va = op.va

(* Between calls no address below ULIM reaches, through the tables or      *)
(* through a translation cached from a cleared table, a page that is free, *)
(* held by a client, a page table, or reserved by page_init.               *)
NoAccessToForeignPage ==
  pc = "idle" =>
    \A va \in VA : \A w \in {check_va2pa(va), Cached(va)} \ {Zero} :
      /\ ~ OnList(w.ppn) /\ w.ppn \notin held /\ w.ppn >= FirstFree
      /\ \A d \in PDX : pgdir[d] # w.ppn

(* A call that got past its page-table allocation returns: page_insert     *)
(* with va mapped to the page it was given, whatever was mapped there      *)
(* before, page_remove of a mapped address with va unmapped and, in the    *)
(* state it returns in, no translation for va cached.                      *)
CallsComplete ==
  /\ (pc # "idle") ~> (pc = "idle")
  /\ [][pc # "idle" /\ pc' = "idle" =>
          \A va \in {op.va}, new \in {op.new} :
            check_va2pa(va)' = new /\ (new = Zero => tlb'[va] = Zero)]_vars

-----------------------------------------------------------------------------
(* What comments of pmap.c promise and the code does not do.               *)

(* page_remove: "If there is no physical page at that address, silently    *)
(* does nothing."                                                          *)
RemoveUnmappedSilent ==
  [][(pc = "decref" /\ check_va2pa(op.va) = Zero)
       => UNCHANGED <<listVars, pp_ref>>]_vars

(* page_remove: "The TLB must be invalidated if you remove an entry from   *)
(* the pg dir/pg table."  Between calls the TLB holds nothing the tables   *)
(* do not hold, the entries pgdir_walk's memset removed from a table that  *)
(* was published already included.                                         *)
TLBFollowsTables ==
  pc = "idle" => \A va \in VA : tlb[va] \in {Zero, check_va2pa(va)}
=============================================================================

---------------------------- MODULE PageMapProofs ----------------------------
(***************************************************************************)
(* Proofs about PageMap, for every number of pages, every page size and    *)
(* every set of permissions.                                               *)
(***************************************************************************)
EXTENDS PageMapRefinement, PageCheck, TLAPS, FiniteSetTheorems, WellFoundedInduction

(* What the steps of a call rely on: its arguments are those of a call     *)
(* from a client within its contract, its page table exists, and the entry *)
(* it edits is where the previous step left it.                            *)
CallInProgress ==
  /\ pc = "idle" <=> op = NULL
  /\ pc # "idle" => pgdir[op.va[1]] # NULL
  /\ pc \in {"memset", "count"} =>
       /\ op.new.flags \in Perms
       /\ op.new.ppn \in held \/ pp_ref[op.new.ppn] > 0
       /\ pp_ref[op.new.ppn] < RefMod - 1
  /\ pc = "write" => op.new # Zero
  /\ pc \in {"decref", "clear"} => check_va2pa(op.va) # Zero
  /\ pc \in {"invlpg", "write"} => check_va2pa(op.va) = Zero

(* No two directory slots share a page table.                              *)
TablesDistinct ==
  \A d, e \in PDX : pgdir[d] # NULL /\ pgdir[d] = pgdir[e] => d = e

IInv == /\ TypeOK /\ CallInProgress /\ TablesDistinct
        /\ FreeListLinked /\ RefCountExact /\ PagePartition

-----------------------------------------------------------------------------
(* An address is a pair of indices.                                        *)
LEMMA AddressParts ==
  ASSUME NEW va \in VA
  PROVE  va[1] \in PDX /\ va[2] \in PTX /\ va = <<va[1], va[2]>>
  BY DEF VA

(* Word 0 is a word, and a word that carries PTE_P is not word 0.          *)
LEMMA ZeroWord ==
  /\ Zero \in Word
  /\ \A w \in Word : w.flags \in Perms => w # Zero
  /\ 0 \in Page
  BY SizeAssumption, WordAssumption DEF Zero, Word, Page

(* The reference sets are finite.                                          *)
LEMMA RefsFinite ==
  ASSUME NEW p
  PROVE  IsFiniteSet(PteRefs(p)) /\ IsFiniteSet(PdeRefs(p))
<1>1. IsFiniteSet(VA)
  BY IndexAssumption, FS_Product DEF VA
<1> QED
  BY <1>1, IndexAssumption, FS_Subset DEF PteRefs, PdeRefs
-----------------------------------------------------------------------------
(* The types of the links.                                                 *)
LinkTypes ==
  /\ lh_first \in Page \cup {NULL}
  /\ le_next \in [Page -> Page \cup {NULL}]
  /\ le_prev \in [Page -> Page \cup {NULL, ListHead}]

(* The free list as page_init builds it, up to page t.                     *)
HeadUpTo(t) == IF t < FirstFree THEN NULL ELSE t
NextUpTo(t) == [p \in Page |-> IF p > FirstFree /\ p <= t THEN p - 1 ELSE NULL]
PrevUpTo(t) == [p \in Page |-> IF p < FirstFree \/ p > t THEN NULL
                               ELSE IF p = t THEN ListHead ELSE p + 1]
FreeUpTo(t) == lh_first = HeadUpTo(t) /\ le_next = NextUpTo(t) /\ le_prev = PrevUpTo(t)

(* The list page_init builds is well linked, at every length.              *)
LEMMA UpToLinked ==
  ASSUME NEW t \in FirstFree - 1 .. NPages - 1, FreeUpTo(t)
  PROVE  /\ LinkTypes /\ FreeListLinked
         /\ \A p \in Page : OnList(p) <=> p >= FirstFree /\ p <= t
<1> USE SizeAssumption, PointerAssumption DEF FreeUpTo, HeadUpTo, NextUpTo, PrevUpTo
<1>0. \A p \in Page : ListHead # p /\ NULL # p /\ p \in Int /\ p >= 0 /\ p < NPages
  BY DEF Page
<1>1. LinkTypes
  BY DEF LinkTypes, Page
<1>2. \A p \in Page : OnList(p) <=> p >= FirstFree /\ p <= t
  <2> SUFFICES ASSUME NEW p \in Page PROVE OnList(p) <=> p >= FirstFree /\ p <= t
    OBVIOUS
  <2>1. p >= FirstFree /\ p <= t /\ p # t => p + 1 \in Page
    BY DEF Page
  <2> QED
    BY <1>0, <2>1 DEF OnList
<1>3. FreeListLinked
  <2>1. lh_first # NULL => le_prev[lh_first] = ListHead
    BY DEF Page
  <2> SUFFICES ASSUME NEW p \in Page
               PROVE  /\ le_prev[p] = ListHead => lh_first = p
                      /\ le_prev[p] \in Page => le_next[le_prev[p]] = p /\ OnList(le_prev[p])
                      /\ OnList(p) /\ le_next[p] # NULL => le_prev[le_next[p]] = p
                      /\ ~ OnList(p) => le_next[p] = NULL
    BY <2>1 DEF FreeListLinked
  <2>2. CASE p < FirstFree \/ p > t
    BY <1>0, <2>2 DEF OnList
  <2>3. CASE p >= FirstFree /\ p < t
    <3>1. p + 1 \in Page /\ p + 1 > FirstFree /\ p + 1 <= t /\ le_prev[p] = p + 1
      BY <2>3 DEF Page
    <3>2. le_next[p + 1] = p /\ OnList(p + 1)
      BY <1>2, <3>1, <1>0
    <3>3. p > FirstFree => p - 1 \in Page /\ le_next[p] = p - 1 /\ le_prev[p - 1] = p
      BY <2>3 DEF Page
    <3>4. p = FirstFree => le_next[p] = NULL
      BY <2>3
    <3> QED
      BY <3>1, <3>2, <3>3, <3>4, <1>0, <2>3 DEF OnList
  <2>4. CASE p >= FirstFree /\ p = t
    <3>1. le_prev[p] = ListHead /\ lh_first = p
      BY <2>4
    <3>2. p > FirstFree => p - 1 \in Page /\ le_next[p] = p - 1 /\ le_prev[p - 1] = p
      BY <2>4 DEF Page
    <3>3. p = FirstFree => le_next[p] = NULL
      BY <2>4
    <3> QED
      BY <3>1, <3>2, <3>3, <1>0, <2>4 DEF OnList
  <2> QED
    BY <1>0, <2>2, <2>3, <2>4
<1> QED
  BY <1>1, <1>2, <1>3

(* page_init establishes the invariant.                                    *)
LEMMA InitIInv == Init => IInv
<1> SUFFICES ASSUME Init PROVE IInv
  OBVIOUS
<1> USE SizeAssumption, PointerAssumption, ZeroWord, WordAssumption DEF Init, page_init
<1>1. TypeOK
  BY DEF TypeOK, Page, PC
<1>2. CallInProgress /\ TablesDistinct
  BY DEF CallInProgress, TablesDistinct
<1>3. FreeListLinked
  <2>1. FreeUpTo(NPages - 1) /\ NPages - 1 \in FirstFree - 1 .. NPages - 1
    BY DEF FreeUpTo, HeadUpTo, NextUpTo, PrevUpTo, Page
  <2> QED
    BY <2>1, UpToLinked
<1>4. RefCountExact
  <2>1. \A va \in VA : check_va2pa(va) = Zero
    BY AddressParts DEF check_va2pa
  <2>2. \A p \in Page : PteRefs(p) = {} /\ PdeRefs(p) = {} /\ PendingRef(p) = 0 /\ pp_ref[p] = 0
    BY <2>1 DEF PteRefs, PdeRefs, PendingRef, Counted
  <2>3. \A p \in Page : Cardinality(PteRefs(p)) = 0 /\ Cardinality(PdeRefs(p)) = 0
    BY <2>2, FS_EmptySet, Zenon
  <2> QED
    BY <2>2, <2>3 DEF RefCountExact
<1>5. PagePartition
  BY DEF PagePartition, OnList, Page
<1> QED
  BY <1>1, <1>2, <1>3, <1>4, <1>5 DEF IInv

-----------------------------------------------------------------------------
(* The free list.  Each LIST operation keeps the links consistent; a page  *)
(* is put on the list by LIST_INSERT_HEAD and taken off by LIST_REMOVE,    *)
(* and no other page moves.                                                *)

(* LIST_INSERT_HEAD of a page that is on no list.                          *)
LEMMA InsertHeadLinks ==
  ASSUME LinkTypes, FreeListLinked, NEW p \in Page, ~ OnList(p),
         LIST_INSERT_HEAD(p)
  PROVE  /\ LinkTypes' /\ FreeListLinked'
         /\ \A q \in Page : OnList(q)' <=> (q = p \/ OnList(q))
<1> USE PointerAssumption
<1>1. LinkTypes'
  BY DEF LinkTypes, LIST_INSERT_HEAD
<1>2. \A q \in Page : OnList(q)' <=> (q = p \/ OnList(q))
  BY DEF LinkTypes, LIST_INSERT_HEAD, OnList, FreeListLinked
<1>3. FreeListLinked'
  BY DEF LinkTypes, LIST_INSERT_HEAD, OnList, FreeListLinked
<1> QED
  BY <1>1, <1>2, <1>3

(* LIST_REMOVE of the first page.                                          *)
LEMMA RemoveFirstLinks ==
  ASSUME LinkTypes, FreeListLinked, ~ LIST_EMPTY, LIST_REMOVE(lh_first)
  PROVE  /\ LinkTypes' /\ FreeListLinked'
         /\ lh_first \in Page /\ OnList(lh_first)
         /\ \A q \in Page : OnList(q)' <=> (q # lh_first /\ OnList(q))
<1> USE PointerAssumption DEF LIST_EMPTY
<1>1. lh_first \in Page /\ OnList(lh_first) /\ le_prev[lh_first] = ListHead
  BY DEF LinkTypes, OnList, FreeListLinked
<1>2. LinkTypes'
  BY <1>1 DEF LinkTypes, LIST_REMOVE
<1>3. \A q \in Page : OnList(q)' <=> (q # lh_first /\ OnList(q))
  BY <1>1 DEF LinkTypes, LIST_REMOVE, OnList, FreeListLinked
<1>4. FreeListLinked'
  BY <1>1 DEF LinkTypes, LIST_REMOVE, OnList, FreeListLinked
<1> QED
  BY <1>1, <1>2, <1>3, <1>4
-----------------------------------------------------------------------------
(* Translations.  Storing an entry changes one translation, and clearing a *)
(* table those of its own directory slot, because no two slots share it.   *)

(* An address translates to a word, and page_lookup returns its page.      *)
LEMMA TranslationType ==
  ASSUME TypeOK, NEW va \in VA
  PROVE  /\ check_va2pa(va) \in Word
         /\ pgdir[va[1]] # NULL => page_lookup(va) = check_va2pa(va).ppn /\ page_lookup(va) \in Page
         /\ pgdir[va[1]] = NULL => check_va2pa(va) = Zero
  BY AddressParts, ZeroWord DEF TypeOK, check_va2pa, page_lookup, Word

(* A step that leaves the tables alone changes no translation.             *)
LEMMA TranslationFrame ==
  ASSUME UNCHANGED <<pgdir, mem>>, NEW va \in VA
  PROVE  check_va2pa(va)' = check_va2pa(va)
  BY DEF check_va2pa

(* Storing one entry changes the translation of that address alone.        *)
LEMMA SetPteFrame ==
  ASSUME TypeOK, TablesDistinct, NEW va \in VA, pgdir[va[1]] # NULL,
         NEW w \in Word, set_pte(va, w), pgdir' = pgdir
  PROVE  /\ mem' \in [Page -> [PTX -> Word]]
         /\ check_va2pa(va)' = w
         /\ \A u \in VA : u # va => check_va2pa(u)' = check_va2pa(u)
<1>1. pgdir[va[1]] \in Page /\ va[1] \in PDX /\ va[2] \in PTX /\ va = <<va[1], va[2]>>
  BY AddressParts DEF TypeOK
<1>2. mem' \in [Page -> [PTX -> Word]]
  BY <1>1 DEF TypeOK, set_pte
<1>3. check_va2pa(va)' = w
  BY <1>1 DEF TypeOK, set_pte, check_va2pa
<1>4. ASSUME NEW u \in VA, u # va PROVE check_va2pa(u)' = check_va2pa(u)
  <2>1. u[1] \in PDX /\ u[2] \in PTX /\ u = <<u[1], u[2]>>
    BY AddressParts
  <2>2. CASE u[1] # va[1]
    BY <1>1, <2>1, <2>2 DEF TypeOK, set_pte, check_va2pa, TablesDistinct
  <2>3. CASE u[1] = va[1]
    <3>1. u[2] # va[2]
      BY <1>1, <1>4, <2>1, <2>3
    <3> QED
      BY <1>1, <2>1, <2>3, <3>1 DEF TypeOK, set_pte, check_va2pa
  <2> QED
    BY <2>2, <2>3
<1> QED
  BY <1>2, <1>3, <1>4

(* pgdir_walk's memset empties one directory slot and no other.            *)
LEMMA ClearTableFrame ==
  ASSUME TypeOK, TablesDistinct, NEW d \in PDX, pgdir[d] # NULL,
         mem' = [mem EXCEPT ![pgdir[d]] = [x \in PTX |-> Zero]], pgdir' = pgdir
  PROVE  /\ mem' \in [Page -> [PTX -> Word]]
         /\ \A u \in VA : check_va2pa(u)' = IF u[1] = d THEN Zero ELSE check_va2pa(u)
<1>1. pgdir[d] \in Page
  BY DEF TypeOK
<1>2. mem' \in [Page -> [PTX -> Word]]
  BY <1>1, ZeroWord DEF TypeOK
<1>3. ASSUME NEW u \in VA PROVE check_va2pa(u)' = IF u[1] = d THEN Zero ELSE check_va2pa(u)
  BY <1>1, AddressParts DEF TypeOK, check_va2pa, TablesDistinct
<1> QED
  BY <1>2, <1>3

-----------------------------------------------------------------------------
(* References.  The terms of RefCountExact, and how they move.             *)

(* The three terms of RefCountExact are natural numbers.                   *)
LEMMA RefsTypes ==
  ASSUME NEW p \in Page
  PROVE  /\ Cardinality(PteRefs(p)) \in Nat
         /\ Cardinality(PdeRefs(p)) \in Nat
         /\ PendingRef(p) \in {0, 1}
<1>1. Cardinality(PteRefs(p)) \in Nat /\ Cardinality(PdeRefs(p)) \in Nat
  BY RefsFinite, FS_CardinalityType
<1>2. PendingRef(p) \in {0, 1}
  BY DEF PendingRef
<1> QED
  BY <1>1, <1>2

(* A page with an entry or a directory slot pointing to it has pp_ref > 0. *)
LEMMA ReferencedCount ==
  ASSUME TypeOK, RefCountExact, NEW p \in Page, PteRefs(p) # {} \/ PdeRefs(p) # {}
  PROVE  pp_ref[p] > 0
<1>1. Cardinality(PteRefs(p)) # 0 \/ Cardinality(PdeRefs(p)) # 0
  BY RefsFinite, FS_EmptySet, Zenon
<1> QED
  BY <1>1, RefsTypes DEF RefCountExact

(* The counts stay exact when neither the references nor pp_ref change.    *)
LEMMA SameRefs ==
  ASSUME RefCountExact, pgdir' = pgdir, pp_ref' = pp_ref,
         \A va \in VA : /\ Counted(va)' <=> Counted(va)
                        /\ Counted(va) => check_va2pa(va)' = check_va2pa(va),
         \A p \in Page : PendingRef(p)' = PendingRef(p)
  PROVE  RefCountExact'
<1> SUFFICES ASSUME NEW p \in Page
             PROVE  PteRefs(p)' = PteRefs(p) /\ PdeRefs(p)' = PdeRefs(p)
  BY DEF RefCountExact
<1>1. PteRefs(p)' = PteRefs(p)
  BY DEF PteRefs
<1>2. PdeRefs(p)' = PdeRefs(p)
  BY DEF PdeRefs
<1> QED
  BY <1>1, <1>2
-----------------------------------------------------------------------------
(* The actions, one lemma each.                                            *)

(* Taking the first free page: it was on the list, so nothing referred to  *)
(* it and nobody held it.                                                  *)
LEMMA TakeFirst ==
  ASSUME IInv, NEW ref \in {0, 1}, take_first_page(ref)
  PROVE  /\ LinkTypes' /\ FreeListLinked'
         /\ lh_first \in Page /\ OnList(lh_first)
         /\ pp_ref[lh_first] = 0 /\ lh_first \notin held /\ lh_first >= FirstFree
         /\ PteRefs(lh_first) = {} /\ PdeRefs(lh_first) = {}
         /\ \A q \in Page : OnList(q)' <=> (q # lh_first /\ OnList(q))
         /\ pp_ref' \in [Page -> 0 .. RefMod - 1]
         /\ pp_ref'[lh_first] = ref
         /\ \A q \in Page : q # lh_first => pp_ref'[q] = pp_ref[q]
<1>1. LinkTypes
  BY DEF IInv, TypeOK, LinkTypes
<1>2. /\ LinkTypes' /\ FreeListLinked'
      /\ lh_first \in Page /\ OnList(lh_first)
      /\ \A q \in Page : OnList(q)' <=> (q # lh_first /\ OnList(q))
  BY <1>1, RemoveFirstLinks DEF IInv, take_first_page
<1>3. pp_ref[lh_first] = 0 /\ lh_first \notin held /\ lh_first >= FirstFree
  BY <1>2, SizeAssumption DEF IInv, PagePartition, Page
<1>4. PteRefs(lh_first) = {} /\ PdeRefs(lh_first) = {}
  BY <1>2, <1>3, ReferencedCount DEF IInv
<1>5. /\ pp_ref' \in [Page -> 0 .. RefMod - 1]
      /\ pp_ref'[lh_first] = ref
      /\ \A q \in Page : q # lh_first => pp_ref'[q] = pp_ref[q]
  BY <1>2, SizeAssumption DEF IInv, TypeOK, take_first_page
<1> QED
  BY <1>2, <1>3, <1>4, <1>5

(* A step that changes nothing.                                            *)
LEMMA StutterStep == IInv /\ UNCHANGED vars => IInv'
<1> SUFFICES ASSUME IInv, UNCHANGED vars PROVE IInv'
  OBVIOUS
<1> USE DEF vars
<1>1. (TypeOK /\ TablesDistinct)'
  BY DEF IInv, TypeOK, TablesDistinct
<1>2. (FreeListLinked /\ PagePartition)'
  BY DEF IInv, FreeListLinked, PagePartition, OnList
<1>3. CallInProgress'
  BY DEF IInv, CallInProgress, check_va2pa
<1>4. RefCountExact'
  BY DEF IInv, RefCountExact, PteRefs, PdeRefs, PendingRef, Counted, RawTable, Inserting,
         check_va2pa
<1> QED BY <1>1, <1>2, <1>3, <1>4 DEF IInv

(* page_alloc, with a page to give and without.                            *)
LEMMA AllocStep == IInv /\ page_alloc => IInv'
<1> SUFFICES ASSUME IInv, page_alloc PROVE IInv'
  OBVIOUS
<1> USE PointerAssumption
<1>1. CASE take_first_page(0) /\ held' = held \cup {lh_first}
  <2>1. /\ LinkTypes' /\ FreeListLinked'
        /\ lh_first \in Page /\ OnList(lh_first)
        /\ pp_ref[lh_first] = 0 /\ lh_first >= FirstFree
        /\ \A q \in Page : OnList(q)' <=> (q # lh_first /\ OnList(q))
        /\ pp_ref' \in [Page -> 0 .. RefMod - 1]
        /\ pp_ref'[lh_first] = 0
        /\ \A q \in Page : q # lh_first => pp_ref'[q] = pp_ref[q]
    BY <1>1, TakeFirst
  <2>2. pp_ref' = pp_ref
    BY <2>1 DEF IInv, TypeOK
  <2>3. TypeOK'
    BY <1>1, <2>1 DEF IInv, TypeOK, LinkTypes, page_alloc
  <2>4. CallInProgress' /\ TablesDistinct'
    BY DEF IInv, CallInProgress, TablesDistinct, page_alloc
  <2>5. RefCountExact'
    <3>1. \A va \in VA : check_va2pa(va)' = check_va2pa(va)
      BY TranslationFrame DEF page_alloc
    <3> QED
      BY <3>1, <2>2, SameRefs DEF IInv, page_alloc, Counted, RawTable, PendingRef, Inserting
  <2>6. PagePartition'
    BY <1>1, <2>1, <2>2, SizeAssumption DEF IInv, PagePartition, Page
  <2> QED
    BY <2>1, <2>3, <2>4, <2>5, <2>6 DEF IInv
<1>2. CASE UNCHANGED <<listVars, pp_ref, held>>
  <2>1. UNCHANGED vars
    BY <1>2 DEF page_alloc, vars, listVars
  <2> QED
    BY <2>1, StutterStep
<1> QED
  BY <1>1, <1>2 DEF page_alloc

(* page_free of a page the client holds.                                   *)
LEMMA FreeStep ==
  ASSUME IInv, NEW p \in held, page_free(p)
  PROVE  IInv'
<1> USE PointerAssumption
<1>1. p \in Page /\ ~ OnList(p) /\ pp_ref[p] = 0 /\ p >= FirstFree
  BY SizeAssumption DEF IInv, TypeOK, PagePartition, Page
<1>2. LinkTypes' /\ FreeListLinked' /\ \A q \in Page : OnList(q)' <=> (q = p \/ OnList(q))
  BY <1>1, InsertHeadLinks DEF IInv, TypeOK, LinkTypes, page_free
<1>3. TypeOK'
  BY <1>2 DEF IInv, TypeOK, LinkTypes, page_free
<1>4. CallInProgress' /\ TablesDistinct'
  BY DEF IInv, CallInProgress, TablesDistinct, page_free
<1>5. RefCountExact'
  <2>1. \A va \in VA : check_va2pa(va)' = check_va2pa(va)
    BY TranslationFrame DEF page_free
  <2> QED
    BY <2>1, SameRefs DEF IInv, page_free, Counted, RawTable, PendingRef, Inserting
<1>6. PagePartition'
  BY <1>1, <1>2, SizeAssumption DEF IInv, PagePartition, page_free, Page
<1> QED
  BY <1>2, <1>3, <1>4, <1>5, <1>6 DEF IInv
(* Between calls, a page a client may map is held or referenced.           *)
LEMMA OwnedPage ==
  ASSUME IInv, pc = "idle", NEW p \in Page, Owned(p)
  PROVE  p \in held \/ pp_ref[p] > 0
<1>1. CASE Mapped(p)
  <2>1. PICK va \in VA : check_va2pa(va) # Zero /\ check_va2pa(va).ppn = p
    BY <1>1 DEF Mapped
  <2>2. va \in PteRefs(p)
    BY <2>1 DEF PteRefs, Counted, RawTable
  <2> QED
    BY <2>2, ReferencedCount DEF IInv
<1> QED
  BY <1>1 DEF Owned

(* The start of page_insert: pgdir_walk with and without a new table.      *)
LEMMA InsertStep ==
  ASSUME IInv, NEW va \in VA, NEW p \in Page, NEW perm \in Perms,
         Owned(p), pp_ref[p] < RefMod - 1, page_insert(va, p, perm)
  PROVE  IInv'
<1> DEFINE w == [ppn |-> p, flags |-> perm]
           arg == [va |-> va, new |-> w]
<1> USE PointerAssumption
<1>1. w \in Word /\ w # Zero /\ arg \in [va : VA, new : Word] /\ arg # NULL
  BY ZeroWord DEF Word
<1>2. pc = "idle" /\ va[1] \in PDX
  BY AddressParts DEF page_insert
<1>3. p \in held \/ pp_ref[p] > 0
  BY <1>2, OwnedPage
<1>4. CASE pgdir[va[1]] = NULL /\ take_first_page(1)
           /\ pgdir' = [pgdir EXCEPT ![va[1]] = lh_first] /\ pc' = "memset" /\ op' = arg
  <2> DEFINE t == lh_first
  <2>0. UNCHANGED <<mem, tlb, stray, held>>
    BY DEF page_insert
  <2>1. /\ LinkTypes' /\ FreeListLinked'
        /\ t \in Page /\ OnList(t)
        /\ pp_ref[t] = 0 /\ t \notin held /\ t >= FirstFree
        /\ PteRefs(t) = {} /\ PdeRefs(t) = {}
        /\ \A q \in Page : OnList(q)' <=> (q # t /\ OnList(q))
        /\ pp_ref' \in [Page -> 0 .. RefMod - 1]
        /\ pp_ref'[t] = 1
        /\ \A q \in Page : q # t => pp_ref'[q] = pp_ref[q]
    BY <1>4, TakeFirst
  <2>2. TypeOK'
    BY <1>1, <1>2, <1>4, <2>0, <2>1 DEF IInv, TypeOK, LinkTypes, PC
  <2>3. p # t
    BY <1>3, <2>1
  <2>4. CallInProgress'
    <3>1. pgdir'[va[1]] = t /\ t # NULL
      BY <1>2, <1>4, <2>1 DEF IInv, TypeOK
    <3>2. op'.va = va /\ op'.new.flags = perm /\ op'.new.ppn = p
      BY <1>4
    <3>3. pp_ref'[p] = pp_ref[p]
      BY <2>1, <2>3
    <3> QED
      BY <1>1, <1>3, <1>4, <2>0, <3>1, <3>2, <3>3 DEF CallInProgress
  <2>5. TablesDistinct'
    <3>1. \A d \in PDX : pgdir[d] # t
      BY <2>1 DEF PdeRefs
    <3> QED
      BY <1>2, <1>4, <3>1 DEF IInv, TypeOK, TablesDistinct
  <2>6. RefCountExact'
    <3> SUFFICES ASSUME NEW q \in Page
                 PROVE  pp_ref'[q] = Cardinality(PteRefs(q)') + Cardinality(PdeRefs(q)') + PendingRef(q)'
      BY DEF RefCountExact
    <3>1. PteRefs(q)' = PteRefs(q)
      <4>1. ASSUME NEW u \in VA, u[1] # va[1]
            PROVE  check_va2pa(u)' = check_va2pa(u) /\ (Counted(u)' <=> Counted(u))
        <5>1. u[1] \in PDX
          BY AddressParts
        <5>2. check_va2pa(u)' = check_va2pa(u)
          BY <1>4, <2>0, <4>1, <5>1 DEF IInv, TypeOK, check_va2pa
        <5> QED
          BY <1>2, <1>4, <4>1, <5>2 DEF Counted, RawTable
      <4>2. ASSUME NEW u \in VA, u[1] = va[1] PROVE ~ Counted(u)' /\ ~ Counted(u)
        BY <1>4, <4>2 DEF Counted, RawTable, check_va2pa
      <4> QED
        BY <4>1, <4>2 DEF PteRefs
    <3>2. PendingRef(q)' = 0 /\ PendingRef(q) = 0
      BY <1>2, <1>4 DEF PendingRef
    <3>3. CASE q # t
      <4>1. PdeRefs(q)' = PdeRefs(q)
        BY <1>2, <1>4, <3>3, <2>1 DEF IInv, TypeOK, PdeRefs
      <4> QED
        BY <2>1, <3>1, <3>2, <3>3, <4>1 DEF IInv, RefCountExact
    <3>4. CASE q = t
      <4>1. PdeRefs(q)' = {va[1]}
        BY <1>2, <1>4, <2>1, <3>4 DEF IInv, TypeOK, PdeRefs
      <4>2. Cardinality(PdeRefs(q)') = 1
        BY <4>1, FS_Singleton, Zenon
      <4>3. Cardinality(PteRefs(q)') = 0
        BY <2>1, <3>1, <3>4, FS_EmptySet, Zenon
      <4> QED
        BY <2>1, <3>2, <3>4, <4>2, <4>3
    <3> QED
      BY <3>3, <3>4
  <2>7. PagePartition'
    BY <2>0, <2>1, SizeAssumption DEF IInv, PagePartition, Page
  <2> QED
    BY <2>1, <2>2, <2>4, <2>5, <2>6, <2>7 DEF IInv
<1>5. CASE UNCHANGED <<listVars, pp_ref, pgdir, pc, op>>
  <2>1. UNCHANGED vars
    BY <1>5 DEF page_insert, vars, listVars
  <2> QED
    BY <2>1, StutterStep
<1>6. CASE pgdir[va[1]] # NULL /\ pc' = "count" /\ op' = arg
           /\ UNCHANGED <<listVars, pp_ref, pgdir>>
  <2>1. UNCHANGED <<lh_first, le_next, le_prev, pp_ref, pgdir, mem, tlb, stray, held>>
    BY <1>6 DEF page_insert, listVars
  <2>2. TypeOK'
    BY <1>1, <1>6, <2>1 DEF IInv, TypeOK, PC
  <2>3. CallInProgress'
    BY <1>1, <1>3, <1>6, <2>1 DEF CallInProgress
  <2>4. TablesDistinct' /\ FreeListLinked' /\ PagePartition'
    BY <2>1 DEF IInv, TablesDistinct, FreeListLinked, PagePartition, OnList
  <2>5. RefCountExact'
    <3>1. \A u \in VA : check_va2pa(u)' = check_va2pa(u)
      BY <2>1, TranslationFrame
    <3>2. \A u \in VA : Counted(u)' <=> Counted(u)
      BY <1>2, <1>6, <3>1 DEF Counted, RawTable
    <3>3. \A q \in Page : PendingRef(q)' = PendingRef(q)
      BY <1>2, <1>6 DEF PendingRef
    <3> QED
      BY <2>1, <3>1, <3>2, <3>3, SameRefs DEF IInv
  <2> QED
    BY <2>2, <2>3, <2>4, <2>5 DEF IInv
<1> QED
  BY <1>4, <1>5, <1>6 DEF page_insert

(* The start of page_remove of a mapped address, or of one without a       *)
(* table.                                                                  *)
LEMMA RemoveStep ==
  ASSUME IInv, NEW va \in VA, pgdir[va[1]] = NULL \/ check_va2pa(va) # Zero, page_remove(va)
  PROVE  IInv'
<1> USE PointerAssumption
<1>1. CASE page_lookup(va) = NULL
  <2>1. UNCHANGED vars
    BY <1>1 DEF page_remove, vars, listVars
  <2> QED
    BY <2>1, StutterStep
<1>2. CASE page_lookup(va) # NULL
  <2>1. /\ UNCHANGED <<lh_first, le_next, le_prev, pp_ref, pgdir, mem, tlb, stray, held>>
        /\ pc = "idle" /\ pc' = "decref" /\ op' = [va |-> va, new |-> Zero]
    BY <1>2 DEF page_remove, listVars
  <2>2. pgdir[va[1]] # NULL /\ check_va2pa(va) # Zero
    BY <1>2 DEF page_lookup
  <2>3. \A u \in VA : check_va2pa(u)' = check_va2pa(u)
    BY <2>1, TranslationFrame
  <2>4. op' \in [va : VA, new : Word] /\ op' # NULL /\ op'.va = va /\ op'.new = Zero
    BY <2>1, ZeroWord
  <2>5. TypeOK'
    BY <2>1, <2>4 DEF IInv, TypeOK, PC
  <2>6. CallInProgress'
    BY <2>1, <2>2, <2>3, <2>4 DEF CallInProgress
  <2>7. TablesDistinct' /\ FreeListLinked' /\ PagePartition'
    BY <2>1 DEF IInv, TablesDistinct, FreeListLinked, PagePartition, OnList
  <2>8. RefCountExact'
    <3>1. \A u \in VA : Counted(u)' <=> Counted(u)
      BY <2>1, <2>3 DEF Counted, RawTable
    <3>2. \A q \in Page : PendingRef(q)' = PendingRef(q)
      BY <2>1, <2>4 DEF PendingRef, Inserting
    <3> QED
      BY <2>1, <2>3, <3>1, <3>2, SameRefs DEF IInv
  <2> QED
    BY <2>5, <2>6, <2>7, <2>8 DEF IInv
<1> QED
  BY <1>1, <1>2

(* The part of CallInProgress any caller of the page functions keeps, and  *)
(* the arguments of a call it gives.                                       *)
CallOpen ==
  /\ pc = "idle" <=> op = NULL
  /\ pc # "idle" => pgdir[op.va[1]] # NULL
  /\ pc = "write" => check_va2pa(op.va) = Zero

LEMMA OpenCall ==
  ASSUME TypeOK, CallOpen, pc # "idle"
  PROVE  /\ op \in [va : VA, new : Word] /\ op # NULL
         /\ op.va \in VA /\ op.new \in Word /\ op.new.ppn \in Page
         /\ op.va[1] \in PDX /\ op.va[2] \in PTX
         /\ pgdir[op.va[1]] \in Page /\ pgdir[op.va[1]] # NULL
<1>1. op \in [va : VA, new : Word] /\ op # NULL
  BY DEF TypeOK, CallOpen
<1>2. op.va \in VA /\ op.new \in Word /\ op.new.ppn \in Page
  BY <1>1 DEF Word
<1>3. op.va[1] \in PDX /\ op.va[2] \in PTX
  BY <1>2, AddressParts
<1> QED
  BY <1>1, <1>2, <1>3 DEF TypeOK, CallOpen

LEMMA CallArguments ==
  ASSUME IInv, pc # "idle"
  PROVE  /\ op \in [va : VA, new : Word] /\ op # NULL
         /\ op.va \in VA /\ op.new \in Word /\ op.new.ppn \in Page
         /\ op.va[1] \in PDX /\ op.va[2] \in PTX
         /\ pgdir[op.va[1]] \in Page /\ pgdir[op.va[1]] # NULL
  BY OpenCall DEF IInv, CallInProgress, CallOpen

(* pgdir_walk clears the new table: no entry of it counted before or       *)
(* after.                                                                  *)
LEMMA MemsetStep == IInv /\ walk_memset => IInv'
<1> SUFFICES ASSUME IInv, walk_memset PROVE IInv'
  OBVIOUS
<1> USE PointerAssumption
<1>0. /\ pc = "memset" /\ pc' = "count"
      /\ UNCHANGED <<lh_first, le_next, le_prev, pp_ref, pgdir, tlb, stray, held, op>>
      /\ mem' = [mem EXCEPT ![pgdir[op.va[1]]] = [x \in PTX |-> Zero]]
  BY DEF walk_memset, listVars
<1>1. /\ op.va \in VA /\ op.va[1] \in PDX /\ pgdir[op.va[1]] # NULL
  BY <1>0, CallArguments
<1>2. /\ mem' \in [Page -> [PTX -> Word]]
      /\ \A u \in VA : check_va2pa(u)' = IF u[1] = op.va[1] THEN Zero ELSE check_va2pa(u)
  BY <1>0, <1>1, ClearTableFrame DEF IInv
<1>3. TypeOK'
  BY <1>0, <1>2 DEF IInv, TypeOK, PC
<1>4. CallInProgress'
  BY <1>0, <1>1 DEF IInv, CallInProgress
<1>5. TablesDistinct' /\ FreeListLinked' /\ PagePartition'
  BY <1>0 DEF IInv, TablesDistinct, FreeListLinked, PagePartition, OnList
<1>6. RefCountExact'
  <2>1. ASSUME NEW u \in VA
        PROVE  (Counted(u)' <=> Counted(u)) /\ (Counted(u) => check_va2pa(u)' = check_va2pa(u))
    BY <1>0, <1>1, <1>2 DEF Counted, RawTable
  <2>2. \A q \in Page : PendingRef(q)' = PendingRef(q)
    BY <1>0 DEF PendingRef
  <2> QED
    BY <1>0, <2>1, <2>2, SameRefs DEF IInv
<1> QED
  BY <1>3, <1>4, <1>5, <1>6 DEF IInv

(* page_insert's pp_ref++: the pending reference is counted.               *)
LEMMA CountStep == IInv /\ insert_count => IInv'
<1> SUFFICES ASSUME IInv, insert_count PROVE IInv'
  OBVIOUS
<1> USE PointerAssumption
<1> DEFINE p == op.new.ppn
<1>0. /\ pc = "count" /\ pc' = IF check_va2pa(op.va) # Zero THEN "decref" ELSE "write"
      /\ UNCHANGED <<lh_first, le_next, le_prev, pgdir, mem, tlb, stray, op>>
      /\ held' = held \ {p}
      /\ pp_ref' = [pp_ref EXCEPT ![p] = (pp_ref[p] + 1) % RefMod]
  BY DEF insert_count, listVars
<1>1. /\ op.va \in VA /\ op.new \in Word /\ p \in Page /\ op # NULL /\ pgdir[op.va[1]] # NULL
  BY <1>0, CallArguments
<1>2. /\ op.new.flags \in Perms /\ (p \in held \/ pp_ref[p] > 0)
      /\ pp_ref[p] < RefMod - 1 /\ pp_ref[p] \in Nat
  BY <1>0, <1>1, SizeAssumption DEF IInv, CallInProgress, TypeOK
<1>3. op.new # Zero
  BY <1>1, <1>0, ZeroWord DEF IInv, CallInProgress
<1>4. /\ pp_ref'[p] = pp_ref[p] + 1
      /\ pp_ref' \in [Page -> 0 .. RefMod - 1]
      /\ \A q \in Page : q # p => pp_ref'[q] = pp_ref[q]
  <2>1. (pp_ref[p] + 1) % RefMod = pp_ref[p] + 1
    BY <1>2, SizeAssumption
  <2> QED
    BY <1>0, <1>1, <1>2, <2>1, SizeAssumption DEF IInv, TypeOK
<1>5. \A u \in VA : check_va2pa(u)' = check_va2pa(u)
  BY <1>0, TranslationFrame
<1>6. TypeOK'
  BY <1>0, <1>4 DEF IInv, TypeOK, PC
<1>7. CallInProgress'
  BY <1>0, <1>1, <1>3, <1>5 DEF CallInProgress
<1>8. TablesDistinct' /\ FreeListLinked'
  BY <1>0 DEF IInv, TablesDistinct, FreeListLinked, OnList
<1>9. RefCountExact'
  <2> SUFFICES ASSUME NEW q \in Page
               PROVE  pp_ref'[q] = Cardinality(PteRefs(q)') + Cardinality(PdeRefs(q)') + PendingRef(q)'
    BY DEF RefCountExact
  <2>1. PteRefs(q)' = PteRefs(q) /\ PdeRefs(q)' = PdeRefs(q)
    BY <1>0, <1>5 DEF PteRefs, PdeRefs, Counted, RawTable
  <2>2. PendingRef(q) = 0 /\ PendingRef(q)' = IF q = p THEN 1 ELSE 0
    BY <1>0, <1>3 DEF PendingRef, Inserting
  <2>3. pp_ref[q] = Cardinality(PteRefs(q)) + Cardinality(PdeRefs(q)) + PendingRef(q)
    BY DEF IInv, RefCountExact
  <2> QED
    BY <1>4, <2>1, <2>2, <2>3, RefsTypes
<1>a. PagePartition'
  <2>1. p \in held \/ pp_ref[p] > 0
    BY <1>0 DEF IInv, CallInProgress
  <2>2. p >= FirstFree /\ ~ OnList(p)
    BY <1>1, <2>1, SizeAssumption DEF IInv, PagePartition, Page
  <2>3. \A q \in Page : OnList(q)' <=> OnList(q)
    BY <1>0 DEF OnList
  <2> QED
    BY <1>0, <1>1, <1>2, <1>4, <2>2, <2>3, SizeAssumption DEF IInv, PagePartition, Page
<1> QED
  BY <1>6, <1>7, <1>8, <1>9, <1>a DEF IInv

(* page_decref: the entry stops counting, and an unreferenced page is      *)
(* freed.                                                                  *)
LEMMA DecrefStep == IInv /\ remove_decref => IInv'
<1> SUFFICES ASSUME IInv, remove_decref PROVE IInv'
  OBVIOUS
<1> USE PointerAssumption
<1> DEFINE p == page_lookup(op.va)
<1>0. /\ pc = "decref" /\ pc' = "clear"
      /\ UNCHANGED <<pgdir, mem, tlb, stray, held, op>>
      /\ page_decref(p)
  BY DEF remove_decref
<1>1. /\ op.va \in VA /\ op.new \in Word /\ op # NULL /\ pgdir[op.va[1]] # NULL
  BY <1>0, CallArguments
<1>2. p \in Page /\ check_va2pa(op.va) # Zero /\ check_va2pa(op.va).ppn = p
  BY <1>0, <1>1, TranslationType DEF IInv, CallInProgress
<1>3. op.va \in PteRefs(p)
  BY <1>0, <1>1, <1>2 DEF PteRefs, Counted, RawTable
<1>4. pp_ref[p] > 0 /\ pp_ref[p] \in 0 .. RefMod - 1
  BY <1>2, <1>3, ReferencedCount DEF IInv, TypeOK
<1>5. ~ OnList(p) /\ p \notin held /\ p >= FirstFree
  BY <1>2, <1>4, SizeAssumption DEF IInv, PagePartition, Page
<1>6. /\ pp_ref'[p] = pp_ref[p] - 1
      /\ pp_ref' \in [Page -> 0 .. RefMod - 1]
      /\ \A q \in Page : q # p => pp_ref'[q] = pp_ref[q]
  <2>1. (pp_ref[p] - 1) % RefMod = pp_ref[p] - 1
    BY <1>4, SizeAssumption
  <2> QED
    BY <1>0, <1>2, <1>4, <2>1, SizeAssumption DEF IInv, TypeOK, page_decref
<1>7. /\ LinkTypes' /\ FreeListLinked'
      /\ \A q \in Page : OnList(q)' <=> (OnList(q) \/ (q = p /\ pp_ref'[p] = 0))
  <2>1. CASE pp_ref'[p] = 0
    <3>1. LIST_INSERT_HEAD(p)
      BY <1>0, <1>2, <2>1 DEF page_decref, IInv, TypeOK
    <3> QED
      BY <1>2, <1>5, <2>1, <3>1, InsertHeadLinks DEF IInv, TypeOK, LinkTypes
  <2>2. CASE pp_ref'[p] # 0
    <3>1. UNCHANGED listVars
      BY <1>0, <1>2, <2>2 DEF page_decref, IInv, TypeOK
    <3> QED
      BY <2>2, <3>1 DEF IInv, TypeOK, LinkTypes, FreeListLinked, OnList, listVars
  <2> QED
    BY <2>1, <2>2
<1>8. \A u \in VA : check_va2pa(u)' = check_va2pa(u)
  BY <1>0, TranslationFrame
<1>9. TypeOK'
  BY <1>0, <1>6, <1>7 DEF IInv, TypeOK, LinkTypes, PC
<1>a. CallInProgress' /\ TablesDistinct'
  BY <1>0, <1>1, <1>2, <1>8 DEF IInv, CallInProgress, TablesDistinct
<1>b. RefCountExact'
  <2> SUFFICES ASSUME NEW q \in Page
               PROVE  pp_ref'[q] = Cardinality(PteRefs(q)') + Cardinality(PdeRefs(q)') + PendingRef(q)'
    BY DEF RefCountExact
  <2>1. PdeRefs(q)' = PdeRefs(q) /\ PendingRef(q)' = PendingRef(q)
    BY <1>0 DEF PdeRefs, PendingRef, Inserting
  <2>2. pp_ref[q] = Cardinality(PteRefs(q)) + Cardinality(PdeRefs(q)) + PendingRef(q)
    BY DEF IInv, RefCountExact
  <2>3. \A u \in VA : Counted(u)' <=> (Counted(u) /\ u # op.va)
    BY <1>0, <1>1, <1>8 DEF Counted, RawTable
  <2>4. PteRefs(q)' = PteRefs(q) \ {op.va}
    BY <1>8, <2>3 DEF PteRefs
  <2>5. Cardinality(PteRefs(q)') = IF op.va \in PteRefs(q) THEN Cardinality(PteRefs(q)) - 1
                                                           ELSE Cardinality(PteRefs(q))
    BY <2>4, RefsFinite, FS_RemoveElement
  <2>6. op.va \in PteRefs(q) <=> q = p
    BY <1>2, <1>3 DEF PteRefs
  <2> QED
    BY <1>4, <1>6, <2>1, <2>2, <2>5, <2>6, RefsTypes
<1>c. PagePartition'
  <2> HIDE DEF p
  <2>1. held' = held
    BY <1>0
  <2> SUFFICES ASSUME NEW q \in Page
               PROVE  /\ q < FirstFree => ~ OnList(q)' /\ q \notin held' /\ pp_ref'[q] = 0
                      /\ OnList(q)' => q \notin held' /\ pp_ref'[q] = 0
                      /\ q \in held' => pp_ref'[q] = 0
                      /\ q < FirstFree \/ OnList(q)' \/ q \in held' \/ pp_ref'[q] > 0
    BY DEF PagePartition
  <2>2. CASE q = p
    BY <1>2, <1>4, <1>5, <1>6, <1>7, <2>1, <2>2, SizeAssumption DEF Page
  <2>3. CASE q # p
    BY <1>6, <1>7, <2>1, <2>3 DEF IInv, PagePartition
  <2> QED
    BY <2>2, <2>3
<1> QED
  BY <1>7, <1>9, <1>a, <1>b, <1>c DEF IInv

(* page_remove's store of 0 in an entry that no longer counts.             *)
LEMMA ClearStep == IInv /\ remove_clear => IInv'
<1> SUFFICES ASSUME IInv, remove_clear PROVE IInv'
  OBVIOUS
<1> USE PointerAssumption
<1>0. /\ pc = "clear" /\ pc' = "invlpg" /\ set_pte(op.va, Zero)
      /\ UNCHANGED <<lh_first, le_next, le_prev, pp_ref, pgdir, tlb, stray, held, op>>
  BY DEF remove_clear, listVars
<1>1. op.va \in VA /\ op.va[1] \in PDX /\ pgdir[op.va[1]] # NULL /\ op # NULL
  BY <1>0, CallArguments
<1>2. /\ mem' \in [Page -> [PTX -> Word]]
      /\ check_va2pa(op.va)' = Zero
      /\ \A u \in VA : u # op.va => check_va2pa(u)' = check_va2pa(u)
  <2>1. ASSUME NEW a \in VA, a = op.va
        PROVE  /\ mem' \in [Page -> [PTX -> Word]]
               /\ check_va2pa(a)' = Zero
               /\ \A u \in VA : u # a => check_va2pa(u)' = check_va2pa(u)
    BY <1>0, <1>1, <2>1, ZeroWord, SetPteFrame DEF IInv
  <2> QED
    BY <1>0, <1>1, <2>1 DEF check_va2pa
<1>3. TypeOK'
  BY <1>0, <1>2 DEF IInv, TypeOK, PC
<1>4. CallInProgress'
  BY <1>0, <1>1, <1>2 DEF IInv, CallInProgress
<1>5. TablesDistinct' /\ FreeListLinked' /\ PagePartition'
  BY <1>0 DEF IInv, TablesDistinct, FreeListLinked, PagePartition, OnList
<1>6. RefCountExact'
  <2>1. ASSUME NEW u \in VA
        PROVE  (Counted(u)' <=> Counted(u)) /\ (Counted(u) => check_va2pa(u)' = check_va2pa(u))
    BY <1>0, <1>1, <1>2 DEF Counted, RawTable
  <2>2. \A q \in Page : PendingRef(q)' = PendingRef(q)
    BY <1>0 DEF PendingRef, Inserting
  <2> QED
    BY <1>0, <2>1, <2>2, SameRefs DEF IInv
<1> QED
  BY <1>3, <1>4, <1>5, <1>6 DEF IInv

(* invlpg, and the return of page_remove.                                  *)
LEMMA InvalidateStep == IInv /\ tlb_invalidate => IInv'
<1> SUFFICES ASSUME IInv, tlb_invalidate PROVE IInv'
  OBVIOUS
<1> USE PointerAssumption
<1>0. /\ pc = "invlpg" /\ tlb' = [tlb EXCEPT ![op.va] = Zero] /\ stray' = stray \ {op.va}
      /\ \/ Inserting /\ pc' = "write" /\ op' = op
         \/ ~ Inserting /\ pc' = "idle" /\ op' = NULL
      /\ UNCHANGED <<lh_first, le_next, le_prev, pp_ref, pgdir, mem, held>>
  BY DEF tlb_invalidate, listVars
<1>1. op.va \in VA /\ pgdir[op.va[1]] # NULL /\ op # NULL
  BY <1>0, CallArguments
<1>2. \A u \in VA : check_va2pa(u)' = check_va2pa(u)
  BY <1>0, TranslationFrame
<1>3. TypeOK'
  BY <1>0, ZeroWord DEF IInv, TypeOK, PC
<1>4. CallInProgress'
  BY <1>0, <1>1, <1>2 DEF IInv, CallInProgress, Inserting
<1>5. TablesDistinct' /\ FreeListLinked' /\ PagePartition'
  BY <1>0 DEF IInv, TablesDistinct, FreeListLinked, PagePartition, OnList
<1>6. RefCountExact'
  <2>1. ASSUME NEW u \in VA
        PROVE  (Counted(u)' <=> Counted(u)) /\ (Counted(u) => check_va2pa(u)' = check_va2pa(u))
    BY <1>0, <1>1, <1>2 DEF Counted, RawTable
  <2>2. \A q \in Page : PendingRef(q)' = PendingRef(q)
    BY <1>0 DEF PendingRef, Inserting
  <2> QED
    BY <1>0, <2>1, <2>2, SameRefs DEF IInv
<1> QED
  BY <1>3, <1>4, <1>5, <1>6 DEF IInv

(* page_insert's store: the pending reference becomes an entry.            *)
LEMMA WriteStep == IInv /\ insert_write => IInv'
<1> SUFFICES ASSUME IInv, insert_write PROVE IInv'
  OBVIOUS
<1> USE PointerAssumption
<1> DEFINE p == op.new.ppn
           a == op.va
           w == op.new
<1>0. /\ pc = "write" /\ pc' = "idle" /\ op' = NULL /\ set_pte(op.va, op.new)
      /\ UNCHANGED <<lh_first, le_next, le_prev, pp_ref, pgdir, tlb, stray, held>>
  BY DEF insert_write, listVars
<1>1. a \in VA /\ pgdir[a[1]] # NULL /\ w \in Word /\ p \in Page
  BY <1>0, CallArguments
<1>2. w # Zero /\ check_va2pa(a) = Zero
  BY <1>0 DEF IInv, CallInProgress
<1>3. /\ mem' \in [Page -> [PTX -> Word]]
      /\ \A u \in VA : check_va2pa(u)' = IF u = a THEN w ELSE check_va2pa(u)
  <2>1. ASSUME NEW b \in VA, b = op.va, NEW v \in Word, v = op.new
        PROVE  /\ mem' \in [Page -> [PTX -> Word]]
               /\ \A u \in VA : check_va2pa(u)' = IF u = b THEN v ELSE check_va2pa(u)
    BY <1>0, <1>1, <2>1, SetPteFrame DEF IInv
  <2> QED
    BY <1>1, <2>1
<1>4. TypeOK'
  BY <1>0, <1>3 DEF IInv, TypeOK, PC
<1>5. CallInProgress'
  BY <1>0 DEF CallInProgress
<1>6. TablesDistinct' /\ FreeListLinked' /\ PagePartition'
  BY <1>0 DEF IInv, TablesDistinct, FreeListLinked, PagePartition, OnList
<1>7. RefCountExact'
  <2> SUFFICES ASSUME NEW q \in Page
               PROVE  pp_ref'[q] = Cardinality(PteRefs(q)') + Cardinality(PdeRefs(q)') + PendingRef(q)'
    BY DEF RefCountExact
  <2>1. PdeRefs(q)' = PdeRefs(q) /\ PendingRef(q)' = 0
    BY <1>0 DEF PdeRefs, PendingRef
  <2>2. PendingRef(q) = IF q = p THEN 1 ELSE 0
    BY <1>0, <1>2 DEF PendingRef, Inserting
  <2>3. \A u \in VA : Counted(u)' <=> check_va2pa(u)' # Zero
    BY <1>0 DEF Counted, RawTable
  <2>4. \A u \in VA : Counted(u) <=> check_va2pa(u) # Zero
    BY <1>0 DEF Counted, RawTable
  <2>5. PteRefs(q)' = IF q = p THEN PteRefs(q) \cup {a} ELSE PteRefs(q)
    BY <1>1, <1>2, <1>3, <2>3, <2>4 DEF PteRefs
  <2>6. a \notin PteRefs(q)
    BY <1>2, <2>4 DEF PteRefs
  <2>7. Cardinality(PteRefs(q) \cup {a}) = Cardinality(PteRefs(q)) + 1
    BY <2>6, RefsFinite, FS_AddElement
  <2>8. pp_ref'[q] = Cardinality(PteRefs(q)) + Cardinality(PdeRefs(q)) + PendingRef(q)
    BY <1>0 DEF IInv, RefCountExact
  <2> QED
    BY <2>1, <2>2, <2>5, <2>7, <2>8, RefsTypes
<1> QED
  BY <1>4, <1>5, <1>6, <1>7 DEF IInv

(* The TLB is no part of IInv.                                             *)
LEMMA ProcessorStepInv == IInv /\ ProcessorStep => IInv'
<1> SUFFICES ASSUME IInv, NEW va \in VA, tlb_fill(va) \/ tlb_evict(va) PROVE IInv'
  BY DEF ProcessorStep
<1>0. UNCHANGED <<lh_first, le_next, le_prev, pp_ref, pgdir, mem, held, pc, op>>
  BY DEF tlb_fill, tlb_evict, listVars
<1>1. TypeOK'
  BY <1>0, ZeroWord, TranslationType DEF IInv, TypeOK, tlb_fill, tlb_evict
<1> QED
  BY <1>0, <1>1 DEF IInv, CallInProgress, TablesDistinct, FreeListLinked, OnList,
         RefCountExact, PagePartition, PteRefs, PdeRefs, PendingRef, Counted, RawTable,
         Inserting, check_va2pa

-----------------------------------------------------------------------------

(* Every step preserves the inductive invariant.                           *)
LEMMA NextIInv == IInv /\ [Next]_vars => IInv'
<1> SUFFICES ASSUME IInv, [Next]_vars PROVE IInv'
  OBVIOUS
<1>1. CASE ClientStep
  BY <1>1, AllocStep, FreeStep, InsertStep, RemoveStep DEF ClientStep
<1>2. CASE KernelStep
  BY <1>2, MemsetStep, CountStep, DecrefStep, ClearStep, InvalidateStep, WriteStep
     DEF KernelStep
<1>3. CASE ProcessorStep
  BY <1>3, ProcessorStepInv
<1>4. CASE UNCHANGED vars
  BY <1>4, StutterStep
<1> QED
  BY <1>1, <1>2, <1>3, <1>4 DEF Next

(* The invariant holds in every reachable state.                           *)
THEOREM Invariance == Spec => []IInv
<1> QED
  BY InitIInv, NextIInv, PTL DEF Spec

(* Every call keeps the types of the page structs, tables and TLB.         *)
THEOREM TypeCorrect == Spec => []TypeOK
<1>1. IInv => TypeOK
  BY DEF IInv
<1> QED
  BY <1>1, Invariance, PTL

(* pp_ref counts the pointers to the page at every step of every call, for *)
(* any number of pages, address space and counter width.                   *)
THEOREM RefCountsExact == Spec => []RefCountExact
<1>1. IInv => RefCountExact
  BY DEF IInv
<1> QED
  BY <1>1, Invariance, PTL

(* No page leaks, is given out twice or is freed while in use.             *)
THEOREM PagesPartitioned == Spec => []PagePartition
<1>1. IInv => PagePartition
  BY DEF IInv
<1> QED
  BY <1>1, Invariance, PTL

(* The links of page_free_list stay consistent.                            *)
THEOREM FreeListConsistent == Spec => []FreeListLinked
<1>1. IInv => FreeListLinked
  BY DEF IInv
<1> QED
  BY <1>1, Invariance, PTL
-----------------------------------------------------------------------------
(* The TLB.  A translation of a cleared table is cached only while the     *)
(* tables hold it; of a table still to be cleared the processor caches     *)
(* nothing but what it read there, because its slot was empty before.      *)

RawTableUncached == \A va \in VA : RawTable(va) => Cached(va) = Zero

TLBInv == TLBCoherent /\ RawTableUncached

(* A call of any client, one of its steps, or the processor's.             *)
AnyCall ==
  \/ page_alloc \/ (\E p : page_free(p))
  \/ \E va \in VA, p \in Page, perm \in Perms : page_insert(va, p, perm)
  \/ \E va \in VA : page_remove(va)
  \/ KernelStep \/ ProcessorStep \/ UNCHANGED vars

(* Every step keeps the TLB coherent: only page_remove's store takes a     *)
(* translation away, and its invlpg comes before the call goes on.         *)
LEMMA TLBCall ==
  ASSUME TypeOK, CallOpen, TablesDistinct, TLBInv, AnyCall
  PROVE  TLBInv'
<1>0. TypeOK /\ tlb \in [VA -> Word]
  BY DEF TypeOK
<1>1. CASE page_alloc \/ (\E p : page_free(p)) \/ UNCHANGED vars
  BY <1>1 DEF page_alloc, page_free, vars, TLBInv, TLBCoherent, RawTableUncached, RawTable,
     Cached, check_va2pa
<1>2. ASSUME NEW a \in VA, NEW p \in Page, NEW perm \in Perms, page_insert(a, p, perm)
      PROVE  TLBInv'
  <2>0. tlb' = tlb /\ stray' = stray /\ mem' = mem /\ pc = "idle" /\ a[1] \in PDX
    BY <1>2, AddressParts DEF page_insert
  <2>1. \A va \in VA : Cached(va) \in {Zero, check_va2pa(va)}
    BY <2>0 DEF TLBInv, TLBCoherent
  <2>2. CASE pgdir[a[1]] = NULL /\ pgdir' = [pgdir EXCEPT ![a[1]] = lh_first]
             /\ pc' = "memset" /\ op'.va = a
    <3>1. \A va \in VA : va[1] = a[1] => Cached(va) = Zero
      BY <2>1, <2>2 DEF check_va2pa
    <3>2. \A va \in VA : va[1] # a[1] => check_va2pa(va)' = check_va2pa(va)
      BY <2>0, <2>2, AddressParts DEF TypeOK, check_va2pa
    <3> QED
      BY <2>0, <2>1, <2>2, <3>1, <3>2 DEF TLBInv, TLBCoherent, RawTableUncached, RawTable, Cached
  <2>3. CASE UNCHANGED pgdir /\ (pc' = pc \/ pc' = "count")
    BY <2>0, <2>1, <2>3 DEF TLBInv, TLBCoherent, RawTableUncached, RawTable, Cached, check_va2pa
  <2> QED
    BY <1>2, <2>2, <2>3 DEF page_insert
<1>3. ASSUME NEW a \in VA, page_remove(a) PROVE TLBInv'
  BY <1>3 DEF page_remove, TLBInv, TLBCoherent, RawTableUncached, RawTable, Cached, check_va2pa
<1>4. CASE walk_memset
  <2>1. pc = "memset" /\ pc' = "count" /\ UNCHANGED <<pgdir, tlb, stray, op>>
    BY <1>4 DEF walk_memset
  <2>2. op.va[1] \in PDX /\ pgdir[op.va[1]] # NULL
    BY <2>1, OpenCall
  <2>3. \A u \in VA : check_va2pa(u)' = IF u[1] = op.va[1] THEN Zero ELSE check_va2pa(u)
    BY <1>4, <2>2, ClearTableFrame DEF walk_memset
  <2> QED
    BY <2>1, <2>3 DEF TLBInv, TLBCoherent, RawTableUncached, RawTable, Cached
<1>5. CASE insert_count \/ remove_decref
  <2>1. pc \in {"count", "decref"} /\ pc' \in {"decref", "clear", "write"}
        /\ UNCHANGED <<pgdir, mem, tlb, stray, op>>
    BY <1>5 DEF insert_count, remove_decref
  <2>2. \A va \in VA : check_va2pa(va)' = check_va2pa(va)
    BY <2>1, TranslationFrame
  <2> QED
    BY <2>1, <2>2 DEF TLBInv, TLBCoherent, RawTableUncached, RawTable, Cached
<1>6. CASE remove_clear
  <2>1. pc = "clear" /\ pc' = "invlpg" /\ UNCHANGED <<pgdir, tlb, stray, op>> /\ set_pte(op.va, Zero)
    BY <1>6 DEF remove_clear
  <2>2. ASSUME NEW b \in VA, b = op.va
        PROVE  \A u \in VA : u # b => check_va2pa(u)' = check_va2pa(u)
    BY <2>1, <2>2, OpenCall, SetPteFrame, ZeroWord
  <2>3. \A u \in VA : u # op.va => check_va2pa(u)' = check_va2pa(u)
    BY <2>1, <2>2, OpenCall
  <2> QED
    BY <2>1, <2>3 DEF TLBInv, TLBCoherent, RawTableUncached, RawTable, Cached
<1>7. CASE tlb_invalidate
  <2>1. /\ pc = "invlpg" /\ pc' \in {"write", "idle"} /\ UNCHANGED <<pgdir, mem>>
        /\ tlb' = [tlb EXCEPT ![op.va] = Zero] /\ stray' = stray \ {op.va}
    BY <1>7 DEF tlb_invalidate
  <2>2. \A va \in VA : check_va2pa(va)' = check_va2pa(va)
    BY <2>1, TranslationFrame
  <2>3. \A va \in VA : Cached(va)' \in {Zero, check_va2pa(va)}
    BY <1>0, <2>1, OpenCall DEF TLBInv, TLBCoherent, Cached
  <2> QED
    BY <2>1, <2>2, <2>3 DEF TLBInv, TLBCoherent, RawTableUncached, RawTable, Cached
<1>8. CASE insert_write
  <2>1. pc = "write" /\ pc' = "idle" /\ UNCHANGED <<pgdir, tlb, stray>> /\ set_pte(op.va, op.new)
    BY <1>8 DEF insert_write
  <2>2. ASSUME NEW b \in VA, b = op.va, NEW v \in Word, v = op.new
        PROVE  \A u \in VA : u # b => check_va2pa(u)' = check_va2pa(u)
    BY <2>1, <2>2, OpenCall, SetPteFrame
  <2>3. \A u \in VA : u # op.va => check_va2pa(u)' = check_va2pa(u)
    BY <2>1, <2>2, OpenCall
  <2>4. Cached(op.va) = Zero
    BY <2>1, OpenCall DEF CallOpen, TLBInv, TLBCoherent
  <2> QED
    BY <2>1, <2>3, <2>4 DEF TLBInv, TLBCoherent, RawTableUncached, RawTable, Cached
<1>9. ASSUME NEW a \in VA, tlb_fill(a) \/ tlb_evict(a) PROVE TLBInv'
  <2>1. UNCHANGED <<pgdir, mem, pc, op>>
    BY <1>9 DEF tlb_fill, tlb_evict
  <2>2. \A va \in VA : check_va2pa(va)' = check_va2pa(va)
    BY <2>1, TranslationFrame
  <2>3. \A va \in VA : va # a => Cached(va)' = Cached(va)
    BY <1>0, <1>9 DEF tlb_fill, tlb_evict, Cached
  <2>4. Cached(a)' \in {Zero, check_va2pa(a)} /\ (RawTable(a) => Cached(a)' = Zero)
    BY <1>0, <1>9 DEF tlb_fill, tlb_evict, Cached
  <2> QED
    BY <2>1, <2>2, <2>3, <2>4 DEF TLBInv, TLBCoherent, RawTableUncached, RawTable, Cached
<1> QED
  BY <1>1, <1>2, <1>3, <1>4, <1>5, <1>6, <1>7, <1>8, <1>9
     DEF AnyCall, KernelStep, ProcessorStep

LEMMA TLBStep == IInv /\ TLBInv /\ [Next]_vars => TLBInv'
<1>1. IInv => TypeOK /\ CallOpen /\ TablesDistinct
  BY DEF IInv, CallInProgress, CallOpen
<1>2. [Next]_vars => AnyCall
  BY DEF Next, ClientStep, AnyCall
<1> QED
  BY <1>1, <1>2, TLBCall

(* page_remove's invlpg is enough for what the processor read from a       *)
(* cleared table: however it fills and evicts its TLB, no such translation *)
(* outlives its page table entry.                                          *)
THEOREM TLBAlwaysCoherent == Spec => []TLBCoherent
<1>1. Init => TLBInv
  BY DEF Init, TLBInv, TLBCoherent, RawTableUncached, Cached
<1>2. TLBInv => TLBCoherent
  BY DEF TLBInv
<1> QED
  BY <1>1, <1>2, TLBStep, Invariance, PTL DEF Spec
-----------------------------------------------------------------------------
(* Page tables are not mapped: neither a stored entry nor the entry about  *)
(* to be stored points to one.                                             *)

IsTable(p) == \E d \in PDX : pgdir[d] = p

DataNotTable ==
  /\ \A va \in VA : Counted(va) => ~ IsTable(check_va2pa(va).ppn)
  /\ pc # "idle" /\ op.new # Zero => ~ IsTable(op.new.ppn)

(* Every step keeps data pages and page tables apart: a new table comes    *)
(* from the free list, where no mapped page is, and a client maps no       *)
(* table.                                                                  *)
LEMMA DataNotTableStep == IInv /\ DataNotTable /\ [Next]_vars => DataNotTable'
<1> SUFFICES ASSUME IInv, DataNotTable, [Next]_vars PROVE DataNotTable'
  OBVIOUS
<1>0. TypeOK
  BY DEF IInv
<1>1. CASE page_alloc \/ (\E p \in held : page_free(p)) \/ ProcessorStep \/ UNCHANGED vars
  <2>1. UNCHANGED <<pgdir, mem, pc, op>>
    BY <1>1 DEF page_alloc, page_free, ProcessorStep, tlb_fill, tlb_evict, vars
  <2> QED
    BY <2>1 DEF DataNotTable, IsTable, Counted, RawTable, check_va2pa
<1>2. ASSUME NEW a \in VA, NEW p \in Page, NEW perm \in Perms, Owned(p), page_insert(a, p, perm)
      PROVE  DataNotTable'
  <2>0. mem' = mem /\ pc = "idle" /\ a[1] \in PDX
    BY <1>2, AddressParts DEF page_insert
  <2>1. ~ IsTable(p)
    <3>1. CASE p \in held
      <4>1. pp_ref[p] = 0
        BY <3>1 DEF IInv, PagePartition
      <4>2. PdeRefs(p) = {}
        BY <4>1, ReferencedCount DEF IInv
      <4> QED
        BY <4>2 DEF PdeRefs, IsTable
    <3>2. CASE Mapped(p)
      BY <2>0, <3>2 DEF Mapped, DataNotTable, Counted, RawTable
    <3> QED
      BY <1>2, <3>1, <3>2 DEF Owned
  <2>2. CASE pgdir[a[1]] = NULL /\ take_first_page(1)
             /\ pgdir' = [pgdir EXCEPT ![a[1]] = lh_first] /\ pc' = "memset"
             /\ op' = [va |-> a, new |-> [ppn |-> p, flags |-> perm]]
    <3>1. lh_first \in Page /\ PteRefs(lh_first) = {} /\ pp_ref[lh_first] = 0 /\ lh_first \notin held
      BY <2>2, TakeFirst
    <3>2. p # lh_first
      BY <1>2, <2>0, <3>1, OwnedPage
    <3>3. \A q : IsTable(q)' => IsTable(q) \/ q = lh_first
      BY <1>0, <2>0, <2>2 DEF IsTable, TypeOK
    <3>4. \A va \in VA : Counted(va)' => Counted(va) /\ check_va2pa(va)' = check_va2pa(va)
      BY <1>0, <2>0, <2>2, AddressParts DEF Counted, RawTable, check_va2pa, TypeOK
    <3>5. \A va \in VA : Counted(va) => check_va2pa(va).ppn # lh_first
      BY <3>1 DEF PteRefs
    <3>6. op'.new.ppn = p
      BY <2>2
    <3> QED
      BY <2>1, <3>2, <3>3, <3>4, <3>5, <3>6 DEF DataNotTable
  <2>3. CASE UNCHANGED <<pgdir, pc, op>>
    BY <2>0, <2>3 DEF DataNotTable, IsTable, Counted, RawTable, check_va2pa
  <2>4. CASE UNCHANGED pgdir /\ pc' = "count"
             /\ op' = [va |-> a, new |-> [ppn |-> p, flags |-> perm]]
    <3>1. op'.new.ppn = p
      BY <2>4
    <3>2. \A q : IsTable(q)' <=> IsTable(q)
      BY <2>4 DEF IsTable
    <3>3. \A va \in VA : check_va2pa(va)' = check_va2pa(va) /\ (Counted(va)' <=> Counted(va))
      BY <2>0, <2>4 DEF Counted, RawTable, check_va2pa
    <3> QED
      BY <2>1, <3>1, <3>2, <3>3 DEF DataNotTable
  <2> QED
    BY <1>2, <2>2, <2>3, <2>4 DEF page_insert
<1>3. ASSUME NEW a \in VA, page_remove(a) PROVE DataNotTable'
  <2>1. CASE UNCHANGED <<pc, op>>
    BY <1>3, <2>1 DEF page_remove, DataNotTable, IsTable, Counted, RawTable, check_va2pa
  <2>2. CASE pc' = "decref" /\ op' = [va |-> a, new |-> Zero]
    BY <1>3, <2>2 DEF page_remove, DataNotTable, IsTable, Counted, RawTable, check_va2pa
  <2> QED
    BY <1>3, <2>1, <2>2 DEF page_remove
<1>4. ASSUME KernelStep
      PROVE  /\ pgdir' = pgdir /\ pc # "idle"
             /\ pc' # "idle" => op' = op
             /\ \A va \in VA : Counted(va)' =>
                  \/ Counted(va) /\ check_va2pa(va)' = check_va2pa(va)
                  \/ check_va2pa(va)' = op.new /\ op.new # Zero
  <2>0. pgdir' = pgdir /\ pc # "idle" /\ (pc' # "idle" => op' = op)
    BY <1>4 DEF KernelStep, walk_memset, insert_count, remove_decref, remove_clear,
       tlb_invalidate, insert_write
  <2>1. /\ op.va \in VA /\ op.new \in Word
        /\ op.va[1] \in PDX /\ pgdir[op.va[1]] # NULL
    BY <2>0, CallArguments
  <2>2. CASE walk_memset
    <3>1. \A u \in VA : check_va2pa(u)' = IF u[1] = op.va[1] THEN Zero ELSE check_va2pa(u)
      BY <2>1, <2>2, ClearTableFrame DEF IInv, walk_memset
    <3> QED
      BY <2>0, <2>2, <3>1 DEF walk_memset, Counted, RawTable
  <2>3. CASE insert_count \/ remove_decref \/ tlb_invalidate
    <3>1. UNCHANGED <<pgdir, mem>>
      BY <2>3 DEF insert_count, remove_decref, tlb_invalidate
    <3>2. \A u \in VA : check_va2pa(u)' = check_va2pa(u)
      BY <3>1, TranslationFrame
    <3>3. ASSUME NEW u \in VA, Counted(u)' PROVE Counted(u)
      BY <2>3, <3>2, <3>3 DEF IInv, CallInProgress, insert_count, remove_decref,
         tlb_invalidate, Counted, RawTable
    <3> QED
      BY <2>0, <3>2, <3>3
  <2>4. ASSUME NEW w \in Word, w \in {Zero, op.new}, set_pte(op.va, w),
               pc \in {"clear", "write"}, pc' \in {"invlpg", "idle"}
        PROVE  \A va \in VA : Counted(va)' =>
                  \/ Counted(va) /\ check_va2pa(va)' = check_va2pa(va)
                  \/ check_va2pa(va)' = op.new /\ op.new # Zero
    <3>1. ASSUME NEW b \in VA, b = op.va
          PROVE  \A u \in VA : check_va2pa(u)' = IF u = b THEN w ELSE check_va2pa(u)
      BY <2>0, <2>1, <2>4, <3>1, SetPteFrame DEF IInv
    <3>2. \A u \in VA : check_va2pa(u)' = IF u = op.va THEN w ELSE check_va2pa(u)
      BY <2>1, <3>1
    <3> QED
      BY <2>4, <3>2 DEF Counted, RawTable
  <2>5. CASE remove_clear
    BY <2>0, <2>4, <2>5, ZeroWord DEF remove_clear
  <2>6. CASE insert_write
    BY <2>0, <2>1, <2>4, <2>6 DEF insert_write
  <2> QED
    BY <1>4, <2>0, <2>2, <2>3, <2>5, <2>6 DEF KernelStep
<1>5. CASE KernelStep
  <2>1. \A q : IsTable(q)' <=> IsTable(q)
    BY <1>4, <1>5 DEF IsTable
  <2> QED
    BY <1>4, <1>5, <2>1 DEF DataNotTable
<1> QED
  BY <1>1, <1>2, <1>3, <1>5 DEF Next, ClientStep

(* Isolation: between calls no address reaches a free page, a page a       *)
(* client holds for itself, a page table or a page page_init reserved,     *)
(* neither through the tables nor through a translation the processor      *)
(* cached from a cleared table.                                            *)
THEOREM Isolation == Spec => []NoAccessToForeignPage
<1>1. Init => TLBInv /\ DataNotTable
  <2>1. Init => \A va \in VA : ~ Counted(va)
    BY AddressParts DEF Init, Counted, check_va2pa
  <2> QED
    BY <2>1 DEF Init, TLBInv, TLBCoherent, RawTableUncached, Cached, DataNotTable
<1>2. IInv /\ TLBInv /\ DataNotTable => NoAccessToForeignPage
  <2> SUFFICES ASSUME IInv, TLBInv, DataNotTable, pc = "idle", NEW va \in VA,
                      NEW w \in {check_va2pa(va), Cached(va)}, w # Zero
               PROVE  /\ ~ OnList(w.ppn) /\ w.ppn \notin held /\ w.ppn >= FirstFree
                      /\ \A d \in PDX : pgdir[d] # w.ppn
    BY DEF NoAccessToForeignPage
  <2>1. w = check_va2pa(va)
    BY DEF TLBInv, TLBCoherent
  <2>2. Counted(va) /\ w \in Word /\ w.ppn \in Page
    BY <2>1, TranslationType DEF Counted, RawTable, IInv, Word
  <2>3. va \in PteRefs(w.ppn)
    BY <2>1, <2>2 DEF PteRefs
  <2>4. pp_ref[w.ppn] > 0
    BY <2>2, <2>3, ReferencedCount DEF IInv
  <2>5. ~ OnList(w.ppn) /\ w.ppn \notin held /\ w.ppn >= FirstFree
    BY <2>2, <2>4, SizeAssumption DEF IInv, PagePartition, Page
  <2> QED
    BY <2>1, <2>2, <2>5 DEF DataNotTable, IsTable
<1> QED
  BY <1>1, <1>2, TLBStep, DataNotTableStep, Invariance, PTL DEF Spec

-----------------------------------------------------------------------------
(***************************************************************************)
(* PageMap implements AddressSpace: the initial states correspond, and     *)
(* every step of every call is a step of AddressSpace or invisible there.  *)
(***************************************************************************)
barVars == <<availBar, heldBar, pgdir, vmapBar>>

(* The translation AddressSpace sees at va.                                *)
BarAt(va) == IF Decided /\ va = op.va THEN op.new
             ELSE IF RawTable(va) THEN Zero ELSE check_va2pa(va)

LEMMA VmapIsBarAt ==
  /\ vmapBar  = [va \in VA |-> BarAt(va)]
  /\ vmapBar' = [va \in VA |-> BarAt(va)']
  BY DEF vmapBar, BarAt

(* In every reachable state data pages are not page tables.                *)
LEMMA DataNotTableAlways == Spec => []DataNotTable
<1>1. Init => DataNotTable
  <2>1. Init => \A va \in VA : ~ Counted(va)
    BY AddressParts DEF Init, Counted, check_va2pa
  <2> QED
    BY <2>1 DEF Init, DataNotTable
<1> QED
  BY <1>1, DataNotTableStep, Invariance, PTL DEF Spec

(* A word that page_insert stores carries PTE_P.                           *)
NewWord == pc # "idle" => op.new = Zero \/ op.new.flags \in Perms

LEMMA NewWordAlways == Spec => []NewWord
<1>1. Init => NewWord
  BY DEF Init, NewWord
<1>2. NewWord /\ [Next]_vars => NewWord'
  <2> SUFFICES ASSUME NewWord, [Next]_vars PROVE NewWord'
    OBVIOUS
  <2>1. CASE \E va \in VA, p \in Page, perm \in Perms : page_insert(va, p, perm)
    BY <2>1 DEF page_insert, NewWord
  <2>2. CASE \E va \in VA : page_remove(va)
    BY <2>2 DEF page_remove, NewWord
  <2>3. CASE page_alloc \/ (\E p \in held : page_free(p)) \/ ProcessorStep \/ UNCHANGED vars
    BY <2>3 DEF page_alloc, page_free, ProcessorStep, tlb_fill, tlb_evict, vars, NewWord
  <2>4. CASE KernelStep
    BY <2>4 DEF KernelStep, walk_memset, insert_count, remove_decref, remove_clear,
                tlb_invalidate, insert_write, NewWord
  <2> QED
    BY <2>1, <2>2, <2>3, <2>4 DEF Next, ClientStep
<1> QED
  BY <1>1, <1>2, PTL DEF Spec

(* page_init leaves AddressSpace's initial state.                          *)
LEMMA InitRefines == Init => AS!ASInit
<1> SUFFICES ASSUME Init PROVE AS!ASInit
  OBVIOUS
<1>1. availBar = FirstFree .. NPages - 1
  <2>1. ASSUME NEW p \in Page PROVE OnList(p) <=> p >= FirstFree
    <3>1. p \in Int /\ (p # NPages - 1 => p + 1 \in Page)
      BY SizeAssumption DEF Page
    <3>2. le_prev[p] = IF p < FirstFree THEN NULL ELSE IF p = NPages - 1 THEN ListHead ELSE p + 1
      BY DEF Init, page_init
    <3> QED
      BY <3>1, <3>2, SizeAssumption, PointerAssumption DEF OnList
  <2> QED
    BY <2>1, SizeAssumption DEF availBar, Page
<1>2. heldBar = {}
  BY DEF Init, heldBar
<1>3. vmapBar = [va \in PDX \X PTX |-> Zero]
  <2>1. \A va \in VA : BarAt(va) = Zero
    BY AddressParts DEF Init, BarAt, Decided, RawTable, check_va2pa
  <2> QED
    BY <2>1, VmapIsBarAt DEF VA
<1> QED
  BY <1>1, <1>2, <1>3 DEF AS!ASInit, Init

-----------------------------------------------------------------------------
(* A step that changes neither lists nor translations is invisible.        *)
LEMMA Invisible ==
  ASSUME pgdir' = pgdir, heldBar' = heldBar,
         \A p \in Page : OnList(p)' <=> OnList(p),
         \A va \in VA : BarAt(va)' = BarAt(va)
  PROVE  UNCHANGED barVars
<1>1. availBar' = availBar
  BY DEF availBar
<1>2. vmapBar' = vmapBar
  BY VmapIsBarAt
<1> QED
  BY <1>1, <1>2 DEF barVars

(* The pages AddressSpace takes to be mapped.                              *)
LEMMA MappedBar ==
  /\ \A p : p \in AS!MappedIn(vmapBar) <=> \E va \in VA : BarAt(va) # Zero /\ BarAt(va).ppn = p
  /\ \A p : p \in AS!MappedIn(vmapBar') <=> \E va \in VA : BarAt(va)' # Zero /\ (BarAt(va)').ppn = p
  BY VmapIsBarAt DEF AS!MappedIn

(* Before page_insert and page_remove take effect, what counts as a        *)
(* reference is what AddressSpace sees.                                    *)
LEMMA UndecidedBar ==
  ASSUME pc \in {"count", "decref"}, NEW va \in VA
  PROVE  BarAt(va) = check_va2pa(va) /\ (Counted(va) <=> check_va2pa(va) # Zero)
  BY DEF BarAt, Decided, RawTable, Counted

(* A page that is no table and has more references than the pending one is *)
(* mapped.                                                                 *)
LEMMA CountedIsMapped ==
  ASSUME IInv, pc \in {"count", "decref"}, NEW p \in Page, ~ IsTable(p),
         pp_ref[p] > PendingRef(p)
  PROVE  PteRefs(p) # {} /\ p \in AS!MappedIn(vmapBar)
<1>1. PdeRefs(p) = {}
  BY DEF PdeRefs, IsTable
<1>2. Cardinality(PdeRefs(p)) = 0
  BY <1>1, FS_EmptySet, Zenon
<1>3. Cardinality(PteRefs(p)) # 0
  BY <1>2, RefsTypes DEF IInv, RefCountExact
<1>4. PteRefs(p) # {}
  BY <1>3, FS_EmptySet, Zenon
<1>5. PICK va \in VA : Counted(va) /\ check_va2pa(va).ppn = p
  BY <1>4 DEF PteRefs
<1> QED
  BY <1>4, <1>5, UndecidedBar, MappedBar

-----------------------------------------------------------------------------
(* Taking the first page from the list takes it from the pool.             *)
LEMMA TakeFromPool ==
  ASSUME IInv, NEW ref, take_first_page(ref)
  PROVE  lh_first \in availBar /\ availBar' = availBar \ {lh_first}
<1>1. LinkTypes /\ FreeListLinked /\ ~ LIST_EMPTY /\ LIST_REMOVE(lh_first)
  BY DEF IInv, TypeOK, LinkTypes, take_first_page
<1>2. /\ lh_first \in Page /\ OnList(lh_first)
      /\ \A q \in Page : OnList(q)' <=> (q # lh_first /\ OnList(q))
  BY <1>1, RemoveFirstLinks
<1> QED
  BY <1>2 DEF availBar

LEMMA AllocRefines ==
  ASSUME IInv, page_alloc
  PROVE  AS!Alloc \/ UNCHANGED barVars
<1>1. /\ pc = "idle" /\ UNCHANGED <<pgdir, mem, pc, op>>
      /\ \A va \in VA : BarAt(va)' = BarAt(va)
  BY DEF page_alloc, BarAt, Decided, RawTable, check_va2pa
<1>2. heldBar = held /\ heldBar' = held'
  BY <1>1 DEF heldBar
<1>3. CASE take_first_page(0) /\ held' = held \cup {lh_first}
  <2>1. vmapBar' = vmapBar
    BY <1>1, VmapIsBarAt
  <2>2. lh_first \in availBar /\ availBar' = availBar \ {lh_first}
    BY <1>3, TakeFromPool
  <2> QED
    BY <1>1, <1>2, <1>3, <2>1, <2>2 DEF AS!Alloc
<1>4. CASE UNCHANGED <<listVars, held>>
  BY <1>1, <1>2, <1>4, Invisible DEF listVars, OnList
<1> QED
  BY <1>3, <1>4 DEF page_alloc

LEMMA FreeRefines ==
  ASSUME IInv, NEW p \in held, page_free(p)
  PROVE  AS!Free
<1>1. /\ pc = "idle" /\ UNCHANGED <<pgdir, mem, pc, op>> /\ held' = held \ {p}
      /\ \A va \in VA : BarAt(va)' = BarAt(va)
  BY DEF page_free, BarAt, Decided, RawTable, check_va2pa
<1>2. heldBar = held /\ heldBar' = held'
  BY <1>1 DEF heldBar
<1>3. vmapBar' = vmapBar
  BY <1>1, VmapIsBarAt
<1>4. p \in Page /\ ~ OnList(p) /\ LinkTypes
  BY DEF IInv, TypeOK, PagePartition, LinkTypes
<1>5. \A q \in Page : OnList(q)' <=> (q = p \/ OnList(q))
  BY <1>4, InsertHeadLinks DEF page_free, IInv
<1>6. availBar' = availBar \cup {p}
  BY <1>4, <1>5 DEF availBar
<1> QED
  BY <1>1, <1>2, <1>3, <1>6 DEF AS!Free

(* page_insert: a new table is published, or nothing happens yet.          *)
LEMMA InsertRefines ==
  ASSUME IInv, NEW va \in VA, NEW p \in Page, NEW perm \in Perms, page_insert(va, p, perm)
  PROVE  AS!MakeTable \/ UNCHANGED barVars
<1>1. pc = "idle" /\ UNCHANGED <<mem, tlb, stray, held>> /\ va[1] \in PDX
  BY AddressParts DEF page_insert
<1>2. heldBar = held
  BY <1>1 DEF heldBar
<1>3. CASE /\ pgdir[va[1]] = NULL /\ take_first_page(1) /\ pc' = "memset"
           /\ pgdir' = [pgdir EXCEPT ![va[1]] = lh_first]
           /\ op' = [va |-> va, new |-> [ppn |-> p, flags |-> perm]]
  <2>1. lh_first \in availBar /\ availBar' = availBar \ {lh_first}
    BY <1>3, TakeFromPool
  <2>2. heldBar' = held'
    BY <1>3 DEF heldBar
  <2>3. ASSUME NEW u \in VA PROVE BarAt(u)' = BarAt(u)
    <3>1. BarAt(u) = check_va2pa(u) /\ BarAt(u)' = IF u[1] = va[1] THEN Zero ELSE check_va2pa(u)'
      BY <1>1, <1>3 DEF BarAt, Decided, RawTable
    <3>2. u[1] = va[1] => check_va2pa(u) = Zero
      BY <1>3 DEF check_va2pa
    <3>3. u[1] # va[1] => check_va2pa(u)' = check_va2pa(u)
      BY <1>1, <1>3, AddressParts DEF check_va2pa, IInv, TypeOK
    <3> QED
      BY <3>1, <3>2, <3>3
  <2>4. vmapBar' = vmapBar
    BY <2>3, VmapIsBarAt
  <2> QED
    BY <1>1, <1>2, <1>3, <2>1, <2>2, <2>4 DEF AS!MakeTable
<1>4. CASE UNCHANGED <<listVars, pgdir>> /\ (UNCHANGED pc \/ pc' = "count")
  <2>1. heldBar' = heldBar
    BY <1>1, <1>2, <1>4 DEF heldBar
  <2>2. \A u \in VA : BarAt(u)' = BarAt(u)
    BY <1>1, <1>4 DEF BarAt, Decided, RawTable, check_va2pa
  <2> QED
    BY <1>4, <2>1, <2>2, Invisible DEF listVars, OnList
<1> QED
  BY <1>3, <1>4 DEF page_insert

LEMMA RemoveRefines ==
  ASSUME IInv, NEW va \in VA, page_remove(va)
  PROVE  UNCHANGED barVars
<1>1. /\ pc = "idle" /\ UNCHANGED <<listVars, pp_ref, pgdir, mem, held>>
      /\ (UNCHANGED <<pc, op>> \/ (pc' = "decref" /\ op' = [va |-> va, new |-> Zero]))
  BY DEF page_remove
<1>2. heldBar' = heldBar
  BY <1>1 DEF heldBar, PendingRef, Inserting
<1>3. \A u \in VA : BarAt(u)' = BarAt(u)
  BY <1>1 DEF BarAt, Decided, RawTable, check_va2pa
<1> QED
  BY <1>1, <1>2, <1>3, Invisible DEF listVars, OnList

(* The cleared table maps nothing, as AddressSpace has it already.         *)
LEMMA MemsetRefines ==
  ASSUME IInv, walk_memset
  PROVE  UNCHANGED barVars
<1>1. /\ pc = "memset" /\ pc' = "count" /\ UNCHANGED <<listVars, pgdir, held, op>>
      /\ mem' = [mem EXCEPT ![pgdir[op.va[1]]] = [x \in PTX |-> Zero]]
  BY DEF walk_memset
<1>2. op.va[1] \in PDX /\ pgdir[op.va[1]] # NULL
  BY <1>1, CallArguments
<1>3. \A u \in VA : check_va2pa(u)' = IF u[1] = op.va[1] THEN Zero ELSE check_va2pa(u)
  BY <1>1, <1>2, ClearTableFrame DEF IInv
<1>4. \A u \in VA : BarAt(u)' = BarAt(u)
  BY <1>1, <1>3 DEF BarAt, Decided, RawTable
<1>5. heldBar' = heldBar
  BY <1>1 DEF heldBar
<1> QED
  BY <1>1, <1>4, <1>5, Invisible DEF listVars, OnList

(* A processor step, or none at all.                                       *)
LEMMA ProcessorRefines ==
  ASSUME ProcessorStep \/ UNCHANGED vars
  PROVE  UNCHANGED barVars
<1>1. UNCHANGED <<listVars, pp_ref, pgdir, mem, held, pc, op>>
  BY DEF ProcessorStep, tlb_fill, tlb_evict, vars, listVars
<1>2. heldBar' = heldBar
  BY <1>1 DEF heldBar, PendingRef, Inserting
<1>3. \A u \in VA : BarAt(u)' = BarAt(u)
  BY <1>1 DEF BarAt, Decided, RawTable, check_va2pa
<1> QED
  BY <1>1, <1>2, <1>3, Invisible DEF listVars, OnList

-----------------------------------------------------------------------------
(* The steps at which a call takes effect.                                 *)

(* page_insert counts the new page.  If va is free, that is the mapping;   *)
(* if not, the page is still the client's until the old one is uncounted.  *)
LEMMA CountRefines ==
  ASSUME IInv, DataNotTable, insert_count
  PROVE  AS!Map \/ UNCHANGED barVars
<1> DEFINE p == op.new.ppn
<1>0. /\ pc = "count" /\ pc' = IF check_va2pa(op.va) # Zero THEN "decref" ELSE "write"
      /\ UNCHANGED <<listVars, pgdir, mem, op>> /\ held' = held \ {p}
      /\ pp_ref' = [pp_ref EXCEPT ![p] = (pp_ref[p] + 1) % RefMod]
  BY DEF insert_count
<1>1. op.va \in VA /\ op.new \in Word /\ p \in Page /\ pgdir[op.va[1]] # NULL
  BY <1>0, CallArguments
<1>2. /\ op.new.flags \in Perms /\ (p \in held \/ pp_ref[p] > 0)
      /\ pp_ref[p] < RefMod - 1 /\ pp_ref[p] \in Nat
  BY <1>0, <1>1, SizeAssumption DEF IInv, CallInProgress, TypeOK
<1>3. op.new # Zero /\ ~ IsTable(p) /\ op.new = [ppn |-> p, flags |-> op.new.flags]
  BY <1>0, <1>1, <1>2, ZeroWord DEF DataNotTable, Word
<1>4. pp_ref'[p] = pp_ref[p] + 1
  <2>1. (pp_ref[p] + 1) % RefMod = pp_ref[p] + 1
    BY <1>2, SizeAssumption
  <2> QED
    BY <1>0, <1>1, <2>1 DEF IInv, TypeOK
<1>5. \A u \in VA : check_va2pa(u)' = check_va2pa(u) /\ BarAt(u) = check_va2pa(u)
  BY <1>0, TranslationFrame, UndecidedBar
<1>6. heldBar = held
  BY <1>0 DEF heldBar
<1>7. CASE check_va2pa(op.va) # Zero
  <2>1. p \in held <=> pp_ref[p] = 0
    BY <1>1, <1>2 DEF IInv, PagePartition
  <2>2. \A q \in Page : (pc' = "decref" /\ PendingRef(q)' = 1 /\ pp_ref'[q] = 1) <=> (q = p /\ p \in held)
    BY <1>0, <1>2, <1>3, <1>4, <1>7, <2>1 DEF PendingRef, Inserting
  <2>3. heldBar' = heldBar
    BY <1>0, <1>1, <1>6, <2>2 DEF heldBar
  <2>4. \A u \in VA : BarAt(u)' = BarAt(u)
    BY <1>0, <1>5, <1>7 DEF BarAt, Decided, RawTable
  <2> QED
    BY <1>0, <2>3, <2>4, Invisible DEF listVars, OnList
<1>8. CASE check_va2pa(op.va) = Zero
  <2>1. \A u \in VA : BarAt(u)' = IF u = op.va THEN op.new ELSE BarAt(u)
    BY <1>0, <1>5, <1>8 DEF BarAt, Decided, RawTable
  <2>2. vmapBar' = [vmapBar EXCEPT ![op.va] = op.new]
    BY <1>1, <2>1, VmapIsBarAt
  <2>3. heldBar' = heldBar \ {p}
    BY <1>0, <1>6, <1>8 DEF heldBar
  <2>4. AS!MappedIn(vmapBar) \ AS!MappedIn(vmapBar') = {}
    BY <1>1, <1>5, <1>8, <2>1, MappedBar
  <2>5. availBar' = availBar
    BY <1>0 DEF listVars, OnList, availBar
  <2>6. p \in heldBar \cup AS!MappedIn(vmapBar)
    <3>1. PendingRef(p) = 0
      BY <1>0 DEF PendingRef
    <3> QED
      BY <1>0, <1>1, <1>2, <1>3, <1>6, <3>1, CountedIsMapped
  <2> QED
    BY <1>0, <1>1, <1>2, <1>3, <2>2, <2>3, <2>4, <2>5, <2>6 DEF AS!Map, AS!Retarget, VA
<1> QED
  BY <1>7, <1>8

(* page_decref of the old page: it is back in the pool iff no address maps *)
(* it any more, the one being inserted included.                           *)
LEMMA DecrefRetargets ==
  ASSUME IInv, DataNotTable, remove_decref
  PROVE  op.va \in VA /\ vmapBar[op.va] # Zero /\ AS!Retarget(op.va, op.new)
<1> DEFINE p == page_lookup(op.va)
<1>0. /\ pc = "decref" /\ pc' = "clear" /\ UNCHANGED <<pgdir, mem, held, op>> /\ page_decref(p)
  BY DEF remove_decref
<1>1. op.va \in VA /\ op.new \in Word /\ pgdir[op.va[1]] # NULL
  BY <1>0, CallArguments
<1>2. p \in Page /\ check_va2pa(op.va) # Zero /\ check_va2pa(op.va).ppn = p
  BY <1>0, <1>1, TranslationType DEF IInv, CallInProgress
<1>3. op.va \in PteRefs(p) /\ Counted(op.va) /\ ~ IsTable(p)
  BY <1>0, <1>1, <1>2 DEF PteRefs, Counted, RawTable, DataNotTable
<1>4. pp_ref[p] > 0 /\ pp_ref[p] \in 0 .. RefMod - 1
  BY <1>2, <1>3, ReferencedCount DEF IInv, TypeOK
<1>5. ~ OnList(p) /\ LinkTypes
  BY <1>2, <1>4, SizeAssumption DEF IInv, PagePartition, Page, TypeOK, LinkTypes
<1>6. \A q \in Page : OnList(q)' <=> (OnList(q) \/ (q = p /\ pp_ref[p] = 1))
  <2>1. (pp_ref[p] - 1) % RefMod = pp_ref[p] - 1
    BY <1>4, SizeAssumption
  <2>2. CASE pp_ref[p] = 1
    <3>1. LIST_INSERT_HEAD(p)
      BY <1>0, <1>4, <2>1, <2>2 DEF page_decref
    <3> QED
      BY <1>2, <1>5, <2>2, <3>1, InsertHeadLinks DEF IInv
  <2>3. CASE pp_ref[p] # 1
    BY <1>0, <1>4, <2>1, <2>3 DEF page_decref, listVars, OnList
  <2> QED
    BY <2>2, <2>3
<1>7. /\ \A u \in VA : BarAt(u) = check_va2pa(u)
      /\ \A u \in VA : BarAt(u)' = IF u = op.va THEN op.new ELSE BarAt(u)
  BY <1>0, TranslationFrame, UndecidedBar DEF BarAt, Decided, RawTable
<1>8. vmapBar' = [vmapBar EXCEPT ![op.va] = op.new] /\ vmapBar[op.va] # Zero
  BY <1>1, <1>2, <1>7, VmapIsBarAt
<1>9. pp_ref[p] = Cardinality(PteRefs(p)) + PendingRef(p)
  <2>1. PdeRefs(p) = {}
    BY <1>3 DEF PdeRefs, IsTable
  <2>2. Cardinality(PdeRefs(p)) = 0
    BY <2>1, FS_EmptySet, Zenon
  <2> QED
    BY <1>2, <2>2, RefsTypes DEF IInv, RefCountExact
<1>a. PendingRef(p) = IF op.new # Zero /\ op.new.ppn = p THEN 1 ELSE 0
  BY <1>0 DEF PendingRef, Inserting
(* The references left behind, and what they have to do with the mappings. *)
<1>b. p \in AS!MappedIn(vmapBar') <=> (PteRefs(p) \ {op.va} # {} \/ PendingRef(p) = 1)
  <2>1. \A u \in VA : u # op.va =>
          (u \in PteRefs(p) <=> BarAt(u)' # Zero /\ (BarAt(u)').ppn = p)
    BY <1>0, <1>7, UndecidedBar DEF PteRefs
  <2>2. \A u \in VA : u = op.va =>
          ((BarAt(u)' # Zero /\ (BarAt(u)').ppn = p) <=> PendingRef(p) = 1)
    BY <1>7, <1>a
  <2>3. PteRefs(p) \subseteq VA
    BY DEF PteRefs
  <2> QED
    BY <1>1, <2>1, <2>2, <2>3, MappedBar
<1>c. pp_ref[p] = 1 <=> p \notin AS!MappedIn(vmapBar')
  <2>1. /\ IsFiniteSet(PteRefs(p) \ {op.va})
        /\ Cardinality(PteRefs(p) \ {op.va}) = Cardinality(PteRefs(p)) - 1
    BY <1>3, RefsFinite, FS_RemoveElement
  <2>2. PteRefs(p) \ {op.va} = {} <=> Cardinality(PteRefs(p) \ {op.va}) = 0
    BY <2>1, FS_EmptySet, Zenon
  <2>3. Cardinality(PteRefs(p)) \in Nat /\ PendingRef(p) \in {0, 1}
    BY <1>2, RefsTypes
  <2>4. Cardinality(PteRefs(p)) = 1 <=> PteRefs(p) \ {op.va} = {}
    BY <2>1, <2>2, <2>3
  <2>5. Cardinality(PteRefs(p)) >= 1
    BY <1>3, <2>3, RefsFinite, FS_EmptySet
  <2> HIDE DEF p
  <2> QED
    BY <1>9, <1>b, <2>3, <2>4, <2>5
<1>d. AS!MappedIn(vmapBar) \ AS!MappedIn(vmapBar') = IF pp_ref[p] = 1 THEN {p} ELSE {}
  <2>1. p \in AS!MappedIn(vmapBar)
    BY <1>1, <1>2, <1>7, MappedBar
  <2>2. \A q \in AS!MappedIn(vmapBar) : q # p => q \in AS!MappedIn(vmapBar')
    BY <1>2, <1>7, MappedBar
  <2> QED
    BY <1>c, <2>1, <2>2
<1>e. availBar' = availBar \cup (AS!MappedIn(vmapBar) \ AS!MappedIn(vmapBar'))
  BY <1>2, <1>6, <1>d DEF availBar
<1> QED
  BY <1>1, <1>8, <1>e DEF AS!Retarget

LEMMA DecrefRefines ==
  ASSUME IInv, DataNotTable, NewWord, remove_decref
  PROVE  AS!Map \/ AS!Unmap
<1> DEFINE p == op.new.ppn
<1>0. pc = "decref" /\ pc' = "clear" /\ UNCHANGED <<pgdir, mem, held, op>>
  BY DEF remove_decref
<1>1. /\ op.va \in VA /\ op.new \in Word /\ p \in Page /\ pgdir[op.va[1]] # NULL
      /\ vmapBar[op.va] # Zero /\ AS!Retarget(op.va, op.new)
  BY <1>0, CallArguments, DecrefRetargets
<1>2. heldBar' = held
  BY <1>0 DEF heldBar
<1>3. CASE op.new = Zero
  <2>1. heldBar = held
    BY <1>3 DEF heldBar, PendingRef, Inserting
  <2> QED
    BY <1>0, <1>1, <1>2, <1>3, <2>1 DEF AS!Unmap, VA
<1>4. CASE op.new # Zero
  <2>1. \A q \in Page : PendingRef(q) = IF q = p THEN 1 ELSE 0
    BY <1>0, <1>4 DEF PendingRef, Inserting
  <2>2. pp_ref[p] >= 1 /\ pp_ref[p] \in Nat
    BY <1>1, <2>1, RefsTypes DEF IInv, RefCountExact
  <2>3. p \notin held /\ ~ IsTable(p)
    BY <1>0, <1>1, <1>4, <2>2 DEF IInv, PagePartition, DataNotTable
  <2>4. heldBar = held \cup (IF pp_ref[p] = 1 THEN {p} ELSE {})
    BY <1>0, <1>1, <2>1 DEF heldBar
  <2>5. p \in heldBar \cup AS!MappedIn(vmapBar)
    BY <1>0, <1>1, <2>1, <2>2, <2>3, <2>4, CountedIsMapped
  <2>6. op.new.flags \in Perms /\ op.new = [ppn |-> p, flags |-> op.new.flags]
    BY <1>0, <1>1, <1>4 DEF Word, NewWord
  <2> QED
    BY <1>0, <1>1, <1>2, <2>3, <2>4, <2>5, <2>6 DEF AS!Map, VA
<1> QED
  BY <1>3, <1>4

-----------------------------------------------------------------------------
(* The stores that are left once a call has taken effect.                  *)

LEMMA ClearRefines ==
  ASSUME IInv, remove_clear
  PROVE  UNCHANGED barVars
<1>0. /\ pc = "clear" /\ pc' = "invlpg" /\ set_pte(op.va, Zero)
      /\ UNCHANGED <<listVars, pp_ref, pgdir, held, op>>
  BY DEF remove_clear
<1>1. op.va \in VA /\ pgdir[op.va[1]] # NULL
  BY <1>0, CallArguments
<1>2. \A u \in VA : u # op.va => check_va2pa(u)' = check_va2pa(u)
  BY <1>0, <1>1, ZeroWord, SetPteFrame DEF IInv
<1>3. \A u \in VA : BarAt(u)' = BarAt(u)
  BY <1>0, <1>2 DEF BarAt, Decided, RawTable
<1>4. heldBar' = heldBar
  BY <1>0 DEF heldBar
<1> QED
  BY <1>0, <1>3, <1>4, Invisible DEF listVars, OnList

LEMMA InvalidateRefines ==
  ASSUME IInv, tlb_invalidate
  PROVE  UNCHANGED barVars
<1>0. /\ pc = "invlpg" /\ UNCHANGED <<listVars, pp_ref, pgdir, mem, held>>
      /\ \/ Inserting /\ pc' = "write" /\ op' = op
         \/ ~ Inserting /\ pc' = "idle" /\ op' = NULL
  BY DEF tlb_invalidate
<1>1. op.va \in VA /\ check_va2pa(op.va) = Zero
  BY <1>0, CallArguments DEF IInv, CallInProgress
<1>2. \A u \in VA : check_va2pa(u)' = check_va2pa(u)
  BY <1>0, TranslationFrame
<1>3. ~ Inserting => op.new = Zero
  BY <1>0 DEF Inserting
<1>4. \A u \in VA : BarAt(u)' = BarAt(u)
  BY <1>0, <1>1, <1>2, <1>3 DEF BarAt, Decided, RawTable
<1>5. heldBar' = heldBar
  BY <1>0 DEF heldBar
<1> QED
  BY <1>0, <1>4, <1>5, Invisible DEF listVars, OnList

LEMMA WriteRefines ==
  ASSUME IInv, insert_write
  PROVE  UNCHANGED barVars
<1>0. /\ pc = "write" /\ pc' = "idle" /\ set_pte(op.va, op.new)
      /\ UNCHANGED <<listVars, pp_ref, pgdir, held>>
  BY DEF insert_write
<1>1. op.va \in VA /\ op.new \in Word /\ pgdir[op.va[1]] # NULL
  BY <1>0, CallArguments
<1>2. \A u \in VA : check_va2pa(u)' = IF u = op.va THEN op.new ELSE check_va2pa(u)
  BY <1>0, <1>1, SetPteFrame DEF IInv
<1>3. \A u \in VA : BarAt(u)' = BarAt(u)
  BY <1>0, <1>2 DEF BarAt, Decided, RawTable
<1>4. heldBar' = heldBar
  BY <1>0 DEF heldBar
<1> QED
  BY <1>0, <1>3, <1>4, Invisible DEF listVars, OnList

(* Every step is one of AddressSpace or invisible there.                   *)
LEMMA StepRefines ==
  IInv /\ DataNotTable /\ NewWord /\ [Next]_vars => [AS!ASNext]_barVars
<1> SUFFICES ASSUME IInv, DataNotTable, NewWord, [Next]_vars
             PROVE  AS!ASNext \/ UNCHANGED barVars
  OBVIOUS
<1>1. CASE ClientStep
  BY <1>1, AllocRefines, FreeRefines, InsertRefines, RemoveRefines DEF ClientStep, AS!ASNext
<1>2. CASE KernelStep
  BY <1>2, MemsetRefines, CountRefines, DecrefRefines, ClearRefines, InvalidateRefines,
     WriteRefines DEF KernelStep, AS!ASNext
<1>3. CASE ProcessorStep \/ UNCHANGED vars
  BY <1>3, ProcessorRefines
<1> QED
  BY <1>1, <1>2, <1>3 DEF Next

(* The page functions of pmap.c, with their counts, links, words and the   *)
(* TLB beside them, implement the address space their comments promise,    *)
(* for every number of pages and every set of addresses and permissions.   *)
THEOREM PageFunctionsImplementAddressSpace == Spec => ImplementsAddressSpace
<1>1. IInv /\ DataNotTable /\ NewWord /\ [Next]_vars => [AS!ASNext]_(AS!asVars)
  BY StepRefines DEF barVars, AS!asVars
<1> QED
  BY <1>1, InitRefines, Invariance, DataNotTableAlways, NewWordAlways, PTL
     DEF Spec, ImplementsAddressSpace, AS!ASSpec

-----------------------------------------------------------------------------
(* Every non-empty set of natural numbers has a least element.  Induction  *)
(* is this lemma applied to the set of counterexamples.                    *)
LEMMA LeastNumber ==
  ASSUME NEW S \in SUBSET Nat, S # {}
  PROVE  \E m \in S : \A k \in S : m <= k
<1> DEFINE T == {0 .. n : n \in S}
<1>1. T \subseteq FiniteSubsetsOf(Nat) /\ T # {}
  <2>1. ASSUME NEW n \in S PROVE 0 .. n \in SUBSET Nat /\ IsFiniteSet(0 .. n)
    BY FS_Interval
  <2> QED
    BY <2>1 DEF FiniteSubsetsOf
<1>2. IsWellFoundedOn(StrictSubsetOrdering(Nat), FiniteSubsetsOf(Nat))
  BY FS_StrictSubsetOrderingWellFounded
<1>3. PICK x \in T : \A y \in T : ~ (<<y, x>> \in StrictSubsetOrdering(Nat))
  <2> HIDE DEF T
  <2> QED
    BY <1>1, <1>2, WFMin
<1>4. PICK m \in S : x = 0 .. m
  OBVIOUS
<1>5. ASSUME NEW k \in S PROVE m <= k
  <2> SUFFICES ASSUME k < m PROVE FALSE
    OBVIOUS
  <2>1. 0 .. k \in T /\ 0 .. k \in SUBSET Nat /\ 0 .. m \in SUBSET Nat
    OBVIOUS
  <2>2. 0 .. k \subseteq 0 .. m /\ m \in 0 .. m /\ m \notin 0 .. k
    OBVIOUS
  <2>3. <<0 .. k, 0 .. m>> \in StrictSubsetOrdering(Nat)
    BY <2>1, <2>2 DEF StrictSubsetOrdering
  <2> QED
    BY <1>3, <1>4, <2>1, <2>3
<1> QED
  BY <1>5

-----------------------------------------------------------------------------
(* The free list as a sequence: f lists its n pages in the order le_next   *)
(* links them.                                                             *)
Lists(n, f) ==
  /\ f \in [0 .. n - 1 -> Page]
  /\ \A i, j \in 0 .. n - 1 : f[i] = f[j] => i = j
  /\ lh_first = IF n = 0 THEN NULL ELSE f[0]
  /\ \A i \in 0 .. n - 1 : le_next[f[i]] = IF i = n - 1 THEN NULL ELSE f[i + 1]
  /\ \A p \in Page : OnList(p) <=> \E i \in 0 .. n - 1 : f[i] = p

FreeListIsSequence == \E n \in Nat : \E f : Lists(n, f)

(* It is a sequence: the pages in decreasing order.                        *)
LEMMA UpToSequence ==
  ASSUME NEW t \in FirstFree - 1 .. NPages - 1, FreeUpTo(t)
  PROVE  FreeListIsSequence
<1> USE SizeAssumption, PointerAssumption
<1> DEFINE n == t + 1 - FirstFree
           f == [i \in 0 .. n - 1 |-> t - i]
<1>1. n \in Nat
  OBVIOUS
<1>2. f \in [0 .. n - 1 -> Page] /\ lh_first = IF n = 0 THEN NULL ELSE f[0]
  BY DEF Page, FreeUpTo, HeadUpTo
<1>3. ASSUME NEW i \in 0 .. n - 1
      PROVE  le_next[f[i]] = IF i = n - 1 THEN NULL ELSE f[i + 1]
  <2>1. f[i] = t - i /\ f[i] \in Page /\ f[i] <= t
    BY DEF Page
  <2>2. i # n - 1 => f[i + 1] = f[i] - 1 /\ f[i] > FirstFree
    OBVIOUS
  <2>3. i = n - 1 => f[i] = FirstFree
    OBVIOUS
  <2> QED
    BY <2>1, <2>2, <2>3 DEF FreeUpTo, NextUpTo
<1>4. ASSUME NEW p \in Page
      PROVE  OnList(p) <=> \E i \in 0 .. n - 1 : f[i] = p
  <2>1. OnList(p) <=> p >= FirstFree /\ p <= t
    BY UpToLinked
  <2>2. p >= FirstFree /\ p <= t => t - p \in 0 .. n - 1 /\ f[t - p] = p
    BY DEF Page
  <2>3. \A i \in 0 .. n - 1 : f[i] >= FirstFree /\ f[i] <= t
    OBVIOUS
  <2> QED
    BY <2>1, <2>2, <2>3
<1>5. \A i, j \in 0 .. n - 1 : f[i] = f[j] => i = j
  OBVIOUS
<1>6. Lists(n, f)
  BY <1>1, <1>2, <1>3, <1>4, <1>5 DEF Lists
<1> HIDE DEF n, f
<1> QED
  BY <1>1, <1>6 DEF FreeListIsSequence

(* page_init establishes it.                                               *)
LEMMA InitSequence == Init => FreeListIsSequence
<1> SUFFICES ASSUME Init PROVE FreeListIsSequence
  OBVIOUS
<1>1. FreeUpTo(NPages - 1) /\ NPages - 1 \in FirstFree - 1 .. NPages - 1
  BY SizeAssumption DEF Init, page_init, FreeUpTo, HeadUpTo, NextUpTo, PrevUpTo, Page
<1> QED
  BY <1>1, UpToSequence

(* LIST_INSERT_HEAD puts a page before the sequence.                       *)
LEMMA InsertHeadSequence ==
  ASSUME LinkTypes, FreeListLinked, FreeListIsSequence, NEW p \in Page, ~ OnList(p),
         LIST_INSERT_HEAD(p)
  PROVE  FreeListIsSequence'
<1> USE PointerAssumption
<1>0. PICK n \in Nat : \E f : Lists(n, f)
  BY DEF FreeListIsSequence
<1>1. PICK f : Lists(n, f)
  BY <1>0
<1> DEFINE g == [i \in 0 .. n |-> IF i = 0 THEN p ELSE f[i - 1]]
<1>2. n + 1 \in Nat /\ 0 .. (n + 1) - 1 = 0 .. n
  OBVIOUS
<1>3. \A i \in 1 .. n : i - 1 \in 0 .. n - 1 /\ f[i - 1] \in Page /\ f[i - 1] # p
  <2>1. \A i \in 1 .. n : i - 1 \in 0 .. n - 1
    OBVIOUS
  <2> QED
    BY <1>1, <2>1 DEF Lists
<1>4. g \in [0 .. n -> Page] /\ g[0] = p
  BY <1>3
<1>5. ASSUME NEW i \in 0 .. n, NEW j \in 0 .. n, g[i] = g[j]
      PROVE  i = j
  <2>1. \A k, l \in 1 .. n : f[k - 1] = f[l - 1] => k - 1 = l - 1
    BY <1>1, <1>3 DEF Lists
  <2> QED
    BY <1>3, <1>5, <2>1
<1>6. lh_first' = g[0] /\ le_next' = [le_next EXCEPT ![p] = lh_first]
  BY <1>4 DEF LIST_INSERT_HEAD
<1>7. ASSUME NEW i \in 0 .. n
      PROVE  le_next'[g[i]] = IF i = n THEN NULL ELSE g[i + 1]
  <2>1. CASE i = 0
    <3>1. le_next'[p] = lh_first
      BY <1>6 DEF LinkTypes
    <3>2. n # 0 => g[1] = f[0]
      OBVIOUS
    <3>3. lh_first = IF n = 0 THEN NULL ELSE f[0]
      BY <1>1 DEF Lists
    <3> QED
      BY <2>1, <3>1, <3>2, <3>3
  <2>2. CASE i # 0
    <3>1. i \in 1 .. n /\ g[i] = f[i - 1] /\ (i # n => g[i + 1] = f[i])
      BY <2>2
    <3>2. le_next[f[i - 1]] = IF i - 1 = n - 1 THEN NULL ELSE f[i]
      <4>1. i - 1 \in 0 .. n - 1 /\ (i - 1) + 1 = i
        BY <3>1
      <4> QED
        BY <1>1, <4>1 DEF Lists
    <3>3. le_next'[f[i - 1]] = le_next[f[i - 1]]
      BY <1>3, <1>6, <3>1 DEF LinkTypes
    <3> QED
      BY <3>1, <3>2, <3>3
  <2> QED
    BY <2>1, <2>2
<1>8. ASSUME NEW q \in Page
      PROVE  OnList(q)' <=> \E i \in 0 .. n : g[i] = q
  <2>1. OnList(q)' <=> (q = p \/ OnList(q))
    BY InsertHeadLinks
  <2>2. OnList(q) <=> \E i \in 0 .. n - 1 : f[i] = q
    BY <1>1 DEF Lists
  <2>3. \A i \in 0 .. n - 1 : i + 1 \in 0 .. n /\ g[i + 1] = f[i]
    OBVIOUS
  <2>4. \A i \in 1 .. n : g[i] = f[i - 1]
    OBVIOUS
  <2>5. OnList(q) => \E i \in 0 .. n : g[i] = q
    BY <2>2, <2>3
  <2>6. q = p => \E i \in 0 .. n : g[i] = q
    BY <1>4
  <2>7. ASSUME NEW i \in 0 .. n, g[i] = q PROVE q = p \/ OnList(q)
    <3>1. CASE i = 0
      BY <2>7, <3>1, <1>4
    <3>2. CASE i # 0
      BY <2>7, <3>2, <2>2, <2>4, <1>3
    <3> QED
      BY <3>1, <3>2
  <2> QED
    BY <2>1, <2>5, <2>6, <2>7
<1>9. Lists(n + 1, g)'
  <2> HIDE DEF g
  <2>1. n + 1 # 0 /\ (n + 1) - 1 = n
    OBVIOUS
  <2> QED
    BY <1>2, <1>4, <1>5, <1>6, <1>7, <1>8, <2>1 DEF Lists
<1> HIDE DEF g
<1> QED
  BY <1>2, <1>9 DEF FreeListIsSequence

(* LIST_REMOVE of the first page leaves the rest of the sequence.          *)
LEMMA RemoveFirstSequence ==
  ASSUME LinkTypes, FreeListLinked, FreeListIsSequence, ~ LIST_EMPTY,
         LIST_REMOVE(lh_first)
  PROVE  FreeListIsSequence'
<1> USE PointerAssumption
<1>0. PICK n \in Nat : \E f : Lists(n, f)
  BY DEF FreeListIsSequence
<1>1. PICK f : Lists(n, f)
  BY <1>0
<1> DEFINE g == [i \in 0 .. n - 2 |-> f[i + 1]]
<1>2. n # 0 /\ lh_first = f[0] /\ n - 1 \in Nat /\ (n - 1) - 1 = n - 2
  BY <1>1 DEF Lists, LIST_EMPTY
<1>3. \A i \in 0 .. n - 2 : /\ i \in 0 .. n - 1 /\ i + 1 \in 0 .. n - 1
                            /\ f[i + 1] \in Page /\ f[i + 1] # f[0]
  <2>1. \A i \in 0 .. n - 2 : i + 1 \in 0 .. n - 1 /\ i \in 0 .. n - 1 /\ i + 1 # 0
    OBVIOUS
  <2>2. 0 \in 0 .. n - 1
    BY <1>2
  <2> QED
    BY <1>1, <2>1, <2>2 DEF Lists
<1>4. g \in [0 .. n - 2 -> Page]
  BY <1>3
<1>5. \A i, j \in 0 .. n - 2 : g[i] = g[j] => i = j
  <2>1. \A i, j \in 0 .. n - 2 : f[i + 1] = f[j + 1] => i + 1 = j + 1
    BY <1>1, <1>3 DEF Lists
  <2> QED
    BY <2>1
<1>6. lh_first \in Page /\ le_prev[lh_first] = ListHead
  BY DEF LinkTypes, FreeListLinked, LIST_EMPTY
<1>7. /\ lh_first' = le_next[f[0]]
      /\ \A q \in Page : q # f[0] => le_next'[q] = le_next[q]
  BY <1>2, <1>6 DEF LIST_REMOVE
<1>8. lh_first' = IF n - 1 = 0 THEN NULL ELSE g[0]
  <2>1. le_next[f[0]] = IF 0 = n - 1 THEN NULL ELSE f[0 + 1]
    <3>1. 0 \in 0 .. n - 1
      BY <1>2
    <3> QED
      BY <1>1, <3>1 DEF Lists
  <2>2. n - 1 # 0 => g[0] = f[1]
    BY <1>2
  <2> QED
    BY <1>7, <2>1, <2>2
<1>9. ASSUME NEW i \in 0 .. n - 2
      PROVE  le_next'[g[i]] = IF i = n - 2 THEN NULL ELSE g[i + 1]
  <2>1. le_next[f[i + 1]] = IF i + 1 = n - 1 THEN NULL ELSE f[(i + 1) + 1]
    BY <1>1, <1>3 DEF Lists
  <2>2. le_next'[f[i + 1]] = le_next[f[i + 1]]
    BY <1>3, <1>7
  <2>3. i # n - 2 => g[i + 1] = f[(i + 1) + 1]
    OBVIOUS
  <2> QED
    BY <2>1, <2>2, <2>3
<1>10. ASSUME NEW q \in Page
       PROVE  OnList(q)' <=> \E i \in 0 .. n - 2 : g[i] = q
  <2>1. OnList(q)' <=> (q # f[0] /\ OnList(q))
    BY <1>2, RemoveFirstLinks
  <2>2. OnList(q) <=> \E i \in 0 .. n - 1 : f[i] = q
    BY <1>1 DEF Lists
  <2>3. ASSUME NEW i \in 0 .. n - 2, g[i] = q PROVE q # f[0] /\ OnList(q)
    BY <1>3, <2>2, <2>3
  <2>4. ASSUME q # f[0], NEW i \in 0 .. n - 1, f[i] = q
        PROVE  \E j \in 0 .. n - 2 : g[j] = q
    <3>1. i # 0
      BY <2>4
    <3>2. i - 1 \in 0 .. n - 2 /\ (i - 1) + 1 = i
      BY <3>1
    <3>3. g[i - 1] = f[i]
      BY <3>2
    <3> QED
      BY <3>2, <3>3, <2>4
  <2> QED
    BY <2>1, <2>2, <2>3, <2>4
<1>11. Lists(n - 1, g)'
  <2> HIDE DEF g
  <2> QED
    BY <1>2, <1>4, <1>5, <1>8, <1>9, <1>10 DEF Lists
<1> HIDE DEF g
<1> QED
  BY <1>2, <1>11 DEF FreeListIsSequence

(* A step takes the first page off the list, puts a page that is on no     *)
(* list in front, or leaves the list alone.                                *)
LEMMA ListMoves ==
  ASSUME IInv, [Next]_vars
  PROVE  \/ UNCHANGED listVars
         \/ ~ LIST_EMPTY /\ LIST_REMOVE(lh_first)
         \/ \E p \in Page : ~ OnList(p) /\ LIST_INSERT_HEAD(p)
<1>1. CASE page_alloc \/ \E va \in VA, p \in Page, perm \in Perms : page_insert(va, p, perm)
  BY <1>1 DEF page_alloc, page_insert, take_first_page
<1>2. ASSUME NEW p \in held, page_free(p)
      PROVE  p \in Page /\ ~ OnList(p) /\ LIST_INSERT_HEAD(p)
  BY <1>2 DEF IInv, TypeOK, PagePartition, page_free
<1>3. CASE remove_decref
  <2> DEFINE p == page_lookup(op.va)
  <2>1. pc = "decref" /\ op.va \in VA /\ op # NULL /\ pgdir[op.va[1]] # NULL
    BY <1>3, CallArguments DEF remove_decref
  <2>2. p \in Page /\ check_va2pa(op.va) # Zero /\ check_va2pa(op.va).ppn = p
    BY <2>1, TranslationType DEF IInv, CallInProgress
  <2>3. op.va \in PteRefs(p)
    BY <2>1, <2>2 DEF PteRefs, Counted, RawTable
  <2>4. pp_ref[p] > 0
    BY <2>2, <2>3, ReferencedCount DEF IInv, TypeOK
  <2>5. ~ OnList(p)
    BY <2>2, <2>4 DEF IInv, PagePartition
  <2>6. UNCHANGED listVars \/ LIST_INSERT_HEAD(p)
    BY <1>3 DEF remove_decref, page_decref
  <2> QED
    BY <2>2, <2>5, <2>6
<1>4. CASE \/ \E va \in VA : page_remove(va)
           \/ walk_memset \/ insert_count \/ remove_clear \/ tlb_invalidate \/ insert_write
           \/ ProcessorStep
  BY <1>4 DEF page_remove, walk_memset, insert_count, remove_clear, tlb_invalidate,
              insert_write, ProcessorStep, tlb_fill, tlb_evict, listVars
<1>5. CASE UNCHANGED vars
  BY <1>5 DEF vars, listVars
<1> QED
  BY <1>1, <1>2, <1>3, <1>4, <1>5 DEF Next, ClientStep, KernelStep

(* Every step keeps the list a sequence.                                   *)
LEMMA SequenceStep ==
  IInv /\ FreeListIsSequence /\ [Next]_vars => FreeListIsSequence'
<1> SUFFICES ASSUME IInv, FreeListIsSequence, [Next]_vars PROVE FreeListIsSequence'
  OBVIOUS
<1>1. LinkTypes /\ FreeListLinked
  BY DEF IInv, TypeOK, LinkTypes
<1>2. CASE UNCHANGED listVars
  BY <1>2 DEF listVars, FreeListIsSequence, Lists, OnList
<1>3. CASE ~ LIST_EMPTY /\ LIST_REMOVE(lh_first)
  BY <1>1, <1>3, RemoveFirstSequence
<1>4. CASE \E p \in Page : ~ OnList(p) /\ LIST_INSERT_HEAD(p)
  BY <1>1, <1>4, InsertHeadSequence
<1> QED
  BY <1>2, <1>3, <1>4, ListMoves

(* nth_free satisfies the recursion that defines it.                       *)
LEMMA NthFree ==
  nth_free = [n \in 0 .. NPages |-> IF n = 0 THEN lh_first
                                    ELSE IF nth_free[n - 1] = NULL THEN NULL
                                         ELSE le_next[nth_free[n - 1]]]
<1> DEFINE Good(m, g) ==
             g = [n \in 0 .. m |-> IF n = 0 THEN lh_first
                                   ELSE IF g[n - 1] = NULL THEN NULL ELSE le_next[g[n - 1]]]
<1>1. \E g : Good(NPages, g)
  <2> DEFINE Bad == {m \in Nat : ~ \E g : Good(m, g)}
  <2> SUFFICES ASSUME Bad # {} PROVE FALSE
    BY SizeAssumption
  <2>1. PICK m \in Bad : \A k \in Bad : m <= k
    <3>1. Bad \in SUBSET Nat
      OBVIOUS
    <3> HIDE DEF Bad
    <3> QED
      BY <3>1, LeastNumber
  <2>2. m # 0
    <3>1. Good(0, [n \in 0 .. 0 |-> lh_first])
      OBVIOUS
    <3> QED
      BY <3>1
  <2>3. m - 1 \in Nat /\ m - 1 \notin Bad
    BY <2>1, <2>2
  <2>4. PICK g : Good(m - 1, g)
    BY <2>3
  <2> DEFINE h == [n \in 0 .. m |-> IF n # m THEN g[n]
                                    ELSE IF g[m - 1] = NULL THEN NULL ELSE le_next[g[m - 1]]]
  <2>5. ASSUME NEW n \in 0 .. m
        PROVE  h[n] = IF n = 0 THEN lh_first
                      ELSE IF h[n - 1] = NULL THEN NULL ELSE le_next[h[n - 1]]
    <3>1. n # 0 => h[n - 1] = g[n - 1]
      BY <2>2, <2>3
    <3>2. n # m => /\ n \in 0 .. m - 1
                   /\ g[n] = IF n = 0 THEN lh_first
                             ELSE IF g[n - 1] = NULL THEN NULL ELSE le_next[g[n - 1]]
      BY <2>2, <2>3, <2>4
    <3> QED
      BY <2>2, <3>1, <3>2
  <2>6. Good(m, h)
    BY <2>5
  <2> QED
    BY <2>6
<1>2. nth_free = CHOOSE g : Good(NPages, g)
  BY DEF nth_free
<1> HIDE DEF Good
<1>3. Good(NPages, CHOOSE g : Good(NPages, g))
  BY <1>1, Zenon
<1>4. Good(NPages, nth_free)
  BY <1>2, <1>3, Zenon
<1> QED
  BY <1>4, Zenon DEF Good

(* A sequence of distinct pages is no longer than the number of pages.     *)
LEMMA ListedPagesFit ==
  ASSUME NEW n \in Nat, NEW f, Lists(n, f)
  PROVE  n <= NPages
<1>1. f \in Injection(0 .. n - 1, Page)
  BY DEF Lists, Injection, IsInjective
<1>2. /\ IsFiniteSet(Page) /\ Cardinality(Page) = NPages
      /\ Cardinality(0 .. n - 1) = n
  BY SizeAssumption, FS_Interval DEF Page
<1> QED
  BY <1>1, <1>2, FS_Injection

(* The walk from the head meets the pages of the sequence in their order   *)
(* and NULL after them.                                                    *)
LEMMA WalkFollows ==
  ASSUME NEW n \in Nat, NEW f, Lists(n, f), NEW i \in 0 .. NPages
  PROVE  nth_free[i] = IF i < n THEN f[i] ELSE NULL
<1> USE PointerAssumption, SizeAssumption
<1> DEFINE Bad == {k \in 0 .. NPages : nth_free[k] # IF k < n THEN f[k] ELSE NULL}
<1> SUFFICES ASSUME Bad # {} PROVE FALSE
  OBVIOUS
<1>1. PICK k \in Bad : \A l \in Bad : k <= l
  <2>1. Bad \in SUBSET Nat
    OBVIOUS
  <2> HIDE DEF Bad
  <2> QED
    BY <2>1, LeastNumber
<1>2. nth_free[k] = IF k = 0 THEN lh_first
                    ELSE IF nth_free[k - 1] = NULL THEN NULL ELSE le_next[nth_free[k - 1]]
  <2>1. k \in 0 .. NPages
    OBVIOUS
  <2> HIDE DEF Bad
  <2> QED
    BY <2>1, NthFree
<1>3. k # 0
  <2>1. lh_first = IF n = 0 THEN NULL ELSE f[0]
    BY DEF Lists
  <2> QED
    BY <1>1, <1>2, <2>1
<1>4. k - 1 \in 0 .. NPages /\ nth_free[k - 1] = IF k - 1 < n THEN f[k - 1] ELSE NULL
  BY <1>1, <1>3
<1>5. k - 1 < n => f[k - 1] # NULL /\ le_next[f[k - 1]] = IF k - 1 = n - 1 THEN NULL ELSE f[k]
  <2>1. k - 1 < n => k - 1 \in 0 .. n - 1 /\ (k - 1) + 1 = k
    BY <1>3
  <2> HIDE DEF Bad
  <2> QED
    BY <2>1 DEF Lists
<1>6. nth_free[k] = IF k < n THEN f[k] ELSE NULL
  BY <1>2, <1>3, <1>4, <1>5
<1> QED
  BY <1>1, <1>6

(* A list that is a sequence is met completely, and ends.                  *)
LEMMA SequenceComplete ==
  ASSUME FreeListIsSequence
  PROVE  FreeListComplete
<1>0. PICK n \in Nat : \E f : Lists(n, f)
  BY DEF FreeListIsSequence
<1>1. PICK f : Lists(n, f)
  BY <1>0
<1>2. n <= NPages /\ NPages \in Nat
  BY <1>1, ListedPagesFit, SizeAssumption
<1>3. \A i \in 0 .. NPages : nth_free[i] = IF i < n THEN f[i] ELSE NULL
  BY <1>1, WalkFollows
<1>4. nth_free[NPages] = NULL
  BY <1>2, <1>3
<1>5. \A p \in Page : OnList(p) <=> \E i \in 0 .. n - 1 : f[i] = p
  BY <1>1 DEF Lists
<1>6. \A i \in 0 .. n - 1 : /\ i \in 0 .. NPages /\ i < n
                            /\ nth_free[i] = f[i] /\ f[i] \in Page /\ f[i] # NULL
  <2>1. \A i \in 0 .. n - 1 : i \in 0 .. NPages /\ i < n
    BY <1>2
  <2>2. \A i \in 0 .. n - 1 : f[i] \in Page
    BY <1>1 DEF Lists
  <2> QED
    BY <1>3, <2>1, <2>2, PointerAssumption
<1>7. \A i \in 0 .. NPages : nth_free[i] # NULL => i \in 0 .. n - 1
  BY <1>2, <1>3
<1>8. {p \in Page : OnList(p)} = {nth_free[i] : i \in 0 .. NPages} \ {NULL}
  <2>1. ASSUME NEW p \in Page, OnList(p)
        PROVE  p \in {nth_free[i] : i \in 0 .. NPages} \ {NULL}
    BY <1>5, <1>6, <2>1
  <2>2. ASSUME NEW i \in 0 .. NPages, nth_free[i] # NULL
        PROVE  nth_free[i] \in Page /\ OnList(nth_free[i])
    BY <1>5, <1>6, <1>7, <2>2
  <2> QED
    BY <2>1, <2>2
<1> QED
  BY <1>4, <1>8 DEF FreeListComplete

(* Walking page_free_list from its head meets every free page, and ends,   *)
(* whatever order pages are allocated, mapped, unmapped and freed in.      *)
THEOREM NoFreePageLost == Spec => []FreeListComplete
<1>1. IInv /\ FreeListIsSequence => FreeListComplete
  BY SequenceComplete
<1> QED
  BY <1>1, InitSequence, SequenceStep, Invariance, PTL DEF Spec

-----------------------------------------------------------------------------
(***************************************************************************)
(* page_check.  Its statements run one after the other from a known state, *)
(* so the invariant names the state each of them, and each step of a call, *)
(* starts in; only what the processor caches is left open.                 *)
(***************************************************************************)

(* The three pages page_check allocates.                                   *)
pg0 == NPages - 1
pg1 == NPages - 2
pg2 == NPages - 3

(* The list while the rest of the free list is hidden: at most the page s, *)
(* NULL if it is empty.                                                    *)
Side(s) ==
  /\ lh_first = s
  /\ le_next = NextUpTo(NPages - 4)
  /\ le_prev = [p \in Page |-> IF p = s THEN ListHead ELSE PrevUpTo(NPages - 4)[p]]

(* The reference counts: those of the three pages, 0 for any other.        *)
Counts(r0, r1, r2) ==
  pp_ref = [p \in Page |-> IF p = pg0 THEN r0 ELSE IF p = pg1 THEN r1
                           ELSE IF p = pg2 THEN r2 ELSE 0]

NoTable  == pgdir = [d \in PDX |-> NULL]
OneTable == pgdir = [d \in PDX |-> IF d = zero[1] THEN pg0 ELSE NULL]

(* The one table holds e0 for the address 0, e1 for PGSIZE, no other.      *)
TableIs(e0, e1) ==
  /\ OneTable
  /\ mem[pg0] = [x \in PTX |-> IF x = zero[2] THEN e0 ELSE IF x = one[2] THEN e1 ELSE Zero]

Entry(p) == [ppn |-> p, flags |-> perm0]
InsertOf(va, p) == op = [va |-> va, new |-> Entry(p)]
RemoveOf(va)    == op = [va |-> va, new |-> Zero]

(* Statements 1 to 4 find the list page_init built, shorter by the pages   *)
(* allocated.                                                              *)
Start ==
  /\ step \in 1 .. 4 /\ pc = "idle"
  /\ FreeUpTo(NPages - step) /\ held = (NPages + 1) - step .. NPages - 1
  /\ pp_ref = [p \in Page |-> 0] /\ NoTable
  /\ step > 1 => pp0 = pg0
  /\ step > 2 => pp1 = pg1
  /\ step > 3 => pp2 = pg2

(* The locals of page_check from statement 5 on.                           *)
Fixed ==
  /\ pp0 = pg0 /\ pp1 = pg1 /\ pp2 = pg2
  /\ fl = HeadUpTo(NPages - 4)

(* The stages between: each names the statements it stands before and, for *)
(* a call in progress, what the steps of the call have done so far.        *)
Middle5 ==
  /\ step \in 5 .. 7 /\ pc = "idle"
  /\ Side(NULL) /\ Counts(0, 0, 0) /\ held = {pg0, pg1, pg2} /\ NoTable

Middle8 ==
  /\ step = 8 /\ pc = "idle"
  /\ Side(pg0) /\ Counts(0, 0, 0) /\ held = {pg1, pg2} /\ NoTable

Middle9 ==
  /\ step = 9 /\ Side(NULL)
  /\ pc # "idle" => InsertOf(zero, pg1)
  /\ \/ pc = "memset" /\ OneTable                 /\ Counts(1, 0, 0) /\ held = {pg1, pg2}
     \/ pc = "count"  /\ TableIs(Zero, Zero)       /\ Counts(1, 0, 0) /\ held = {pg1, pg2}
     \/ pc = "write"  /\ TableIs(Zero, Zero)       /\ Counts(1, 1, 0) /\ held = {pg2}
     \/ pc = "idle"   /\ TableIs(Entry(pg1), Zero) /\ Counts(1, 1, 0) /\ held = {pg2}

Middle10 ==
  /\ step \in {10, 11} /\ Side(NULL)
  /\ pc # "idle" => step = 10 /\ InsertOf(one, pg2)
  /\ \/ pc = "count" /\ TableIs(Entry(pg1), Zero)       /\ Counts(1, 1, 0) /\ held = {pg2}
     \/ pc = "write" /\ TableIs(Entry(pg1), Zero)       /\ Counts(1, 1, 1) /\ held = {}
     \/ pc = "idle"  /\ TableIs(Entry(pg1), Entry(pg2)) /\ Counts(1, 1, 1) /\ held = {}

Middle12 ==
  /\ step \in 12 .. 14 /\ Side(NULL) /\ held = {}
  /\ pc # "idle" => step = 12 /\ InsertOf(one, pg2)
  /\ \/ pc = "count"  /\ TableIs(Entry(pg1), Entry(pg2)) /\ Counts(1, 1, 1)
     \/ pc = "decref" /\ TableIs(Entry(pg1), Entry(pg2)) /\ Counts(1, 1, 2)
     \/ pc = "clear"  /\ TableIs(Entry(pg1), Entry(pg2)) /\ Counts(1, 1, 1)
     \/ pc = "invlpg" /\ TableIs(Entry(pg1), Zero)       /\ Counts(1, 1, 1)
     \/ pc = "write"  /\ TableIs(Entry(pg1), Zero)       /\ Counts(1, 1, 1)
     \/ pc = "idle"   /\ TableIs(Entry(pg1), Entry(pg2)) /\ Counts(1, 1, 1)

Middle15 ==
  /\ step = 15 /\ held = {}
  /\ pc # "idle" => InsertOf(one, pg1)
  /\ \/ pc = "count"  /\ TableIs(Entry(pg1), Entry(pg2)) /\ Counts(1, 1, 1) /\ Side(NULL)
     \/ pc = "decref" /\ TableIs(Entry(pg1), Entry(pg2)) /\ Counts(1, 2, 1) /\ Side(NULL)
     \/ pc = "clear"  /\ TableIs(Entry(pg1), Entry(pg2)) /\ Counts(1, 2, 0) /\ Side(pg2)
     \/ pc = "invlpg" /\ TableIs(Entry(pg1), Zero)       /\ Counts(1, 2, 0) /\ Side(pg2)
     \/ pc = "write"  /\ TableIs(Entry(pg1), Zero)       /\ Counts(1, 2, 0) /\ Side(pg2)
     \/ pc = "idle"   /\ TableIs(Entry(pg1), Entry(pg1)) /\ Counts(1, 2, 0) /\ Side(pg2)

Middle16 ==
  /\ step = 16 /\ pc = "idle" /\ held = {pg2} /\ Side(NULL)
  /\ TableIs(Entry(pg1), Entry(pg1)) /\ Counts(1, 2, 0)

Middle17 ==
  /\ step = 17 /\ held = {pg2} /\ Side(NULL)
  /\ pc # "idle" => RemoveOf(zero)
  /\ \/ pc = "decref" /\ TableIs(Entry(pg1), Entry(pg1)) /\ Counts(1, 2, 0)
     \/ pc = "clear"  /\ TableIs(Entry(pg1), Entry(pg1)) /\ Counts(1, 1, 0)
     \/ pc = "invlpg" /\ TableIs(Zero, Entry(pg1))       /\ Counts(1, 1, 0)
     \/ pc = "idle"   /\ TableIs(Zero, Entry(pg1))       /\ Counts(1, 1, 0)

Middle18 ==
  /\ step = 18 /\ held = {pg2}
  /\ pc # "idle" => RemoveOf(one)
  /\ \/ pc = "decref" /\ TableIs(Zero, Entry(pg1)) /\ Counts(1, 1, 0) /\ Side(NULL)
     \/ pc = "clear"  /\ TableIs(Zero, Entry(pg1)) /\ Counts(1, 0, 0) /\ Side(pg1)
     \/ pc = "invlpg" /\ TableIs(Zero, Zero)       /\ Counts(1, 0, 0) /\ Side(pg1)
     \/ pc = "idle"   /\ TableIs(Zero, Zero)       /\ Counts(1, 0, 0) /\ Side(pg1)

Middle19 ==
  /\ step \in {19, 20} /\ pc = "idle" /\ held = {pg1, pg2} /\ Side(NULL)
  /\ TableIs(Zero, Zero) /\ Counts(1, 0, 0)

Middle ==
  \/ Middle5 \/ Middle8 \/ Middle9 \/ Middle10 \/ Middle12 \/ Middle15
  \/ Middle16 \/ Middle17 \/ Middle18 \/ Middle19

(* From statement 21 on every page is back on the list but those still to  *)
(* be freed.                                                               *)
Finish ==
  /\ pc = "idle"
  /\ LinkTypes /\ FreeListLinked /\ FreeListIsSequence
  /\ \A p \in Page : OnList(p) <=> p >= FirstFree /\ p \notin held
  /\ \/ step = 21 /\ held = {pg0, pg1, pg2}
     \/ step = 22 /\ held = {pg1, pg2}
     \/ step = 23 /\ held = {pg2}
     \/ step = 24 /\ held = {}
  /\ pp_ref = [p \in Page |-> 0] /\ NoTable

Script == Start \/ (Fixed /\ (Middle \/ Finish))

-----------------------------------------------------------------------------
(* page_alloc takes its last page.                                         *)
LEMMA UpToRemove ==
  ASSUME NEW t \in FirstFree .. NPages - 1, FreeUpTo(t), LIST_REMOVE(lh_first)
  PROVE  lh_first = t /\ FreeUpTo(t - 1)'
<1> USE SizeAssumption, PointerAssumption DEF FreeUpTo
<1>0. t \in Page /\ \A p \in Page : ListHead # p /\ NULL # p /\ p \in Int /\ p >= 0 /\ p < NPages
  BY DEF Page
<1>1. lh_first = t /\ le_prev[t] = ListHead
  BY <1>0 DEF HeadUpTo, PrevUpTo
<1>2. le_next[t] = HeadUpTo(t - 1)
  BY <1>0 DEF NextUpTo, HeadUpTo
<1>3. lh_first' = HeadUpTo(t - 1)
  BY <1>1, <1>2 DEF LIST_REMOVE
<1>4. le_next' = NextUpTo(t - 1)
  <2>1. ASSUME NEW q \in Page PROVE le_next'[q] = NextUpTo(t - 1)[q]
    <3>1. le_next'[q] = IF q = t THEN NULL ELSE le_next[q]
      BY <1>0, <1>1 DEF LIST_REMOVE
    <3> QED
      BY <3>1, <1>0 DEF NextUpTo
  <2> QED
    BY <2>1 DEF LIST_REMOVE, NextUpTo
<1>5. le_prev' = PrevUpTo(t - 1)
  <2>1. ASSUME NEW q \in Page PROVE le_prev'[q] = PrevUpTo(t - 1)[q]
    <3>1. le_prev'[q] = IF q = t THEN NULL ELSE IF q = HeadUpTo(t - 1) THEN ListHead ELSE le_prev[q]
      BY <1>0, <1>1, <1>2 DEF LIST_REMOVE
    <3>2. q = HeadUpTo(t - 1) <=> q = t - 1 /\ q >= FirstFree
      BY <1>0 DEF HeadUpTo
    <3> QED
      BY <3>1, <3>2, <1>0 DEF PrevUpTo
  <2> QED
    BY <2>1 DEF LIST_REMOVE, PrevUpTo
<1> QED
  BY <1>1, <1>3, <1>4, <1>5

-----------------------------------------------------------------------------
(* The three pages are not on the hidden list.                             *)
LEMMA ThreePages ==
  /\ pg0 \in Page /\ pg1 \in Page /\ pg2 \in Page
  /\ pg0 # pg1 /\ pg0 # pg2 /\ pg1 # pg2
  /\ pg0 >= FirstFree /\ pg1 >= FirstFree /\ pg2 >= FirstFree
  /\ \A p \in {pg0, pg1, pg2} : p \in Page /\ p # NULL /\ p # ListHead /\ p > NPages - 4
  /\ \A p \in Page : p > NPages - 4 => p \in {pg0, pg1, pg2}
  BY SizeAssumption, PointerAssumption, ThreeFreePages DEF pg0, pg1, pg2, Page

(* The page put on the empty list is alone on it.                          *)
LEMMA SideInsert ==
  ASSUME NEW p \in {pg0, pg1, pg2}, Side(NULL), LIST_INSERT_HEAD(p)
  PROVE  Side(p)'
<1> USE PointerAssumption DEF Side
<1>1. p \in Page /\ p # NULL /\ p > NPages - 4 /\ NPages \in Int
  BY ThreePages, SizeAssumption
<1>2. lh_first' = p
  BY DEF LIST_INSERT_HEAD
<1>3. le_next' = NextUpTo(NPages - 4)
  <2>1. NextUpTo(NPages - 4)[p] = NULL
    BY <1>1 DEF NextUpTo, Page
  <2> QED
    BY <1>1, <2>1 DEF LIST_INSERT_HEAD, NextUpTo
<1>4. le_prev' = [q \in Page |-> IF q = p THEN ListHead ELSE PrevUpTo(NPages - 4)[q]]
  BY <1>1 DEF LIST_INSERT_HEAD
<1> QED
  BY <1>2, <1>3, <1>4

(* Taking it off leaves the list empty again.                              *)
LEMMA SideRemove ==
  ASSUME NEW p \in {pg0, pg1, pg2}, Side(p), LIST_REMOVE(lh_first)
  PROVE  Side(NULL)'
<1> USE PointerAssumption DEF Side
<1>1. p \in Page /\ p # NULL /\ p # ListHead /\ p > NPages - 4 /\ NPages \in Int
  BY ThreePages, SizeAssumption
<1>2. le_next[p] = NULL /\ le_prev[p] = ListHead
  BY <1>1 DEF NextUpTo, Page
<1>3. lh_first' = NULL
  BY <1>2 DEF LIST_REMOVE
<1>4. le_next' = NextUpTo(NPages - 4)
  BY <1>1, <1>2 DEF LIST_REMOVE, NextUpTo
<1>5. le_prev' = [q \in Page |-> IF q = NULL THEN ListHead ELSE PrevUpTo(NPages - 4)[q]]
  <2>1. PrevUpTo(NPages - 4)[p] = NULL
    BY <1>1 DEF PrevUpTo, Page
  <2> QED
    BY <1>1, <1>2, <2>1 DEF LIST_REMOVE
<1> QED
  BY <1>3, <1>4, <1>5

(* One count changes at a time.                                            *)
LEMMA CountsSet ==
  ASSUME NEW r0, NEW r1, NEW r2, NEW v, Counts(r0, r1, r2)
  PROVE  /\ pp_ref[pg0] = r0 /\ pp_ref[pg1] = r1 /\ pp_ref[pg2] = r2
         /\ pp_ref' = [pp_ref EXCEPT ![pg0] = v] => Counts(v, r1, r2)'
         /\ pp_ref' = [pp_ref EXCEPT ![pg1] = v] => Counts(r0, v, r2)'
         /\ pp_ref' = [pp_ref EXCEPT ![pg2] = v] => Counts(r0, r1, v)'
  BY ThreePages DEF Counts

(* The two addresses have entries of their own in the one table.           *)
LEMMA TwoAddresses ==
  /\ zero \in VA /\ one \in VA /\ ptsize \in VA
  /\ zero[1] \in PDX /\ one[1] = zero[1] /\ zero[2] \in PTX /\ one[2] \in PTX
  /\ zero[2] # one[2] /\ ptsize[1] # zero[1] /\ ptsize[1] \in PDX
  BY AddressAssumption, AddressParts

(* What the table translates.                                              *)
LEMMA Translations ==
  ASSUME NEW e0, NEW e1, TableIs(e0, e1)
  PROVE  /\ pgdir[zero[1]] = pg0 /\ pgdir[one[1]] = pg0 /\ pg0 # NULL
         /\ check_va2pa(zero) = e0 /\ check_va2pa(one) = e1
         /\ page_lookup(zero) = e0.ppn /\ page_lookup(one) = e1.ppn
         /\ \A va \in VA : va # zero /\ va # one => check_va2pa(va) = Zero
<1>1. pgdir[zero[1]] = pg0 /\ pgdir[one[1]] = pg0 /\ pg0 # NULL /\ pg0 \in Page
  BY TwoAddresses, ThreePages DEF TableIs, OneTable
<1>2. mem[pg0][zero[2]] = e0 /\ mem[pg0][one[2]] = e1
  BY TwoAddresses DEF TableIs
<1>3. ASSUME NEW va \in VA, va # zero, va # one PROVE check_va2pa(va) = Zero
  <2>1. va[1] \in PDX /\ va[2] \in PTX
    BY AddressParts
  <2>2. CASE va[1] = zero[1]
    <3>1. va[2] # zero[2] /\ va[2] # one[2]
      BY <1>3, <2>2, TwoAddresses, AddressParts
    <3> QED
      BY <1>1, <2>1, <2>2, <3>1 DEF TableIs, check_va2pa
  <2>3. CASE va[1] # zero[1]
    BY <2>1, <2>3 DEF TableIs, OneTable, check_va2pa
  <2> QED
    BY <2>2, <2>3
<1> QED
  BY <1>1, <1>2, <1>3 DEF check_va2pa, page_lookup

(* Storing an entry for one of the two addresses.                          *)
LEMMA Stores ==
  ASSUME NEW e0, NEW e1, NEW w, TableIs(e0, e1), mem \in [Page -> [PTX -> Word]],
         UNCHANGED pgdir
  PROVE  /\ set_pte(zero, w) => TableIs(w, e1)'
         /\ set_pte(one, w) => TableIs(e0, w)'
<1> USE TwoAddresses, ThreePages
<1>1. pgdir[zero[1]] = pg0 /\ pgdir[one[1]] = pg0 /\ pg0 \in Page /\ OneTable'
  BY DEF TableIs, OneTable
<1>2. ASSUME set_pte(zero, w) PROVE TableIs(w, e1)'
  BY <1>1, <1>2 DEF TableIs, set_pte
<1>3. ASSUME set_pte(one, w) PROVE TableIs(e0, w)'
  BY <1>1, <1>3 DEF TableIs, set_pte
<1> QED
  BY <1>2, <1>3

(* A word page_check stores is a word and carries PTE_P.                   *)
LEMMA EntryWord ==
  ASSUME NEW p \in Page
  PROVE  Entry(p) \in Word /\ Entry(p) # Zero /\ Entry(p).ppn = p
  BY AddressAssumption, ZeroWord DEF Entry, Word

-----------------------------------------------------------------------------
(* What the calls of page_check do to the list, the counts and the table.  *)

(* page_alloc of an empty list fails and changes nothing.                  *)
LEMMA AllocEmpty ==
  ASSUME Side(NULL), page_alloc
  PROVE  UNCHANGED vars
  BY DEF Side, page_alloc, take_first_page, LIST_EMPTY, vars, listVars

(* page_alloc of the one page on the list.                                 *)
LEMMA AllocOne ==
  ASSUME NEW p \in {pg0, pg1, pg2}, Side(p), page_alloc,
         NEW r0, NEW r1, NEW r2, Counts(r0, r1, r2),
         p = pg0 => r0 = 0, p = pg1 => r1 = 0, p = pg2 => r2 = 0
  PROVE  /\ Side(NULL)' /\ Counts(r0, r1, r2)' /\ held' = held \cup {p}
         /\ UNCHANGED <<pgdir, mem, tlb, stray, pc, op>>
<1>1. lh_first = p /\ p # NULL
  BY ThreePages DEF Side
<1>2. take_first_page(0) /\ held' = held \cup {p} /\ UNCHANGED <<pgdir, mem, tlb, stray, pc, op>>
  BY <1>1 DEF page_alloc, LIST_EMPTY
<1>3. Side(NULL)'
  BY <1>2, SideRemove DEF take_first_page
<1>4. Counts(r0, r1, r2)'
  <2>1. pp_ref' = [pp_ref EXCEPT ![p] = 0]
    BY <1>1, <1>2 DEF take_first_page
  <2> QED
    BY <2>1, CountsSet
<1> QED
  BY <1>2, <1>3, <1>4

(* page_insert and page_remove of an address that has a table start.       *)
LEMMA InsertStarts ==
  ASSUME OneTable, NEW va \in {zero, one}, NEW p, page_insert(va, p, perm0)
  PROVE  /\ pc' = "count" /\ InsertOf(va, p)'
         /\ UNCHANGED <<lh_first, le_next, le_prev, pp_ref, pgdir, mem, tlb, stray, held>>
<1>1. pgdir[va[1]] # NULL
  BY TwoAddresses, ThreePages DEF OneTable
<1> QED
  BY <1>1 DEF page_insert, InsertOf, Entry, listVars

LEMMA RemoveStarts ==
  ASSUME NEW va \in {zero, one}, NEW e0 \in Word, NEW e1 \in Word, TableIs(e0, e1),
         page_remove(va)
  PROVE  /\ pc' = "decref" /\ RemoveOf(va)'
         /\ UNCHANGED <<lh_first, le_next, le_prev, pp_ref, pgdir, mem, tlb, stray, held>>
<1>1. page_lookup(va) # NULL
  BY Translations, PointerAssumption DEF Word
<1> QED
  BY <1>1 DEF page_remove, RemoveOf, listVars

(* The steps of a call.                                                    *)
LEMMA CallMemset ==
  ASSUME walk_memset, InsertOf(zero, pg1), OneTable, mem \in [Page -> [PTX -> Word]]
  PROVE  /\ pc' = "count" /\ TableIs(Zero, Zero)' /\ InsertOf(zero, pg1)'
         /\ UNCHANGED <<lh_first, le_next, le_prev, pp_ref, pgdir, tlb, stray, held>>
<1>1. op.va = zero /\ pgdir[zero[1]] = pg0 /\ pg0 \in Page
  BY TwoAddresses, ThreePages DEF InsertOf, OneTable
<1>2. mem'[pg0] = [x \in PTX |-> Zero]
  BY <1>1 DEF walk_memset
<1> QED
  BY <1>2 DEF walk_memset, TableIs, OneTable, InsertOf, listVars

LEMMA CallCount ==
  ASSUME insert_count, NEW va \in {zero, one}, NEW p \in {pg1, pg2}, InsertOf(va, p),
         NEW e0, NEW e1, TableIs(e0, e1),
         NEW r0, NEW r1 \in 0 .. 1, NEW r2 \in 0 .. 1, Counts(r0, r1, r2)
  PROVE  /\ TableIs(e0, e1)' /\ InsertOf(va, p)' /\ held' = held \ {p}
         /\ Counts(r0, IF p = pg1 THEN r1 + 1 ELSE r1, IF p = pg2 THEN r2 + 1 ELSE r2)'
         /\ pc' = IF (IF va = zero THEN e0 ELSE e1) # Zero THEN "decref" ELSE "write"
         /\ UNCHANGED <<lh_first, le_next, le_prev, pgdir, mem, tlb, stray>>
<1>1. op.va = va /\ op.new.ppn = p /\ p \in Page
  BY ThreePages DEF InsertOf, Entry
<1>2. /\ pp_ref' = [pp_ref EXCEPT ![p] = (pp_ref[p] + 1) % RefMod]
      /\ held' = held \ {p}
      /\ pc' = IF check_va2pa(va) # Zero THEN "decref" ELSE "write"
      /\ UNCHANGED <<lh_first, le_next, le_prev, pgdir, mem, tlb, stray, op>>
  BY <1>1 DEF insert_count, listVars
<1>3. check_va2pa(va) = IF va = zero THEN e0 ELSE e1
  BY Translations, TwoAddresses
<1>4. pp_ref[p] = IF p = pg1 THEN r1 ELSE r2
  BY CountsSet, ThreePages
<1>5. (pp_ref[p] + 1) % RefMod = pp_ref[p] + 1
  BY <1>4, SizeAssumption
<1>6. Counts(r0, IF p = pg1 THEN r1 + 1 ELSE r1, IF p = pg2 THEN r2 + 1 ELSE r2)'
  <2>1. CASE p = pg1
    <3>1. pp_ref' = [pp_ref EXCEPT ![pg1] = r1 + 1]
      BY <1>2, <1>4, <1>5, <2>1
    <3>2. Counts(r0, r1 + 1, r2)'
      BY <3>1, CountsSet
    <3> QED
      BY <2>1, <3>2, ThreePages
  <2>2. CASE p = pg2
    <3>1. pp_ref' = [pp_ref EXCEPT ![pg2] = r2 + 1]
      BY <1>2, <1>4, <1>5, <2>2, ThreePages
    <3>2. Counts(r0, r1, r2 + 1)'
      BY <3>1, CountsSet
    <3> QED
      BY <2>2, <3>2, ThreePages
  <2> QED
    BY <2>1, <2>2
<1> QED
  BY <1>2, <1>3, <1>6 DEF TableIs, OneTable, InsertOf

LEMMA CallDecref ==
  ASSUME remove_decref, NEW va \in {zero, one}, NEW p \in {pg1, pg2}, op.va = va,
         NEW e0, NEW e1, TableIs(e0, e1), (IF va = zero THEN e0 ELSE e1).ppn = p,
         NEW r0, NEW r1 \in 0 .. 2, NEW r2 \in 0 .. 2, Counts(r0, r1, r2),
         p = pg1 => r1 # 0, p = pg2 => r2 # 0, Side(NULL)
  PROVE  /\ pc' = "clear" /\ TableIs(e0, e1)'
         /\ Counts(r0, IF p = pg1 THEN r1 - 1 ELSE r1, IF p = pg2 THEN r2 - 1 ELSE r2)'
         /\ Side(IF (IF p = pg1 THEN r1 ELSE r2) = 1 THEN p ELSE NULL)'
         /\ UNCHANGED <<pgdir, mem, tlb, stray, held, op>>
<1> DEFINE r == IF p = pg1 THEN r1 ELSE r2
<1>1. page_lookup(va) = p /\ p \in Page
  BY Translations, TwoAddresses, ThreePages
<1>2. page_decref(p) /\ pc' = "clear" /\ UNCHANGED <<pgdir, mem, tlb, stray, held, op>>
  BY <1>1 DEF remove_decref
<1>3. pp_ref[p] = r /\ r \in 1 .. 2
  <2>1. pp_ref[pg1] = r1 /\ pp_ref[pg2] = r2
    BY CountsSet
  <2>2. CASE p = pg1
    BY <2>1, <2>2
  <2>3. CASE p = pg2 /\ p # pg1
    BY <2>1, <2>3
  <2> QED
    BY <2>2, <2>3, ThreePages
<1>4. (pp_ref[p] - 1) % RefMod = r - 1
  BY <1>3, SizeAssumption
<1>5. pp_ref' = [pp_ref EXCEPT ![p] = r - 1]
  BY <1>2, <1>4 DEF page_decref
<1>6. Counts(r0, IF p = pg1 THEN r1 - 1 ELSE r1, IF p = pg2 THEN r2 - 1 ELSE r2)'
  <2>1. CASE p = pg1
    <3>1. Counts(r0, r1 - 1, r2)'
      BY <1>5, <2>1, CountsSet
    <3> QED
      BY <2>1, <3>1, ThreePages
  <2>2. CASE p = pg2
    <3>1. pp_ref' = [pp_ref EXCEPT ![pg2] = r2 - 1]
      BY <1>5, <2>2, ThreePages
    <3>2. Counts(r0, r1, r2 - 1)'
      BY <3>1, CountsSet
    <3> QED
      BY <2>2, <3>2, ThreePages
  <2> QED
    BY <2>1, <2>2
<1>7. Side(IF r = 1 THEN p ELSE NULL)'
  <2>1. CASE r = 1
    <3>1. LIST_INSERT_HEAD(p)
      BY <1>2, <1>4, <2>1 DEF page_decref
    <3> QED
      BY <2>1, <3>1, SideInsert
  <2>2. CASE r # 1
    <3>1. UNCHANGED listVars
      BY <1>2, <1>3, <1>4, <2>2 DEF page_decref
    <3> QED
      BY <2>2, <3>1 DEF listVars, Side
  <2> QED
    BY <2>1, <2>2
<1> QED
  BY <1>2, <1>6, <1>7 DEF TableIs, OneTable

LEMMA CallClear ==
  ASSUME remove_clear, NEW va \in {zero, one}, op.va = va,
         NEW e0, NEW e1, TableIs(e0, e1), mem \in [Page -> [PTX -> Word]]
  PROVE  /\ pc' = "invlpg"
         /\ TableIs(IF va = zero THEN Zero ELSE e0, IF va = zero THEN e1 ELSE Zero)'
         /\ UNCHANGED <<lh_first, le_next, le_prev, pp_ref, pgdir, tlb, stray, held, op>>
  BY Stores, TwoAddresses DEF remove_clear, listVars

LEMMA CallInvalidate ==
  ASSUME tlb_invalidate
  PROVE  /\ op.new # Zero => pc' = "write" /\ op' = op
         /\ op.new = Zero => pc' = "idle"
         /\ UNCHANGED <<lh_first, le_next, le_prev, pp_ref, pgdir, mem, held>>
  BY DEF tlb_invalidate, Inserting, listVars

LEMMA CallWrite ==
  ASSUME insert_write, NEW va \in {zero, one}, NEW p, InsertOf(va, p),
         NEW e0, NEW e1, TableIs(e0, e1), mem \in [Page -> [PTX -> Word]]
  PROVE  /\ pc' = "idle"
         /\ TableIs(IF va = zero THEN Entry(p) ELSE e0, IF va = zero THEN e1 ELSE Entry(p))'
         /\ UNCHANGED <<lh_first, le_next, le_prev, pp_ref, pgdir, tlb, stray, held>>
<1>1. set_pte(va, Entry(p)) /\ pgdir' = pgdir
  BY DEF insert_write, InsertOf
<1>2. TableIs(IF va = zero THEN Entry(p) ELSE e0, IF va = zero THEN e1 ELSE Entry(p))'
  BY <1>1, Stores, TwoAddresses
<1> QED
  BY <1>2 DEF insert_write, listVars

-----------------------------------------------------------------------------
(* One step of page_check or of the call it makes.                         *)
SysStep == ScriptStep \/ (KernelStep /\ UNCHANGED <<step, locals>>)

(* A call in progress takes the step its pc names.                         *)
LEMMA CallStep ==
  ASSUME SysStep, pc # "idle"
  PROVE  /\ UNCHANGED <<step, pp0, pp1, pp2, fl>>
         /\ pc = "memset" => walk_memset
         /\ pc = "count"  => insert_count
         /\ pc = "decref" => remove_decref
         /\ pc = "clear"  => remove_clear
         /\ pc = "invlpg" => tlb_invalidate
         /\ pc = "write"  => insert_write
<1>1. ~ ScriptStep
  BY DEF ScriptStep, alloc_three, steal_free_list, call_page_functions, take_table_back,
         page_alloc, At, page_insert, page_remove, page_free
<1>2. KernelStep /\ UNCHANGED <<step, pp0, pp1, pp2, fl>>
  BY <1>1 DEF SysStep, locals
<1> QED
  BY <1>2 DEF KernelStep, walk_memset, insert_count, remove_decref, remove_clear,
              tlb_invalidate, insert_write

(* Between calls the statement `step' names is executed.                   *)
LEMMA Statement ==
  ASSUME SysStep, pc = "idle"
  PROVE  /\ step' = step + 1
         /\ step \in 1 .. 3 => alloc_three
         /\ step = 4 => steal_free_list
         /\ step \in 5 .. 23 => UNCHANGED <<pp0, pp1, pp2, fl>>
         /\ step \in {5, 10, 12, 15, 18, 19} => page_alloc
         /\ step \in {6, 8}  => page_insert(zero, pp1, perm0)
         /\ step \in {9, 11} => page_insert(one, pp2, perm0)
         /\ step = 13 => page_insert(ptsize, pp0, perm0)
         /\ step = 14 => page_insert(one, pp1, perm0)
         /\ step = 16 => page_remove(zero)
         /\ step = 17 => page_remove(one)
         /\ step \in {7, 21} => page_free(pp0)
         /\ step = 22 => page_free(pp1)
         /\ step = 23 => page_free(pp2)
         /\ step = 20 => take_table_back
         /\ step \in 1 .. 23
<1>1. ScriptStep
  BY DEF SysStep, KernelStep, walk_memset, insert_count, remove_decref, remove_clear,
         tlb_invalidate, insert_write
<1>2. CASE alloc_three
  BY <1>2 DEF alloc_three, At
<1>3. CASE steal_free_list
  BY <1>3 DEF steal_free_list, At
<1>4. CASE take_table_back
  BY <1>4 DEF take_table_back, At, locals
<1>5. CASE call_page_functions
  BY <1>5 DEF call_page_functions, At, locals
<1> QED
  BY <1>1, <1>2, <1>3, <1>4, <1>5 DEF ScriptStep

(* The locals of page_check stay as they are.                              *)
LEMMA FixedFrame ==
  ASSUME Fixed, UNCHANGED <<pp0, pp1, pp2, fl>>
  PROVE  Fixed'
  BY DEF Fixed

(* What a step leaves alone stays as it is.                                *)
LEMMA RowFrame ==
  /\ UNCHANGED <<lh_first, le_next, le_prev>> => \A s : Side(s) => Side(s)'
  /\ UNCHANGED pp_ref => \A r0, r1, r2 : Counts(r0, r1, r2) => Counts(r0, r1, r2)'
  /\ UNCHANGED <<pgdir, mem>> => \A e0, e1 : TableIs(e0, e1) => TableIs(e0, e1)'
  /\ UNCHANGED pgdir => (NoTable => NoTable') /\ (OneTable => OneTable')
  BY DEF Side, Counts, TableIs, OneTable, NoTable

(* Statements 5 and 6 fail for want of memory; 7 frees the first page.     *)
LEMMA Step5 ==
  ASSUME Fixed, Middle5, SysStep
  PROVE  Fixed' /\ (Middle5 \/ Middle8)'
<1>1. step' = step + 1 /\ step \in 5 .. 7 /\ UNCHANGED <<pp0, pp1, pp2, fl>> /\ pc = "idle"
  BY Statement DEF Middle5
<1>2. Fixed'
  BY <1>1, FixedFrame
<1>3. CASE step = 5
  <2>1. UNCHANGED vars
    BY <1>3, Statement, AllocEmpty DEF Middle5
  <2> QED
    BY <1>1, <1>2, <1>3, <2>1, RowFrame DEF Middle5, vars
<1>4. CASE step = 6
  <2>1. page_insert(zero, pg1, perm0)
    BY <1>1, <1>4, Statement DEF Fixed
  <2>2. lh_first = NULL /\ pgdir[zero[1]] = NULL
    BY TwoAddresses DEF Middle5, Side, NoTable
  <2>3. UNCHANGED <<lh_first, le_next, le_prev, pp_ref, pgdir, held, pc>>
    BY <2>1, <2>2 DEF page_insert, take_first_page, LIST_EMPTY, listVars
  <2> QED
    BY <1>1, <1>2, <1>4, <2>3, RowFrame DEF Middle5
<1>5. CASE step = 7
  <2>1. page_free(pg0)
    BY <1>1, <1>5, Statement DEF Fixed
  <2>2. Side(pg0)'
    BY <2>1, SideInsert DEF page_free, Middle5
  <2>3. held' = {pg1, pg2}
    BY <2>1, ThreePages DEF page_free, Middle5
  <2> QED
    BY <1>1, <1>2, <1>5, <2>1, <2>2, <2>3, RowFrame DEF Middle5, Middle8, page_free
<1> QED
  BY <1>1, <1>3, <1>4, <1>5

(* Statement 8 takes the freed page for the page table.                    *)
LEMMA Step8 ==
  ASSUME Fixed, Middle8, SysStep
  PROVE  Fixed' /\ Middle9'
<1>1. step' = 9 /\ UNCHANGED <<pp0, pp1, pp2, fl>> /\ page_insert(zero, pp1, perm0)
  BY Statement DEF Middle8
<1>2. Fixed'
  BY <1>1, FixedFrame
<1>3. lh_first = pg0 /\ pg0 # NULL /\ pgdir[zero[1]] = NULL /\ pp1 = pg1
  BY TwoAddresses, ThreePages DEF Middle8, Side, NoTable, Fixed
<1>4. /\ take_first_page(1) /\ pgdir' = [pgdir EXCEPT ![zero[1]] = pg0] /\ pc' = "memset"
      /\ op' = [va |-> zero, new |-> Entry(pg1)] /\ held' = held
  BY <1>1, <1>3 DEF page_insert, LIST_EMPTY, Entry
<1>5. Side(NULL)'
  BY <1>4, SideRemove DEF take_first_page, Middle8
<1>6. Counts(1, 0, 0)'
  BY <1>3, <1>4, CountsSet DEF take_first_page, Middle8
<1>7. OneTable'
  BY <1>4, TwoAddresses DEF OneTable, NoTable, Middle8
<1> QED
  BY <1>1, <1>2, <1>4, <1>5, <1>6, <1>7 DEF Middle8, Middle9, InsertOf

(* Statement 8's page_insert, and the start of statement 9.                *)
LEMMA Step9 ==
  ASSUME Fixed, Middle9, SysStep, mem \in [Page -> [PTX -> Word]]
  PROVE  Fixed' /\ (Middle9 \/ Middle10)'
<1>1. Fixed'
  BY CallStep, Statement, FixedFrame DEF Middle9
<1>2. CASE pc = "memset"
  <2>1. walk_memset /\ step' = step
    BY <1>2, CallStep
  <2> QED
    BY <1>1, <1>2, <2>1, CallMemset, RowFrame DEF Middle9
<1>3. CASE pc = "count"
  <2>1. insert_count /\ step' = step
    BY <1>3, CallStep
  <2>2. /\ TableIs(Zero, Zero)' /\ InsertOf(zero, pg1)' /\ held' = held \ {pg1}
        /\ Counts(1, 1, 0)' /\ pc' = "write" /\ UNCHANGED <<lh_first, le_next, le_prev>>
    BY <1>3, <2>1, CallCount, ThreePages DEF Middle9
  <2>3. held' = {pg2}
    BY <1>3, <2>2, ThreePages DEF Middle9
  <2> QED
    BY <1>1, <1>3, <2>1, <2>2, <2>3, RowFrame DEF Middle9
<1>4. CASE pc = "write"
  <2>1. insert_write /\ step' = step
    BY <1>4, CallStep
  <2>2. TableIs(Entry(pg1), Zero)' /\ pc' = "idle"
        /\ UNCHANGED <<lh_first, le_next, le_prev, pp_ref, held>>
    BY <1>4, <2>1, CallWrite DEF Middle9
  <2> QED
    BY <1>1, <1>4, <2>1, <2>2, RowFrame DEF Middle9
<1>5. CASE pc = "idle"
  <2>1. step' = 10 /\ page_insert(one, pg2, perm0)
    BY <1>5, Statement DEF Middle9, Fixed
  <2>2. /\ pc' = "count" /\ InsertOf(one, pg2)'
        /\ UNCHANGED <<lh_first, le_next, le_prev, pp_ref, pgdir, mem, tlb, stray, held>>
    BY <1>5, <2>1, InsertStarts DEF Middle9, TableIs
  <2> QED
    BY <1>1, <1>5, <2>1, <2>2, RowFrame DEF Middle9, Middle10
<1> QED
  BY <1>2, <1>3, <1>4, <1>5 DEF Middle9

(* Statement 9's page_insert, 10, and the start of statement 11.           *)
LEMMA Step10 ==
  ASSUME Fixed, Middle10, SysStep, mem \in [Page -> [PTX -> Word]]
  PROVE  Fixed' /\ (Middle10 \/ Middle12)'
<1>1. Fixed'
  BY CallStep, Statement, FixedFrame DEF Middle10
<1>2. CASE pc = "count"
  <2>1. insert_count /\ step' = step
    BY <1>2, CallStep
  <2>2. /\ TableIs(Entry(pg1), Zero)' /\ InsertOf(one, pg2)' /\ held' = held \ {pg2}
        /\ Counts(1, 1, 1)' /\ pc' = "write" /\ UNCHANGED <<lh_first, le_next, le_prev>>
    BY <1>2, <2>1, CallCount, ThreePages, TwoAddresses DEF Middle10
  <2>3. held' = {}
    BY <1>2, <2>2 DEF Middle10
  <2> QED
    BY <1>1, <1>2, <2>1, <2>2, <2>3, RowFrame DEF Middle10
<1>3. CASE pc = "write"
  <2>1. insert_write /\ step' = step
    BY <1>3, CallStep
  <2>2. TableIs(Entry(pg1), Entry(pg2))' /\ pc' = "idle"
        /\ UNCHANGED <<lh_first, le_next, le_prev, pp_ref, held>>
    BY <1>3, <2>1, CallWrite, TwoAddresses DEF Middle10
  <2> QED
    BY <1>1, <1>3, <2>1, <2>2, RowFrame DEF Middle10
<1>4. CASE pc = "idle" /\ step = 10
  <2>1. step' = 11 /\ UNCHANGED vars
    BY <1>4, Statement, AllocEmpty DEF Middle10
  <2> QED
    BY <1>1, <1>4, <2>1, RowFrame DEF Middle10, vars
<1>5. CASE pc = "idle" /\ step = 11
  <2>1. step' = 12 /\ page_insert(one, pg2, perm0)
    BY <1>5, Statement DEF Fixed
  <2>2. /\ pc' = "count" /\ InsertOf(one, pg2)'
        /\ UNCHANGED <<lh_first, le_next, le_prev, pp_ref, pgdir, mem, tlb, stray, held>>
    BY <1>5, <2>1, InsertStarts DEF Middle10, TableIs
  <2> QED
    BY <1>1, <1>5, <2>1, <2>2, RowFrame DEF Middle10, Middle12
<1> QED
  BY <1>2, <1>3, <1>4, <1>5 DEF Middle10

(* Statement 11 maps a page again where it is; 12 and 13 fail.             *)
LEMMA Step12 ==
  ASSUME Fixed, Middle12, SysStep, mem \in [Page -> [PTX -> Word]]
  PROVE  Fixed' /\ (Middle12 \/ Middle15)'
<1>1. Fixed'
  BY CallStep, Statement, FixedFrame DEF Middle12
<1>0. Entry(pg2) # Zero /\ Entry(pg2).ppn = pg2
  BY EntryWord, ThreePages
<1>2. CASE pc = "count"
  <2>1. insert_count /\ step' = step
    BY <1>2, CallStep
  <2>2. /\ TableIs(Entry(pg1), Entry(pg2))' /\ InsertOf(one, pg2)' /\ held' = held \ {pg2}
        /\ Counts(1, 1, 2)' /\ pc' = "decref" /\ UNCHANGED <<lh_first, le_next, le_prev>>
    BY <1>0, <1>2, <2>1, CallCount, ThreePages, TwoAddresses DEF Middle12
  <2>3. held' = {}
    BY <1>2, <2>2 DEF Middle12
  <2> QED
    BY <1>1, <1>2, <2>1, <2>2, <2>3, RowFrame DEF Middle12
<1>3. CASE pc = "decref"
  <2>1. remove_decref /\ step' = step
    BY <1>3, CallStep
  <2>2. op.va = one /\ InsertOf(one, pg2)
    BY <1>3 DEF Middle12, InsertOf
  <2>3. /\ pc' = "clear" /\ TableIs(Entry(pg1), Entry(pg2))' /\ Counts(1, 1, 1)'
        /\ Side(NULL)' /\ held' = held /\ op' = op
    BY <1>0, <1>3, <2>1, <2>2, CallDecref, ThreePages, TwoAddresses DEF Middle12
  <2> QED
    BY <1>1, <1>3, <2>1, <2>2, <2>3 DEF Middle12, InsertOf
<1>4. CASE pc = "clear"
  <2>1. remove_clear /\ step' = step
    BY <1>4, CallStep
  <2>2. op.va = one /\ InsertOf(one, pg2)
    BY <1>4 DEF Middle12, InsertOf
  <2>3. /\ pc' = "invlpg" /\ TableIs(Entry(pg1), Zero)'
        /\ UNCHANGED <<lh_first, le_next, le_prev, pp_ref, held, op>>
    BY <1>4, <2>1, <2>2, CallClear, TwoAddresses DEF Middle12
  <2> QED
    BY <1>1, <1>4, <2>1, <2>2, <2>3, RowFrame DEF Middle12, InsertOf
<1>5. CASE pc = "invlpg"
  <2>1. tlb_invalidate /\ step' = step
    BY <1>5, CallStep
  <2>2. op.new # Zero /\ InsertOf(one, pg2)
    BY <1>0, <1>5 DEF Middle12, InsertOf
  <2> QED
    BY <1>1, <1>5, <2>1, <2>2, CallInvalidate, RowFrame DEF Middle12, InsertOf
<1>6. CASE pc = "write"
  <2>1. insert_write /\ step' = step
    BY <1>6, CallStep
  <2>2. TableIs(Entry(pg1), Entry(pg2))' /\ pc' = "idle"
        /\ UNCHANGED <<lh_first, le_next, le_prev, pp_ref, held>>
    BY <1>6, <2>1, CallWrite, TwoAddresses DEF Middle12
  <2> QED
    BY <1>1, <1>6, <2>1, <2>2, RowFrame DEF Middle12
<1>7. CASE pc = "idle" /\ step = 12
  <2>1. step' = 13 /\ UNCHANGED vars
    BY <1>7, Statement, AllocEmpty DEF Middle12
  <2> QED
    BY <1>1, <1>7, <2>1, RowFrame DEF Middle12, vars
<1>8. CASE pc = "idle" /\ step = 13
  <2>1. step' = 14 /\ page_insert(ptsize, pg0, perm0)
    BY <1>8, Statement DEF Fixed
  <2>2. lh_first = NULL /\ pgdir[ptsize[1]] = NULL
    BY <1>8, TwoAddresses DEF Middle12, Side, TableIs, OneTable
  <2>3. UNCHANGED <<lh_first, le_next, le_prev, pp_ref, pgdir, mem, held, pc>>
    BY <2>1, <2>2 DEF page_insert, take_first_page, LIST_EMPTY, listVars
  <2> QED
    BY <1>1, <1>8, <2>1, <2>3, RowFrame DEF Middle12
<1>9. CASE pc = "idle" /\ step = 14
  <2>1. step' = 15 /\ page_insert(one, pg1, perm0)
    BY <1>9, Statement DEF Fixed
  <2>2. /\ pc' = "count" /\ InsertOf(one, pg1)'
        /\ UNCHANGED <<lh_first, le_next, le_prev, pp_ref, pgdir, mem, tlb, stray, held>>
    BY <1>9, <2>1, InsertStarts DEF Middle12, TableIs
  <2> QED
    BY <1>1, <1>9, <2>1, <2>2, RowFrame DEF Middle12, Middle15
<1>10. pc = "idle" => step = 12 \/ step = 13 \/ step = 14
  BY DEF Middle12
<1> QED
  BY <1>2, <1>3, <1>4, <1>5, <1>6, <1>7, <1>8, <1>9, <1>10 DEF Middle12

(* Statement 14 replaces a mapping, which frees pp2; 15 takes it.          *)
LEMMA Step15 ==
  ASSUME Fixed, Middle15, SysStep, mem \in [Page -> [PTX -> Word]]
  PROVE  Fixed' /\ (Middle15 \/ Middle16)'
<1>1. Fixed'
  BY CallStep, Statement, FixedFrame DEF Middle15
<1>0. /\ Entry(pg2) # Zero /\ Entry(pg2).ppn = pg2 /\ Entry(pg1) # Zero
  BY EntryWord, ThreePages
<1>2. CASE pc = "count"
  <2>1. insert_count /\ step' = step
    BY <1>2, CallStep
  <2>2. /\ TableIs(Entry(pg1), Entry(pg2))' /\ InsertOf(one, pg1)' /\ held' = held \ {pg1}
        /\ Counts(1, 2, 1)' /\ pc' = "decref" /\ UNCHANGED <<lh_first, le_next, le_prev>>
    BY <1>0, <1>2, <2>1, CallCount, ThreePages, TwoAddresses DEF Middle15
  <2>3. held' = {}
    BY <1>2, <2>2 DEF Middle15
  <2> QED
    BY <1>1, <1>2, <2>1, <2>2, <2>3, RowFrame DEF Middle15
<1>3. CASE pc = "decref"
  <2>1. remove_decref /\ step' = step
    BY <1>3, CallStep
  <2>2. op.va = one /\ InsertOf(one, pg1)
    BY <1>3 DEF Middle15, InsertOf
  <2>3. /\ pc' = "clear" /\ TableIs(Entry(pg1), Entry(pg2))' /\ Counts(1, 2, 0)'
        /\ Side(pg2)' /\ held' = held /\ op' = op
    BY <1>0, <1>3, <2>1, <2>2, CallDecref, ThreePages, TwoAddresses DEF Middle15
  <2> QED
    BY <1>1, <1>3, <2>1, <2>2, <2>3 DEF Middle15, InsertOf
<1>4. CASE pc = "clear"
  <2>1. remove_clear /\ step' = step
    BY <1>4, CallStep
  <2>2. op.va = one /\ InsertOf(one, pg1)
    BY <1>4 DEF Middle15, InsertOf
  <2>3. /\ pc' = "invlpg" /\ TableIs(Entry(pg1), Zero)'
        /\ UNCHANGED <<lh_first, le_next, le_prev, pp_ref, held, op>>
    BY <1>4, <2>1, <2>2, CallClear, TwoAddresses DEF Middle15
  <2> QED
    BY <1>1, <1>4, <2>1, <2>2, <2>3, RowFrame DEF Middle15, InsertOf
<1>5. CASE pc = "invlpg"
  <2>1. tlb_invalidate /\ step' = step
    BY <1>5, CallStep
  <2>2. op.new # Zero /\ InsertOf(one, pg1)
    BY <1>0, <1>5 DEF Middle15, InsertOf
  <2> QED
    BY <1>1, <1>5, <2>1, <2>2, CallInvalidate, RowFrame DEF Middle15, InsertOf
<1>6. CASE pc = "write"
  <2>1. insert_write /\ step' = step
    BY <1>6, CallStep
  <2>2. TableIs(Entry(pg1), Entry(pg1))' /\ pc' = "idle"
        /\ UNCHANGED <<lh_first, le_next, le_prev, pp_ref, held>>
    BY <1>6, <2>1, CallWrite, TwoAddresses DEF Middle15
  <2> QED
    BY <1>1, <1>6, <2>1, <2>2, RowFrame DEF Middle15
<1>7. CASE pc = "idle"
  <2>1. step' = 16 /\ page_alloc
    BY <1>7, Statement DEF Middle15
  <2>2. Side(NULL)' /\ Counts(1, 2, 0)' /\ held' = held \cup {pg2} /\ UNCHANGED <<pgdir, mem, pc>>
    BY <1>7, <2>1, AllocOne, ThreePages DEF Middle15
  <2>3. held' = {pg2}
    BY <2>2 DEF Middle15
  <2> QED
    BY <1>1, <1>7, <2>1, <2>2, <2>3, RowFrame DEF Middle15, Middle16
<1> QED
  BY <1>2, <1>3, <1>4, <1>5, <1>6, <1>7 DEF Middle15

(* The start of statement 16.                                              *)
LEMMA Step16 ==
  ASSUME Fixed, Middle16, SysStep
  PROVE  Fixed' /\ Middle17'
<1>1. step' = 17 /\ UNCHANGED <<pp0, pp1, pp2, fl>> /\ page_remove(zero)
  BY Statement DEF Middle16
<1>2. Entry(pg1) \in Word
  BY EntryWord, ThreePages
<1>3. /\ pc' = "decref" /\ RemoveOf(zero)'
      /\ UNCHANGED <<lh_first, le_next, le_prev, pp_ref, pgdir, mem, tlb, stray, held>>
  BY <1>1, <1>2, RemoveStarts DEF Middle16
<1> QED
  BY <1>1, <1>3, FixedFrame, RowFrame DEF Middle16, Middle17

(* Statement 16's page_remove, and the start of statement 17.              *)
LEMMA Step17 ==
  ASSUME Fixed, Middle17, SysStep, mem \in [Page -> [PTX -> Word]]
  PROVE  Fixed' /\ (Middle17 \/ Middle18)'
<1>1. Fixed'
  BY CallStep, Statement, FixedFrame DEF Middle17
<1>0. Entry(pg1) \in Word /\ Entry(pg1).ppn = pg1
  BY EntryWord, ThreePages
<1>2. CASE pc = "decref"
  <2>1. remove_decref /\ step' = step
    BY <1>2, CallStep
  <2>2. op.va = zero /\ RemoveOf(zero)
    BY <1>2 DEF Middle17, RemoveOf
  <2>3. /\ pc' = "clear" /\ TableIs(Entry(pg1), Entry(pg1))' /\ Counts(1, 1, 0)'
        /\ Side(NULL)' /\ held' = held /\ op' = op
    BY <1>0, <1>2, <2>1, <2>2, CallDecref, ThreePages, TwoAddresses DEF Middle17
  <2> QED
    BY <1>1, <1>2, <2>1, <2>2, <2>3 DEF Middle17, RemoveOf
<1>3. CASE pc = "clear"
  <2>1. remove_clear /\ step' = step
    BY <1>3, CallStep
  <2>2. op.va = zero /\ RemoveOf(zero)
    BY <1>3 DEF Middle17, RemoveOf
  <2>3. /\ pc' = "invlpg" /\ TableIs(Zero, Entry(pg1))'
        /\ UNCHANGED <<lh_first, le_next, le_prev, pp_ref, held, op>>
    BY <1>3, <2>1, <2>2, CallClear DEF Middle17
  <2> QED
    BY <1>1, <1>3, <2>1, <2>2, <2>3, RowFrame DEF Middle17, RemoveOf
<1>4. CASE pc = "invlpg"
  <2>1. tlb_invalidate /\ step' = step
    BY <1>4, CallStep
  <2>2. op.new = Zero
    BY <1>4 DEF Middle17, RemoveOf
  <2> QED
    BY <1>1, <1>4, <2>1, <2>2, CallInvalidate, RowFrame DEF Middle17
<1>5. CASE pc = "idle"
  <2>1. step' = 18 /\ page_remove(one)
    BY <1>5, Statement DEF Middle17
  <2>2. /\ pc' = "decref" /\ RemoveOf(one)'
        /\ UNCHANGED <<lh_first, le_next, le_prev, pp_ref, pgdir, mem, tlb, stray, held>>
    BY <1>0, <1>5, <2>1, RemoveStarts, ZeroWord DEF Middle17
  <2> QED
    BY <1>1, <1>5, <2>1, <2>2, RowFrame DEF Middle17, Middle18
<1> QED
  BY <1>2, <1>3, <1>4, <1>5 DEF Middle17

(* Statement 17's page_remove, which frees pp1; 18 takes it.               *)
LEMMA Step18 ==
  ASSUME Fixed, Middle18, SysStep, mem \in [Page -> [PTX -> Word]]
  PROVE  Fixed' /\ (Middle18 \/ Middle19)'
<1>1. Fixed'
  BY CallStep, Statement, FixedFrame DEF Middle18
<1>0. Entry(pg1).ppn = pg1
  BY EntryWord, ThreePages
<1>2. CASE pc = "decref"
  <2>1. remove_decref /\ step' = step
    BY <1>2, CallStep
  <2>2. op.va = one /\ RemoveOf(one)
    BY <1>2 DEF Middle18, RemoveOf
  <2>3. /\ pc' = "clear" /\ TableIs(Zero, Entry(pg1))' /\ Counts(1, 0, 0)'
        /\ Side(pg1)' /\ held' = held /\ op' = op
    BY <1>0, <1>2, <2>1, <2>2, CallDecref, ThreePages, TwoAddresses DEF Middle18
  <2> QED
    BY <1>1, <1>2, <2>1, <2>2, <2>3 DEF Middle18, RemoveOf
<1>3. CASE pc = "clear"
  <2>1. remove_clear /\ step' = step
    BY <1>3, CallStep
  <2>2. op.va = one /\ RemoveOf(one)
    BY <1>3 DEF Middle18, RemoveOf
  <2>3. /\ pc' = "invlpg" /\ TableIs(Zero, Zero)'
        /\ UNCHANGED <<lh_first, le_next, le_prev, pp_ref, held, op>>
    BY <1>3, <2>1, <2>2, CallClear, TwoAddresses DEF Middle18
  <2> QED
    BY <1>1, <1>3, <2>1, <2>2, <2>3, RowFrame DEF Middle18, RemoveOf
<1>4. CASE pc = "invlpg"
  <2>1. tlb_invalidate /\ step' = step
    BY <1>4, CallStep
  <2>2. op.new = Zero
    BY <1>4 DEF Middle18, RemoveOf
  <2> QED
    BY <1>1, <1>4, <2>1, <2>2, CallInvalidate, RowFrame DEF Middle18
<1>5. CASE pc = "idle"
  <2>1. step' = 19 /\ page_alloc
    BY <1>5, Statement DEF Middle18
  <2>2. Side(NULL)' /\ Counts(1, 0, 0)' /\ held' = held \cup {pg1} /\ UNCHANGED <<pgdir, mem, pc>>
    BY <1>5, <2>1, AllocOne, ThreePages DEF Middle18
  <2>3. held' = {pg1, pg2}
    BY <2>2 DEF Middle18
  <2> QED
    BY <1>1, <1>5, <2>1, <2>2, <2>3, RowFrame DEF Middle18, Middle19
<1> QED
  BY <1>2, <1>3, <1>4, <1>5 DEF Middle18

(* What is left of the free list is in order when its head is restored.    *)
RestInOrder ==
  /\ LinkTypes /\ FreeListLinked /\ FreeListIsSequence
  /\ \A p \in Page : OnList(p) <=> p >= FirstFree /\ p <= NPages - 4

LEMMA HiddenRest == FreeUpTo(NPages - 4) => RestInOrder
<1>1. NPages - 4 \in FirstFree - 1 .. NPages - 1
  BY SizeAssumption, ThreeFreePages
<1> QED
  BY <1>1, UpToLinked, UpToSequence DEF RestInOrder

(* Statement 19 fails; 20 takes the table back and restores the list.      *)
LEMMA Step19 ==
  ASSUME Fixed, Middle19, SysStep
  PROVE  Fixed' /\ (Middle19 \/ Finish)'
<1>1. step' = step + 1 /\ step \in {19, 20} /\ UNCHANGED <<pp0, pp1, pp2, fl>> /\ pc = "idle"
  BY Statement DEF Middle19
<1>2. Fixed'
  BY <1>1, FixedFrame
<1>3. CASE step = 19
  <2>1. UNCHANGED vars
    BY <1>3, Statement, AllocEmpty DEF Middle19
  <2> QED
    BY <1>1, <1>2, <1>3, <2>1, RowFrame DEF Middle19, vars
<1>4. CASE step = 20
  <2>1. /\ pgdir' = [pgdir EXCEPT ![zero[1]] = NULL] /\ pp_ref' = [pp_ref EXCEPT ![pg0] = 0]
        /\ held' = held \cup {pg0} /\ lh_first' = fl /\ UNCHANGED <<le_next, le_prev, pc>>
    BY <1>1, <1>4, Statement DEF take_table_back, Fixed
  <2>2. NoTable'
    BY <2>1 DEF Middle19, TableIs, OneTable, NoTable
  <2>3. pp_ref' = [p \in Page |-> 0]
    BY <2>1, ThreePages DEF Middle19, Counts
  <2>4. held' = {pg0, pg1, pg2}
    BY <2>1 DEF Middle19
  <2>5. FreeUpTo(NPages - 4)'
    <3>1. le_prev = PrevUpTo(NPages - 4)
      BY PointerAssumption DEF Middle19, Side, PrevUpTo
    <3> QED
      BY <2>1, <3>1 DEF Middle19, Side, FreeUpTo, Fixed
  <2>6. RestInOrder'
    BY <2>5, HiddenRest, PTL
  <2>7. /\ LinkTypes' /\ FreeListLinked' /\ FreeListIsSequence'
        /\ \A p \in Page : OnList(p)' <=> p >= FirstFree /\ p <= NPages - 4
    BY <2>6 DEF RestInOrder
  <2>8. \A p \in Page : OnList(p)' <=> p >= FirstFree /\ p \notin held'
    <3>1. \A p \in Page : p \in {pg0, pg1, pg2} <=> ~ (p <= NPages - 4)
      BY ThreePages, SizeAssumption DEF Page
    <3>2. \A p \in Page : p \in held' <=> p \in {pg0, pg1, pg2}
      BY <2>4
    <3> QED
      BY <2>7, <3>1, <3>2, Zenon
  <2> QED
    <3>1. step' = 21 /\ pc' = "idle"
      BY <1>1, <1>4, <2>1
    <3> QED
      BY <1>2, <2>2, <2>3, <2>4, <2>7, <2>8, <3>1 DEF Finish
<1> QED
  BY <1>1, <1>3, <1>4

(* The first three statements take the first three pages; the fourth hides *)
(* the others.                                                             *)
LEMMA StepStart ==
  ASSUME Start, SysStep
  PROVE  Start' \/ (Fixed /\ Middle5)'
<1> USE SizeAssumption, ThreeFreePages
<1>1. step' = step + 1 /\ step \in 1 .. 4 /\ pc = "idle"
  BY Statement DEF Start
<1>2. CASE step \in 1 .. 3
  <2>0. PICK k \in 1 .. 3 : step = k
    BY <1>2
  <2> DEFINE t == NPages - k
  <2>1. t \in FirstFree .. NPages - 1 /\ FreeUpTo(t) /\ t \in Page
    BY <2>0 DEF Start, Page
  <2>2. alloc_three /\ page_alloc
    BY <1>2, Statement, <1>1 DEF alloc_three
  <2>3. lh_first = t /\ lh_first # NULL
    BY <2>1, PointerAssumption DEF FreeUpTo, HeadUpTo
  <2>4. take_first_page(0) /\ held' = held \cup {t} /\ pc' = pc /\ pgdir' = pgdir
    BY <2>2, <2>3 DEF page_alloc, LIST_EMPTY
  <2>5. FreeUpTo(t - 1)'
    BY <2>1, <2>4, UpToRemove DEF take_first_page
  <2>6. FreeUpTo(NPages - step)'
    <3>1. t - 1 = NPages - step'
      BY <1>1, <2>0
    <3> QED
      BY <2>5, <3>1 DEF FreeUpTo
  <2>7. held' = (NPages + 1) - step' .. NPages - 1
    BY <1>1, <2>0, <2>4 DEF Start
  <2>8. pp_ref' = [p \in Page |-> 0]
    BY <2>1, <2>3, <2>4 DEF take_first_page, Start
  <2>9. /\ step' > 1 => pp0' = pg0
        /\ step' > 2 => pp1' = pg1
        /\ step' > 3 => pp2' = pg2
    BY <1>1, <2>0, <2>2, <2>3 DEF alloc_three, At, Start, pg0, pg1, pg2
  <2>10. NoTable'
    BY <2>4 DEF Start, NoTable
  <2>11. step' \in 1 .. 4
    BY <1>1, <1>2
  <2> QED
    BY <1>1, <2>4, <2>6, <2>7, <2>8, <2>9, <2>10, <2>11 DEF Start
<1>3. CASE step = 4
  <2>1. /\ fl' = lh_first /\ lh_first' = NULL
        /\ UNCHANGED <<le_next, le_prev, pp_ref, pgdir, held, pc, pp0, pp1, pp2>>
    BY <1>3, Statement, <1>1 DEF steal_free_list
  <2>2. FreeUpTo(NPages - 4)
    BY <1>3 DEF Start
  <2>3. Fixed'
    BY <1>3, <2>1, <2>2 DEF Fixed, Start, FreeUpTo
  <2>4. Side(NULL)'
    <3>1. PrevUpTo(NPages - 4) = [p \in Page |-> IF p = NULL THEN ListHead
                                                 ELSE PrevUpTo(NPages - 4)[p]]
      BY PointerAssumption DEF PrevUpTo
    <3> QED
      BY <2>1, <2>2, <3>1 DEF FreeUpTo, Side
  <2>5. Counts(0, 0, 0)' /\ NoTable'
    BY <2>1 DEF Start, Counts, NoTable
  <2>6. held' = {pg0, pg1, pg2}
    BY <1>3, <2>1 DEF Start, pg0, pg1, pg2
  <2> QED
    BY <1>1, <1>3, <2>1, <2>3, <2>4, <2>5, <2>6 DEF Middle5
<1> QED
  BY <1>1, <1>2, <1>3

(* The last three statements free the three pages.                         *)
LEMMA StepFinish ==
  ASSUME Fixed, Finish, SysStep
  PROVE  Fixed' /\ Finish'
<1>1. step' = step + 1 /\ step \in {21, 22, 23} /\ UNCHANGED <<pp0, pp1, pp2, fl>>
  BY Statement DEF Finish
<1>2. Fixed'
  BY <1>1, FixedFrame
<1>3. PICK p \in {pg0, pg1, pg2} :
        /\ page_free(p) /\ p \in held
        /\ p = (CASE step = 21 -> pg0 [] step = 22 -> pg1 [] OTHER -> pg2)
  BY <1>1, Statement DEF Finish, Fixed
<1>4. p \in Page /\ p >= FirstFree
  BY ThreePages
<1>5. ~ OnList(p)
  BY <1>3, <1>4 DEF Finish
<1>6. /\ LIST_INSERT_HEAD(p) /\ held' = held \ {p} /\ UNCHANGED <<pp_ref, pgdir, pc>>
  BY <1>3 DEF page_free
<1>7. /\ LinkTypes' /\ FreeListLinked' /\ FreeListIsSequence'
      /\ \A q \in Page : OnList(q)' <=> (q = p \/ OnList(q))
  BY <1>4, <1>5, <1>6, InsertHeadLinks, InsertHeadSequence DEF Finish
<1>8. \A q \in Page : OnList(q)' <=> q >= FirstFree /\ q \notin held'
  <2>1. \A q \in Page : OnList(q) <=> q >= FirstFree /\ q \notin held
    BY DEF Finish
  <2>2. \A q \in Page : q \in held' <=> q \in held /\ q # p
    BY <1>6
  <2> QED
    BY <1>3, <1>4, <1>7, <2>1, <2>2, Zenon
<1>9. \/ step' = 22 /\ held' = {pg1, pg2}
      \/ step' = 23 /\ held' = {pg2}
      \/ step' = 24 /\ held' = {}
  <2>1. CASE step = 21
    BY <1>1, <1>3, <1>6, <2>1, ThreePages DEF Finish
  <2>2. CASE step = 22
    BY <1>1, <1>3, <1>6, <2>2, ThreePages DEF Finish
  <2>3. CASE step = 23
    BY <1>1, <1>3, <1>6, <2>3, ThreePages DEF Finish
  <2> QED
    BY <1>1, <2>1, <2>2, <2>3
<1> QED
  BY <1>2, <1>6, <1>7, <1>8, <1>9 DEF Finish, NoTable

(* Every step of page_check leads from stage to stage.                     *)
LEMMA StepScript ==
  ASSUME Script, SysStep, mem \in [Page -> [PTX -> Word]]
  PROVE  Script'
  BY StepStart, Step5, Step8, Step9, Step10, Step12, Step15, Step16, Step17, Step18, Step19,
     StepFinish DEF Script, Middle

(* The processor's steps leave the stage alone.                            *)
LEMMA ScriptFrame ==
  ASSUME Script, UNCHANGED <<lh_first, le_next, le_prev, pp_ref, pgdir, mem, held, pc, op,
                             step, pp0, pp1, pp2, fl>>
  PROVE  Script'
<1>1. CASE Start
  BY <1>1 DEF Script, Start, FreeUpTo, NoTable
<1>2. Fixed => Fixed'
  BY FixedFrame
<1>3. Middle => Middle'
  <2>1. (Middle5 \/ Middle8) => (Middle5 \/ Middle8)'
    BY RowFrame DEF Middle5, Middle8
  <2>2. Middle9 => Middle9'
    BY RowFrame DEF Middle9, InsertOf
  <2>3. Middle10 => Middle10'
    BY RowFrame DEF Middle10, InsertOf
  <2>4. Middle12 => Middle12'
    BY RowFrame DEF Middle12, InsertOf
  <2>5. Middle15 => Middle15'
    BY RowFrame DEF Middle15, InsertOf
  <2>6. (Middle16 \/ Middle19) => (Middle16 \/ Middle19)'
    BY RowFrame DEF Middle16, Middle19
  <2>7. Middle17 => Middle17'
    BY RowFrame DEF Middle17, RemoveOf
  <2>8. Middle18 => Middle18'
    BY RowFrame DEF Middle18, RemoveOf
  <2> QED
    BY <2>1, <2>2, <2>3, <2>4, <2>5, <2>6, <2>7, <2>8 DEF Middle
<1>4. Finish => Finish'
  <2>1. (FreeListLinked => FreeListLinked') /\ (LinkTypes => LinkTypes')
    BY DEF FreeListLinked, OnList, LinkTypes
  <2>2. FreeListIsSequence => FreeListIsSequence'
    BY DEF FreeListIsSequence, Lists, OnList
  <2>3. \A p \in Page : OnList(p)' <=> OnList(p)
    BY DEF OnList
  <2> QED
    BY <2>1, <2>2, <2>3 DEF Finish, NoTable
<1> QED
  BY <1>1, <1>2, <1>3, <1>4 DEF Script

-----------------------------------------------------------------------------
(* The types of the state, which the stages imply.                         *)
MemTypes ==
  /\ mem \in [Page -> [PTX -> Word]] /\ tlb \in [VA -> Word]
  /\ stray \in SUBSET VA
  /\ pc = "idle" <=> op = NULL

(* What every stage has in common.                                         *)
StageShape ==
  /\ LinkTypes /\ pc \in PC /\ held \in SUBSET Page
  /\ pp_ref \in [Page -> 0 .. RefMod - 1]
  /\ NoTable \/ OneTable
  /\ pc # "idle" => /\ OneTable /\ op.va \in {zero, one}
                    /\ op \in [va : VA, new : Word]

(* The links are pages, whatever is on the list.                           *)
LEMMA SideTypes ==
  ASSUME NEW s \in {NULL, pg0, pg1, pg2}, Side(s)
  PROVE  LinkTypes
<1>1. s \in Page \cup {NULL} /\ NPages \in Int
  BY ThreePages, SizeAssumption
<1>2. NextUpTo(NPages - 4) \in [Page -> Page \cup {NULL}]
  BY SizeAssumption DEF NextUpTo, Page
<1>3. PrevUpTo(NPages - 4) \in [Page -> Page \cup {NULL, ListHead}]
  BY SizeAssumption DEF PrevUpTo, Page
<1> QED
  BY <1>1, <1>2, <1>3 DEF Side, LinkTypes

(* The counts of page_check fit pp_ref.                                    *)
LEMMA CountsTypes ==
  ASSUME NEW r0 \in 0 .. 2, NEW r1 \in 0 .. 2, NEW r2 \in 0 .. 2, Counts(r0, r1, r2)
  PROVE  pp_ref \in [Page -> 0 .. RefMod - 1]
  BY SizeAssumption DEF Counts

(* The arguments of page_check's calls.                                    *)
LEMMA CallTypes ==
  ASSUME NEW va \in {zero, one}
  PROVE  /\ \A p \in {pg1, pg2} : InsertOf(va, p) => op \in [va : VA, new : Word] /\ op.va = va
         /\ RemoveOf(va) => op \in [va : VA, new : Word] /\ op.va = va
  BY TwoAddresses, ThreePages, EntryWord, ZeroWord DEF InsertOf, RemoveOf

(* Every stage has the shape.                                              *)
LEMMA ScriptShape == Script => StageShape
<1> SUFFICES ASSUME Script PROVE StageShape
  OBVIOUS
<1>0. \A p \in {pg0, pg1, pg2} : p \in Page
  BY ThreePages
<1>1. CASE Start
  <2>1. NPages - step \in FirstFree - 1 .. NPages - 1
    BY <1>1, SizeAssumption, ThreeFreePages DEF Start
  <2>2. LinkTypes
    BY <1>1, <2>1, UpToLinked DEF Start
  <2>3. held \in SUBSET Page
    BY <1>1, SizeAssumption, ThreeFreePages DEF Start, Page
  <2>4. pp_ref \in [Page -> 0 .. RefMod - 1]
    BY <1>1, SizeAssumption DEF Start
  <2> QED
    BY <1>1, <2>2, <2>3, <2>4 DEF Start, StageShape, PC
<1>2. CASE Middle5 \/ Middle8
  <2>1. LinkTypes /\ pp_ref \in [Page -> 0 .. RefMod - 1]
    BY <1>2, SideTypes, CountsTypes DEF Middle5, Middle8
  <2> QED
    BY <1>0, <1>2, <2>1 DEF Middle5, Middle8, StageShape, PC
<1>3. CASE Middle9
  <2>1. LinkTypes /\ pp_ref \in [Page -> 0 .. RefMod - 1]
    BY <1>3, SideTypes, CountsTypes DEF Middle9
  <2>2. pc # "idle" => op \in [va : VA, new : Word] /\ op.va = zero
    BY <1>3, CallTypes DEF Middle9
  <2> QED
    BY <1>0, <1>3, <2>1, <2>2 DEF Middle9, StageShape, PC, TableIs
<1>4. CASE Middle10
  <2>1. LinkTypes /\ pp_ref \in [Page -> 0 .. RefMod - 1]
    BY <1>4, SideTypes, CountsTypes DEF Middle10
  <2>2. pc # "idle" => op \in [va : VA, new : Word] /\ op.va = one
    BY <1>4, CallTypes DEF Middle10
  <2> QED
    BY <1>0, <1>4, <2>1, <2>2 DEF Middle10, StageShape, PC, TableIs
<1>5. CASE Middle12
  <2>1. LinkTypes /\ pp_ref \in [Page -> 0 .. RefMod - 1]
    BY <1>5, SideTypes, CountsTypes DEF Middle12
  <2>2. pc # "idle" => op \in [va : VA, new : Word] /\ op.va = one
    BY <1>5, CallTypes DEF Middle12
  <2> QED
    BY <1>0, <1>5, <2>1, <2>2 DEF Middle12, StageShape, PC, TableIs
<1>6. CASE Middle15
  <2>1. LinkTypes /\ pp_ref \in [Page -> 0 .. RefMod - 1]
    BY <1>6, SideTypes, CountsTypes DEF Middle15
  <2>2. pc # "idle" => op \in [va : VA, new : Word] /\ op.va = one
    BY <1>6, CallTypes DEF Middle15
  <2> QED
    BY <1>0, <1>6, <2>1, <2>2 DEF Middle15, StageShape, PC, TableIs
<1>7. CASE Middle16 \/ Middle19
  <2>1. LinkTypes /\ pp_ref \in [Page -> 0 .. RefMod - 1]
    BY <1>7, SideTypes, CountsTypes DEF Middle16, Middle19
  <2> QED
    BY <1>0, <1>7, <2>1 DEF Middle16, Middle19, StageShape, PC, TableIs
<1>8. CASE Middle17
  <2>1. LinkTypes /\ pp_ref \in [Page -> 0 .. RefMod - 1]
    BY <1>8, SideTypes, CountsTypes DEF Middle17
  <2>2. pc # "idle" => op \in [va : VA, new : Word] /\ op.va = zero
    BY <1>8, CallTypes DEF Middle17
  <2> QED
    BY <1>0, <1>8, <2>1, <2>2 DEF Middle17, StageShape, PC, TableIs
<1>9. CASE Middle18
  <2>1. LinkTypes /\ pp_ref \in [Page -> 0 .. RefMod - 1]
    BY <1>9, SideTypes, CountsTypes DEF Middle18
  <2>2. pc # "idle" => op \in [va : VA, new : Word] /\ op.va = one
    BY <1>9, CallTypes DEF Middle18
  <2> QED
    BY <1>0, <1>9, <2>1, <2>2 DEF Middle18, StageShape, PC, TableIs
<1>10. CASE Finish
  <2>1. pp_ref \in [Page -> 0 .. RefMod - 1] /\ held \in SUBSET Page
    BY <1>0, <1>10, SizeAssumption DEF Finish
  <2> QED
    BY <1>10, <2>1 DEF Finish, StageShape, PC
<1> QED
  BY <1>1, <1>2, <1>3, <1>4, <1>5, <1>6, <1>7, <1>8, <1>9, <1>10 DEF Script, Middle

(* So the invariants the calls rely on hold at every stage.                *)
LEMMA ScriptTypes ==
  ASSUME Script, MemTypes
  PROVE  TypeOK /\ CallOpen /\ TablesDistinct
<1>1. StageShape
  BY ScriptShape
<1>2. pgdir \in [PDX -> Page \cup {NULL}]
  BY <1>1, ThreePages DEF StageShape, NoTable, OneTable
<1>3. TypeOK
  BY <1>1, <1>2 DEF StageShape, TypeOK, LinkTypes, MemTypes
<1>4. TablesDistinct
  BY <1>1 DEF StageShape, NoTable, OneTable, TablesDistinct
<1>5. pc # "idle" => pgdir[op.va[1]] # NULL
  BY <1>1, TwoAddresses, ThreePages DEF StageShape, OneTable
<1>6. pc = "write" => check_va2pa(op.va) = Zero
  <2>1. CASE Fixed /\ Middle9
    BY <2>1, Translations DEF Middle9, InsertOf
  <2>2. CASE Fixed /\ (Middle10 \/ Middle12 \/ Middle15)
    BY <2>2, Translations DEF Middle10, Middle12, Middle15, InsertOf
  <2> QED
    BY <2>1, <2>2 DEF Script, Start, Middle, Middle5, Middle8, Middle16, Middle17, Middle18,
       Middle19, Finish
<1> QED
  BY <1>3, <1>4, <1>5, <1>6 DEF CallOpen, MemTypes

-----------------------------------------------------------------------------
(* Statements the processor does not see: none touches a translation the   *)
(* tables hold.                                                            *)
LEMMA ScriptCalls ==
  ASSUME Script, SysStep
  PROVE  \/ AnyCall
         \/ UNCHANGED <<pgdir, mem, tlb, stray, pc, op>>
         \/ /\ pc = "idle" /\ UNCHANGED <<mem, tlb, stray, pc, op>> /\ NoTable'
            /\ \A va \in VA : check_va2pa(va) = Zero
<1>0. /\ zero \in VA /\ one \in VA /\ ptsize \in VA /\ perm0 \in Perms
  BY TwoAddresses, AddressAssumption
<1>1. CASE pc # "idle"
  <2>1. KernelStep
    BY <1>1, CallStep, ScriptShape DEF KernelStep, StageShape, PC
  <2> QED
    BY <2>1 DEF AnyCall
<1>2. CASE pc = "idle" /\ step \in 1 .. 4
  BY <1>2, Statement DEF alloc_three, AnyCall, steal_free_list
<1>3. CASE pc = "idle" /\ step \in 5 .. 23 /\ step # 20
  <2>1. pp0 \in Page /\ pp1 \in Page /\ pp2 \in Page
    BY <1>3, ThreePages DEF Script, Start, Fixed
  <2>2. \/ page_alloc \/ (\E p : page_free(p))
        \/ \E va \in VA, p \in Page : page_insert(va, p, perm0)
        \/ \E va \in VA : page_remove(va)
    BY <1>0, <1>3, <2>1, Statement
  <2> QED
    BY <1>0, <2>2 DEF AnyCall
<1>4. CASE pc = "idle" /\ step = 20
  <2>1. Fixed /\ TableIs(Zero, Zero)
    BY <1>4 DEF Script, Start, Middle, Middle5, Middle8, Middle9, Middle10, Middle12,
                Middle15, Middle16, Middle17, Middle18, Middle19, Finish
  <2>2. \A va \in VA : check_va2pa(va) = Zero
    BY <2>1, Translations
  <2>3. pgdir' = [pgdir EXCEPT ![zero[1]] = NULL] /\ UNCHANGED <<mem, tlb, stray, pc, op>>
    BY <1>4, Statement DEF take_table_back
  <2>4. NoTable'
    BY <2>1, <2>3 DEF TableIs, OneTable, NoTable
  <2> QED
    BY <1>4, <2>2, <2>3, <2>4
<1>5. pc = "idle" => step \in 1 .. 4 \/ (step \in 5 .. 23 /\ step # 20) \/ step = 20
  BY Statement
<1> QED
  BY <1>1, <1>2, <1>3, <1>4, <1>5

(* Every call keeps the types of the tables and the TLB.                   *)
LEMMA CallMemTypes ==
  ASSUME TypeOK, CallOpen, TablesDistinct, AnyCall, MemTypes
  PROVE  MemTypes'
<1> USE PointerAssumption
<1>1. CASE page_alloc \/ (\E p : page_free(p)) \/ UNCHANGED vars
  BY <1>1 DEF page_alloc, page_free, vars, MemTypes
<1>2. ASSUME NEW va \in VA, NEW p \in Page, NEW perm \in Perms, page_insert(va, p, perm)
      PROVE  MemTypes'
  <2>1. [va |-> va, new |-> [ppn |-> p, flags |-> perm]] \in [va : VA, new : Word]
    BY DEF Word
  <2> QED
    BY <1>2, <2>1 DEF page_insert, MemTypes
<1>3. ASSUME NEW va \in VA, page_remove(va) PROVE MemTypes'
  <2>1. [va |-> va, new |-> Zero] \in [va : VA, new : Word]
    BY ZeroWord
  <2> QED
    BY <1>3, <2>1 DEF page_remove, MemTypes
<1>4. CASE walk_memset
  <2>1. pc = "memset" /\ pc' = "count" /\ UNCHANGED <<pgdir, tlb, stray, op>>
    BY <1>4 DEF walk_memset
  <2>2. op.va[1] \in PDX /\ pgdir[op.va[1]] # NULL /\ op # NULL
    BY <2>1, OpenCall
  <2>3. mem' \in [Page -> [PTX -> Word]]
    BY <1>4, <2>2, ClearTableFrame DEF walk_memset
  <2> QED
    BY <2>1, <2>2, <2>3 DEF MemTypes
<1>5. CASE insert_count \/ remove_decref
  <2>1. pc # "idle" /\ pc' # "idle" /\ UNCHANGED <<mem, tlb, stray, op>>
    BY <1>5 DEF insert_count, remove_decref
  <2> QED
    BY <2>1 DEF MemTypes
<1>6. CASE remove_clear \/ insert_write
  <2>1. pc # "idle" /\ pgdir' = pgdir /\ tlb' = tlb /\ stray' = stray
    BY <1>6 DEF remove_clear, insert_write
  <2>2. PICK va \in VA, w \in Word : va = op.va /\ set_pte(va, w)
    BY <1>6, <2>1, OpenCall, ZeroWord DEF remove_clear, insert_write
  <2>3. mem' \in [Page -> [PTX -> Word]]
    BY <2>1, <2>2, OpenCall, SetPteFrame
  <2>4. pc' = "idle" <=> op' = NULL
    BY <1>6, OpenCall DEF remove_clear, insert_write
  <2> QED
    BY <2>1, <2>3, <2>4 DEF MemTypes
<1>7. CASE tlb_invalidate
  <2>1. /\ pc = "invlpg" /\ mem' = mem /\ tlb' = [tlb EXCEPT ![op.va] = Zero]
        /\ stray' = stray \ {op.va}
    BY <1>7 DEF tlb_invalidate
  <2>2. pc' = "idle" <=> op' = NULL
    BY <1>7, OpenCall DEF tlb_invalidate
  <2> QED
    BY <2>1, <2>2, OpenCall, ZeroWord DEF MemTypes
<1>8. ASSUME NEW va \in VA, tlb_fill(va) \/ tlb_evict(va) PROVE MemTypes'
  BY <1>8, TranslationType, ZeroWord DEF tlb_fill, tlb_evict, MemTypes
<1> QED
  BY <1>1, <1>2, <1>3, <1>4, <1>5, <1>6, <1>7, <1>8 DEF AnyCall, KernelStep, ProcessorStep

(* The inductive invariant of page_check.                                  *)
CheckInv == Script /\ MemTypes /\ TLBInv

(* page_check starts in the state page_init leaves.                        *)
LEMMA InitCheckInv == CheckInit => CheckInv
<1> SUFFICES ASSUME CheckInit PROVE CheckInv
  OBVIOUS
<1> USE SizeAssumption, PointerAssumption DEF CheckInit, Init
<1>1. FreeUpTo(NPages - 1)
  BY DEF page_init, FreeUpTo, HeadUpTo, NextUpTo, PrevUpTo, Page
<1>2. Start
  BY <1>1 DEF Start, page_init, NoTable
<1>3. MemTypes
  BY WordAssumption, ZeroWord DEF MemTypes
<1>4. TLBInv
  BY DEF TLBInv, TLBCoherent, RawTableUncached, Cached
<1> QED
  BY <1>2, <1>3, <1>4 DEF CheckInv, Script

(* The invariant of page_check is preserved.                               *)
LEMMA NextCheckInv == CheckInv /\ [CheckNext]_checkVars => CheckInv'
<1> SUFFICES ASSUME CheckInv, [CheckNext]_checkVars PROVE CheckInv'
  OBVIOUS
<1>0. TypeOK /\ CallOpen /\ TablesDistinct
  BY ScriptTypes DEF CheckInv
<1>1. CASE SysStep
  <2>1. Script'
    BY <1>1, StepScript DEF CheckInv, MemTypes
  <2>2. CASE AnyCall
    BY <1>0, <2>1, <2>2, TLBCall, CallMemTypes DEF CheckInv
  <2>3. CASE UNCHANGED <<pgdir, mem, tlb, stray, pc, op>>
    BY <2>1, <2>3 DEF CheckInv, MemTypes, TLBInv, TLBCoherent, RawTableUncached, RawTable,
                      Cached, check_va2pa
  <2>4. CASE /\ pc = "idle" /\ UNCHANGED <<mem, tlb, stray, pc, op>> /\ NoTable'
             /\ \A va \in VA : check_va2pa(va) = Zero
    <3>1. \A va \in VA : Cached(va) = Zero
      BY <2>4 DEF CheckInv, TLBInv, TLBCoherent
    <3> QED
      BY <2>1, <2>4, <3>1 DEF CheckInv, MemTypes, TLBInv, TLBCoherent, RawTableUncached,
                              RawTable, Cached
  <2> QED
    BY <1>1, <2>2, <2>3, <2>4, ScriptCalls DEF CheckInv
<1>2. CASE ProcessorStep /\ UNCHANGED <<step, locals>>
  <2>1. UNCHANGED <<lh_first, le_next, le_prev, pp_ref, pgdir, mem, held, pc, op, step,
                    pp0, pp1, pp2, fl>>
    BY <1>2 DEF ProcessorStep, tlb_fill, tlb_evict, listVars, locals
  <2>2. Script'
    BY <2>1, ScriptFrame DEF CheckInv
  <2>3. MemTypes' /\ TLBInv'
    BY <1>0, <1>2, TLBCall, CallMemTypes DEF CheckInv, AnyCall
  <2> QED
    BY <2>2, <2>3 DEF CheckInv
<1>3. CASE UNCHANGED checkVars
  <2>1. UNCHANGED vars /\ UNCHANGED <<step, pp0, pp1, pp2, fl>>
    BY <1>3 DEF checkVars
  <2>2. Script'
    BY <2>1, ScriptFrame DEF CheckInv, vars
  <2>3. MemTypes' /\ TLBInv'
    BY <1>0, <2>1, TLBCall, CallMemTypes DEF CheckInv, AnyCall
  <2> QED
    BY <2>2, <2>3 DEF CheckInv
<1> QED
  BY <1>1, <1>2, <1>3 DEF CheckNext, SysStep

(* Each stage satisfies what page_check asserts there.                     *)
LEMMA StageAsserted ==
  ASSUME CheckInv, pc = "idle"
  PROVE  Asserted(step)
<1> USE DEF Asserted
<1>0. /\ Entry(pg1) # Zero /\ Entry(pg1).ppn = pg1 /\ Entry(pg2) # Zero /\ Entry(pg2).ppn = pg2
  BY EntryWord, ThreePages
<1>1. CASE Start
  <2>1. step \in 1 .. 4 /\ FreeUpTo(NPages - step) /\ NPages - step \in Page \cup {FirstFree - 1}
    BY <1>1, SizeAssumption, ThreeFreePages DEF Start, Page
  <2>2. CASE step \in 1 .. 3
    <3>1. lh_first # NULL
      BY <2>1, <2>2, SizeAssumption, ThreeFreePages, PointerAssumption
         DEF FreeUpTo, HeadUpTo, Page
    <3> QED
      BY <2>2, <3>1 DEF NoFreeMemory, LIST_EMPTY
  <2>3. CASE step = 4
    <3>1. pp0 = pg0 /\ pp1 = pg1 /\ pp2 = pg2
      BY <1>1, <2>3 DEF Start
    <3>2. Cardinality({pp0, pp1, pp2}) = 3
      <4>1. IsFiniteSet({pp2}) /\ Cardinality({pp2}) = 1
        BY FS_Singleton
      <4>2. IsFiniteSet({pp2} \cup {pp1}) /\ Cardinality({pp2} \cup {pp1}) = 2
        BY <3>1, <4>1, FS_AddElement, ThreePages
      <4>3. Cardinality(({pp2} \cup {pp1}) \cup {pp0}) = 3
        BY <3>1, <4>2, FS_AddElement, ThreePages
      <4>4. ({pp2} \cup {pp1}) \cup {pp0} = {pp0, pp1, pp2}
        OBVIOUS
      <4> QED
        BY <4>3, <4>4
    <3>3. NULL \notin {pp0, pp1, pp2}
      BY <3>1, ThreePages
    <3> QED
      BY <2>3, <3>2, <3>3
  <2> QED
    BY <2>1, <2>2, <2>3
<1>2. CASE Fixed /\ (Middle5 \/ Middle8)
  <2>1. page_lookup(zero) = NULL
    BY <1>2, TwoAddresses DEF Middle5, Middle8, NoTable, page_lookup
  <2> QED
    BY <1>2, <2>1 DEF Middle5, Middle8, Side, NoFreeMemory, LIST_EMPTY
<1>3. CASE Fixed /\ Middle9
  <2>1. step = 9 /\ TableIs(Entry(pg1), Zero) /\ Counts(1, 1, 0)
    BY <1>3 DEF Middle9
  <2>2. pgdir[zero[1]] = pp0 /\ Maps(zero, pp1)
    BY <1>0, <1>3, <2>1, Translations DEF Fixed, Maps
  <2>3. pp_ref[pp1] = 1 /\ pp_ref[pp0] = 1
    BY <1>3, <2>1, CountsSet DEF Fixed
  <2> QED
    BY <2>1, <2>2, <2>3
<1>4. CASE Fixed /\ (Middle10 \/ Middle12)
  <2>1. step \in 10 .. 14 /\ TableIs(Entry(pg1), Entry(pg2)) /\ Counts(1, 1, 1) /\ Side(NULL)
    BY <1>4 DEF Middle10, Middle12
  <2>2. Maps(one, pp2) /\ NoFreeMemory /\ pgdir[ptsize[1]] = NULL
    BY <1>0, <1>4, <2>1, Translations, TwoAddresses
       DEF Fixed, Maps, Side, NoFreeMemory, LIST_EMPTY, TableIs, OneTable
  <2>3. pp_ref[pp2] = 1
    BY <1>4, <2>1, CountsSet DEF Fixed
  <2> QED
    BY <2>1, <2>2, <2>3
<1>5. CASE Fixed /\ Middle15
  <2>1. step = 15 /\ TableIs(Entry(pg1), Entry(pg1)) /\ Counts(1, 2, 0) /\ Side(pg2)
    BY <1>5 DEF Middle15
  <2>2. Maps(zero, pp1) /\ Maps(one, pp1) /\ lh_first = pp2
    BY <1>0, <1>5, <2>1, Translations DEF Fixed, Maps, Side
  <2>3. Refs(1, 2, 0)
    BY <1>5, <2>1, CountsSet DEF Fixed, Refs
  <2> QED
    BY <2>1, <2>2, <2>3
<1>6. CASE Fixed /\ Middle17
  <2>1. step = 17 /\ TableIs(Zero, Entry(pg1)) /\ Counts(1, 1, 0)
    BY <1>6 DEF Middle17
  <2>2. check_va2pa(zero) = Zero /\ Maps(one, pp1)
    BY <1>0, <1>6, <2>1, Translations DEF Fixed, Maps
  <2>3. Refs(1, 1, 0)
    BY <1>6, <2>1, CountsSet DEF Fixed, Refs
  <2> QED
    BY <2>1, <2>2, <2>3
<1>7. CASE Fixed /\ Middle18
  <2>1. step = 18 /\ TableIs(Zero, Zero) /\ Counts(1, 0, 0) /\ Side(pg1)
    BY <1>7 DEF Middle18
  <2>2. check_va2pa(zero) = Zero /\ check_va2pa(one) = Zero /\ lh_first = pp1
    BY <1>7, <2>1, Translations DEF Fixed, Side
  <2>3. Refs(1, 0, 0)
    BY <1>7, <2>1, CountsSet DEF Fixed, Refs
  <2> QED
    BY <2>1, <2>2, <2>3
<1>8. CASE Fixed /\ Middle19
  <2>1. step \in {19, 20} /\ TableIs(Zero, Zero) /\ Counts(1, 0, 0) /\ Side(NULL)
    BY <1>8 DEF Middle19
  <2>2. pgdir[zero[1]] = pp0 /\ NoFreeMemory /\ pp_ref[pp0] = 1
    BY <1>8, <2>1, Translations, CountsSet DEF Fixed, Side, NoFreeMemory, LIST_EMPTY
  <2> QED
    BY <2>1, <2>2
<1>9. CASE Middle16 \/ Finish
  BY <1>9 DEF Middle16, Finish
<1> QED
  BY <1>1, <1>2, <1>3, <1>4, <1>5, <1>6, <1>7, <1>8, <1>9 DEF CheckInv, Script, Middle

(* After the last statement everything is back.                            *)
LEMMA FinishClean ==
  ASSUME CheckInv
  PROVE  LeavesNoTrace
<1> SUFFICES ASSUME step = Done, pc = "idle"
             PROVE  /\ {p \in Page : OnList(p)} = FirstFree .. NPages - 1
                    /\ FreeListLinked /\ FreeListComplete
                    /\ pp_ref = [p \in Page |-> 0] /\ held = {}
                    /\ pgdir = [d \in PDX |-> NULL]
                    /\ \A va \in VA : Cached(va) = Zero
  BY DEF LeavesNoTrace
<1>1. Finish
  BY DEF CheckInv, Script, Start, Middle, Middle5, Middle8, Middle9, Middle10, Middle12,
         Middle15, Middle16, Middle17, Middle18, Middle19, Done
<1>2. held = {} /\ FreeListLinked /\ pp_ref = [p \in Page |-> 0] /\ NoTable
  BY <1>1 DEF Finish, Done
<1>3. FreeListComplete
  BY <1>1, SequenceComplete DEF Finish
<1>4. {p \in Page : OnList(p)} = FirstFree .. NPages - 1
  <2>1. \A p \in Page : OnList(p) <=> p >= FirstFree
    BY <1>1, <1>2 DEF Finish
  <2> QED
    BY <2>1, SizeAssumption DEF Page
<1>5. \A va \in VA : Cached(va) = Zero
  <2>1. \A va \in VA : check_va2pa(va) = Zero
    BY <1>2, AddressParts DEF NoTable, check_va2pa
  <2> QED
    BY <2>1, <1>2 DEF CheckInv, TLBInv, TLBCoherent
<1> QED
  BY <1>2, <1>3, <1>4, <1>5 DEF NoTable

(* Every assertion of page_check holds on every machine with three free    *)
(* pages, whatever the processor caches between its statements.            *)
THEOREM PageCheckPasses == CheckSpec => []AssertionsHold
<1>1. CheckInv => AssertionsHold
  BY StageAsserted DEF AssertionsHold
<1> QED
  BY <1>1, InitCheckInv, NextCheckInv, PTL DEF CheckSpec

(* page_check returns with the allocator and the tables as it found them   *)
(* and no translation of a cleared table cached, on every such machine.    *)
THEOREM PageCheckRestores == CheckSpec => []LeavesNoTrace
<1>1. CheckInv => LeavesNoTrace
  BY FinishClean
<1> QED
  BY <1>1, InitCheckInv, NextCheckInv, PTL DEF CheckSpec
=============================================================================

------------------------------ MODULE PageCheck ------------------------------
(***************************************************************************)
(* page_check of kern/pmap.c: the self-test the kernel runs after          *)
(* page_init, as a client of PageMap.  It allocates three pages, hides the *)
(* rest of the free list, drives the page functions through their cases on *)
(* the two addresses 0 and PGSIZE, and puts everything back by hand.  The  *)
(* processor's page walker runs beside it.                                 *)
(***************************************************************************)
EXTENDS PageMap

CONSTANTS
  zero, one, ptsize,   \* the addresses 0, PGSIZE and PTSIZE
  perm0                \* PTE_P with no other permission

ASSUME AddressAssumption ==
  /\ {zero, one, ptsize} \subseteq VA /\ zero # one
  /\ zero[1] = one[1] /\ ptsize[1] # zero[1] /\ perm0 \in Perms

(* page_check runs on a machine with memory for the three pages it uses.   *)
ASSUME ThreeFreePages == FirstFree + 3 <= NPages

VARIABLES
  step,            \* the next statement of page_check
  pp0, pp1, pp2,   \* its locals; NULL until assigned
  fl               \* the saved list head

checkVars == <<vars, step, pp0, pp1, pp2, fl>>
locals    == <<pp0, pp1, pp2, fl>>

CheckInit ==
  Init /\ step = 1 /\ pp0 = NULL /\ pp1 = NULL /\ pp2 = NULL /\ fl = NULL

Done == 24

(* What page_check asserts of the state before statement n: the results of *)
(* the statement before it, and that a call due to fail (5, 6, 10, 12, 13, *)
(* 19) or to return a certain page (15, 18) will.                          *)
NoFreeMemory == LIST_EMPTY
Refs(r0, r1, r2) == pp_ref[pp0] = r0 /\ pp_ref[pp1] = r1 /\ pp_ref[pp2] = r2
Maps(va, p) == check_va2pa(va) # Zero /\ check_va2pa(va).ppn = p

Asserted(n) ==
  CASE n \in 1 .. 3   -> ~ NoFreeMemory
    [] n = 4          -> Cardinality({pp0, pp1, pp2}) = 3 /\ NULL \notin {pp0, pp1, pp2}
    [] n \in {5, 19}  -> NoFreeMemory
    [] n = 6          -> NoFreeMemory /\ page_lookup(zero) = NULL
    [] n = 9          -> /\ pgdir[zero[1]] = pp0 /\ Maps(zero, pp1)
                         /\ pp_ref[pp1] = 1 /\ pp_ref[pp0] = 1
    [] n \in {10, 12} -> Maps(one, pp2) /\ pp_ref[pp2] = 1 /\ NoFreeMemory
    [] n = 13         -> NoFreeMemory /\ pgdir[ptsize[1]] = NULL
    [] n = 15         -> Maps(zero, pp1) /\ Maps(one, pp1) /\ Refs(1, 2, 0) /\ lh_first = pp2
    [] n = 17         -> check_va2pa(zero) = Zero /\ Maps(one, pp1) /\ Refs(1, 1, 0)
    [] n = 18         -> /\ check_va2pa(zero) = Zero /\ check_va2pa(one) = Zero
                         /\ Refs(1, 0, 0) /\ lh_first = pp1
    [] n = 20         -> pgdir[zero[1]] = pp0 /\ pp_ref[pp0] = 1
    [] OTHER          -> TRUE

-----------------------------------------------------------------------------
(* Statement n is executed between calls.                                  *)
At(n) == step = n /\ step' = n + 1 /\ pc = "idle"

alloc_three ==
  /\ page_alloc
  /\ \/ At(1) /\ pp0' = lh_first /\ UNCHANGED <<pp1, pp2, fl>>
     \/ At(2) /\ pp1' = lh_first /\ UNCHANGED <<pp0, pp2, fl>>
     \/ At(3) /\ pp2' = lh_first /\ UNCHANGED <<pp0, pp1, fl>>

(* fl = page_free_list; LIST_INIT(&page_free_list).                        *)
steal_free_list ==
  /\ At(4)
  /\ fl' = lh_first /\ lh_first' = NULL
  /\ UNCHANGED <<le_next, le_prev, pp_ref, pgdir, mem, tlb, stray, held, pc, op, pp0, pp1, pp2>>

call_page_functions ==
  /\ UNCHANGED locals
  /\ \/ (At(5) \/ At(10) \/ At(12) \/ At(15) \/ At(18) \/ At(19)) /\ page_alloc
     \/ (At(6) \/ At(8)) /\ page_insert(zero, pp1, perm0)
     \/ (At(9) \/ At(11)) /\ page_insert(one, pp2, perm0)
     \/ At(13) /\ page_insert(ptsize, pp0, perm0)
     \/ At(14) /\ page_insert(one, pp1, perm0)
     \/ At(16) /\ page_remove(zero)
     \/ At(17) /\ page_remove(one)
     \/ (At(7) \/ At(21)) /\ page_free(pp0)
     \/ At(22) /\ page_free(pp1)
     \/ At(23) /\ page_free(pp2)

(* Seeded fault: pp0 keeps the reference count of a page table.            *)
take_table_back_counted ==
  /\ At(20)
  /\ pgdir' = [pgdir EXCEPT ![zero[1]] = NULL]
  /\ held' = held \cup {pp0}
  /\ lh_first' = fl
  /\ UNCHANGED <<le_next, le_prev, pp_ref, mem, tlb, stray, pc, op, locals>>

(* "forcibly take pp0 back", then page_free_list = fl.                     *)
take_table_back ==
  /\ At(20)
  /\ pgdir' = [pgdir EXCEPT ![zero[1]] = NULL]
  /\ pp_ref' = [pp_ref EXCEPT ![pp0] = 0]
  /\ held' = held \cup {pp0}
  /\ lh_first' = fl
  /\ UNCHANGED <<le_next, le_prev, mem, tlb, stray, pc, op, locals>>

ScriptStep == alloc_three \/ steal_free_list \/ call_page_functions \/ take_table_back

CheckNext ==
  \/ ScriptStep
  \/ (KernelStep \/ ProcessorStep) /\ UNCHANGED <<step, locals>>

CheckSpec == CheckInit /\ [][CheckNext]_checkVars

-----------------------------------------------------------------------------
(* Every assertion of page_check holds, whatever the page walker cached    *)
(* between its statements.                                                 *)
AssertionsHold == pc = "idle" => Asserted(step)

(* page_check leaves the allocator as it found it: the same pages on the   *)
(* free list, all reachable from its head, no references, no page table    *)
(* and no cached translation, but for one read from the table before       *)
(* pgdir_walk cleared it.                                                  *)
LeavesNoTrace ==
  (step = Done /\ pc = "idle") =>
    /\ {p \in Page : OnList(p)} = FirstFree .. NPages - 1
    /\ FreeListLinked /\ FreeListComplete
    /\ pp_ref = [p \in Page |-> 0] /\ held = {}
    /\ pgdir = [d \in PDX |-> NULL]
    /\ \A va \in VA : Cached(va) = Zero
=============================================================================

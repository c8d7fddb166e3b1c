------------------------------ MODULE MCBootMem ------------------------------
(***************************************************************************)
(* Instance of BootMem for TLC: 8-entry tables, so a linear address space  *)
(* of 64 pages with the kernel's window on 32 pages of physical memory     *)
(* (four page tables) above the self-map and the stack slot.  The kernel   *)
(* image fills pages 3 to 5, its last page not quite.                      *)
(***************************************************************************)
EXTENDS BootMem

MCJunkWord == [ppn |-> 1, p |-> TRUE]
=============================================================================

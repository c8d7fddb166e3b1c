-------------------------- MODULE PageMapRefinement --------------------------
(***************************************************************************)
(* The page functions of kern/pmap.c implement AddressSpace.  A call takes *)
(* effect at one of its steps: page_remove, and a page_insert that         *)
(* replaces a mapping, when page_decref uncounts the old page; any other   *)
(* page_insert when it counts the new one.  pgdir_walk publishes a table   *)
(* when page_insert starts.                                                *)
(***************************************************************************)
EXTENDS PageMap

(* The call in progress has taken effect and its last store is to come.    *)
Decided == pc \in {"clear", "invlpg", "write"}

vmapBar ==
  [va \in VA |-> IF Decided /\ va = op.va THEN op.new
                 ELSE IF RawTable(va) THEN Zero ELSE check_va2pa(va)]

(* A page counted for a replacement that has not happened yet is still the *)
(* client's if nothing but that count refers to it.                        *)
heldBar ==
  held \cup {p \in Page : pc = "decref" /\ PendingRef(p) = 1 /\ pp_ref[p] = 1}

availBar == {p \in Page : OnList(p)}

AS == INSTANCE AddressSpace WITH
        Usable <- FirstFree .. NPages - 1,
        avail  <- availBar,
        held   <- heldBar,
        tables <- pgdir,
        vmap   <- vmapBar

(* page_alloc, page_free, page_insert and page_remove, with their links,   *)
(* reference counts and intermediate stores, do what AddressSpace says: a  *)
(* page is back in the pool as soon as, and only when, its last mapping is *)
(* gone, and every other translation is left alone.                        *)
ImplementsAddressSpace == AS!ASSpec
=============================================================================

--------------------------------- MODULE Ept ---------------------------------
(***************************************************************************)
(* The guest's extended page table, hvm/vt_ept.c: ept_setup allocates the  *)
(* root, ept_create_table visits every guest frame below 4 GB a table at a *)
(* time, and ept_update_identity_table goes down from the root, one call   *)
(* per level.  The bodies that allocate a table and fill a last-level one  *)
(* are exercise 3: as committed they panic.  Here they do what their       *)
(* comments ask, or panic.                                                 *)
(***************************************************************************)
EXTENDS Integers, Sequences

CONSTANTS
  EPT_EACHTABLE_ENTRIES,  \* entries of a table: 1 << EPT_TABLE_ORDER
  EPT_DEFAULT_WL,   \* level of the root; the last level is 0
  LastGfn,          \* GFN(0xFFFFFFFF)
  LowFrames,        \* frames below 0x00100000
  JosFrames,        \* frames of JOS memory above it
  FreePages         \* how many pages may be free when the kernel is up

(* The frames below an entry of level l: 1 << (l * EPT_TABLE_ORDER).        *)
Frames[l \in 0 .. EPT_DEFAULT_WL + 1] ==
  IF l = 0 THEN 1 ELSE EPT_EACHTABLE_ENTRIES * Frames[l - 1]

(* GFN(0xFFFFFFFF) is below what the levels reach, and no multiple of 512: *)
(* the loop that stops at it has visited its table.                        *)
ASSUME EptAssumption ==
  /\ EPT_EACHTABLE_ENTRIES \in Nat \ {0, 1} /\ EPT_DEFAULT_WL \in Nat
  /\ LastGfn \in Nat /\ LowFrames \in Nat /\ JosFrames \in Nat
  /\ LastGfn < Frames[EPT_DEFAULT_WL + 1] /\ LastGfn % EPT_EACHTABLE_ENTRIES # 0
  /\ FreePages \subseteq Nat

VARIABLES
  ept,       \* the tables allocated so far; a table's address is its index
  asr,       \* g_ept_ctl.asr: the root
  gfn,       \* ept_create_table's loop variable
  level, pt, \* arguments of the call of ept_update_identity_table
  nfree,     \* pages on the free list
  pc

eptVars == <<ept, asr, gfn, level, pt>>

Slot     == 0 .. EPT_EACHTABLE_ENTRIES - 1
Absent   == [p |-> FALSE, mfn |-> 0]
Epte(n)  == [p |-> TRUE, mfn |-> n]
NewTable == [i \in Slot |-> Absent]

(* Where the picture in ept_update_identity_table puts a guest frame: above *)
(* JOS memory, unless it is in the first megabyte.                         *)
Placed(g) == IF g < LowFrames THEN g ELSE g + JosFrames

-----------------------------------------------------------------------------
(* Seeded fault: the mask drops the bits of this level too.                *)
offset_masked(g, l) == (g % Frames[l]) \div Frames[l]

(* The slot of frame g in a table of level l: the mask keeps the bits of   *)
(* this level and those below it.                                          *)
offset(g, l) == (g % Frames[l + 1]) \div Frames[l]

Entry == ept[pt][offset(gfn, level)]

(* ept_setup up to its loop; the assertion on page_alloc's result.         *)
ept_setup ==
  /\ pc = "ept_setup"
  /\ \/ /\ nfree = 0 /\ pc' = "panic" /\ UNCHANGED <<eptVars, nfree>>
     \/ /\ nfree > 0 /\ nfree' = nfree - 1
        /\ ept' = Append(ept, NewTable)
        /\ asr' = Len(ept) + 1 /\ pt' = asr'
        /\ gfn' = 0 /\ level' = EPT_DEFAULT_WL
        /\ pc' = "ept_update"

(* The recursive call through an entry that is set.                        *)
ept_descend ==
  /\ pc = "ept_update" /\ level > 0 /\ Entry # Absent
  /\ pt' = Entry.mfn /\ level' = level - 1
  /\ UNCHANGED <<ept, asr, gfn, nfree, pc>>

(* Exercise 3: "alloc page as sub page table and set the entry".           *)
ept_new_table ==
  /\ pc = "ept_update" /\ level > 0 /\ Entry = Absent /\ nfree > 0
  /\ nfree' = nfree - 1
  /\ LET sub == Len(ept) + 1 IN
     /\ ept' = Append([ept EXCEPT ![pt][offset(gfn, level)] = Epte(sub)], NewTable)
     /\ pt' = sub
  /\ level' = level - 1
  /\ UNCHANGED <<asr, gfn, pc>>

(* Exercise 3: "set the mapping and attributes for all entries".           *)
ept_fill(t, g) == [ept EXCEPT ![t] = [i \in Slot |-> Epte(Placed(g + i))]]

(* The last level, and ept_create_table's next turn.                       *)
ept_last_level ==
  /\ pc = "ept_update" /\ level = 0
  /\ ept' = ept_fill(pt, gfn)
  /\ gfn' = gfn + EPT_EACHTABLE_ENTRIES
  /\ level' = EPT_DEFAULT_WL /\ pt' = asr
  /\ pc' = IF gfn' < LastGfn THEN "ept_update" ELSE "vmcs_setup"
  /\ UNCHANGED <<asr, nfree>>

(* As committed, and when page_alloc fails.                                *)
ept_not_implemented ==
  /\ pc = "ept_update" /\ (level = 0 \/ Entry = Absent)
  /\ pc' = "panic"
  /\ UNCHANGED <<eptVars, nfree>>

EptStep ==
  ept_setup \/ ept_descend \/ ept_new_table \/ ept_last_level \/ ept_not_implemented

(* The processor's walk from table root for guest frame g: one table per   *)
(* level, and an EPT violation (Absent) at an entry that is not present.   *)
Lookup(t, i) == IF t \in DOMAIN ept THEN ept[t][i] ELSE Absent
Index(g, l)  == (g \div Frames[l]) % EPT_EACHTABLE_ENTRIES
Visited(root, g) ==
  LET table[n \in 0 .. EPT_DEFAULT_WL] ==
        IF n = 0 THEN root
        ELSE Lookup(table[n - 1], Index(g, EPT_DEFAULT_WL + 1 - n)).mfn
  IN  table
Walk(root, g) == Lookup(Visited(root, g)[EPT_DEFAULT_WL], Index(g, 0))
=============================================================================

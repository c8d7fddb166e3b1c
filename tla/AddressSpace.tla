----------------------------- MODULE AddressSpace -----------------------------
(***************************************************************************)
(* What the comments of kern/pmap.c promise a client of the page           *)
(* functions: an address space whose translations change one at a time,    *)
(* and a pool of pages from which a page is missing exactly while somebody *)
(* uses it.  There are no reference counts, list links, page table words   *)
(* or TLB here: a page that is replaced or unmapped is available again iff *)
(* no other address maps it.                                               *)
(***************************************************************************)
EXTENDS Integers

CONSTANTS
  Usable,     \* the pages page_init leaves to the allocator
  PDX, PTX,   \* the indices of an address
  Perms,      \* permission words of a mapping
  NULL,       \* no page table
  Zero        \* no translation

VARIABLES
  avail,      \* pages that can be allocated
  held,       \* pages given to a client and not mapped
  tables,     \* the page that holds the table of each directory slot, or NULL
  vmap        \* the translation of each address, or Zero

asVars == <<avail, held, tables, vmap>>

ASInit ==
  /\ avail = Usable
  /\ held = {}
  /\ tables = [d \in PDX |-> NULL]
  /\ vmap = [va \in PDX \X PTX |-> Zero]

MappedIn(m) == {m[va].ppn : va \in {a \in DOMAIN m : m[a] # Zero}}

Alloc ==
  \E p \in avail :
    /\ avail' = avail \ {p}
    /\ held' = held \cup {p}
    /\ UNCHANGED <<tables, vmap>>

Free ==
  \E p \in held :
    /\ held' = held \ {p}
    /\ avail' = avail \cup {p}
    /\ UNCHANGED <<tables, vmap>>

MakeTable ==
  \E d \in PDX, p \in avail :
    /\ tables[d] = NULL
    /\ tables' = [tables EXCEPT ![d] = p]
    /\ avail' = avail \ {p}
    /\ UNCHANGED <<held, vmap>>

(* The translation of va becomes w; what va mapped before goes back to the *)
(* pool if that was its last mapping.                                      *)
Retarget(va, w) ==
  /\ vmap' = [vmap EXCEPT ![va] = w]
  /\ avail' = avail \cup (MappedIn(vmap) \ MappedIn(vmap'))

Map ==
  \E va \in PDX \X PTX, p \in held \cup MappedIn(vmap), perm \in Perms :
    /\ tables[va[1]] # NULL
    /\ Retarget(va, [ppn |-> p, flags |-> perm])
    /\ held' = held \ {p}
    /\ UNCHANGED tables

Unmap ==
  \E va \in PDX \X PTX :
    /\ vmap[va] # Zero
    /\ Retarget(va, Zero)
    /\ UNCHANGED <<held, tables>>

ASNext == Alloc \/ Free \/ MakeTable \/ Map \/ Unmap

ASSpec == ASInit /\ [][ASNext]_asVars
=============================================================================

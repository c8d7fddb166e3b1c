------------------------------ MODULE StabSearch ------------------------------
(***************************************************************************)
(* stab_binsearch of kern/kdebug.c: the search of a table of debugging     *)
(* entries (stabs) for the one of a given type that contains an address.   *)
(* Entries of other types lie between those of the type searched for, so   *)
(* the search steps down from the middle to one that matches.  The state   *)
(* is the function's locals, one step per turn of its loop.                *)
(***************************************************************************)
EXTENDS Integers, Sequences, FiniteSets, FiniteSetsExt, SequencesExt

VARIABLES
  stabs,        \* the table: [type, value, ...], entry 0 first
  type, query,  \* type and addr as passed
  from, to,     \* *region_left and *region_right as passed
  left, right,  \* *region_left and *region_right
  l, r, addr, any_matches,
  search_pc     \* "idle", "loop" or "done"

in  == <<stabs, type, from, to, query>>
searchVars == <<type, from, to, query, left, right, l, r, addr, any_matches, search_pc>>

NStabs     == Len(stabs)
Stab(k)    == stabs[k + 1]
value      == [k \in 0 .. NStabs - 1 |-> Stab(k).value]
Matches(k) == Stab(k).type = type

SearchInit ==
  /\ type = "SO" /\ query = 0 /\ from = 0 /\ to = 0 /\ left = 0 /\ right = 0
  /\ l = 0 /\ r = 0 /\ addr = 0 /\ any_matches = FALSE
  /\ search_pc = "idle"

(* A call for entries of type t in [a, b] and address q.                   *)
stab_binsearch(t, a, b, q) ==
  /\ type' = t /\ from' = a /\ to' = b /\ query' = q
  /\ left' = a /\ right' = b
  /\ l' = a /\ r' = b /\ addr' = q /\ any_matches' = FALSE
  /\ search_pc' = "loop"

(* The last matching entry from true_m down to l, or l - 1.                *)
step_down(true_m) == Max({l - 1} \cup {k \in l .. true_m : Matches(k)})

(* Seeded fault: an exact match is found again and again.                  *)
search_forever(m, true_m) ==
  IF value[m] < addr THEN /\ left' = m /\ l' = true_m + 1
                          /\ UNCHANGED <<right, r, addr>>
  ELSE IF value[m] > addr THEN /\ right' = m - 1 /\ r' = m - 1
                               /\ UNCHANGED <<left, l, addr>>
  ELSE left' = m /\ l' = m /\ UNCHANGED <<right, r, addr>>

(* The three-way comparison with the matching entry m.                     *)
search(m, true_m) ==
  IF value[m] < addr THEN /\ left' = m /\ l' = true_m + 1
                          /\ UNCHANGED <<right, r, addr>>
  ELSE IF value[m] > addr THEN /\ right' = m - 1 /\ r' = m - 1
                               /\ UNCHANGED <<left, l, addr>>
  ELSE left' = m /\ l' = m /\ addr' = addr + 1 /\ UNCHANGED <<right, r>>

loop ==
  /\ search_pc = "loop" /\ l <= r
  /\ LET true_m == (l + r) \div 2
         m      == step_down(true_m)
     IN  IF m < l
         THEN l' = true_m + 1 /\ UNCHANGED <<left, right, r, addr, any_matches>>
         ELSE any_matches' = TRUE /\ search(m, true_m)
  /\ UNCHANGED <<in, search_pc>>

(* After the loop: the matching entry nearest to region_right, if any was  *)
(* seen.                                                                   *)
finish ==
  /\ search_pc = "loop" /\ l > r
  /\ search_pc' = "done"
  /\ IF any_matches
     THEN /\ left' = IF right <= left THEN right
                     ELSE Max({left} \cup {k \in left .. right : Matches(k)})
          /\ UNCHANGED right
     ELSE right' = left - 1 /\ UNCHANGED left
  /\ UNCHANGED <<in, l, r, addr, any_matches>>

SearchStep == loop \/ finish
=============================================================================

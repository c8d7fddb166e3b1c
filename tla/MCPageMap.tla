------------------------------ MODULE MCPageMap ------------------------------
(***************************************************************************)
(* Instance of PageMap for TLC.  The pages below FirstFree are reserved;   *)
(* the word an uninitialised page is full of looks like a present entry    *)
(* that maps page 1.                                                       *)
(***************************************************************************)
EXTENDS PageMapRefinement

MCJunk == [ppn |-> 1, flags |-> CHOOSE f \in Perms : TRUE]
=============================================================================

----------------------------- MODULE MCPageCheck -----------------------------
(***************************************************************************)
(* Instance of PageCheck for TLC: five free pages, two directory slots,    *)
(* three entries per table, one of them at an address page_check leaves    *)
(* alone.                                                                  *)
(***************************************************************************)
EXTENDS PageCheck

MCJunk   == [ppn |-> 1, flags |-> 1]
MCZero   == <<0, 0>>
MCOne    == <<0, 1>>
MCPtsize == <<1, 0>>
=============================================================================

-------------------------------- MODULE MCTrap --------------------------------
(* Exceptions with and without an error code, and one without a gate.      *)
EXTENDS Trap
MCFaults == {<<T_DIVIDE, 0>>, <<14, 4>>}
=============================================================================

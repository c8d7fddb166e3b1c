---------------------------- MODULE MCLineInput ----------------------------
(* The command line on a small display; the command `exit' is called "a".  *)
EXTENDS LineInput

MCExitName == <<"a">>
=============================================================================

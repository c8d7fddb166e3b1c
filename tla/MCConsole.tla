------------------------------ MODULE MCConsole ------------------------------
(***************************************************************************)
(* The display, the keyboard decoder and the input ring, one of them at a  *)
(* time.  They share no variable, and no property speaks of two of them,   *)
(* so all interleavings of the three would show no more than each by       *)
(* itself; `part' says which one a behaviour is about, the others stay as  *)
(* cons_init left them.                                                    *)
(***************************************************************************)
EXTENDS Cga, Keyboard, ConsoleInput

VARIABLE part

ringVars == vars
consoleVars == <<part, cgaVars, kbdVars, ringVars>>

(* A keyboard with both Ctrl keys, one letter, Del on the E0 cluster and   *)
(* on the keypad, and the keys that change what they mean.                 *)
MCKey == {[e0 |-> FALSE, code |-> 42], [e0 |-> FALSE, code |-> 29],
          [e0 |-> TRUE,  code |-> 29], [e0 |-> FALSE, code |-> 56],
          [e0 |-> FALSE, code |-> 58], [e0 |-> FALSE, code |-> 30],
          [e0 |-> TRUE,  code |-> 83], [e0 |-> FALSE, code |-> 83]}

(* What the BIOS left on the screen matters to the display only, and the   *)
(* serial port to the ring only.                                           *)
ConsoleInit ==
  /\ part \in {"display", "keyboard", "ring"}
  /\ cga_init /\ KbdInit /\ Init
  /\ part # "display" => crt_buf = [c \in Cell |-> Space] /\ crt_pos = 0
  /\ part # "ring" => serial_exists

ConsoleNext ==
  \/ part = "display"  /\ CgaNext /\ UNCHANGED <<part, kbdVars, ringVars>>
  \/ part = "keyboard" /\ KbdNext /\ UNCHANGED <<part, cgaVars, ringVars>>
  \/ part = "ring"     /\ Next    /\ UNCHANGED <<part, cgaVars, kbdVars>>

ConsoleSpec ==
  /\ ConsoleInit /\ [][ConsoleNext]_consoleVars
  /\ WF_consoleVars(KernelStep /\ UNCHANGED <<part, cgaVars, kbdVars>>)
=============================================================================

------------------------------ MODULE Keyboard ------------------------------
(***************************************************************************)
(* The keyboard decoder of kern/console.c, kbd_proc_data, driven by a      *)
(* keyboard whose keys are pressed, repeated and released at any time.     *)
(* The controller queues scan codes; kbd_proc_data takes one per call and  *)
(* keeps the modifiers it has seen in its static `shift'.                  *)
(***************************************************************************)
EXTENDS Integers, Sequences

CONSTANTS
  Key,          \* the keys of this keyboard, a set of [e0 : BOOLEAN, code : 1 .. 127]
  KbdDepth      \* bound: scan codes the controller queues

Modifier == {"SHIFT", "CTL", "ALT"}
Toggle   == {"CAPSLOCK", "NUMLOCK", "SCROLLLOCK"}
Flags    == Modifier \cup Toggle \cup {"E0ESC"}
E0       == 224
NO       == "NO"                \* the character 0

ASSUME KeyAssumption ==     \* the break code of 96 would be E0 itself
  Key \subseteq [e0 : BOOLEAN, code : (1 .. 127) \ {96}] /\ KbdDepth \in Nat

VARIABLES
  queue,        \* scan codes waiting in the controller, oldest first
  shift,        \* kbd_proc_data's static, as a set of flags
  down,         \* keys physically down
  caps,         \* history: Caps Lock, by the times its key was pressed
  typed,        \* history: what the keys pressed and not yet decoded stand for
  out,          \* what the last kbd_proc_data returned, and whether it reset the machine
  running       \* FALSE once port 0x92 has been told to reset

kbdVars == <<queue, shift, down, caps, typed, out, running>>

-----------------------------------------------------------------------------
(* The tables, for the scan codes the models use; a code with 0x80 set is  *)
(* one that came after 0xE0.                                               *)

shiftcode(data) ==
  CASE data \in {29, 157} -> {"CTL"}          \* 0x1D, 0x9D
    [] data \in {42, 54}  -> {"SHIFT"}        \* 0x2A, 0x36
    [] data \in {56, 184} -> {"ALT"}          \* 0x38, 0xB8
    [] OTHER              -> {}

togglecode(data) ==
  CASE data = 58 -> {"CAPSLOCK"} [] data = 69 -> {"NUMLOCK"}
    [] data = 70 -> {"SCROLLLOCK"} [] OTHER -> {}

normalmap(data) ==
  CASE data = 30 -> "a" [] data = 2 -> "1" [] data = 83 -> "." [] data = 211 -> "KEY_DEL"
    [] data \in {28, 156} -> "NL" [] OTHER -> NO

shiftmap(data) ==
  CASE data = 30 -> "A" [] data = 2 -> "!" [] data = 83 -> "." [] data = 211 -> "KEY_DEL"
    [] data \in {28, 156} -> "NL" [] OTHER -> NO

ctlmap(data) ==
  CASE data = 30 -> "C-A" [] data = 28 -> "CR" [] data = 211 -> "KEY_DEL" [] OTHER -> NO

(* charcode[shift & (CTL | SHIFT)][data].                                  *)
charcode(sh, data) ==
  IF "CTL" \in sh THEN ctlmap(data)
  ELSE IF "SHIFT" \in sh THEN shiftmap(data) ELSE normalmap(data)

swap_case(c) == CASE c = "a" -> "A" [] c = "A" -> "a" [] OTHER -> c

Result(sh, c, reset) == [shift |-> sh, c |-> c, reset |-> reset]

-----------------------------------------------------------------------------
(* Seeded fault: releasing an E0 key leaves the escape pending.            *)
key_released_sticky(sh, data) ==
  LET code == IF "E0ESC" \in sh THEN data ELSE data % 128
  IN  Result(sh \ shiftcode(code), NO, FALSE)

(* A key went up: the code stands for its E0 variant only after 0xE0.      *)
key_released(sh, data) ==
  LET code == IF "E0ESC" \in sh THEN data ELSE data % 128
  IN  Result(sh \ (shiftcode(code) \cup {"E0ESC"}), NO, FALSE)

(* Seeded fault: an E0 key is taken for the key with the same code.        *)
key_pressed_plain(sh, data) ==
  LET held == (sh \ {"E0ESC"}) \cup shiftcode(data)
      flip == togglecode(data)
      now  == (held \ flip) \cup (flip \ held)
      c    == IF "CAPSLOCK" \in now THEN swap_case(charcode(now, data))
              ELSE charcode(now, data)
  IN  Result(now, c, {"CTL", "ALT"} \subseteq now /\ c = "KEY_DEL")

(* A key went down: modifiers are added, toggles flipped, the character    *)
(* looked up; Ctrl-Alt-Del resets the machine.                             *)
key_pressed(sh, data) ==
  LET code == IF "E0ESC" \in sh THEN data + 128 ELSE data
      held == (sh \ {"E0ESC"}) \cup shiftcode(code)
      flip == togglecode(code)
      now  == (held \ flip) \cup (flip \ held)
      c    == IF "CAPSLOCK" \in now THEN swap_case(charcode(now, code))
              ELSE charcode(now, code)
  IN  Result(now, c, {"CTL", "ALT"} \subseteq now /\ c = "KEY_DEL")

decode(sh, data) ==
  IF data = E0 THEN Result(sh \cup {"E0ESC"}, NO, FALSE)
  ELSE IF data >= 128 THEN key_released(sh, data) ELSE key_pressed(sh, data)

(* kbd_proc_data with a scan code waiting.                                 *)
kbd_proc_data ==
  /\ running /\ queue # <<>>
  /\ LET r == decode(shift, Head(queue)) IN
       /\ shift' = r.shift
       /\ out' = [c |-> r.c, reset |-> r.reset]
       /\ running' = ~ r.reset
       /\ typed' = IF r.c # NO /\ typed # <<>> THEN Tail(typed) ELSE typed
  /\ queue' = Tail(queue)
  /\ UNCHANGED <<down, caps>>

-----------------------------------------------------------------------------
(* The keyboard (external).                                                *)

codes(k, up) ==
  (IF k.e0 THEN <<E0>> ELSE <<>>) \o <<IF up THEN k.code + 128 ELSE k.code>>

table_code(k)  == IF k.e0 THEN k.code + 128 ELSE k.code
modifier_of(k) == shiftcode(table_code(k))
CapsKey        == [e0 |-> FALSE, code |-> 58]
HeldModifiers  == UNION {modifier_of(k) : k \in down}

(* What a user means by a key: Ctrl wins over Shift, Caps Lock turns Shift *)
(* around for letters only, Ctrl-Alt-Del resets.                           *)
meaning(k, mods, lock) ==
  LET ctl == "CTL" \in mods
      up  == ("SHIFT" \in mods) # lock
      c   == CASE k.code = 30 /\ ~ k.e0 -> IF ctl THEN "C-A" ELSE IF up THEN "A" ELSE "a"
               [] k.code = 2 /\ ~ k.e0  -> IF ctl THEN NO
                                           ELSE IF "SHIFT" \in mods THEN "!" ELSE "1"
               [] k.code = 28 /\ ~ k.e0 -> IF ctl THEN "CR" ELSE "NL"
               [] k.code = 28 /\ k.e0   -> IF ctl THEN NO ELSE "NL"     \* on the keypad
               [] k.code = 83 /\ ~ k.e0 -> IF ctl THEN NO ELSE "."
               [] k.code = 83 /\ k.e0   -> "KEY_DEL"
               [] OTHER -> NO
  IN  [c |-> c, reset |-> c = "KEY_DEL" /\ {"CTL", "ALT"} \subseteq mods]

(* A make code, the first or a repeated one.  Nobody holds two keys of one *)
(* modifier: kbd_proc_data keeps one flag for both.                        *)
press(k) ==
  /\ running
  /\ \A j \in down \ {k} : modifier_of(j) \cap modifier_of(k) = {}
  /\ Len(queue) + Len(codes(k, FALSE)) <= KbdDepth
  /\ queue' = queue \o codes(k, FALSE)
  /\ down' = down \cup {k}
  /\ caps' = (caps # (k = CapsKey))
  /\ LET m == meaning(k, HeldModifiers, caps) IN
       typed' = IF m.c = NO THEN typed ELSE Append(typed, m)
  /\ UNCHANGED <<shift, out, running>>

release(k) ==
  /\ running
  /\ Len(queue) + Len(codes(k, TRUE)) <= KbdDepth
  /\ queue' = queue \o codes(k, TRUE)
  /\ down' = down \ {k}
  /\ UNCHANGED <<shift, caps, typed, out, running>>

(* The machine starts again with nothing pressed.                          *)
reset ==
  /\ ~ running
  /\ queue' = <<>> /\ shift' = {} /\ down' = {} /\ caps' = FALSE /\ typed' = <<>>
  /\ out' = [c |-> NO, reset |-> FALSE] /\ running' = TRUE

KbdInit ==
  /\ queue = <<>> /\ shift = {} /\ down = {} /\ caps = FALSE /\ typed = <<>>
  /\ out = [c |-> NO, reset |-> FALSE] /\ running = TRUE

KbdNext ==
  \/ kbd_proc_data
  \/ \E k \in Key : press(k)
  \/ \E k \in down : release(k)
  \/ reset

KbdSpec == KbdInit /\ [][KbdNext]_kbdVars

-----------------------------------------------------------------------------
(* kbd_proc_data returns exactly the characters the keys stood for when    *)
(* they were pressed, in their order, and resets the machine for           *)
(* Ctrl-Alt-Del and for nothing else, however far decoding lags behind the *)
(* fingers.                                                                *)
CharacterAsTyped ==
  [][kbd_proc_data /\ out'.c # NO => typed # <<>> /\ out' = Head(typed)]_kbdVars

(* Once every scan code is decoded, the modifiers kbd_proc_data remembers  *)
(* are those of the keys held down, no escape is pending and no typed      *)
(* character is missing: nothing sticks and nothing is dropped.            *)
ModifiersAsHeld ==
  running /\ queue = <<>> =>
    shift \cap (Modifier \cup {"E0ESC"}) = HeldModifiers /\ typed = <<>>
=============================================================================

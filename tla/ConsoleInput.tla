---------------------------- MODULE ConsoleInput ----------------------------
(***************************************************************************)
(* The input half of kern/console.c: cons_intr fills the ring `cons' from  *)
(* the serial port and the keyboard, cons_getc takes from it, getchar      *)
(* spins on cons_getc.  Interrupts are off, so the ring is only touched    *)
(* inside cons_getc; the devices deliver between any two of its steps.     *)
(* The keyboard is a queue of what kbd_proc_data will return for each scan *)
(* code (module Keyboard says which).                                      *)
(***************************************************************************)
EXTENDS Integers, Sequences

CONSTANTS
  CONSBUFSIZE,
  Char,         \* characters, from either device
  NUL,          \* 0: no character (a shift key, a release, a NUL byte)
  QueueDepth,   \* bound: scan codes the keyboard controller queues
  MaxBurst      \* bound: what the devices deliver during one cons_getc

ASSUME RingAssumption ==
  CONSBUFSIZE \in Nat \ {0, 1} /\ NUL \notin Char /\ MaxBurst \in Nat \ {0}

VARIABLES
  serial_exists,
  rx,           \* the byte in the UART's receive buffer; the FIFO is off
  kbd,          \* what waits in the keyboard controller
  buf, rpos, wpos,
  pc,           \* where cons_getc is, or "idle" when nobody waits in getchar
  got,          \* what cons_getc returned last
  burst,        \* deliveries during the current cons_getc
  unread        \* history: characters put in the ring and not yet returned

vars == <<serial_exists, rx, kbd, buf, rpos, wpos, pc, got, burst, unread>>

None == <<>>                    \* an empty receive buffer; otherwise <<byte>>
Slot == 0 .. CONSBUFSIZE - 1

(* serial_init: the port does not exist if its status reads 0xFF.          *)
Init ==
  /\ serial_exists \in BOOLEAN
  /\ rx = None /\ kbd = <<>>
  /\ buf = [i \in Slot |-> NUL] /\ rpos = 0 /\ wpos = 0
  /\ pc = "idle" /\ got = NUL /\ burst = 0 /\ unread = <<>>

-----------------------------------------------------------------------------
(* The devices (external).  Waiting counts what could still become a       *)
(* character in the ring.                                                  *)

Waiting == Len(rx) + Len(kbd) + Len(unread)

serial_receive(b) ==            \* overruns a byte nobody has read
  /\ serial_exists /\ burst < MaxBurst
  /\ rx' = <<b>> /\ burst' = burst + 1
  /\ UNCHANGED <<serial_exists, kbd, buf, rpos, wpos, pc, got, unread>>

kbd_receive(c) ==
  /\ Len(kbd) < QueueDepth /\ burst < MaxBurst
  /\ kbd' = Append(kbd, c) /\ burst' = burst + 1
  /\ UNCHANGED <<serial_exists, rx, buf, rpos, wpos, pc, got, unread>>

-----------------------------------------------------------------------------
(* Seeded fault: a 0 from the device is stored like a character.           *)
cons_put_nul(c) ==
  /\ buf' = [buf EXCEPT ![wpos] = c]
  /\ wpos' = IF wpos + 1 = CONSBUFSIZE THEN 0 ELSE wpos + 1
  /\ unread' = IF c = NUL THEN unread ELSE Append(unread, c)

(* The body of cons_intr's loop for one value the device returned.         *)
cons_put(c) ==
  IF c = NUL THEN UNCHANGED <<buf, wpos, unread>>
  ELSE /\ buf' = [buf EXCEPT ![wpos] = c]
       /\ wpos' = IF wpos + 1 = CONSBUFSIZE THEN 0 ELSE wpos + 1
       /\ unread' = Append(unread, c)

(* getchar calls cons_getc.                                                *)
getchar ==
  /\ pc = "idle"
  /\ pc' = "serial" /\ burst' = 0
  /\ UNCHANGED <<serial_exists, rx, kbd, buf, rpos, wpos, got, unread>>

(* serial_intr: one turn of cons_intr(serial_proc_data), or its end.       *)
serial_intr ==
  /\ pc = "serial"
  /\ \/ /\ serial_exists /\ rx # None
        /\ cons_put(rx[1])
        /\ rx' = None
        /\ pc' = pc
     \/ /\ ~ serial_exists \/ rx = None
        /\ pc' = "kbd"
        /\ UNCHANGED <<rx, buf, wpos, unread>>
  /\ UNCHANGED <<serial_exists, kbd, rpos, got, burst>>

(* kbd_intr: one turn of cons_intr(kbd_proc_data), or its end.             *)
kbd_intr ==
  /\ pc = "kbd"
  /\ \/ /\ kbd # <<>>
        /\ cons_put(Head(kbd))
        /\ kbd' = Tail(kbd)
        /\ pc' = pc
     \/ /\ kbd = <<>>
        /\ pc' = "grab"
        /\ UNCHANGED <<kbd, buf, wpos, unread>>
  /\ UNCHANGED <<serial_exists, rx, rpos, got, burst>>

(* Seeded fault: getchar gives up when cons_getc returns 0.                *)
cons_getc_give_up ==
  /\ pc = "grab"
  /\ \/ /\ rpos # wpos
        /\ got' = buf[rpos]
        /\ rpos' = IF rpos + 1 = CONSBUFSIZE THEN 0 ELSE rpos + 1
        /\ unread' = IF unread = <<>> THEN <<>> ELSE Tail(unread)
     \/ /\ rpos = wpos
        /\ got' = NUL
        /\ UNCHANGED <<rpos, unread>>
  /\ pc' = "idle" /\ burst' = burst
  /\ UNCHANGED <<serial_exists, rx, kbd, buf, wpos>>

(* Seeded fault: the position advances before the character is taken.      *)
cons_getc_preincrement ==
  /\ pc = "grab"
  /\ \/ /\ rpos # wpos
        /\ rpos' = IF rpos + 1 = CONSBUFSIZE THEN 0 ELSE rpos + 1
        /\ got' = buf[rpos']
        /\ unread' = IF unread = <<>> THEN <<>> ELSE Tail(unread)
        /\ pc' = "idle" /\ burst' = burst
     \/ /\ rpos = wpos
        /\ got' = NUL
        /\ pc' = "serial" /\ burst' = 0
        /\ UNCHANGED <<rpos, unread>>
  /\ UNCHANGED <<serial_exists, rx, kbd, buf, wpos>>

(* The end of cons_getc: a character returns to getchar's caller, 0 makes  *)
(* getchar call again.                                                     *)
cons_getc ==
  /\ pc = "grab"
  /\ \/ /\ rpos # wpos
        /\ got' = buf[rpos]
        /\ rpos' = IF rpos + 1 = CONSBUFSIZE THEN 0 ELSE rpos + 1
        /\ unread' = IF unread = <<>> THEN <<>> ELSE Tail(unread)
        /\ pc' = "idle" /\ burst' = burst
     \/ /\ rpos = wpos
        /\ got' = NUL
        /\ pc' = "serial" /\ burst' = 0
        /\ UNCHANGED <<rpos, unread>>
  /\ UNCHANGED <<serial_exists, rx, kbd, buf, wpos>>

KernelStep == serial_intr \/ kbd_intr \/ cons_getc

(* The devices leave one slot of the ring free.                            *)
DeviceStep ==
  /\ Waiting < CONSBUFSIZE - 1
  /\ \/ \E b \in Char \cup {NUL} : serial_receive(b)
     \/ \E c \in Char \cup {NUL} : kbd_receive(c)

Next == getchar \/ KernelStep \/ DeviceStep

(* Nothing preempts the kernel and no step of it waits; deliveries are     *)
(* slower than polling (MaxBurst).                                         *)
Spec == Init /\ [][Next]_vars /\ WF_vars(KernelStep)

-----------------------------------------------------------------------------
(* cons_getc: "return the next input character from the console, or 0 if   *)
(* none waiting": the oldest unread character of both devices, and 0 only  *)
(* when there is none.                                                     *)
NextCharacterReturned ==
  [][cons_getc => got' = IF unread = <<>> THEN NUL ELSE Head(unread)]_vars

(* The ring holds exactly the unread characters, oldest at rpos, however   *)
(* reading and writing have wrapped around it.                             *)
RingHoldsUnread ==
  /\ wpos = (rpos + Len(unread)) % CONSBUFSIZE
  /\ \A i \in 1 .. Len(unread) : buf[(rpos + i - 1) % CONSBUFSIZE] = unread[i]

(* Somebody waiting in getchar gets a character if one is waiting in the   *)
(* ring or in a device that polling reaches: no drain loop keeps it.       *)
GetcharReturns ==
  (pc # "idle" /\ (unread # <<>> \/ \E i \in DOMAIN kbd : kbd[i] # NUL))
    ~> (pc = "idle" /\ got # NUL)
=============================================================================

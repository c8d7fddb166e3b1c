-------------------------- MODULE ConsoleInputProofs --------------------------
(***************************************************************************)
(* Proofs about ConsoleInput, for every size of the ring, every set of     *)
(* characters and every depth of the keyboard's queue.                     *)
(***************************************************************************)
EXTENDS ConsoleInput, SequenceTheorems, TLAPS

Value == Char \cup {NUL}

RingTypeOK ==
  /\ serial_exists \in BOOLEAN
  /\ rx \in Seq(Value) /\ Len(rx) <= 1
  /\ kbd \in Seq(Value)
  /\ buf \in [Slot -> Value] /\ rpos \in Slot /\ wpos \in Slot
  /\ unread \in Seq(Char)

(* What is in the devices and in the ring fits in the ring with one slot   *)
(* to spare: without it wpos could reach rpos, and cons_getc would take a  *)
(* full ring for an empty one.                                             *)
OneSlotFree == Len(rx) + Len(kbd) + Len(unread) <= CONSBUFSIZE - 1

RingInv == RingTypeOK /\ OneSlotFree /\ RingHoldsUnread

-----------------------------------------------------------------------------
(* The slot n after slot r, and one step around the ring as the code's     *)
(* comparison does it.                                                     *)
at(r, n) == (r + n) % CONSBUFSIZE
Step(i)  == IF i + 1 = CONSBUFSIZE THEN 0 ELSE i + 1

(* The remainder is what one subtraction gives.                            *)
LEMMA SlotAt ==
  ASSUME NEW r \in Slot, NEW n \in 0 .. CONSBUFSIZE - 1
  PROVE  at(r, n) = IF r + n < CONSBUFSIZE THEN r + n ELSE r + n - CONSBUFSIZE
  BY RingAssumption, SMTT(30) DEF Slot, at

(* Slots less than the size of the ring apart are different, and adding    *)
(* one is one step around it, at either end.                               *)
LEMMA RingArithmetic ==
  ASSUME NEW r \in Slot
  PROVE  /\ Step(r) \in Slot
         /\ \A n \in 0 .. CONSBUFSIZE - 1 : at(r, n) \in Slot
         /\ \A n \in 0 .. CONSBUFSIZE - 2 : Step(at(r, n)) = at(r, n + 1)
         /\ \A n \in 0 .. CONSBUFSIZE - 2 : at(Step(r), n) = at(r, n + 1)
         /\ \A n, m \in 0 .. CONSBUFSIZE - 1 : n # m => at(r, n) # at(r, m)
<1>1. Step(r) \in Slot
  BY RingAssumption DEF Step, Slot
<1>2. \A n \in 0 .. CONSBUFSIZE - 1 : at(r, n) \in Slot
  BY SlotAt, RingAssumption DEF Slot
<1>3. ASSUME NEW n \in 0 .. CONSBUFSIZE - 2 PROVE Step(at(r, n)) = at(r, n + 1)
  <2>1. n \in 0 .. CONSBUFSIZE - 1 /\ n + 1 \in 0 .. CONSBUFSIZE - 1
    BY RingAssumption
  <2>2. /\ at(r, n) = IF r + n < CONSBUFSIZE THEN r + n ELSE r + n - CONSBUFSIZE
        /\ at(r, n + 1) = IF r + (n + 1) < CONSBUFSIZE THEN r + (n + 1)
                          ELSE r + (n + 1) - CONSBUFSIZE
    BY <2>1, SlotAt
  <2> QED
    BY <2>1, <2>2, RingAssumption DEF Slot, Step
<1>4. \A n \in 0 .. CONSBUFSIZE - 2 : at(Step(r), n) = at(r, n + 1)
  BY <1>1, SlotAt, RingAssumption DEF Slot, Step
<1>5. \A n, m \in 0 .. CONSBUFSIZE - 1 : n # m => at(r, n) # at(r, m)
  BY SlotAt, RingAssumption DEF Slot
<1> QED
  BY <1>1, <1>2, <1>3, <1>4, <1>5

(* RingHoldsUnread in these terms.                                         *)
HoldsAt ==
  /\ wpos = at(rpos, Len(unread))
  /\ \A i \in 1 .. Len(unread) : buf[at(rpos, i - 1)] = unread[i]

LEMMA HoldsAtSame ==
  /\ RingTypeOK  => (RingHoldsUnread  <=> HoldsAt)
  /\ RingTypeOK' => (RingHoldsUnread' <=> HoldsAt')
  BY DEF RingHoldsUnread, HoldsAt, at, RingTypeOK, Slot

LEMMA InitRing == Init => RingInv
<1> SUFFICES ASSUME Init PROVE RingInv
  OBVIOUS
<1> USE RingAssumption DEF Init, None
<1>1. RingTypeOK
  BY DEF RingTypeOK, Slot, Value
<1>2. OneSlotFree
  BY DEF OneSlotFree
<1>3. RingHoldsUnread
  BY DEF RingHoldsUnread
<1> QED
  BY <1>1, <1>2, <1>3 DEF RingInv

(* cons_put of a character into a ring with a free slot: the character     *)
(* goes behind the unread ones, which keep their slots.                    *)
LEMMA PutKeepsRing ==
  ASSUME RingTypeOK, RingTypeOK', RingHoldsUnread, NEW c \in Value,
         Len(unread) < CONSBUFSIZE - 1, cons_put(c), rpos' = rpos
  PROVE  RingHoldsUnread'
<1> DEFINE n == Len(unread)
<1>1. /\ n \in Nat /\ n < CONSBUFSIZE - 1 /\ rpos \in Slot
      /\ wpos = at(rpos, n) /\ wpos \in Slot
      /\ \A i \in 1 .. n : buf[at(rpos, i - 1)] = unread[i]
  BY HoldsAtSame DEF HoldsAt, RingTypeOK
<1>2. CASE c = NUL
  BY <1>2 DEF cons_put, RingHoldsUnread
<1>3. CASE c # NUL
  <2>1. c \in Char /\ buf' = [buf EXCEPT ![wpos] = c] /\ wpos' = Step(wpos)
        /\ unread' = Append(unread, c)
    BY <1>3 DEF cons_put, Value, Step
  <2>2. Len(unread') = n + 1 /\ (\A i \in 1 .. n : unread'[i] = unread[i]) /\ unread'[n + 1] = c
    BY <2>1, AppendProperties DEF RingTypeOK
  <2>3. wpos' = at(rpos, n + 1)
    <3>1. n \in 0 .. CONSBUFSIZE - 2
      BY <1>1, RingAssumption
    <3> QED
      BY <1>1, <2>1, <3>1, RingArithmetic
  <2>4. ASSUME NEW i \in 1 .. n + 1 PROVE buf'[at(rpos, i - 1)] = unread'[i]
    <3>1. i - 1 \in 0 .. CONSBUFSIZE - 1 /\ n \in 0 .. CONSBUFSIZE - 1
      BY <1>1, RingAssumption
    <3>2. at(rpos, i - 1) \in Slot /\ (i - 1 # n => at(rpos, i - 1) # wpos)
      BY <1>1, <3>1, RingArithmetic
    <3>3. CASE i = n + 1
      BY <1>1, <2>1, <2>2, <3>2, <3>3 DEF RingTypeOK
    <3>4. CASE i # n + 1
      <4>1. i \in 1 .. n /\ i - 1 # n
        BY <1>1, <3>4
      <4> QED
        BY <1>1, <2>1, <2>2, <3>2, <4>1 DEF RingTypeOK
    <3> QED
      BY <3>3, <3>4
  <2> QED
    BY <2>2, <2>3, <2>4, HoldsAtSame DEF HoldsAt
<1> QED
  BY <1>2, <1>3

(* What cons_put does to the types.                                        *)
LEMMA PutTypes ==
  ASSUME RingTypeOK, NEW c \in Value, cons_put(c)
  PROVE  /\ buf' \in [Slot -> Value] /\ wpos' \in Slot /\ unread' \in Seq(Char)
         /\ Len(unread') <= Len(unread) + 1
<1>1. CASE c = NUL
  BY <1>1 DEF cons_put, RingTypeOK
<1>2. CASE c # NUL
  <2>1. c \in Char /\ buf' = [buf EXCEPT ![wpos] = c] /\ wpos' = Step(wpos)
        /\ unread' = Append(unread, c)
    BY <1>2 DEF cons_put, Value, Step
  <2>2. wpos' \in Slot
    BY <2>1, RingArithmetic DEF RingTypeOK
  <2> QED
    BY <2>1, <2>2, AppendProperties DEF RingTypeOK
<1> QED
  BY <1>1, <1>2

(* The ring is empty exactly when nothing is unread, and otherwise the     *)
(* oldest unread character is at rpos.                                     *)
LEMMA EmptyRing ==
  ASSUME RingInv
  PROVE  /\ rpos = wpos <=> unread = <<>>
         /\ unread # <<>> => buf[rpos] = Head(unread)
<1> DEFINE n == Len(unread)
<1>1. /\ n \in 0 .. CONSBUFSIZE - 1 /\ 0 \in 0 .. CONSBUFSIZE - 1 /\ rpos \in Slot
      /\ n = 0 <=> unread = <<>>
  BY RingAssumption, EmptySeq, LenProperties DEF RingInv, OneSlotFree, RingTypeOK
<1>2. wpos = at(rpos, n) /\ rpos = at(rpos, 0)
  BY <1>1, HoldsAtSame, SlotAt, RingAssumption DEF RingInv, HoldsAt, Slot
<1>3. rpos = wpos <=> n = 0
  <2>1. n # 0 => at(rpos, n) # at(rpos, 0)
    BY <1>1, RingArithmetic
  <2> QED
    BY <1>2, <2>1
<1>4. unread # <<>> => buf[rpos] = Head(unread)
  <2>1. n # 0 => buf[at(rpos, 0)] = unread[1]
    BY <1>1, HoldsAtSame DEF RingInv, HoldsAt
  <2> QED
    BY <1>1, <1>2, <2>1
<1> QED
  BY <1>1, <1>3, <1>4

-----------------------------------------------------------------------------
(* The steps that leave the ring alone: the devices and getchar.           *)
LEMMA DevicesKeepRing ==
  ASSUME RingInv, getchar \/ DeviceStep
  PROVE  RingInv'
<1>1. UNCHANGED <<buf, rpos, wpos, unread, serial_exists>>
  BY DEF getchar, DeviceStep, serial_receive, kbd_receive
<1>2. CASE getchar
  BY <1>1, <1>2 DEF getchar, RingInv, RingTypeOK, OneSlotFree, RingHoldsUnread
<1>3. CASE Waiting < CONSBUFSIZE - 1 /\ \E b \in Char \cup {NUL} : serial_receive(b)
  <2>1. PICK b \in Value : rx' = <<b>> /\ kbd' = kbd
    BY <1>3 DEF serial_receive, Value
  <2>2. rx' \in Seq(Value) /\ Len(rx') = 1
    BY <2>1
  <2> QED
    BY <1>1, <1>3, <2>1, <2>2, LenProperties, RingAssumption
    DEF Waiting, RingInv, RingTypeOK, OneSlotFree, RingHoldsUnread
<1>4. CASE Waiting < CONSBUFSIZE - 1 /\ \E c \in Char \cup {NUL} : kbd_receive(c)
  <2>1. PICK c \in Value : kbd' = Append(kbd, c) /\ rx' = rx
    BY <1>4 DEF kbd_receive, Value
  <2>2. kbd' \in Seq(Value) /\ Len(kbd') = Len(kbd) + 1
    BY <2>1, AppendProperties DEF RingInv, RingTypeOK
  <2> QED
    BY <1>1, <1>4, <2>1, <2>2, LenProperties, RingAssumption
    DEF Waiting, RingInv, RingTypeOK, OneSlotFree, RingHoldsUnread
<1> QED
  BY <1>2, <1>3, <1>4 DEF DeviceStep

LEMMA SerialKeepsRing ==
  ASSUME RingInv, serial_intr
  PROVE  RingInv'
<1> USE DEF RingInv
<1>1. CASE rx # None /\ cons_put(rx[1]) /\ rx' = None
  <2>1. Len(rx) = 1 /\ rx[1] \in Value /\ Len(rx') = 0 /\ rx' \in Seq(Value)
    <3>1. rx \in Seq(Value) /\ rx # <<>> /\ Len(rx) <= 1 /\ rx' = <<>>
      BY <1>1 DEF RingTypeOK, None
    <3> DEFINE n == Len(rx)
    <3> HIDE DEF RingInv
    <3>2. n \in Nat /\ n # 0 /\ n <= 1
      BY <3>1, EmptySeq, LenProperties
    <3> HIDE DEF n
    <3>3. n = 1
      BY <3>2
    <3> QED
      BY <3>1, <3>3 DEF n
  <2>2. UNCHANGED <<serial_exists, kbd, rpos>>
    BY DEF serial_intr
  <2>3. RingTypeOK' /\ OneSlotFree'
    BY <1>1, <2>1, <2>2, PutTypes, LenProperties, RingAssumption DEF RingTypeOK, OneSlotFree
  <2>4. Len(unread) < CONSBUFSIZE - 1
    BY <2>1, LenProperties, RingAssumption DEF RingTypeOK, OneSlotFree
  <2> QED
    BY <1>1, <2>1, <2>2, <2>3, <2>4, PutKeepsRing
<1>2. CASE UNCHANGED <<rx, buf, wpos, unread>>
  BY <1>2 DEF serial_intr, RingTypeOK, OneSlotFree, RingHoldsUnread
<1> QED
  BY <1>1, <1>2 DEF serial_intr

LEMMA KbdKeepsRing ==
  ASSUME RingInv, kbd_intr
  PROVE  RingInv'
<1> USE DEF RingInv
<1>1. CASE kbd # <<>> /\ cons_put(Head(kbd)) /\ kbd' = Tail(kbd)
  <2>1. /\ Head(kbd) \in Value /\ kbd' \in Seq(Value) /\ Len(kbd') = Len(kbd) - 1
        /\ Len(kbd) \in Nat /\ Len(kbd) > 0
    BY <1>1, HeadTailProperties, LenProperties, EmptySeq DEF RingTypeOK
  <2>2. UNCHANGED <<serial_exists, rx, rpos>>
    BY DEF kbd_intr
  <2>3. RingTypeOK' /\ OneSlotFree'
    BY <1>1, <2>1, <2>2, PutTypes, LenProperties, RingAssumption DEF RingTypeOK, OneSlotFree
  <2>4. Len(unread) < CONSBUFSIZE - 1
    BY <2>1, LenProperties, RingAssumption DEF RingTypeOK, OneSlotFree
  <2> QED
    BY <1>1, <2>1, <2>2, <2>3, <2>4, PutKeepsRing
<1>2. CASE UNCHANGED <<kbd, buf, wpos, unread>>
  BY <1>2 DEF kbd_intr, RingTypeOK, OneSlotFree, RingHoldsUnread
<1> QED
  BY <1>1, <1>2 DEF kbd_intr

(* cons_getc takes the oldest character and moves rpos one step.           *)
LEMMA GetcKeepsRing ==
  ASSUME RingInv, cons_getc
  PROVE  RingInv'
<1>1. CASE rpos = wpos
  BY <1>1 DEF cons_getc, RingInv, RingTypeOK, OneSlotFree, RingHoldsUnread
<1>2. CASE rpos # wpos
  <2> DEFINE n == Len(unread)
  <2>1. /\ unread # <<>> /\ unread' = Tail(unread) /\ rpos' = Step(rpos)
        /\ UNCHANGED <<serial_exists, rx, kbd, buf, wpos>>
    BY <1>2, EmptyRing DEF cons_getc, Step
  <2>2. /\ unread' \in Seq(Char) /\ Len(unread') = n - 1 /\ n \in Nat \ {0}
        /\ \A i \in 1 .. n - 1 : unread'[i] = unread[i + 1]
    BY <2>1, HeadTailProperties, EmptySeq DEF RingInv, RingTypeOK
  <2>3. RingTypeOK' /\ OneSlotFree'
    BY <2>1, <2>2, RingArithmetic, LenProperties, RingAssumption
    DEF RingInv, RingTypeOK, OneSlotFree
  <2>4. n <= CONSBUFSIZE - 1 /\ rpos \in Slot
    BY <2>2, LenProperties, RingAssumption DEF RingInv, RingTypeOK, OneSlotFree
  <2>5. wpos' = at(rpos', n - 1)
    <3>1. n - 1 \in 0 .. CONSBUFSIZE - 2 /\ (n - 1) + 1 = n
      BY <2>2, <2>4, RingAssumption
    <3> QED
      BY <3>1, <2>1, <2>4, RingArithmetic, HoldsAtSame DEF RingInv, HoldsAt
  <2>6. ASSUME NEW i \in 1 .. n - 1 PROVE buf'[at(rpos', i - 1)] = unread'[i]
    <3>1. /\ i - 1 \in 0 .. CONSBUFSIZE - 2 /\ (i - 1) + 1 = i
          /\ i + 1 \in 1 .. n /\ (i + 1) - 1 = i
      BY <2>2, <2>4, RingAssumption
    <3>2. at(rpos', i - 1) = at(rpos, i)
      BY <3>1, <2>1, <2>4, RingArithmetic
    <3>3. buf[at(rpos, i)] = unread[i + 1]
      BY <3>1, HoldsAtSame DEF RingInv, HoldsAt
    <3> QED
      BY <2>1, <2>2, <3>2, <3>3
  <2> QED
    BY <2>2, <2>3, <2>5, <2>6, HoldsAtSame DEF RingInv, HoldsAt
<1> QED
  BY <1>1, <1>2

LEMMA RingInductive == RingInv /\ [Next]_vars => RingInv'
<1> SUFFICES ASSUME RingInv, [Next]_vars PROVE RingInv'
  OBVIOUS
<1>1. CASE UNCHANGED vars
  BY <1>1 DEF vars, RingInv, RingTypeOK, OneSlotFree, RingHoldsUnread
<1> QED
  BY <1>1, DevicesKeepRing, SerialKeepsRing, KbdKeepsRing, GetcKeepsRing DEF Next, KernelStep

LEMMA RingAlways == Spec => []RingInv
  BY InitRing, RingInductive, PTL DEF Spec

-----------------------------------------------------------------------------
(* The console's ring holds exactly the characters that have arrived and   *)
(* were not returned, oldest first, for every size of the ring and however *)
(* the devices and cons_getc interleave.                                   *)
THEOREM RingCorrect == Spec => []RingHoldsUnread
  BY RingAlways, PTL DEF RingInv

(* cons_getc returns the oldest unread character, and 0 only when there is *)
(* none: a ring that has wrapped is never taken for an empty one.          *)
THEOREM GetcReturnsNext == Spec => NextCharacterReturned
<1>1. RingInv /\ [Next]_vars => [cons_getc => got' = IF unread = <<>> THEN NUL ELSE Head(unread)]_vars
  BY EmptyRing DEF cons_getc
<1> QED
  BY <1>1, RingAlways, PTL DEF Spec, NextCharacterReturned
=============================================================================

--------------------------- MODULE KeyboardProofs ---------------------------
(***************************************************************************)
(* Theorems about Keyboard, for any set of keys and any lag between the    *)
(* fingers and the decoder.                                                *)
(*                                                                         *)
(* What kbd_proc_data will do with the scan codes still in the queue is    *)
(* settled by `shift' and the queue.  The invariant says what that is:     *)
(* decoding all of the queue would return the characters in `typed', one   *)
(* after the other, and leave the modifiers of the keys that are down.     *)
(***************************************************************************)
EXTENDS Keyboard, SequenceTheorems, TLAPS

Chars  == {"NO", "a", "A", "1", "!", ".", "KEY_DEL", "NL", "C-A", "CR"}
Output == [c : Chars, reset : BOOLEAN]

\* The two results of one call: the flags it leaves, and what it returns.
Flagged(sh, data)  == decode(sh, data).shift
Returned(sh, data) == [c |-> decode(sh, data).c, reset |-> decode(sh, data).reset]

(* Decoding the codes q from the flags sh goes through the flags st[0],    *)
(* st[1], ... and has returned the first idx[j] elements of ty after j     *)
(* codes, those that return no character aside.                            *)
Decoding(q, ty, sh, st, idx) ==
  /\ st \in [0 .. Len(q) -> SUBSET Flags] /\ st[0] = sh
  /\ \A j \in 1 .. Len(q) : st[j] = Flagged(st[j - 1], q[j])
  /\ idx \in [0 .. Len(q) -> 0 .. Len(ty)] /\ idx[0] = 0 /\ idx[Len(q)] = Len(ty)
  /\ \A j, k \in 0 .. Len(q) : j <= k => idx[j] <= idx[k]
  /\ \A j \in 1 .. Len(q) :
       LET r == Returned(st[j - 1], q[j]) IN
       IF r.c = NO THEN idx[j] = idx[j - 1]
       ELSE idx[j] = idx[j - 1] + 1 /\ ty[idx[j]] = r

(* Decoding q from sh returns ty and leaves e.                             *)
Decodes(q, ty, sh, e) ==
  \E st, idx : Decoding(q, ty, sh, st, idx) /\ st[Len(q)] = e

KbdTypeOK ==
  /\ queue \in Seq(Nat) /\ shift \in SUBSET Flags /\ down \in SUBSET Key
  /\ caps \in BOOLEAN /\ typed \in Seq(Output) /\ running \in BOOLEAN

\* Nobody holds two keys of one modifier.
OneKeyEach == \A j, k \in down : j # k => modifier_of(j) \cap modifier_of(k) = {}

(* The flags kbd_proc_data will have when it has caught up.                *)
CaughtUp(e) ==
  /\ e \cap (Modifier \cup {"E0ESC"}) = HeldModifiers
  /\ "CAPSLOCK" \in e <=> caps

KbdInv ==
  /\ KbdTypeOK /\ OneKeyEach
  /\ running => \E e \in SUBSET Flags : Decodes(queue, typed, shift, e) /\ CaughtUp(e)

-----------------------------------------------------------------------------
(* Decoding, code by code.                                                 *)

LEMMA TableTypes ==
  ASSUME NEW data
  PROVE  /\ shiftcode(data) \in SUBSET Modifier /\ togglecode(data) \in SUBSET Toggle
         /\ \A sh : charcode(sh, data) \in Chars
<1>1. shiftcode(data) \in SUBSET Modifier
  BY DEF shiftcode, Modifier
<1>2. togglecode(data) \in SUBSET Toggle
  BY DEF togglecode, Toggle
<1>3. ASSUME NEW sh PROVE charcode(sh, data) \in Chars
  BY DEF charcode, ctlmap, shiftmap, normalmap, Chars, NO
<1> QED BY <1>1, <1>2, <1>3

LEMMA DecodeTypes ==
  ASSUME NEW sh \in SUBSET Flags, NEW data \in Nat
  PROVE  Flagged(sh, data) \in SUBSET Flags /\ Returned(sh, data) \in Output
<1>1. Modifier \cup Toggle \cup {"E0ESC"} = Flags
  BY DEF Flags
<1>2. CASE data = E0
  BY <1>1, <1>2 DEF Flagged, Returned, decode, Result, Output, Chars, NO
<1>3. CASE data # E0 /\ data >= 128
  BY <1>1, <1>3, TableTypes DEF Flagged, Returned, decode, key_released, Result, Output, Chars, NO
<1>4. CASE data # E0 /\ data < 128
  <2> DEFINE code == IF "E0ESC" \in sh THEN data + 128 ELSE data
             held == (sh \ {"E0ESC"}) \cup shiftcode(code)
             flip == togglecode(code)
             now  == (held \ flip) \cup (flip \ held)
             c    == IF "CAPSLOCK" \in now THEN swap_case(charcode(now, code))
                     ELSE charcode(now, code)
  <2>1. decode(sh, data) = [shift |-> now, c |-> c,
                            reset |-> {"CTL", "ALT"} \subseteq now /\ c = "KEY_DEL"]
    BY <1>4 DEF decode, key_pressed, Result
  <2>2. now \in SUBSET Flags
    BY <1>1, TableTypes
  <2>3. c \in Chars
    BY TableTypes DEF swap_case, Chars
  <2> HIDE DEF now, c
  <2> QED BY <2>1, <2>2, <2>3 DEF Flagged, Returned, Output
<1> QED BY <1>2, <1>3, <1>4

LEMMA NothingToDecode ==
  ASSUME NEW sh \in SUBSET Flags
  PROVE  Decodes(<<>>, <<>>, sh, sh)
<1> DEFINE st == [j \in 0 .. 0 |-> sh]
           idx == [j \in 0 .. 0 |-> 0]
<1>1. Len(<<>>) = 0
  OBVIOUS
<1>2. Decoding(<<>>, <<>>, sh, st, idx)
  BY <1>1 DEF Decoding
<1>3. st[Len(<<>>)] = sh
  BY <1>1
<1> QED BY <1>2, <1>3 DEF Decodes

LEMMA AllDecoded ==
  ASSUME NEW ty \in Seq(Output), NEW sh, NEW e, Decodes(<<>>, ty, sh, e)
  PROVE  ty = <<>> /\ e = sh
<1>1. PICK st, idx : Decoding(<<>>, ty, sh, st, idx) /\ st[Len(<<>>)] = e
  BY DEF Decodes
<1>2. Len(<<>>) = 0
  OBVIOUS
<1>3. st[0] = sh /\ idx[0] = 0 /\ idx[0] = Len(ty) /\ st[0] = e
  BY <1>1, <1>2 DEF Decoding
<1>4. Len(ty) = 0
  BY <1>3
<1> QED BY <1>3, <1>4

(* One more code at the end of the queue.                                  *)
LEMMA DecodesMore ==
  ASSUME NEW q \in Seq(Nat), NEW ty \in Seq(Output), NEW sh \in SUBSET Flags,
         NEW e \in SUBSET Flags, Decodes(q, ty, sh, e), NEW data \in Nat
  PROVE  LET r == Returned(e, data)
         IN  Decodes(Append(q, data), IF r.c = NO THEN ty ELSE Append(ty, r), sh, Flagged(e, data))
<1> DEFINE r  == Returned(e, data)
           f  == Flagged(e, data)
           q2 == Append(q, data)
           t2 == IF r.c = NO THEN ty ELSE Append(ty, r)
           n  == Len(q)
<1>1. PICK st, idx : Decoding(q, ty, sh, st, idx) /\ st[Len(q)] = e
  BY DEF Decodes
<1>2. f \in SUBSET Flags /\ r \in Output
  BY DecodeTypes
<1>3. n \in Nat /\ Len(ty) \in Nat
  BY LenProperties
<1>4. Len(q2) = n + 1 /\ q2[n + 1] = data /\ \A j \in 1 .. n : q2[j] = q[j]
  BY AppendProperties
<1>5. /\ \A j \in 1 .. Len(ty) : t2[j] = ty[j]
      /\ Len(t2) = IF r.c = NO THEN Len(ty) ELSE Len(ty) + 1
      /\ r.c # NO => t2[Len(ty) + 1] = r
  BY <1>2, AppendProperties
<1> HIDE DEF r, f, q2, t2, n
<1> DEFINE s2 == [j \in 0 .. n + 1 |-> IF j <= n THEN st[j] ELSE f]
           i2 == [j \in 0 .. n + 1 |-> IF j <= n THEN idx[j] ELSE Len(t2)]
<1>6. /\ st \in [0 .. n -> SUBSET Flags] /\ st[0] = sh /\ st[n] = e
      /\ \A j \in 1 .. n : st[j] = Flagged(st[j - 1], q[j])
      /\ idx \in [0 .. n -> 0 .. Len(ty)] /\ idx[0] = 0 /\ idx[n] = Len(ty)
      /\ \A j, k \in 0 .. n : j <= k => idx[j] <= idx[k]
      /\ \A j \in 1 .. n : IF Returned(st[j - 1], q[j]).c = NO THEN idx[j] = idx[j - 1]
                           ELSE idx[j] = idx[j - 1] + 1 /\ ty[idx[j]] = Returned(st[j - 1], q[j])
  BY <1>1 DEF Decoding, n
<1>7. /\ s2 \in [0 .. n + 1 -> SUBSET Flags] /\ s2[0] = sh /\ s2[n + 1] = f
      /\ \A j \in 0 .. n : s2[j] = st[j]
  BY <1>2, <1>3, <1>6
<1>8. Len(t2) \in Nat /\ Len(ty) <= Len(t2)
  BY <1>3, <1>5
<1>9. /\ i2 \in [0 .. n + 1 -> 0 .. Len(t2)] /\ i2[0] = 0 /\ i2[n + 1] = Len(t2)
      /\ \A j \in 0 .. n : i2[j] = idx[j]
  BY <1>3, <1>6, <1>8
<1> HIDE DEF s2, i2
<1>10. \A j \in 1 .. n + 1 : s2[j] = Flagged(s2[j - 1], q2[j])
  <2> SUFFICES ASSUME NEW j \in 1 .. n + 1 PROVE s2[j] = Flagged(s2[j - 1], q2[j])
    OBVIOUS
  <2>1. CASE j <= n
    <3>1. j \in 1 .. n /\ j - 1 \in 0 .. n /\ j \in 0 .. n
      BY <1>3, <2>1
    <3> QED BY <3>1, <1>4, <1>6, <1>7
  <2>2. CASE j = n + 1
    <3>1. j - 1 = n /\ n \in 0 .. n
      BY <1>3, <2>2
    <3> QED BY <2>2, <3>1, <1>4, <1>6, <1>7 DEF f
  <2> QED BY <1>3, <2>1, <2>2
<1>11. \A j, k \in 0 .. n + 1 : j <= k => i2[j] <= i2[k]
  <2> SUFFICES ASSUME NEW j \in 0 .. n + 1, NEW k \in 0 .. n + 1, j <= k PROVE i2[j] <= i2[k]
    OBVIOUS
  <2>1. CASE k <= n
    <3>1. j \in 0 .. n /\ k \in 0 .. n
      BY <1>3, <2>1
    <3> QED BY <3>1, <1>6, <1>9
  <2>2. CASE k = n + 1
    <3>1. i2[k] = Len(t2)
      BY <1>9, <2>2
    <3>2. i2[j] \in 0 .. Len(t2)
      BY <1>9
    <3> QED BY <1>8, <3>1, <3>2
  <2> QED BY <1>3, <2>1, <2>2
<1>12. \A j \in 1 .. n + 1 :
         IF Returned(s2[j - 1], q2[j]).c = NO THEN i2[j] = i2[j - 1]
         ELSE i2[j] = i2[j - 1] + 1 /\ t2[i2[j]] = Returned(s2[j - 1], q2[j])
  <2> SUFFICES ASSUME NEW j \in 1 .. n + 1
               PROVE  IF Returned(s2[j - 1], q2[j]).c = NO THEN i2[j] = i2[j - 1]
                      ELSE i2[j] = i2[j - 1] + 1 /\ t2[i2[j]] = Returned(s2[j - 1], q2[j])
    OBVIOUS
  <2>1. CASE j <= n
    <3>1. j \in 1 .. n /\ j - 1 \in 0 .. n /\ j \in 0 .. n
      BY <1>3, <2>1
    <3>2. s2[j - 1] = st[j - 1] /\ q2[j] = q[j] /\ i2[j] = idx[j] /\ i2[j - 1] = idx[j - 1]
      BY <3>1, <1>4, <1>7, <1>9
    <3>3. idx[j] = idx[j - 1] + 1 => idx[j] \in 1 .. Len(ty)
      BY <3>1, <1>3, <1>6
    <3>4. idx[j] = idx[j - 1] + 1 => t2[idx[j]] = ty[idx[j]]
      BY <3>3, <1>5
    <3>5. IF Returned(st[j - 1], q[j]).c = NO THEN idx[j] = idx[j - 1]
          ELSE idx[j] = idx[j - 1] + 1 /\ ty[idx[j]] = Returned(st[j - 1], q[j])
      BY <3>1, <1>6
    <3> QED BY <3>2, <3>4, <3>5
  <2>2. CASE j = n + 1
    <3>1. j - 1 = n /\ n \in 0 .. n
      BY <1>3, <2>2
    <3>2. Returned(s2[j - 1], q2[j]) = r /\ i2[j - 1] = Len(ty) /\ i2[j] = Len(t2)
      BY <2>2, <3>1, <1>4, <1>6, <1>7, <1>9 DEF r
    <3> QED BY <3>2, <1>5
  <2> QED BY <1>3, <2>1, <2>2
<1>13. Decoding(q2, t2, sh, s2, i2) /\ s2[Len(q2)] = f
  BY <1>4, <1>7, <1>9, <1>10, <1>11, <1>12 DEF Decoding
<1>14. Decodes(q2, t2, sh, f)
  BY <1>13 DEF Decodes
<1> QED BY <1>14 DEF q2, t2, r, f

LEMMA StepUp ==
  ASSUME NEW a \in Nat, NEW b \in Nat, NEW c \in Nat, a <= b, c = b + 1
  PROVE  c - a = (b - a) + 1 /\ (c - a) + a = c /\ c - a >= 1
OBVIOUS

(* The oldest code is decoded.                                             *)
LEMMA DecodesNext ==
  ASSUME NEW q \in Seq(Nat), q # <<>>, NEW ty \in Seq(Output), NEW sh \in SUBSET Flags,
         NEW e \in SUBSET Flags, Decodes(q, ty, sh, e)
  PROVE  LET r == Returned(sh, Head(q))
         IN  /\ r.c # NO => ty # <<>> /\ r = Head(ty)
             /\ Decodes(Tail(q), IF r.c # NO /\ ty # <<>> THEN Tail(ty) ELSE ty,
                        Flagged(sh, Head(q)), e)
<1> DEFINE r  == Returned(sh, Head(q))
           f  == Flagged(sh, Head(q))
           q2 == Tail(q)
           t2 == IF r.c # NO THEN Tail(ty) ELSE ty
           n  == Len(q2)
<1>1. PICK st, idx : Decoding(q, ty, sh, st, idx) /\ st[Len(q)] = e
  BY DEF Decodes
<1>2. n \in Nat /\ Len(q) = n + 1 /\ Head(q) = q[1] /\ q2 \in Seq(Nat)
      /\ \A j \in 1 .. n : q2[j] = q[j + 1]
  BY HeadTailProperties, LenProperties
<1>3. /\ st \in [0 .. n + 1 -> SUBSET Flags] /\ st[0] = sh /\ st[n + 1] = e
      /\ \A j \in 1 .. n + 1 : st[j] = Flagged(st[j - 1], q[j])
      /\ idx \in [0 .. n + 1 -> 0 .. Len(ty)] /\ idx[0] = 0 /\ idx[n + 1] = Len(ty)
      /\ \A j, k \in 0 .. n + 1 : j <= k => idx[j] <= idx[k]
      /\ \A j \in 1 .. n + 1 :
           IF Returned(st[j - 1], q[j]).c = NO THEN idx[j] = idx[j - 1]
           ELSE idx[j] = idx[j - 1] + 1 /\ ty[idx[j]] = Returned(st[j - 1], q[j])
  BY <1>1, <1>2 DEF Decoding
<1>4. Len(ty) \in Nat
  BY LenProperties
<1> HIDE DEF n
<1>5. 1 \in 1 .. n + 1 /\ 1 - 1 = 0 /\ 0 \in 0 .. n + 1 /\ 1 \in 0 .. n + 1
  BY <1>2
<1>6. st[1] = f /\ Returned(st[1 - 1], q[1]) = r
  BY <1>2, <1>3, <1>5
<1> HIDE DEF r, f
<1>7. idx[1] = (IF r.c = NO THEN 0 ELSE 1) /\ (r.c # NO => ty[1] = r) /\ idx[1] \in 0 .. Len(ty)
  BY <1>3, <1>5, <1>6
<1>8. r.c # NO => Len(ty) >= 1 /\ ty # <<>> /\ r = Head(ty)
  <2>1. ASSUME r.c # NO PROVE Len(ty) >= 1 /\ ty[1] = r
    BY <2>1, <1>4, <1>7
  <2>2. ASSUME r.c # NO PROVE ty # <<>>
    BY <2>1, <2>2, <1>4
  <2> QED BY <2>1, <2>2
<1>9. /\ t2 \in Seq(Output) /\ Len(t2) = Len(ty) - idx[1]
      /\ \A j \in 1 .. Len(t2) : t2[j] = ty[j + idx[1]]
  <2>1. CASE r.c = NO
    BY <2>1, <1>4, <1>7
  <2>2. CASE r.c # NO
    BY <2>2, <1>4, <1>7, <1>8, HeadTailProperties
  <2> QED BY <2>1, <2>2
<1> HIDE DEF t2, q2
<1> DEFINE s2 == [j \in 0 .. n |-> st[j + 1]]
           i2 == [j \in 0 .. n |-> idx[j + 1] - idx[1]]
<1>10. \A j \in 0 .. n : j + 1 \in 0 .. n + 1 /\ 1 <= j + 1
  BY <1>2
<1>11. /\ s2 \in [0 .. n -> SUBSET Flags] /\ s2[0] = f /\ s2[n] = e
       /\ \A j \in 0 .. n : s2[j] = st[j + 1]
  BY <1>2, <1>3, <1>6, <1>10
<1>12. \A j \in 0 .. n : idx[j + 1] \in Nat /\ idx[1] <= idx[j + 1] /\ idx[j + 1] <= Len(ty)
  <2>1. /\ idx \in [0 .. n + 1 -> 0 .. Len(ty)]
        /\ \A j, k \in 0 .. n + 1 : j <= k => idx[j] <= idx[k]
    BY <1>3
  <2> TAKE j \in 0 .. n
  <2>2. j + 1 \in 0 .. n + 1 /\ 1 <= j + 1 /\ 1 \in 0 .. n + 1
    BY <1>5, <1>10
  <2>3. idx[j + 1] \in 0 .. Len(ty) /\ idx[1] <= idx[j + 1]
    BY <2>1, <2>2
  <2> QED BY <2>3, <1>4
<1>13. /\ i2 \in [0 .. n -> 0 .. Len(t2)] /\ i2[0] = 0 /\ i2[n] = Len(t2)
       /\ \A j \in 0 .. n : i2[j] = idx[j + 1] - idx[1]
  <2>1. \A j \in 0 .. n : idx[j + 1] - idx[1] \in 0 .. Len(t2)
    BY <1>4, <1>7, <1>9, <1>12
  <2>2. 0 \in 0 .. n /\ n \in 0 .. n
    BY <1>2
  <2>3. i2 \in [0 .. n -> 0 .. Len(t2)] /\ \A j \in 0 .. n : i2[j] = idx[j + 1] - idx[1]
    BY <2>1
  <2> HIDE DEF i2
  <2>4. i2[0] = idx[0 + 1] - idx[1] /\ i2[n] = idx[n + 1] - idx[1]
    BY <2>2, <2>3
  <2>5. idx[1] \in Nat /\ idx[0 + 1] = idx[1] /\ idx[n + 1] = Len(ty)
    BY <1>3, <1>4, <1>7
  <2> QED BY <1>9, <2>3, <2>4, <2>5
<1> HIDE DEF s2, i2
<1>14. \A j \in 1 .. n : s2[j] = Flagged(s2[j - 1], q2[j])
  <2> SUFFICES ASSUME NEW j \in 1 .. n PROVE s2[j] = Flagged(s2[j - 1], q2[j])
    OBVIOUS
  <2>1. j \in 0 .. n /\ j - 1 \in 0 .. n /\ (j - 1) + 1 = j /\ j + 1 \in 1 .. n + 1 /\ (j + 1) - 1 = j
    BY <1>2
  <2>2. s2[j] = st[j + 1] /\ s2[j - 1] = st[j] /\ q2[j] = q[j + 1]
    BY <1>2, <1>11, <2>1
  <2>3. st[j + 1] = Flagged(st[(j + 1) - 1], q[j + 1])
    BY <1>3, <2>1
  <2> QED BY <2>1, <2>2, <2>3
<1>15. \A j, k \in 0 .. n : j <= k => i2[j] <= i2[k]
  <2> SUFFICES ASSUME NEW j \in 0 .. n, NEW k \in 0 .. n, j <= k PROVE i2[j] <= i2[k]
    OBVIOUS
  <2>1. j + 1 \in 0 .. n + 1 /\ k + 1 \in 0 .. n + 1 /\ j + 1 <= k + 1
    BY <1>2
  <2>2. idx[j + 1] <= idx[k + 1]
    BY <1>3, <2>1
  <2> QED BY <2>2, <1>7, <1>12, <1>13
<1>16. \A j \in 1 .. n :
         IF Returned(s2[j - 1], q2[j]).c = NO THEN i2[j] = i2[j - 1]
         ELSE i2[j] = i2[j - 1] + 1 /\ t2[i2[j]] = Returned(s2[j - 1], q2[j])
  <2> SUFFICES ASSUME NEW j \in 1 .. n
               PROVE  IF Returned(s2[j - 1], q2[j]).c = NO THEN i2[j] = i2[j - 1]
                      ELSE i2[j] = i2[j - 1] + 1 /\ t2[i2[j]] = Returned(s2[j - 1], q2[j])
    OBVIOUS
  <2>1. j \in 0 .. n /\ j - 1 \in 0 .. n /\ (j - 1) + 1 = j /\ j + 1 \in 1 .. n + 1 /\ (j + 1) - 1 = j
    BY <1>2
  <2>2. s2[j - 1] = st[j] /\ q2[j] = q[j + 1] /\ i2[j] = idx[j + 1] - idx[1]
        /\ i2[j - 1] = idx[j] - idx[1]
    BY <1>2, <1>11, <1>13, <2>1
  <2>3. IF Returned(st[(j + 1) - 1], q[j + 1]).c = NO THEN idx[j + 1] = idx[(j + 1) - 1]
        ELSE idx[j + 1] = idx[(j + 1) - 1] + 1 /\ ty[idx[j + 1]] = Returned(st[(j + 1) - 1], q[j + 1])
    BY <1>3, <2>1
  <2>4. idx[j] \in Nat /\ idx[j + 1] \in Nat /\ idx[1] \in Nat /\ idx[1] <= idx[j]
    BY <1>7, <1>12, <2>1
  <2>5. CASE Returned(st[j], q[j + 1]).c = NO
    BY <2>1, <2>2, <2>3, <2>4, <2>5
  <2>6. CASE Returned(st[j], q[j + 1]).c # NO
    <3>1. idx[j + 1] = idx[j] + 1 /\ ty[idx[j + 1]] = Returned(st[j], q[j + 1])
      BY <2>1, <2>3, <2>6
    <3>2. i2[j] = i2[j - 1] + 1 /\ i2[j] \in 1 .. Len(t2) /\ i2[j] + idx[1] = idx[j + 1]
      <4>1. i2[j] = i2[j - 1] + 1 /\ i2[j] + idx[1] = idx[j + 1] /\ i2[j] >= 1
        <5> DEFINE a == idx[1]
                   b == idx[j]
                   c == idx[j + 1]
        <5>1. a \in Nat /\ b \in Nat /\ c \in Nat /\ a <= b /\ c = b + 1
          BY <2>4, <3>1
        <5>2. i2[j] = c - a /\ i2[j - 1] = b - a
          BY <2>2
        <5> HIDE DEF a, b, c
        <5>3. c - a = (b - a) + 1 /\ (c - a) + a = c /\ c - a >= 1
          BY <5>1, StepUp
        <5>4. i2[j] = i2[j - 1] + 1 /\ i2[j] + a = c /\ i2[j] >= 1
          BY <5>2, <5>3
        <5> QED BY <5>4 DEF a, c
      <4>2. i2[j] \in 0 .. Len(t2)
        BY <1>13, <2>1
      <4>3. Len(t2) \in Nat
        BY <1>9, LenProperties
      <4>4. ASSUME NEW x \in 0 .. Len(t2), x >= 1 PROVE x \in 1 .. Len(t2)
        BY <4>3, <4>4
      <4> QED BY <4>1, <4>2, <4>4
    <3>3. t2[i2[j]] = ty[idx[j + 1]]
      BY <1>9, <3>2
    <3> QED BY <2>2, <2>6, <3>1, <3>2, <3>3
  <2> QED BY <2>5, <2>6
<1>17. Decoding(q2, t2, f, s2, i2) /\ s2[Len(q2)] = e
  BY <1>11, <1>13, <1>14, <1>15, <1>16 DEF Decoding, n
<1>18. Decodes(q2, t2, f, e)
  BY <1>17 DEF Decodes
<1> QED BY <1>8, <1>18 DEF q2, t2, f, r

-----------------------------------------------------------------------------
(* What a key's scan codes do to the decoder.                              *)

LEMMA KeyTypes ==
  ASSUME NEW k \in Key
  PROVE  k.e0 \in BOOLEAN /\ k.code \in 1 .. 127 /\ k.code # 96
BY KeyAssumption

LEMMA EscapeCode ==
  ASSUME NEW s \in SUBSET Flags
  PROVE  Flagged(s, E0) = s \cup {"E0ESC"} /\ Returned(s, E0).c = NO
BY DEF Flagged, Returned, decode, Result

LEMMA BreakCode ==
  ASSUME NEW k \in Key, NEW s \in SUBSET Flags, "E0ESC" \in s <=> k.e0
  PROVE  /\ Flagged(s, k.code + 128) = s \ (modifier_of(k) \cup {"E0ESC"})
         /\ Returned(s, k.code + 128).c = NO
<1>1. k.code + 128 # E0 /\ k.code + 128 >= 128 /\ (k.code + 128) % 128 = k.code
  BY KeyTypes DEF E0
<1>2. table_code(k) = IF "E0ESC" \in s THEN k.code + 128 ELSE (k.code + 128) % 128
  BY <1>1, KeyTypes DEF table_code
<1>3. decode(s, k.code + 128) = key_released(s, k.code + 128)
  BY <1>1 DEF decode
<1> QED BY <1>2, <1>3 DEF Flagged, Returned, key_released, Result, modifier_of

LEMMA MakeCode ==
  ASSUME NEW k \in Key, NEW s \in SUBSET Flags, "E0ESC" \in s <=> k.e0
  PROVE  /\ Flagged(s, k.code) \cap (Modifier \cup {"E0ESC"}) = (s \cap Modifier) \cup modifier_of(k)
         /\ "CAPSLOCK" \in Flagged(s, k.code) <=> ("CAPSLOCK" \in s) # (k = CapsKey)
         /\ Returned(s, k.code) = meaning(k, s \cap Modifier, "CAPSLOCK" \in s)
<1> DEFINE code == IF "E0ESC" \in s THEN k.code + 128 ELSE k.code
           held == (s \ {"E0ESC"}) \cup shiftcode(code)
           flip == togglecode(code)
           now  == (held \ flip) \cup (flip \ held)
           c    == IF "CAPSLOCK" \in now THEN swap_case(charcode(now, code))
                   ELSE charcode(now, code)
<1>1. k.code # E0 /\ ~(k.code >= 128)
  BY KeyTypes DEF E0
<1>2. decode(s, k.code) = [shift |-> now, c |-> c,
                           reset |-> {"CTL", "ALT"} \subseteq now /\ c = "KEY_DEL"]
  BY <1>1 DEF decode, key_pressed, Result
<1>3. Flagged(s, k.code) = now
      /\ Returned(s, k.code) = [c |-> c, reset |-> {"CTL", "ALT"} \subseteq now /\ c = "KEY_DEL"]
  BY <1>2 DEF Flagged, Returned
<1>4. code = table_code(k) /\ shiftcode(code) = modifier_of(k)
  BY DEF table_code, modifier_of
<1>5. modifier_of(k) \in SUBSET Modifier /\ flip \in SUBSET Toggle
  BY <1>4, TableTypes
<1>6. code = 58 <=> k = CapsKey
  <2>1. code = 58 <=> ~ k.e0 /\ k.code = 58
    BY KeyTypes
  <2>2. k = CapsKey <=> ~ k.e0 /\ k.code = 58
    BY KeyAssumption DEF CapsKey
  <2> QED BY <2>1, <2>2
<1>7. "CAPSLOCK" \in flip <=> code = 58
  BY DEF togglecode
<1>8. now \cap (Modifier \cup {"E0ESC"}) = (s \cap Modifier) \cup modifier_of(k)
  BY <1>4, <1>5 DEF Modifier, Toggle
<1>9. "CAPSLOCK" \in now <=> ("CAPSLOCK" \in s) # (k = CapsKey)
  <2>1. "CAPSLOCK" \in held <=> "CAPSLOCK" \in s
    BY <1>4, <1>5 DEF Modifier
  <2> HIDE DEF held, flip
  <2> QED BY <2>1, <1>6, <1>7
<1>10. Returned(s, k.code) = meaning(k, s \cap Modifier, "CAPSLOCK" \in s)
  <2> DEFINE mods == s \cap Modifier
             lock == "CAPSLOCK" \in s
             m    == meaning(k, mods, lock)
  <2>1. ASSUME code \in {30, 2, 28, 156, 83, 211}
        PROVE  /\ now = s \ {"E0ESC"}
               /\ "CAPSLOCK" \in now <=> lock
               /\ \A f \in Modifier : f \in now <=> f \in mods
    <3>1. shiftcode(code) = {} /\ flip = {}
      BY <2>1 DEF shiftcode, togglecode
    <3> QED BY <3>1 DEF Modifier
  <2>2. "CTL" \in Modifier /\ "SHIFT" \in Modifier /\ "ALT" \in Modifier
    BY DEF Modifier
  <2>3. /\ code = 30  <=> k.code = 30 /\ ~ k.e0
        /\ code = 2   <=> k.code = 2 /\ ~ k.e0
        /\ code = 28  <=> k.code = 28 /\ ~ k.e0
        /\ code = 156 <=> k.code = 28 /\ k.e0
        /\ code = 83  <=> k.code = 83 /\ ~ k.e0
        /\ code = 211 <=> k.code = 83 /\ k.e0
    BY KeyTypes
  <2>4. m.c = c
    <3> HIDE DEF code, now
    <3>1. CASE code = 30
      BY <3>1, <2>1, <2>2, <2>3 DEF meaning, charcode, ctlmap, shiftmap, normalmap, swap_case
    <3>2. CASE code = 2
      BY <3>2, <2>1, <2>2, <2>3 DEF meaning, charcode, ctlmap, shiftmap, normalmap, swap_case, NO
    <3>3. CASE code = 28
      BY <3>3, <2>1, <2>2, <2>3 DEF meaning, charcode, ctlmap, shiftmap, normalmap, swap_case
    <3>4. CASE code = 156
      BY <3>4, <2>1, <2>2, <2>3 DEF meaning, charcode, ctlmap, shiftmap, normalmap, swap_case, NO
    <3>5. CASE code = 83
      BY <3>5, <2>1, <2>2, <2>3 DEF meaning, charcode, ctlmap, shiftmap, normalmap, swap_case, NO
    <3>6. CASE code = 211
      BY <3>6, <2>1, <2>2, <2>3 DEF meaning, charcode, ctlmap, shiftmap, normalmap, swap_case
    <3>7. CASE code \notin {30, 2, 28, 156, 83, 211}
      <4>1. m.c = NO
        BY <3>7, <2>3 DEF meaning
      <4>2. c = NO
        BY <3>7 DEF charcode, ctlmap, shiftmap, normalmap, swap_case, NO
      <4> QED BY <4>1, <4>2
    <3> QED BY <3>1, <3>2, <3>3, <3>4, <3>5, <3>6, <3>7
  <2>5. c = "KEY_DEL" => code = 211
    <3> HIDE DEF code, now
    <3> QED BY DEF charcode, ctlmap, shiftmap, normalmap, swap_case, NO
  <2>6. m = [c |-> m.c, reset |-> m.c = "KEY_DEL" /\ {"CTL", "ALT"} \subseteq mods]
    BY DEF meaning
  <2>7. c = "KEY_DEL" => ({"CTL", "ALT"} \subseteq now <=> {"CTL", "ALT"} \subseteq mods)
    <3> SUFFICES ASSUME c = "KEY_DEL"
                 PROVE  {"CTL", "ALT"} \subseteq now <=> {"CTL", "ALT"} \subseteq mods
      OBVIOUS
    <3>1. code \in {30, 2, 28, 156, 83, 211}
      BY <2>5
    <3>2. \A f \in Modifier : f \in now <=> f \in mods
      BY <2>1, <3>1
    <3> HIDE DEF now, mods
    <3> QED BY <2>2, <3>2
  <2> HIDE DEF c, now, m, mods
  <2>8. (m.c = "KEY_DEL" /\ {"CTL", "ALT"} \subseteq mods)
          = ({"CTL", "ALT"} \subseteq now /\ c = "KEY_DEL")
    BY <2>4, <2>7
  <2> QED BY <1>3, <2>4, <2>6, <2>8 DEF m, mods
<1> QED BY <1>3, <1>8, <1>9, <1>10

(* The codes of a key, queued behind codes that leave no escape pending:   *)
(* its escape first.                                                       *)
Escaped(k, e) == IF k.e0 THEN e \cup {"E0ESC"} ELSE e
LastCode(k, up) == IF up THEN k.code + 128 ELSE k.code

LEMMA KeyQueued ==
  ASSUME NEW q \in Seq(Nat), NEW ty \in Seq(Output), NEW sh \in SUBSET Flags,
         NEW e \in SUBSET Flags, Decodes(q, ty, sh, e), "E0ESC" \notin e,
         NEW k \in Key, NEW up \in BOOLEAN
  PROVE  LET s    == Escaped(k, e)
             data == LastCode(k, up)
             r    == Returned(s, data)
         IN  /\ s \in SUBSET Flags /\ ("E0ESC" \in s <=> k.e0)
             /\ q \o codes(k, up) \in Seq(Nat)
             /\ Decodes(q \o codes(k, up), IF r.c = NO THEN ty ELSE Append(ty, r),
                        sh, Flagged(s, data))
<1> DEFINE s    == Escaped(k, e)
           data == LastCode(k, up)
           r    == Returned(s, data)
           q1   == IF k.e0 THEN Append(q, E0) ELSE q
<1>1. k.e0 \in BOOLEAN /\ data \in Nat /\ E0 \in Nat
  <2>1. k.code \in Nat /\ k.code + 128 \in Nat /\ E0 \in Nat
    <3>1. k.code \in 1 .. 127
      BY KeyTypes
    <3>2. E0 \in Nat /\ \A x \in 1 .. 127 : x \in Nat /\ x + 128 \in Nat
      BY DEF E0
    <3> QED BY <3>1, <3>2
  <2>2. data \in Nat
    BY <2>1 DEF LastCode
  <2> QED BY <2>1, <2>2, KeyTypes
<1>2. s \in SUBSET Flags /\ ("E0ESC" \in s <=> k.e0)
  BY <1>1 DEF Escaped, Flags
<1>3. q1 \in Seq(Nat) /\ Decodes(q1, ty, sh, s)
  <2>1. CASE k.e0
    <3>1. Flagged(e, E0) = s /\ Returned(e, E0).c = NO
      BY <2>1, EscapeCode DEF Escaped
    <3>2. Decodes(Append(q, E0), IF Returned(e, E0).c = NO THEN ty ELSE Append(ty, Returned(e, E0)),
                  sh, Flagged(e, E0))
      BY <1>1, DecodesMore
    <3>3. Append(q, E0) \in Seq(Nat)
      BY <1>1
    <3> QED BY <2>1, <3>1, <3>2, <3>3
  <2>2. CASE ~ k.e0
    BY <2>2 DEF Escaped
  <2> QED BY <2>1, <2>2
<1>4. q \o codes(k, up) = Append(q1, data)
  <2> HIDE DEF data
  <2>1. CASE k.e0
    <3>1. codes(k, up) = <<E0>> \o <<data>>
      BY <2>1 DEF codes, data, LastCode
    <3>2. q \o (<<E0>> \o <<data>>) = Append(Append(q, E0), data)
      BY <1>1
    <3> QED BY <2>1, <3>1, <3>2
  <2>2. CASE ~ k.e0
    <3>1. codes(k, up) = <<>> \o <<data>>
      BY <2>2 DEF codes, data, LastCode
    <3>2. q \o (<<>> \o <<data>>) = Append(q, data)
      BY <1>1
    <3> QED BY <2>2, <3>1, <3>2
  <2> QED BY <2>1, <2>2
<1> HIDE DEF s, data, q1
<1>5. Decodes(Append(q1, data), IF r.c = NO THEN ty ELSE Append(ty, r), sh, Flagged(s, data))
  BY <1>1, <1>2, <1>3, DecodesMore
<1>6. Append(q1, data) \in Seq(Nat)
  BY <1>1, <1>3
<1> HIDE DEF r
<1> QED BY <1>2, <1>4, <1>5, <1>6 DEF s, data, r

-----------------------------------------------------------------------------
(* Every step keeps the invariant.                                         *)

LEMMA HeldAreModifiers ==
  HeldModifiers \subseteq Modifier /\ "E0ESC" \notin Modifier /\ "CAPSLOCK" \notin Modifier
BY TableTypes DEF HeldModifiers, modifier_of, Modifier

LEMMA InitKbd == KbdInit => KbdInv
<1> SUFFICES ASSUME KbdInit PROVE KbdInv
  OBVIOUS
<1>1. KbdTypeOK /\ OneKeyEach
  <2>1. queue \in Seq(Nat) /\ typed \in Seq(Output)
    BY EmptySeq DEF KbdInit
  <2>2. shift \in SUBSET Flags /\ down \in SUBSET Key /\ OneKeyEach
    BY DEF KbdInit, OneKeyEach
  <2>3. caps \in BOOLEAN /\ running \in BOOLEAN
    BY DEF KbdInit
  <2> QED BY <2>1, <2>2, <2>3 DEF KbdTypeOK
<1>2. {} \in SUBSET Flags /\ CaughtUp({})
  BY DEF KbdInit, CaughtUp, HeldModifiers
<1>3. Decodes(queue, typed, shift, {})
  BY <1>2, NothingToDecode DEF KbdInit
<1> QED BY <1>1, <1>2, <1>3 DEF KbdInv

LEMMA ResetKbd == KbdInv /\ reset => KbdInv'
<1> SUFFICES ASSUME reset PROVE KbdInv'
  OBVIOUS
<1>1. KbdTypeOK' /\ OneKeyEach'
  <2>1. queue' \in Seq(Nat) /\ typed' \in Seq(Output)
    BY EmptySeq DEF reset
  <2>2. shift' \in SUBSET Flags /\ down' \in SUBSET Key /\ OneKeyEach'
    BY DEF reset, OneKeyEach
  <2>3. caps' \in BOOLEAN /\ running' \in BOOLEAN
    BY DEF reset
  <2> QED BY <2>1, <2>2, <2>3 DEF KbdTypeOK
<1>2. {} \in SUBSET Flags /\ CaughtUp({})'
  BY DEF reset, CaughtUp, HeldModifiers
<1>3. Decodes(queue, typed, shift, {})'
  BY <1>2, NothingToDecode DEF reset
<1> QED BY <1>1, <1>2, <1>3 DEF KbdInv

LEMMA PressKbd ==
  ASSUME KbdInv, NEW k \in Key, press(k)
  PROVE  KbdInv'
<1>1. PICK e \in SUBSET Flags : Decodes(queue, typed, shift, e) /\ CaughtUp(e)
  BY DEF KbdInv, press
<1> DEFINE s == Escaped(k, e)
           r == Returned(s, k.code)
           f == Flagged(s, k.code)
<1>2. "E0ESC" \notin e
  BY <1>1, HeldAreModifiers DEF CaughtUp
<1>3. /\ s \in SUBSET Flags /\ ("E0ESC" \in s <=> k.e0) /\ queue' \in Seq(Nat)
      /\ Decodes(queue', IF r.c = NO THEN typed ELSE Append(typed, r), shift, f)
  <2>1. /\ queue \in Seq(Nat) /\ typed \in Seq(Output) /\ shift \in SUBSET Flags
        /\ queue' = queue \o codes(k, FALSE) /\ FALSE \in BOOLEAN
    BY DEF KbdInv, KbdTypeOK, press
  <2>2. LastCode(k, FALSE) = k.code
    BY DEF LastCode
  <2>3. /\ Escaped(k, e) \in SUBSET Flags /\ ("E0ESC" \in Escaped(k, e) <=> k.e0)
        /\ queue \o codes(k, FALSE) \in Seq(Nat)
        /\ Decodes(queue \o codes(k, FALSE),
                   IF Returned(Escaped(k, e), LastCode(k, FALSE)).c = NO THEN typed
                   ELSE Append(typed, Returned(Escaped(k, e), LastCode(k, FALSE))),
                   shift, Flagged(Escaped(k, e), LastCode(k, FALSE)))
    BY <1>1, <1>2, <2>1, KeyQueued, Zenon
  <2> QED BY <2>1, <2>2, <2>3, Zenon
<1>4. s \cap Modifier = HeldModifiers /\ ("CAPSLOCK" \in s <=> caps)
  BY <1>1, HeldAreModifiers DEF CaughtUp, Escaped
<1>5. f \in SUBSET Flags /\ r \in Output
  <2>1. k.code \in Nat
    BY KeyTypes
  <2> HIDE DEF s
  <2> QED BY <1>3, <2>1, DecodeTypes
<1> HIDE DEF s
<1>6. /\ f \cap (Modifier \cup {"E0ESC"}) = HeldModifiers \cup modifier_of(k)
      /\ "CAPSLOCK" \in f <=> ("CAPSLOCK" \in s) # (k = CapsKey)
      /\ r = meaning(k, HeldModifiers, "CAPSLOCK" \in s)
  BY <1>3, <1>4, MakeCode
<1>7. ("CAPSLOCK" \in s) = caps
  BY <1>4 DEF KbdInv, KbdTypeOK
<1> HIDE DEF r, f
<1>8. typed' = (IF r.c = NO THEN typed ELSE Append(typed, r)) /\ shift' = shift
  BY <1>6, <1>7 DEF press
<1>9. Decodes(queue, typed, shift, f)'
  BY <1>3, <1>8
<1>10. HeldModifiers' = HeldModifiers \cup modifier_of(k)
  BY DEF HeldModifiers, press
<1>11. CaughtUp(f)'
  BY <1>6, <1>7, <1>10 DEF CaughtUp, press
<1>12. KbdTypeOK'
  <2>1. typed' \in Seq(Output)
    BY <1>5, <1>8 DEF KbdInv, KbdTypeOK
  <2>2. caps' \in BOOLEAN
    BY DEF press
  <2> QED BY <1>3, <2>1, <2>2 DEF KbdInv, KbdTypeOK, press
<1>13. OneKeyEach'
  BY DEF KbdInv, OneKeyEach, press
<1> QED BY <1>5, <1>9, <1>11, <1>12, <1>13 DEF KbdInv

LEMMA ReleaseKbd ==
  ASSUME KbdInv, NEW k \in down, release(k)
  PROVE  KbdInv'
<1>0. k \in Key
  BY DEF KbdInv, KbdTypeOK
<1>1. PICK e \in SUBSET Flags : Decodes(queue, typed, shift, e) /\ CaughtUp(e)
  BY DEF KbdInv, release
<1> DEFINE s == Escaped(k, e)
           f == Flagged(s, k.code + 128)
<1>2. "E0ESC" \notin e
  BY <1>1, HeldAreModifiers DEF CaughtUp
<1>3. /\ s \in SUBSET Flags /\ ("E0ESC" \in s <=> k.e0) /\ queue' \in Seq(Nat)
      /\ Decodes(queue', IF Returned(s, k.code + 128).c = NO THEN typed
                         ELSE Append(typed, Returned(s, k.code + 128)), shift, f)
  <2>1. /\ queue \in Seq(Nat) /\ typed \in Seq(Output) /\ shift \in SUBSET Flags
        /\ queue' = queue \o codes(k, TRUE) /\ TRUE \in BOOLEAN
    BY DEF KbdInv, KbdTypeOK, release
  <2>2. LastCode(k, TRUE) = k.code + 128
    BY DEF LastCode
  <2>3. /\ Escaped(k, e) \in SUBSET Flags /\ ("E0ESC" \in Escaped(k, e) <=> k.e0)
        /\ queue \o codes(k, TRUE) \in Seq(Nat)
        /\ Decodes(queue \o codes(k, TRUE),
                   IF Returned(Escaped(k, e), LastCode(k, TRUE)).c = NO THEN typed
                   ELSE Append(typed, Returned(Escaped(k, e), LastCode(k, TRUE))),
                   shift, Flagged(Escaped(k, e), LastCode(k, TRUE)))
    BY <1>0, <1>1, <1>2, <2>1, KeyQueued, Zenon
  <2> QED BY <2>1, <2>2, <2>3, Zenon
<1>4. f = s \ (modifier_of(k) \cup {"E0ESC"}) /\ Returned(s, k.code + 128).c = NO
  <2> HIDE DEF s
  <2> QED BY <1>0, <1>3, BreakCode
<1>5. Decodes(queue, typed, shift, f)'
  <2>1. typed' = typed /\ shift' = shift
    BY DEF release
  <2> HIDE DEF s, f
  <2> QED BY <1>3, <1>4, <2>1
<1>6. s \cap Modifier = HeldModifiers /\ ("CAPSLOCK" \in s <=> "CAPSLOCK" \in e)
  BY <1>1, HeldAreModifiers DEF CaughtUp, Escaped
<1>7. HeldModifiers' = HeldModifiers \ modifier_of(k)
  <2>1. down' = down \ {k} /\ OneKeyEach
    BY DEF release, KbdInv
  <2>2. ASSUME NEW x, x \in HeldModifiers, x \notin modifier_of(k) PROVE x \in HeldModifiers'
    BY <2>1, <2>2 DEF HeldModifiers
  <2>3. ASSUME NEW x, x \in HeldModifiers' PROVE x \in HeldModifiers /\ x \notin modifier_of(k)
    <3>1. PICK j \in down \ {k} : x \in modifier_of(j)
      BY <2>1, <2>3 DEF HeldModifiers
    <3>2. modifier_of(j) \cap modifier_of(k) = {}
      BY <2>1 DEF OneKeyEach
    <3> QED BY <3>1, <3>2 DEF HeldModifiers
  <2> QED BY <2>2, <2>3
<1>8. modifier_of(k) \subseteq Modifier
  BY TableTypes DEF modifier_of
<1>9. f \in SUBSET Flags /\ CaughtUp(f)'
  <2>1. f \in SUBSET Flags
    BY <1>3, <1>4
  <2> HIDE DEF s, f
  <2>2. f \cap (Modifier \cup {"E0ESC"}) = HeldModifiers'
    BY <1>4, <1>6, <1>7, HeldAreModifiers
  <2>3. "CAPSLOCK" \in f <=> "CAPSLOCK" \in e
    BY <1>4, <1>6, <1>8, HeldAreModifiers
  <2> QED BY <1>1, <2>1, <2>2, <2>3 DEF CaughtUp, release
<1>10. KbdTypeOK' /\ OneKeyEach'
  BY <1>3 DEF KbdInv, KbdTypeOK, OneKeyEach, release
<1> HIDE DEF f
<1> QED BY <1>5, <1>9, <1>10 DEF KbdInv

LEMMA DecodeKbd ==
  ASSUME KbdInv, kbd_proc_data
  PROVE  /\ KbdInv'
         /\ out'.c # NO => typed # <<>> /\ out' = Head(typed)
<1> DEFINE data == Head(queue)
           r    == Returned(shift, data)
           f    == Flagged(shift, data)
<1>1. /\ queue \in Seq(Nat) /\ queue # <<>> /\ typed \in Seq(Output)
      /\ shift \in SUBSET Flags /\ down \in SUBSET Key /\ caps \in BOOLEAN /\ OneKeyEach /\ running
  BY DEF KbdInv, KbdTypeOK, kbd_proc_data
<1>2. data \in Nat /\ Tail(queue) \in Seq(Nat)
  BY <1>1, HeadTailProperties
<1>3. /\ queue' = Tail(queue) /\ shift' = f /\ out' = r /\ running' = ~ r.reset
      /\ typed' = (IF r.c # NO /\ typed # <<>> THEN Tail(typed) ELSE typed)
      /\ down' = down /\ caps' = caps
  BY DEF kbd_proc_data, Returned, Flagged
<1>4. f \in SUBSET Flags /\ r \in Output
  BY <1>1, <1>2, DecodeTypes
<1>5. PICK e \in SUBSET Flags : Decodes(queue, typed, shift, e) /\ CaughtUp(e)
  BY <1>1 DEF KbdInv
<1>6. /\ r.c # NO => typed # <<>> /\ r = Head(typed)
      /\ Decodes(Tail(queue), IF r.c # NO /\ typed # <<>> THEN Tail(typed) ELSE typed, f, e)
  BY <1>1, <1>5, DecodesNext
<1> HIDE DEF data, r, f
<1>7. Decodes(queue, typed, shift, e)' /\ CaughtUp(e)'
  BY <1>3, <1>5, <1>6 DEF CaughtUp, HeldModifiers
<1>8. KbdTypeOK' /\ OneKeyEach'
  <2>1. typed' \in Seq(Output)
    BY <1>1, <1>3, HeadTailProperties
  <2>2. running' \in BOOLEAN
    BY <1>3
  <2> QED BY <1>1, <1>2, <1>3, <1>4, <2>1, <2>2 DEF KbdTypeOK, OneKeyEach
<1> QED BY <1>3, <1>6, <1>7, <1>8 DEF KbdInv

LEMMA KbdInductive == KbdInv /\ [KbdNext]_kbdVars => KbdInv'
<1> SUFFICES ASSUME KbdInv, [KbdNext]_kbdVars PROVE KbdInv'
  OBVIOUS
<1>1. CASE UNCHANGED kbdVars
  BY <1>1 DEF kbdVars, KbdInv, KbdTypeOK, OneKeyEach, CaughtUp, HeldModifiers
<1> QED
  BY <1>1, PressKbd, ReleaseKbd, DecodeKbd, ResetKbd DEF KbdNext

-----------------------------------------------------------------------------
(* Whatever is pressed, repeated and released, and however many scan codes *)
(* wait, decoding them returns the characters the keys stood for and ends  *)
(* with the modifiers of the keys held down.                               *)
THEOREM KeyboardInvariant == KbdSpec => []KbdInv
  BY InitKbd, KbdInductive, PTL DEF KbdSpec

(* kbd_proc_data's modifiers are those of the keys held down, with no      *)
(* escape pending and no typed character missing, whenever the controller  *)
(* is empty: for any keyboard and any queue.                               *)
THEOREM NothingSticks == KbdSpec => []ModifiersAsHeld
<1>1. KbdInv => ModifiersAsHeld
  <2> SUFFICES ASSUME KbdInv, running, queue = <<>>
               PROVE  shift \cap (Modifier \cup {"E0ESC"}) = HeldModifiers /\ typed = <<>>
    BY DEF ModifiersAsHeld
  <2>1. PICK e \in SUBSET Flags : Decodes(queue, typed, shift, e) /\ CaughtUp(e)
    BY DEF KbdInv
  <2>2. typed \in Seq(Output) /\ Decodes(<<>>, typed, shift, e)
    BY <2>1 DEF KbdInv, KbdTypeOK
  <2>3. typed = <<>> /\ e = shift
    BY <2>2, AllDecoded
  <2> QED BY <2>1, <2>3 DEF CaughtUp
<1> QED BY <1>1, KeyboardInvariant, PTL

(* kbd_proc_data returns the characters the keys stood for when they were  *)
(* pressed, in their order, and resets for Ctrl-Alt-Del only.              *)
THEOREM DecodedAsTyped == KbdSpec => CharacterAsTyped
<1>1. KbdInv /\ [KbdNext]_kbdVars
        => [kbd_proc_data /\ out'.c # NO => typed # <<>> /\ out' = Head(typed)]_kbdVars
  BY DecodeKbd
<1> QED BY <1>1, KeyboardInvariant, PTL DEF KbdSpec, CharacterAsTyped
=============================================================================

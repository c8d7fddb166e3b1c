--------------------------- MODULE BootLoaderProofs ---------------------------
(***************************************************************************)
(* Proofs about the disk image and the boot loader (BootDisk and           *)
(* BootLoader), for every size of sector, page and memory, every list of   *)
(* arguments and every kernel a linker can make.                           *)
(***************************************************************************)
EXTENDS BootLoader, SequenceTheorems, TLAPS

Bytes == Nat \X Nat

(* The file arguments before argument n; the byte of the image file k      *)
(* begins at, when it begins at sector st[k]; and its bytes.               *)
FilesBefore(as, n) == {k \in 1 .. Len(as) : k < n /\ as[k].kind = "file"}
At(st, k) == st[k] * SECTSIZE
Extent(as, st, k) == At(st, k) .. At(st, k) + as[k].size - 1

(* File k is in the image, behind file j, at the sector that was asked for.*)
Holds(as, im, st, k) ==
  /\ as[k].size \in Nat /\ At(st, k) \in Nat /\ At(st, k) + as[k].size <= Len(im)
  /\ \A i \in 0 .. as[k].size - 1 : im[At(st, k) + i + 1] = Byte(as[k].id, i)
Behind(as, st, j, k) == At(st, j) + as[j].size <= At(st, k)
Asked(as, st, k) == k > 1 /\ as[k - 1].kind = "skip" => st[k] = as[k - 1].to

(* Image im of ns sectors holds the files before argument n at the sectors *)
(* st, and zeros elsewhere behind the boot sector.                         *)
Arranged(as, im, ns, n, st) ==
  /\ st \in [FilesBefore(as, n) -> 1 .. ns]
  /\ \A k \in FilesBefore(as, n) :
       /\ Holds(as, im, st, k) /\ Asked(as, st, k)
       /\ \A j \in FilesBefore(as, n) : j < k => Behind(as, st, j, k)
  /\ \A b \in SECTSIZE .. Len(im) - 1 :
       im[b + 1] = Zero \/ \E k \in FilesBefore(as, n) : b \in Extent(as, st, k)

(* The image im of ns sectors after the arguments before argument n.       *)
Written(in, im, ns, n) ==
  /\ im \in Seq(Bytes) /\ ns \in Nat /\ ns >= 1 /\ Len(im) = ns * SECTSIZE
  /\ n \in 1 .. Len(in.args) + 1
  /\ in.boot <= SECTSIZE - 2
  /\ \A i \in 1 .. in.boot : im[i] = Byte(Boot, i - 1)
  /\ im[SECTSIZE - 1] = Sig55 /\ im[SECTSIZE] = SigAA
  /\ \E st : Arranged(in.args, im, ns, n, st)
Reached(in, ns, n) == n > 1 /\ in.args[n - 1].kind = "skip" => ns = in.args[n - 1].to

ImageInv ==
  /\ input \in Inputs
  /\ tool \in {"boot", "args", "done", "usage"}
  /\ tool = "boot" => arg = 1
  /\ tool \in {"args", "done"} => Written(input, image, nsectors, arg)
  /\ tool = "args" => Reached(input, nsectors, arg)
  /\ tool = "done" => arg = Len(input.args) + 1 /\ nsectors >= MinSectors

-----------------------------------------------------------------------------
LEMMA MulLe ==
  ASSUME NEW m \in Nat, NEW a \in Nat, NEW b \in Nat, a <= b
  PROVE  a * m <= b * m
OBVIOUS

LEMMA MulLess ==
  ASSUME NEW m \in Nat, NEW a \in Nat, NEW b \in Nat, a < b
  PROVE  a * m + m <= b * m
<1>1. (a + 1) * m <= b * m
  BY MulLe, a + 1 \in Nat, a + 1 <= b
<1> QED
  BY <1>1, (a + 1) * m = a * m + m

LEMMA DivMod ==
  ASSUME NEW m \in Nat, m > 0, NEW a \in Nat
  PROVE  a \div m \in Nat /\ a % m \in 0 .. m - 1 /\ a = (a \div m) * m + (a % m)
OBVIOUS

LEMMA DivUnique ==
  ASSUME NEW m \in Nat, m > 0, NEW q \in Nat, NEW r \in 0 .. m - 1,
         NEW a \in Nat, a = q * m + r
  PROVE  a \div m = q /\ a % m = r
<1> DEFINE k == a \div m
<1>1. k \in Nat /\ a % m \in 0 .. m - 1 /\ a = k * m + (a % m)
  BY DivMod
<1> HIDE DEF k
<1>2. k * m \in Nat /\ q * m \in Nat
  BY <1>1
<1>3. ~ (k < q)
  BY <1>1, <1>2, MulLess
<1>4. ~ (q < k)
  BY <1>1, <1>2, MulLess
<1>5. k = q
  BY <1>1, <1>3, <1>4
<1> QED
  BY <1>1, <1>2, <1>5 DEF k

LEMMA ZerosAre ==
  ASSUME NEW n \in Nat
  PROVE  Zeros(n) \in Seq(Bytes) /\ Len(Zeros(n)) = n /\ \A i \in 1 .. n : Zeros(n)[i] = Zero
<1>1. Zeros(n) \in [1 .. n -> Bytes]
  BY DEF Zeros, Zero, Bytes
<1> QED
  BY <1>1 DEF Zeros

LEMMA ContentsAre ==
  ASSUME NEW n \in Nat, NEW id \in Nat
  PROVE  /\ Contents(id, n) \in Seq(Bytes) /\ Len(Contents(id, n)) = n
         /\ \A i \in 1 .. n : Contents(id, n)[i] = Byte(id, i - 1)
<1>1. Contents(id, n) \in [1 .. n -> Bytes]
  BY DEF Contents, Byte, Bytes
<1> QED
  BY <1>1 DEF Contents

(* A longer image begins with the shorter one.                             *)
LEMMA Longer ==
  ASSUME NEW im \in Seq(Bytes), NEW x \in Seq(Bytes)
  PROVE  /\ im \o x \in Seq(Bytes) /\ Len(im \o x) = Len(im) + Len(x)
         /\ \A b \in 1 .. Len(im) : (im \o x)[b] = im[b]
         /\ \A b \in 1 .. Len(x) : (im \o x)[Len(im) + b] = x[b]
<1>1. /\ im \o x \in Seq(Bytes) /\ Len(im \o x) = Len(im) + Len(x)
      /\ \A b \in 1 .. Len(im) + Len(x) :
           (im \o x)[b] = IF b <= Len(im) THEN im[b] ELSE x[b - Len(im)]
  BY ConcatProperties
<1>2. Len(im) \in Nat /\ Len(x) \in Nat
  OBVIOUS
<1>3. ASSUME NEW b \in 1 .. Len(x) PROVE (im \o x)[Len(im) + b] = x[b]
  <2>1. Len(im) + b \in 1 .. Len(im) + Len(x) /\ ~ (Len(im) + b <= Len(im))
        /\ Len(im) + b - Len(im) = b
    BY <1>2
  <2> QED
    BY <1>1, <2>1
<1>4. ASSUME NEW b \in 1 .. Len(im) PROVE (im \o x)[b] = im[b]
  BY <1>1, <1>2
<1> QED
  BY <1>1, <1>3, <1>4

(* A file in an image is in every image that begins with it.               *)
LEMMA HoldsLonger ==
  ASSUME NEW as, NEW st, NEW k, NEW im, NEW jm, Len(im) \in Nat, Len(jm) \in Nat,
         Len(im) <= Len(jm), \A b \in 1 .. Len(im) : jm[b] = im[b], Holds(as, im, st, k)
  PROVE  Holds(as, jm, st, k)
<1>1. PICK p \in Nat : p = At(st, k)
  BY DEF Holds
<1>2. PICK z \in Nat : z = as[k].size
  BY DEF Holds
<1>3. p + z <= Len(im) /\ \A i \in 0 .. z - 1 : im[p + i + 1] = Byte(as[k].id, i)
  BY <1>1, <1>2 DEF Holds
<1>4. ASSUME NEW i \in 0 .. z - 1 PROVE jm[p + i + 1] = Byte(as[k].id, i)
  <2>1. p + i + 1 \in 1 .. Len(im)
    BY <1>3
  <2> QED
    BY <1>3, <2>1
<1>5. p + z <= Len(jm)
  BY <1>3
<1> QED
  BY <1>1, <1>2, <1>4, <1>5 DEF Holds

(* Zeros behind it change nothing.                                         *)
LEMMA ZerosAppended ==
  ASSUME NEW as, NEW im \in Seq(Bytes), NEW ns \in Nat, NEW n, NEW st,
         Arranged(as, im, ns, n, st), NEW c \in Nat, NEW nt \in Nat, ns <= nt,
         NEW m, FilesBefore(as, m) = FilesBefore(as, n)
  PROVE  Arranged(as, im \o Zeros(c), nt, m, st)
<1> DEFINE jm == im \o Zeros(c)
           F == FilesBefore(as, n)
<1>1. /\ Len(im) \in Nat /\ Len(jm) = Len(im) + c
      /\ \A b \in 1 .. Len(im) : jm[b] = im[b]
      /\ \A b \in 1 .. c : jm[Len(im) + b] = Zero
  BY ZerosAre, Longer
<1>2. SECTSIZE \in Nat
  BY BootDiskAssumption
<1> HIDE DEF jm, F
<1>3. st \in [F -> 1 .. ns]
  BY DEF Arranged, F
<1>4. st \in [F -> 1 .. nt]
  BY <1>3
<1>5. ASSUME NEW k \in F
      PROVE  /\ Holds(as, jm, st, k) /\ Asked(as, st, k)
             /\ \A j \in F : j < k => Behind(as, st, j, k)
  <2>1. Holds(as, im, st, k) /\ Asked(as, st, k) /\ \A j \in F : j < k => Behind(as, st, j, k)
    BY DEF Arranged, F
  <2>2. Len(jm) \in Nat /\ Len(im) <= Len(jm)
    BY <1>1
  <2> QED
    BY <1>1, <2>1, <2>2, HoldsLonger
<1>6. ASSUME NEW b \in SECTSIZE .. Len(jm) - 1
      PROVE  jm[b + 1] = Zero \/ \E k \in F : b \in Extent(as, st, k)
  <2>1. CASE b < Len(im)
    <3>1. b \in SECTSIZE .. Len(im) - 1 /\ b + 1 \in 1 .. Len(im)
      BY <1>1, <1>2, <2>1
    <3>2. jm[b + 1] = im[b + 1]
      BY <1>1, <3>1
    <3> QED
      BY <3>1, <3>2, Zenon DEF Arranged, F
  <2>2. CASE b >= Len(im)
    <3>1. b + 1 - Len(im) \in 1 .. c /\ Len(im) + (b + 1 - Len(im)) = b + 1
      BY <1>1, <1>2, <2>2
    <3> QED
      BY <1>1, <3>1
  <2>3. b < Len(im) \/ b >= Len(im)
    BY <1>1, <1>2
  <2> QED
    BY <2>1, <2>2, <2>3, Zenon
<1> QED
  BY <1>4, <1>5, <1>6, Zenon DEF Arranged, F, jm

(* A file behind it, padded to the end of a sector, is one more.           *)
LEMMA FileAppended ==
  ASSUME NEW as, NEW im \in Seq(Bytes), NEW ns \in Nat, ns >= 1, NEW n \in 1 .. Len(as),
         Len(as) \in Nat, NEW st, Arranged(as, im, ns, n, st), Len(im) = ns * SECTSIZE,
         as[n].kind = "file", as[n].id \in Nat, as[n].size \in Nat,
         n > 1 /\ as[n - 1].kind = "skip" => ns = as[n - 1].to,
         NEW pad \in Nat, NEW nt \in Nat, ns <= nt
  PROVE  \E su : Arranged(as, im \o Contents(as[n].id, as[n].size) \o Zeros(pad), nt, n + 1, su)
<1>1. PICK size \in Nat : size = as[n].size
  OBVIOUS
<1>2. PICK id \in Nat : id = as[n].id
  OBVIOUS
<1>3. PICK l \in Nat : l = Len(im)
  OBVIOUS
<1> DEFINE fs == Contents(id, size)
           zs == Zeros(pad)
           km == im \o fs
           jm == km \o zs
           F == FilesBefore(as, n)
           G == FilesBefore(as, n + 1)
           su == [k \in G |-> IF k = n THEN ns ELSE st[k]]
<1>4. /\ km \in Seq(Bytes) /\ Len(km) = l + size
      /\ \A b \in 1 .. l : km[b] = im[b]
      /\ \A b \in 1 .. size : km[l + b] = Byte(id, b - 1)
  <2>1. fs \in Seq(Bytes) /\ Len(fs) = size /\ \A b \in 1 .. size : fs[b] = Byte(id, b - 1)
    BY ContentsAre
  <2> HIDE DEF fs
  <2>2. /\ km \in Seq(Bytes) /\ Len(km) = Len(im) + Len(fs)
        /\ \A b \in 1 .. Len(im) : km[b] = im[b]
        /\ \A b \in 1 .. Len(fs) : km[Len(im) + b] = fs[b]
    BY <2>1, Longer
  <2> HIDE DEF km
  <2> QED
    BY <1>3, <2>1, <2>2
<1> HIDE DEF km
<1>5. /\ Len(jm) = l + size + pad
      /\ \A b \in 1 .. l + size : jm[b] = km[b]
      /\ \A b \in 1 .. pad : jm[l + size + b] = Zero
  <2>1. zs \in Seq(Bytes) /\ Len(zs) = pad /\ \A b \in 1 .. pad : zs[b] = Zero
    BY ZerosAre
  <2> HIDE DEF zs
  <2>2. /\ Len(jm) = Len(km) + Len(zs)
        /\ \A b \in 1 .. Len(km) : jm[b] = km[b]
        /\ \A b \in 1 .. Len(zs) : jm[Len(km) + b] = zs[b]
    BY <1>4, <2>1, Longer
  <2> HIDE DEF jm
  <2> QED
    BY <1>4, <2>1, <2>2
<1> HIDE DEF jm
<1>6. SECTSIZE \in Nat
  BY BootDiskAssumption
<1>7. G = F \cup {n} /\ n \notin F /\ \A k \in F : k < n /\ k \in Nat
  <2>1. \A k : k \in F <=> k \in 1 .. Len(as) /\ k < n /\ as[k].kind = "file"
    BY DEF FilesBefore
  <2>2. \A k : k \in G <=> k \in 1 .. Len(as) /\ k < n + 1 /\ as[k].kind = "file"
    BY DEF FilesBefore
  <2> HIDE DEF F, G
  <2>3. \A k \in 1 .. Len(as) : k < n + 1 <=> k < n \/ k = n
    OBVIOUS
  <2>4. \A k : k \in G <=> k \in F \/ k = n
    <3>1. n < n + 1
      OBVIOUS
    <3> QED
      BY <2>1, <2>2, <2>3, <3>1, Zenon
  <2>5. n \notin F /\ \A k \in F : k < n /\ k \in Nat
    <3>1. ~(n < n)
      OBVIOUS
    <3>2. \A k \in 1 .. Len(as) : k \in Nat
      OBVIOUS
    <3> QED
      BY <2>1, <3>1, <3>2, Zenon
  <2> QED
    BY <2>4, <2>5
<1>8. /\ \A b \in 1 .. l : jm[b] = im[b]
      /\ \A b \in 1 .. size : jm[l + b] = Byte(id, b - 1)
  <2>1. ASSUME NEW b \in 1 .. l PROVE jm[b] = im[b]
    <3>1. b \in 1 .. l + size
      OBVIOUS
    <3> QED
      BY <1>4, <1>5, <3>1
  <2>2. ASSUME NEW b \in 1 .. size PROVE jm[l + b] = Byte(id, b - 1)
    <3>1. l + b \in 1 .. l + size
      OBVIOUS
    <3> QED
      BY <1>4, <1>5, <3>1
  <2> QED
    BY <2>1, <2>2
<1> HIDE DEF F, G
<1>9. /\ st \in [F -> 1 .. ns]
      /\ \A k \in F : Holds(as, im, st, k) /\ Asked(as, st, k)
      /\ \A j, k \in F : j < k => Behind(as, st, j, k)
  BY DEF Arranged, F
<1>10. su \in [G -> 1 .. nt] /\ su[n] = ns /\ \A k \in F : su[k] = st[k]
  BY <1>7, <1>9
<1> HIDE DEF su
<1>11. At(su, n) = l /\ \A k \in F : At(su, k) = At(st, k)
  BY <1>3, <1>10 DEF At
<1>12. Holds(as, jm, su, n) /\ Asked(as, su, n)
  <2>1. Asked(as, su, n)
    BY <1>10 DEF Asked
  <2>2. ASSUME NEW i \in 0 .. size - 1 PROVE jm[l + i + 1] = Byte(id, i)
    <3>1. i + 1 \in 1 .. size /\ i + 1 - 1 = i /\ l + i + 1 = l + (i + 1)
      OBVIOUS
    <3> QED
      BY <1>8, <3>1
  <2>3. l + size <= Len(jm)
    BY <1>5
  <2> QED
    BY <1>1, <1>2, <1>11, <2>1, <2>2, <2>3 DEF Holds
<1>13. ASSUME NEW k \in F PROVE Holds(as, jm, su, k) /\ Asked(as, su, k)
  <2>1. Holds(as, jm, st, k)
    <3>1. Len(jm) \in Nat /\ Len(im) <= Len(jm) /\ \A b \in 1 .. Len(im) : jm[b] = im[b]
      BY <1>3, <1>5, <1>8
    <3> QED
      BY <1>3, <1>9, <3>1, HoldsLonger
  <2>2. Holds(as, jm, su, k)
    BY <1>11, <2>1, Zenon DEF Holds
  <2>3. Asked(as, su, k)
    BY <1>9, <1>10, Zenon DEF Asked
  <2> QED
    BY <2>2, <2>3
<1>14. ASSUME NEW j \in F PROVE Behind(as, su, j, n)
  <2>1. At(st, j) + as[j].size <= l
    BY <1>3, <1>9 DEF Holds
  <2> QED
    BY <1>11, <2>1, Zenon DEF Behind
<1>15. ASSUME NEW j \in G, NEW k \in G, j < k PROVE Behind(as, su, j, k)
  <2>1. CASE k = n
    <3>1. j \in F
      BY <1>7, <1>15, <2>1
    <3> QED
      BY <1>14, <2>1, <3>1
  <2>2. CASE k # n
    <3>1. k \in F /\ k < n /\ k \in Nat
      BY <1>7, <2>2
    <3>2. j \in F
      BY <1>7, <1>15, <3>1
    <3>3. Behind(as, st, j, k)
      BY <1>9, <1>15, <3>1, <3>2
    <3> QED
      BY <1>11, <3>1, <3>2, <3>3, Zenon DEF Behind
  <2> QED
    BY <2>1, <2>2
<1>16. Len(jm) \in Nat /\ Len(jm) = l + size + pad
  BY <1>5
<1>17. ASSUME NEW b \in SECTSIZE .. Len(jm) - 1
       PROVE  jm[b + 1] = Zero \/ \E k \in G : b \in Extent(as, su, k)
  <2>1. CASE b < l
    <3>1. b \in SECTSIZE .. Len(im) - 1 /\ b + 1 \in 1 .. l
      <4>1. b \in Nat /\ b >= SECTSIZE
        BY <1>6, <1>16
      <4> QED
        BY <1>3, <1>6, <2>1, <4>1
    <3>2. jm[b + 1] = im[b + 1]
      BY <1>8, <3>1
    <3>3. im[b + 1] = Zero \/ \E k \in F : b \in Extent(as, st, k)
      BY <3>1, Zenon DEF Arranged, F
    <3>4. \A k \in F : Extent(as, su, k) = Extent(as, st, k)
      BY <1>11, Zenon DEF Extent
    <3> QED
      BY <1>7, <3>2, <3>3, <3>4
  <2>2. CASE b >= l /\ b < l + size
    <3>1. b \in l .. l + size - 1
      BY <1>6, <2>2
    <3>2. b \in Extent(as, su, n)
      BY <1>1, <1>11, <3>1, Zenon DEF Extent
    <3> QED
      BY <1>7, <3>2
  <2>3. CASE b >= l + size
    <3>1. b + 1 - l - size \in 1 .. pad /\ l + size + (b + 1 - l - size) = b + 1
      BY <1>6, <1>16, <2>3
    <3> QED
      BY <1>5, <3>1
  <2>4. b < l \/ (b >= l /\ b < l + size) \/ b >= l + size
    BY <1>6, <1>16
  <2> QED
    BY <2>1, <2>2, <2>3, <2>4, Zenon
<1>18. ASSUME NEW k \in G PROVE Holds(as, jm, su, k) /\ Asked(as, su, k)
  BY <1>7, <1>12, <1>13
<1>19. Arranged(as, jm, nt, n + 1, su)
  BY <1>10, <1>15, <1>17, <1>18, Zenon DEF Arranged, G
<1>20. jm = im \o Contents(as[n].id, as[n].size) \o Zeros(pad)
  BY <1>1, <1>2 DEF jm, km, fs, zs
<1> QED
  BY <1>19, <1>20

-----------------------------------------------------------------------------
(* A padded file fills whole sectors.                                      *)
Pad(size, m) == IF size % m = 0 THEN 0 ELSE m - (size % m)

LEMMA Padded ==
  ASSUME NEW m \in Nat, m > 0, NEW size \in Nat, NEW pad, pad = Pad(size, m)
  PROVE  /\ pad \in Nat /\ (size + pad) \div m \in Nat
         /\ ((size + pad) \div m) * m = size + pad
<1>1. PICK q \in Nat : q = size \div m
  BY DivMod
<1>2. PICK r \in 0 .. m - 1 : r = size % m
  BY DivMod
<1>3. size = q * m + r
  BY <1>1, <1>2, DivMod
<1>4. PICK p \in Nat : p = q * m
  OBVIOUS
<1>5. CASE r = 0
  <2>1. pad = 0 /\ size + pad = q * m + 0
    BY <1>2, <1>3, <1>4, <1>5 DEF Pad
  <2>2. (size + pad) \div m = q
    BY <2>1, <1>4, DivUnique, 0 \in 0 .. m - 1
  <2> QED
    BY <2>1, <2>2, <1>4
<1>6. CASE r # 0
  <2>1. pad = m - r /\ pad \in Nat
    BY <1>2, <1>6 DEF Pad
  <2>2. size + pad = p + m
    BY <1>3, <1>4, <2>1
  <2>3. PICK q1 \in Nat : q1 = q + 1
    OBVIOUS
  <2>4. q1 * m = p + m
    BY <1>4, <2>3
  <2>5. PICK a \in Nat : a = size + pad
    BY <2>1
  <2>6. a = q1 * m + 0
    BY <2>2, <2>4, <2>5
  <2>7. a \div m = q1
    BY <2>6, DivUnique, 0 \in 0 .. m - 1
  <2> QED
    BY <2>1, <2>2, <2>4, <2>5, <2>7
<1> QED
  BY <1>5, <1>6

(* What every argument is.                                                 *)
LEMMA InputsAre ==
  ASSUME NEW in \in Inputs
  PROVE  /\ in.boot \in Nat /\ Len(in.args) \in Nat
         /\ SECTSIZE \in Nat /\ SECTSIZE >= 3 /\ MinSectors \in Nat
         /\ \A k \in 1 .. Len(in.args) :
              \/ in.args[k].kind = "file" /\ in.args[k].id \in Nat \ {0} /\ in.args[k].size \in Int
              \/ in.args[k].kind = "skip" /\ in.args[k].to \in Nat
<1>1. SECTSIZE \in Nat /\ SECTSIZE >= 3 /\ MinSectors \in Nat
  BY BootDiskAssumption
<1> QED
  BY <1>1, BootDiskAssumption, Zenon DEF IsArgument

(* The boot sector alone.                                                  *)
LEMMA BootWritten ==
  ASSUME NEW in \in Inputs, in.boot <= SECTSIZE - 2
  PROVE  Written(in, Contents(Boot, in.boot) \o Zeros(SECTSIZE - 2 - in.boot) \o <<Sig55, SigAA>>, 1, 1)
<1>1. PICK n \in Nat : n = in.boot
  BY InputsAre
<1>2. PICK s \in Nat : s = SECTSIZE /\ s >= 3
  BY InputsAre
<1>3. PICK z \in Nat : z = s - 2 - n
  BY <1>1, <1>2
<1> DEFINE cs == Contents(Boot, n)
           zs == Zeros(z)
           sg == <<Sig55, SigAA>>
           km == cs \o zs
           jm == km \o sg
<1>4. cs \in Seq(Bytes) /\ Len(cs) = n /\ \A b \in 1 .. n : cs[b] = Byte(Boot, b - 1)
  BY ContentsAre, Boot \in Nat DEF Boot
<1>5. zs \in Seq(Bytes) /\ Len(zs) = z
  BY ZerosAre
<1>6. sg \in Seq(Bytes) /\ Len(sg) = 2 /\ sg[1] = Sig55 /\ sg[2] = SigAA
  BY DEF Sig55, SigAA, Bytes
<1> HIDE DEF cs, zs, sg
<1>7. km \in Seq(Bytes) /\ Len(km) = n + z /\ \A b \in 1 .. n : km[b] = cs[b]
  BY <1>4, <1>5, Longer
<1> HIDE DEF km
<1>8. /\ jm \in Seq(Bytes) /\ Len(jm) = Len(km) + Len(sg)
      /\ \A b \in 1 .. Len(km) : jm[b] = km[b]
      /\ \A b \in 1 .. Len(sg) : jm[Len(km) + b] = sg[b]
  BY <1>6, <1>7, Longer
<1> HIDE DEF jm
<1>9. Len(km) = s - 2
  BY <1>2, <1>3, <1>7
<1>10. Len(jm) = s /\ jm[s - 1] = Sig55 /\ jm[s] = SigAA
  <2>1. Len(jm) = s
    BY <1>2, <1>6, <1>8, <1>9
  <2>2. s - 2 + 1 = s - 1 /\ s - 2 + 2 = s
    OBVIOUS
  <2>3. 1 \in 1 .. Len(sg) /\ 2 \in 1 .. Len(sg)
    BY <1>6
  <2>4. jm[s - 2 + 1] = sg[1] /\ jm[s - 2 + 2] = sg[2]
    BY <1>8, <1>9, <2>3
  <2> QED
    BY <1>6, <2>1, <2>2, <2>4
<1>11. ASSUME NEW b \in 1 .. n PROVE jm[b] = Byte(Boot, b - 1)
  <2>1. b \in 1 .. Len(km)
    BY <1>7
  <2> QED
    BY <1>4, <1>7, <1>8, <2>1
<1>12. Arranged(in.args, jm, 1, 1, <<>>)
  <2>1. FilesBefore(in.args, 1) = {}
    <3>1. Len(in.args) \in Nat
      BY InputsAre
    <3>2. \A k \in 1 .. Len(in.args) : ~(k < 1)
      BY <3>1
    <3> QED
      BY <3>2, Zenon DEF FilesBefore
  <2>2. <<>> \in [{} -> 1 .. 1]
    OBVIOUS
  <2>3. ASSUME NEW b \in SECTSIZE .. Len(jm) - 1 PROVE FALSE
    BY <1>2, <1>10
  <2> QED
    BY <2>1, <2>2, <2>3, Zenon DEF Arranged
<1>13. Len(jm) = 1 * SECTSIZE
  BY <1>2, <1>10
<1>14. 1 \in 1 .. Len(in.args) + 1
  BY InputsAre
<1>15. Written(in, jm, 1, 1)
  BY <1>1, <1>2, <1>8, <1>10, <1>11, <1>12, <1>13, <1>14, 1 \in Nat, 1 >= 1 DEF Written
<1>16. jm = Contents(Boot, in.boot) \o Zeros(SECTSIZE - 2 - in.boot) \o <<Sig55, SigAA>>
  BY <1>1, <1>2, <1>3 DEF jm, km, cs, zs, sg
<1> QED
  BY <1>15, <1>16

(* The boot sector stays what it is when the image grows.                  *)
LEMMA BootStays ==
  ASSUME NEW in \in Inputs, NEW im, NEW ns, NEW n, Written(in, im, ns, n), NEW jm, NEW nt, NEW m,
         jm \in Seq(Bytes), \A b \in 1 .. Len(im) : jm[b] = im[b],
         nt \in Nat, ns <= nt, Len(jm) = nt * SECTSIZE, m \in 1 .. Len(in.args) + 1,
         \E st : Arranged(in.args, jm, nt, m, st)
  PROVE  Written(in, jm, nt, m)
<1>1. PICK s \in Nat : s = SECTSIZE /\ s >= 3
  BY InputsAre
<1>2. ns \in Nat /\ ns >= 1 /\ Len(im) = ns * s
  BY <1>1 DEF Written
<1>3. ns * s >= s
  BY <1>1, <1>2, MulLe, 1 \in Nat, 1 * s = s
<1>4. in.boot \in Nat /\ in.boot <= s - 2
  BY <1>1, InputsAre DEF Written
<1>5. \A b \in 1 .. s : b \in 1 .. Len(im)
  BY <1>2, <1>3
<1>6. \A b \in 1 .. s : jm[b] = im[b]
  BY <1>5
<1>7. s - 1 \in 1 .. s /\ s \in 1 .. s /\ \A i \in 1 .. in.boot : i \in 1 .. s
  BY <1>1, <1>4
<1>8. jm[SECTSIZE - 1] = Sig55 /\ jm[SECTSIZE] = SigAA
  BY <1>1, <1>6, <1>7 DEF Written
<1>9. \A i \in 1 .. in.boot : jm[i] = Byte(Boot, i - 1)
  BY <1>6, <1>7, Zenon DEF Written
<1>10. nt >= 1
  BY <1>2
<1>11. in.boot <= SECTSIZE - 2
  BY DEF Written
<1> QED
  BY <1>8, <1>9, <1>10, <1>11, Zenon DEF Written

(* Whole sectors of zeros behind it, past an argument that is no file.     *)
LEMMA ZerosWritten ==
  ASSUME NEW in \in Inputs, NEW im, NEW ns, NEW n, Written(in, im, ns, n), NEW nt \in Nat,
         ns <= nt, NEW m \in 1 .. Len(in.args) + 1,
         FilesBefore(in.args, m) = FilesBefore(in.args, n)
  PROVE  Written(in, im \o Zeros((nt - ns) * SECTSIZE), nt, m)
<1>1. PICK s \in Nat : s = SECTSIZE
  BY InputsAre
<1>2. im \in Seq(Bytes) /\ ns \in Nat /\ Len(im) = ns * s
  BY <1>1 DEF Written
<1>3. PICK c \in Nat : c = (nt - ns) * s /\ ns * s + c = nt * s
  <2>1. PICK d \in Nat : d = nt - ns /\ nt = ns + d
    BY <1>2
  <2>2. d * s \in Nat /\ (ns + d) * s = ns * s + d * s
    BY <1>2
  <2> QED
    BY <2>1, <2>2
<1>4. PICK st : Arranged(in.args, im, ns, n, st)
  BY DEF Written
<1> DEFINE jm == im \o Zeros(c)
<1>5. Arranged(in.args, jm, nt, m, st)
  BY <1>2, <1>4, ZerosAppended
<1>6. /\ jm \in Seq(Bytes) /\ Len(jm) = Len(im) + c
      /\ \A b \in 1 .. Len(im) : jm[b] = im[b]
  BY <1>2, ZerosAre, Longer
<1> HIDE DEF jm
<1>7. Len(jm) = nt * SECTSIZE
  BY <1>1, <1>2, <1>3, <1>6
<1>8. Written(in, jm, nt, m)
  BY <1>5, <1>6, <1>7, BootStays
<1> QED
  BY <1>1, <1>3, <1>8 DEF jm

(* A padded file behind it.                                                *)
LEMMA FileWritten ==
  ASSUME NEW in \in Inputs, NEW im, NEW ns, NEW n \in 1 .. Len(in.args), Written(in, im, ns, n),
         Reached(in, ns, n), in.args[n].kind = "file", in.args[n].size \in Nat, NEW pad,
         pad = Pad(in.args[n].size, SECTSIZE)
  PROVE  Written(in, im \o Contents(in.args[n].id, in.args[n].size) \o Zeros(pad),
                 ns + (in.args[n].size + pad) \div SECTSIZE, n + 1)
<1>1. PICK s \in Nat : s = SECTSIZE /\ s > 0
  BY InputsAre
<1>2. PICK size \in Nat : size = in.args[n].size
  OBVIOUS
<1>3. pad \in Nat /\ (size + pad) \div s \in Nat /\ ((size + pad) \div s) * s = size + pad
  <2>1. pad = Pad(size, s)
    BY <1>1, <1>2
  <2> QED
    BY <1>1, <2>1, Padded
<1>4. PICK d \in Nat : d = (size + pad) \div s /\ d * s = size + pad
  BY <1>3
<1>5. im \in Seq(Bytes) /\ ns \in Nat /\ ns >= 1 /\ Len(im) = ns * s
  BY <1>1 DEF Written
<1>6. Len(in.args) \in Nat /\ in.args[n].id \in Nat
  BY InputsAre
<1>7. PICK id \in Nat : id = in.args[n].id
  BY <1>6
<1>8. PICK nt \in Nat : nt = ns + d /\ ns <= nt /\ nt * s = ns * s + size + pad
  <2>1. (ns + d) * s = ns * s + d * s /\ ns + d \in Nat /\ ns <= ns + d
    BY <1>5
  <2>2. PICK p \in Nat : p = ns * s
    BY <1>5
  <2>3. ns * s + d * s = ns * s + size + pad
    BY <1>3, <1>4, <2>2
  <2> QED
    BY <2>1, <2>3
<1>9. PICK st : Arranged(in.args, im, ns, n, st)
  BY DEF Written
<1> DEFINE fs == Contents(id, size)
           zs == Zeros(pad)
           km == im \o fs
           jm == km \o zs
<1>10. \E su : Arranged(in.args, jm, nt, n + 1, su)
  <2>1. n > 1 /\ in.args[n - 1].kind = "skip" => ns = in.args[n - 1].to
    BY DEF Reached
  <2> QED
    BY <1>1, <1>2, <1>3, <1>5, <1>6, <1>7, <1>8, <1>9, <2>1, FileAppended
<1>11. fs \in Seq(Bytes) /\ Len(fs) = size /\ zs \in Seq(Bytes) /\ Len(zs) = pad
  BY <1>3, ContentsAre, ZerosAre
<1> HIDE DEF fs, zs
<1>12. km \in Seq(Bytes) /\ Len(km) = Len(im) + size /\ \A b \in 1 .. Len(im) : km[b] = im[b]
  BY <1>5, <1>11, Longer
<1> HIDE DEF km
<1>13. jm \in Seq(Bytes) /\ Len(jm) = Len(km) + pad /\ \A b \in 1 .. Len(km) : jm[b] = km[b]
  BY <1>11, <1>12, Longer
<1> HIDE DEF jm
<1>14. Len(jm) = nt * SECTSIZE
  BY <1>1, <1>3, <1>5, <1>8, <1>12, <1>13
<1>15. ASSUME NEW b \in 1 .. Len(im) PROVE jm[b] = im[b]
  <2>1. b \in 1 .. Len(km)
    BY <1>5, <1>12
  <2> QED
    BY <1>12, <1>13, <2>1
<1>16. n + 1 \in 1 .. Len(in.args) + 1
  BY <1>6
<1>17. Written(in, jm, nt, n + 1)
  BY <1>8, <1>10, <1>13, <1>14, <1>15, <1>16, BootStays
<1>18. jm = im \o Contents(in.args[n].id, in.args[n].size) \o Zeros(pad)
  BY <1>2, <1>7 DEF jm, km, fs, zs
<1>19. nt = ns + (in.args[n].size + pad) \div SECTSIZE
  BY <1>1, <1>2, <1>4, <1>8
<1> QED
  BY <1>17, <1>18, <1>19

-----------------------------------------------------------------------------
(* mkbootdisk keeps the invariant, step by step.                           *)
LEMMA ImageInit ==
  ASSUME DiskInit PROVE ImageInv
BY DEF DiskInit, ImageInv

LEMMA WriteBootSector ==
  ASSUME ImageInv, write_boot_sector PROVE ImageInv'
<1>1. input \in Inputs /\ arg = 1 /\ input' = input
  BY DEF ImageInv, write_boot_sector, usage
<1>2. CASE input.boot > SECTSIZE - 2
  <2>1. tool' = "usage"
    BY <1>2 DEF write_boot_sector, usage
  <2> QED
    BY <1>1, <2>1, Zenon DEF ImageInv
<1>3. CASE ~(input.boot > SECTSIZE - 2)
  <2>1. /\ image' = Contents(Boot, input.boot) \o Zeros(SECTSIZE - 2 - input.boot) \o <<Sig55, SigAA>>
        /\ nsectors' = 1 /\ tool' = "args" /\ arg' = arg
    BY <1>3 DEF write_boot_sector
  <2>2. input.boot <= SECTSIZE - 2
    BY <1>1, <1>3, InputsAre
  <2>3. Written(input', image', nsectors', arg')
    BY <1>1, <2>1, <2>2, BootWritten
  <2>4. Reached(input', nsectors', arg')
    BY <1>1, <2>1 DEF Reached
  <2> QED
    BY <1>1, <2>1, <2>3, <2>4 DEF ImageInv
<1> QED
  BY <1>2, <1>3

LEMMA WriteFile ==
  ASSUME ImageInv, write_file PROVE ImageInv'
<1>1. /\ input \in Inputs /\ input' = input /\ tool = "args"
      /\ Written(input, image, nsectors, arg) /\ Reached(input, nsectors, arg)
      /\ arg <= Len(input.args) /\ input.args[arg].kind = "file"
  BY DEF ImageInv, write_file, usage
<1>2. arg \in 1 .. Len(input.args) /\ arg \in Nat /\ input.args[arg].size \in Int
  <2>1. Len(input.args) \in Nat /\ arg \in 1 .. Len(input.args) + 1
    BY <1>1, InputsAre DEF Written
  <2>2. arg \in 1 .. Len(input.args) /\ arg \in Nat
    BY <1>1, <2>1
  <2> QED
    BY <1>1, <2>2, InputsAre
<1>3. CASE input.args[arg].size < 0
  <2>1. tool' = "usage"
    BY <1>3 DEF write_file, usage
  <2> QED
    BY <1>1, <2>1, Zenon DEF ImageInv
<1>4. CASE ~(input.args[arg].size < 0)
  <2> DEFINE pad == Pad(input.args[arg].size, SECTSIZE)
  <2>1. /\ image' = image \o Contents(input.args[arg].id, input.args[arg].size) \o Zeros(pad)
        /\ nsectors' = nsectors + (input.args[arg].size + pad) \div SECTSIZE
        /\ arg' = arg + 1 /\ tool' = tool
    BY <1>4 DEF write_file, Pad
  <2>2. input.args[arg].size \in Nat
    BY <1>2, <1>4
  <2>3. Written(input, image', nsectors', arg + 1)
    BY <1>1, <1>2, <2>1, <2>2, FileWritten
  <2>4. Reached(input, nsectors', arg + 1)
    BY <1>1, <1>2, arg + 1 - 1 = arg DEF Reached
  <2> QED
    BY <1>1, <2>1, <2>3, <2>4 DEF ImageInv
<1> QED
  BY <1>3, <1>4

LEMMA SkipToSector ==
  ASSUME ImageInv, skip_to_sector PROVE ImageInv'
<1>1. /\ input \in Inputs /\ input' = input /\ tool = "args"
      /\ Written(input, image, nsectors, arg)
      /\ arg <= Len(input.args) /\ input.args[arg].kind = "skip"
  BY DEF ImageInv, skip_to_sector, usage
<1>2. arg \in 1 .. Len(input.args) /\ arg \in Nat /\ input.args[arg].to \in Nat
      /\ nsectors \in Nat /\ Len(input.args) \in Nat
  <2>1. Len(input.args) \in Nat /\ arg \in 1 .. Len(input.args) + 1 /\ nsectors \in Nat
    BY <1>1, InputsAre DEF Written
  <2>2. arg \in 1 .. Len(input.args) /\ arg \in Nat
    BY <1>1, <2>1
  <2> QED
    BY <1>1, <2>1, <2>2, InputsAre
<1>3. CASE nsectors > input.args[arg].to
  <2>1. tool' = "usage"
    BY <1>3 DEF skip_to_sector, usage
  <2> QED
    BY <1>1, <2>1, Zenon DEF ImageInv
<1>4. CASE ~(nsectors > input.args[arg].to)
  <2>1. /\ image' = image \o Zeros((input.args[arg].to - nsectors) * SECTSIZE)
        /\ nsectors' = input.args[arg].to
        /\ arg' = arg + 1 /\ tool' = tool
    BY <1>4 DEF skip_to_sector
  <2>2. nsectors <= input.args[arg].to
    BY <1>2, <1>4
  <2>3. FilesBefore(input.args, arg + 1) = FilesBefore(input.args, arg)
    <3>1. \A k \in 1 .. Len(input.args) : k < arg + 1 <=> k < arg \/ k = arg
      BY <1>2
    <3>2. input.args[arg].kind # "file"
      BY <1>1
    <3> QED
      BY <3>1, <3>2, Zenon DEF FilesBefore
  <2>4. arg + 1 \in 1 .. Len(input.args) + 1
    BY <1>2
  <2>5. Written(input, image', nsectors', arg + 1)
    BY <1>1, <1>2, <2>1, <2>2, <2>3, <2>4, ZerosWritten
  <2>6. Reached(input, nsectors', arg + 1)
    BY <1>2, <2>1, arg + 1 - 1 = arg DEF Reached
  <2> QED
    BY <1>1, <2>1, <2>5, <2>6 DEF ImageInv
<1> QED
  BY <1>3, <1>4

LEMMA FillOut ==
  ASSUME ImageInv, fill_out PROVE ImageInv'
<1>1. /\ input \in Inputs /\ input' = input /\ tool = "args" /\ tool' = "done" /\ arg' = arg
      /\ Written(input, image, nsectors, arg) /\ arg > Len(input.args)
  BY DEF ImageInv, fill_out
<1>2. Len(input.args) \in Nat /\ arg \in 1 .. Len(input.args) + 1 /\ nsectors \in Nat
      /\ MinSectors \in Nat /\ SECTSIZE \in Nat
  BY <1>1, InputsAre DEF Written
<1>3. arg = Len(input.args) + 1
  BY <1>1, <1>2
<1> DEFINE n == IF nsectors < MinSectors THEN MinSectors - nsectors ELSE 0
<1>4. n \in Nat /\ nsectors + n >= MinSectors
  BY <1>2
<1>5. image' = image \o Zeros(n * SECTSIZE) /\ nsectors' = nsectors + n
  BY DEF fill_out
<1> HIDE DEF n
<1>6. nsectors' \in Nat /\ nsectors <= nsectors' /\ nsectors' - nsectors = n
      /\ nsectors' >= MinSectors
  BY <1>2, <1>4, <1>5
<1>7. image' = image \o Zeros((nsectors' - nsectors) * SECTSIZE)
  BY <1>5, <1>6
<1>8. Written(input, image', nsectors', arg)
  BY <1>1, <1>2, <1>6, <1>7, ZerosWritten
<1> QED
  BY <1>1, <1>3, <1>6, <1>8 DEF ImageInv

LEMMA ImageStep ==
  ASSUME ImageInv, [Next]_vars PROVE ImageInv'
<1>1. CASE mkbootdisk
  BY <1>1, WriteBootSector, WriteFile, SkipToSector, FillOut DEF mkbootdisk
<1>2. CASE UNCHANGED diskVars
  BY <1>2 DEF diskVars, ImageInv
<1>3. bios \/ kbc_done \/ ide_done \/ Loader => UNCHANGED diskVars
  BY DEF bios, kbc_done, ide_done, Loader, seta20, protcseg, readsect, insl, clear_bss, bootmain
<1>4. UNCHANGED vars => UNCHANGED diskVars
  BY DEF vars
<1> QED
  BY <1>1, <1>2, <1>3, <1>4, Zenon DEF Next

LEMMA ImageAlways == Spec => []ImageInv
<1>1. Init => ImageInv
  BY ImageInit DEF Init
<1> QED
  BY <1>1, ImageStep, PTL DEF Spec

LEMMA SubSeqIs ==
  ASSUME NEW t \in Seq(Bytes), NEW a \in Nat, NEW c \in Nat, a + c <= Len(t)
  PROVE  /\ SubSeq(t, a + 1, a + c) \in Seq(Bytes) /\ Len(SubSeq(t, a + 1, a + c)) = c
         /\ \A i \in 1 .. c : SubSeq(t, a + 1, a + c)[i] = t[a + i]
<1>1. PICK m \in Int, e \in Int : m = a + 1 /\ e = a + c
  OBVIOUS
<1>2. \A i \in m .. e : i \in 1 .. Len(t)
  BY <1>1
<1>3. \A i \in m .. e : t[i] \in Bytes
  BY <1>2
<1> DEFINE x == SubSeq(t, m, e)
<1>4. /\ x \in Seq(Bytes) /\ Len(x) = (IF m <= e THEN e - m + 1 ELSE 0)
      /\ \A i \in 1 .. e - m + 1 : x[i] = t[m + i - 1]
  BY <1>3, SubSeqProperties
<1> HIDE DEF x
<1>5. x \in Seq(Bytes) /\ Len(x) = c
  BY <1>1, <1>4
<1>6. ASSUME NEW i \in 1 .. c PROVE x[i] = t[a + i]
  <2>1. i \in 1 .. e - m + 1 /\ m + i - 1 = a + i
    BY <1>1
  <2> QED
    BY <1>4, <2>1
<1> QED
  BY <1>1, <1>5, <1>6 DEF x

(* A sector of a whole image.                                              *)
LEMMA SectorIs ==
  ASSUME image \in Seq(Bytes), NEW ns \in Nat, Len(image) = ns * SECTSIZE, NEW n \in Nat, n < ns
  PROVE  /\ Sector(n) \in Seq(Bytes) /\ Len(Sector(n)) = SECTSIZE
         /\ \A i \in 1 .. SECTSIZE : Sector(n)[i] = image[n * SECTSIZE + i]
<1>1. PICK s \in Nat : s = SECTSIZE /\ s >= 3
  BY BootDiskAssumption
<1>2. PICK a \in Nat : a = n * s /\ (n + 1) * s = a + s
  BY (n + 1) * s = n * s + s, n * s \in Nat
<1>3. a + s <= Len(image)
  BY <1>1, <1>2, MulLess
<1>4. Sector(n) = SubSeq(image, a + 1, a + s)
  BY <1>1, <1>2 DEF Sector
<1>5. /\ Sector(n) \in Seq(Bytes) /\ Len(Sector(n)) = s
      /\ \A i \in 1 .. s : Sector(n)[i] = image[a + i]
  BY <1>3, <1>4, SubSeqIs
<1> QED
  BY <1>1, <1>2, <1>5

(* THEOREM: whatever arguments mkbootdisk is given, the image it finishes  *)
(* has the boot sector, every file where it was asked for, and zeros.      *)
THEOREM ImageRight == Spec => []ImageAsAsked
<1>1. ASSUME ImageInv PROVE ImageAsAsked
  <2> SUFFICES ASSUME tool = "done" PROVE ImageAsAsked
    BY DEF ImageAsAsked
  <2>1. /\ input \in Inputs /\ Written(input, image, nsectors, arg)
        /\ arg = Len(input.args) + 1 /\ nsectors >= MinSectors
    BY <1>1 DEF ImageInv
  <2>2. /\ image \in Seq(Bytes) /\ nsectors \in Nat /\ nsectors >= 1
        /\ Len(image) = nsectors * SECTSIZE
    BY <2>1 DEF Written
  <2>3. PICK s \in Nat : s = SECTSIZE /\ s >= 3
    BY <2>1, InputsAre
  <2>4. PICK n \in Nat : n = input.boot /\ n <= s - 2
    BY <2>1, <2>3, InputsAre DEF Written
  <2> DEFINE b0 == Sector(0)
  <2>5. b0 \in Seq(Bytes) /\ Len(b0) = s /\ \A i \in 1 .. s : b0[i] = image[i]
    <3>1. 0 < nsectors /\ \A i \in 1 .. s : 0 * SECTSIZE + i = i
      BY <2>2, <2>3
    <3> QED
      BY <2>2, <2>3, <3>1, SectorIs, 0 \in Nat
  <2> HIDE DEF b0
  <2>6. SubSeq(b0, 1, n) = Contents(Boot, n)
    <3> DEFINE x == SubSeq(b0, 1, n)
               c == Contents(Boot, n)
    <3>1. x \in Seq(Bytes) /\ Len(x) = n /\ \A i \in 1 .. n : x[i] = b0[i]
      <4>1. 0 + n <= Len(b0) /\ 0 + n = n /\ 0 + 1 = 1 /\ \A i \in 1 .. n : 0 + i = i
        BY <2>3, <2>4, <2>5
      <4>2. /\ SubSeq(b0, 0 + 1, 0 + n) \in Seq(Bytes) /\ Len(SubSeq(b0, 0 + 1, 0 + n)) = n
            /\ \A i \in 1 .. n : SubSeq(b0, 0 + 1, 0 + n)[i] = b0[0 + i]
        BY <2>5, <4>1, SubSeqIs, 0 \in Nat
      <4> QED
        BY <4>1, <4>2
    <3>2. c \in Seq(Bytes) /\ Len(c) = n /\ \A i \in 1 .. n : c[i] = Byte(Boot, i - 1)
      BY ContentsAre, Boot \in Nat DEF Boot
    <3> HIDE DEF x, c
    <3>3. ASSUME NEW i \in 1 .. n PROVE x[i] = c[i]
      <4>1. i \in 1 .. s
        BY <2>3, <2>4
      <4>2. image[i] = Byte(Boot, i - 1)
        BY <2>1, <2>4 DEF Written
      <4> QED
        BY <2>5, <3>1, <3>2, <4>1, <4>2
    <3>4. x = c
      BY <3>1, <3>2, <3>3, SeqEqual
    <3> QED
      BY <3>4 DEF x, c
  <2>7. SubSeq(b0, s - 1, s) = <<Sig55, SigAA>>
    <3> DEFINE x == SubSeq(b0, s - 1, s)
    <3>1. PICK a \in Nat : a = s - 2 /\ a + 1 = s - 1 /\ a + 2 = s
      BY <2>3
    <3>2. x \in Seq(Bytes) /\ Len(x) = 2 /\ x[1] = b0[s - 1] /\ x[2] = b0[s]
      <4>1. a + 2 <= Len(b0) /\ 1 \in 1 .. 2 /\ 2 \in 1 .. 2 /\ 2 \in Nat
        BY <2>3, <2>5, <3>1
      <4>2. /\ SubSeq(b0, a + 1, a + 2) \in Seq(Bytes) /\ Len(SubSeq(b0, a + 1, a + 2)) = 2
            /\ \A i \in 1 .. 2 : SubSeq(b0, a + 1, a + 2)[i] = b0[a + i]
        BY <2>5, <4>1, SubSeqIs
      <4> QED
        BY <3>1, <4>1, <4>2
    <3> HIDE DEF x
    <3>3. b0[s - 1] = Sig55 /\ b0[s] = SigAA
      <4>1. s - 1 \in 1 .. s /\ s \in 1 .. s
        BY <2>3
      <4>2. image[s - 1] = Sig55 /\ image[s] = SigAA
        BY <2>1, <2>3 DEF Written
      <4> QED
        BY <2>5, <4>1, <4>2
    <3>4. x = <<Sig55, SigAA>>
      BY <3>2, <3>3
    <3> QED
      BY <3>4 DEF x
  <2>8. PICK st : Arranged(input.args, image, nsectors, arg, st)
    BY <2>1 DEF Written
  <2>9. FileArgs = FilesBefore(input.args, arg)
    <3>1. \A k \in 1 .. Len(input.args) : k < arg
      BY <2>1, InputsAre
    <3> QED
      BY <3>1, Zenon DEF FileArgs, FilesBefore
  <2>10. st \in [FileArgs -> 1 .. nsectors]
    BY <2>8, <2>9 DEF Arranged
  <2>11. ASSUME NEW k \in FileArgs
         PROVE  /\ \A i \in 0 .. input.args[k].size - 1 :
                     image[st[k] * SECTSIZE + i + 1] = Byte(input.args[k].id, i)
                /\ (k > 1 /\ input.args[k - 1].kind = "skip") => st[k] = input.args[k - 1].to
                /\ \A j \in FileArgs :
                     j < k => st[j] * SECTSIZE + input.args[j].size <= st[k] * SECTSIZE
    BY <2>8, <2>9, Zenon DEF Arranged, Holds, Asked, Behind, At
  <2>12. ASSUME NEW b \in SECTSIZE .. Len(image) - 1
         PROVE  \/ image[b + 1] = Zero
                \/ \E k \in FileArgs :
                     b \in st[k] * SECTSIZE .. st[k] * SECTSIZE + input.args[k].size - 1
    BY <2>8, <2>9, Zenon DEF Arranged, Extent, At
  <2>13. SubSeq(Sector(0), 1, input.boot) = Contents(Boot, input.boot)
    BY <2>4, <2>6 DEF b0
  <2>14. SubSeq(Sector(0), SECTSIZE - 1, SECTSIZE) = <<Sig55, SigAA>>
    BY <2>3, <2>7 DEF b0
  <2>15. \E start \in [FileArgs -> 1 .. nsectors] :
           /\ \A k \in FileArgs :
                /\ \A i \in 0 .. input.args[k].size - 1 :
                     image[start[k] * SECTSIZE + i + 1] = Byte(input.args[k].id, i)
                /\ (k > 1 /\ input.args[k - 1].kind = "skip") => start[k] = input.args[k - 1].to
                /\ \A j \in FileArgs :
                     j < k => start[j] * SECTSIZE + input.args[j].size <= start[k] * SECTSIZE
           /\ \A b \in SECTSIZE .. Len(image) - 1 :
                \/ image[b + 1] = Zero
                \/ \E k \in FileArgs :
                     b \in start[k] * SECTSIZE .. start[k] * SECTSIZE + input.args[k].size - 1
    BY <2>10, <2>11, <2>12, Zenon
  <2> QED
    BY <2>1, <2>2, <2>13, <2>14, <2>15, Zenon DEF ImageAsAsked
<1> QED
  BY <1>1, ImageAlways, PTL

-----------------------------------------------------------------------------
(* What the loader reads.  Piece 0 is the page with the header, piece n    *)
(* segment n; a byte of the disk is a byte of the image, or zero behind it.*)
HeaderPiece == [va |-> ELFHDR, filesz |-> PAGESIZE, memsz |-> PAGESIZE, offset |-> 0]
Piece(in, n) == IF n = 0 THEN HeaderPiece ELSE in.segments[n]
DiskByte(im, b) == IF b < Len(im) THEN im[b + 1] ELSE Zero

IsPiece(p) ==
  /\ p.va \in Nat /\ p.filesz \in Nat /\ p.memsz \in Nat /\ p.offset \in Nat
  /\ Base(p) \in Nat /\ p.filesz <= p.memsz /\ Base(p) + p.memsz <= MemSize
  /\ Base(p) % SECTSIZE = p.offset % SECTSIZE
Apart(p, t) == Sectors(Base(p), p.memsz) \cap Sectors(Base(t), t.memsz) = {}

(* Memory mm holds all of piece p; or what of it lies below address a.     *)
Loaded(mm, im, p) ==
  \A i \in 0 .. p.memsz - 1 :
    mm[Base(p) + i] = IF i < p.filesz THEN DiskByte(im, SECTSIZE + p.offset + i) ELSE Zero
Part(mm, im, p, a) ==
  \A x \in Base(p) .. Base(p) + p.filesz - 1 :
    x < a => mm[x] = DiskByte(im, SECTSIZE + p.offset + (x - Base(p)))

(* readseg's variables g while it reads piece p: at a sector of memory, and*)
(* at the sector of the disk that is as far behind the piece's first.      *)
Reading(p, g) ==
  /\ g \in [va : Nat, end_va : Nat, memsz : Nat, offset : Nat]
  /\ g.end_va = Base(p) + p.filesz /\ g.memsz = Base(p) + p.memsz
  /\ \E q \in Nat : /\ g.va = q * SECTSIZE /\ q >= Base(p) \div SECTSIZE
                    /\ g.offset = q - (Base(p) \div SECTSIZE) + (p.offset \div SECTSIZE) + 1

LEMMA MachineIs ==
  /\ SECTSIZE \in Nat /\ SECTSIZE > 0 /\ PAGESIZE \in Nat /\ PAGESIZE > 0 /\ ELFHDR \in Nat
  /\ MemSize \in Nat /\ VaMask \in Nat /\ VaMask > 0 /\ MemSize <= VaMask
  /\ ELFHDR + PAGESIZE <= MemSize /\ ByteMod \in Nat /\ ByteMod > 0
  /\ ELFHDR % SECTSIZE = 0
<1>1. SECTSIZE \in Nat /\ SECTSIZE > 0
  BY BootDiskAssumption
<1> QED
  BY <1>1, BootLoaderAssumption

LEMMA DivLe ==
  ASSUME NEW m \in Nat, m > 0, NEW a \in Nat, NEW b \in Nat, a <= b
  PROVE  a \div m <= b \div m
<1>1. PICK k \in Nat, r \in 0 .. m - 1 : k = a \div m /\ a = k * m + r
  BY DivMod
<1>2. PICK l \in Nat, t \in 0 .. m - 1 : l = b \div m /\ b = l * m + t
  BY DivMod
<1>3. k * m \in Nat /\ l * m \in Nat
  OBVIOUS
<1>4. ~(l < k)
  BY <1>1, <1>2, <1>3, MulLess
<1> QED
  BY <1>1, <1>2, <1>4

LEMMA HeaderBase == Base(HeaderPiece) = ELFHDR
<1>1. ELFHDR \in Nat /\ VaMask \in Nat /\ VaMask > 0 /\ ELFHDR < VaMask
  BY MachineIs
<1>2. ELFHDR = 0 * VaMask + ELFHDR /\ ELFHDR \in 0 .. VaMask - 1
  BY <1>1
<1>3. ELFHDR % VaMask = ELFHDR
  BY <1>1, <1>2, DivUnique, 0 \in Nat
<1> QED
  BY <1>3 DEF Base, HeaderPiece

LEMMA SegmentsAre ==
  ASSUME NEW in \in Inputs
  PROVE  /\ Len(in.segments) \in Nat /\ Len(in.segments) < PAGESIZE
         /\ \A n \in 1 .. Len(in.segments) : IsSegment(in.segments[n])
         /\ \A n \in 1 .. Len(in.segments) : \A m \in 1 .. Len(in.segments) \ {n} :
              Apart(in.segments[n], in.segments[m])
<1>1. LinkedKernel(in)
  BY BootLoaderAssumption
<1> QED
  BY <1>1, Zenon DEF LinkedKernel, Apart

LEMMA PieceIs ==
  ASSUME NEW in \in Inputs, NEW n \in 0 .. Len(in.segments)
  PROVE  IsPiece(Piece(in, n))
<1>1. CASE n = 0
  <2>1. 0 % SECTSIZE = 0
    <3>1. PICK s \in Nat : s = SECTSIZE /\ s > 0
      BY MachineIs
    <3>2. 0 = 0 * s + 0 /\ 0 \in 0 .. s - 1 /\ 0 \in Nat
      BY <3>1
    <3>3. 0 % s = 0
      BY <3>1, <3>2, DivUnique
    <3> QED
      BY <3>1, <3>3
  <2>2. HeaderPiece.va = ELFHDR /\ HeaderPiece.filesz = PAGESIZE
        /\ HeaderPiece.memsz = PAGESIZE /\ HeaderPiece.offset = 0
    BY DEF HeaderPiece
  <2>3. PAGESIZE <= PAGESIZE
    BY MachineIs
  <2> QED
    BY <1>1, <2>1, <2>2, <2>3, HeaderBase, MachineIs DEF IsPiece, Piece
<1>2. CASE n # 0
  <2>1. n \in 1 .. Len(in.segments)
    BY <1>2, SegmentsAre
  <2>2. IsSegment(in.segments[n])
    BY <2>1, SegmentsAre
  <2>3. Base(in.segments[n]) \in Nat
    <3>1. PICK v \in Nat : v = in.segments[n].va
      BY <2>2 DEF IsSegment
    <3> QED
      BY <3>1, MachineIs, DivMod DEF Base
  <2> QED
    BY <1>2, <2>2, <2>3 DEF IsPiece, IsSegment, Piece
<1> QED
  BY <1>1, <1>2

LEMMA PiecesApart ==
  ASSUME NEW in \in Inputs, NEW n \in 0 .. Len(in.segments), NEW m \in 0 .. Len(in.segments), n # m
  PROVE  Apart(Piece(in, n), Piece(in, m))
<1>1. Len(in.segments) \in Nat
  BY SegmentsAre
<1>2. ASSUME NEW k \in 1 .. Len(in.segments)
      PROVE  Apart(HeaderPiece, in.segments[k]) /\ Apart(in.segments[k], HeaderPiece)
  <2>1. Sectors(Base(in.segments[k]), in.segments[k].memsz) \cap Sectors(ELFHDR, PAGESIZE) = {}
    BY SegmentsAre DEF IsSegment
  <2>2. HeaderPiece.memsz = PAGESIZE
    BY DEF HeaderPiece
  <2> QED
    BY <2>1, <2>2, HeaderBase DEF Apart
<1>3. CASE n = 0
  BY <1>1, <1>2, <1>3 DEF Piece
<1>4. CASE m = 0
  BY <1>1, <1>2, <1>4 DEF Piece
<1>5. CASE n # 0 /\ m # 0
  BY <1>1, <1>5, SegmentsAre DEF Piece
<1> QED
  BY <1>3, <1>4, <1>5

(* A byte of a piece lies in one of its sectors.                           *)
LEMMA InSectors ==
  ASSUME NEW a \in Nat, NEW c \in Nat, NEW y \in Nat, a <= y, y < a + c
  PROVE  y \div SECTSIZE \in Sectors(a, c)
<1>1. PICK s \in Nat : s = SECTSIZE /\ s > 0
  BY MachineIs
<1>2. PICK e \in Nat : e = a + c - 1 /\ y <= e
  OBVIOUS
<1>3. a \div s <= y \div s /\ y \div s <= e \div s
  BY <1>1, <1>2, DivLe
<1>4. a \div s \in Nat /\ y \div s \in Nat /\ e \div s \in Nat
  BY <1>1, <1>2, DivMod
<1> QED
  BY <1>1, <1>2, <1>3, <1>4 DEF Sectors

(* So no byte of one piece is a byte of another, nor in its sectors.       *)
LEMMA Disjoint ==
  ASSUME NEW p, NEW t, IsPiece(p), IsPiece(t), Apart(p, t), NEW i \in 0 .. t.memsz - 1,
         NEW q \in Sectors(Base(p), p.memsz)
  PROVE  (Base(t) + i) \div SECTSIZE # q
<1>1. PICK a \in Nat, c \in Nat : a = Base(t) /\ c = t.memsz
  BY DEF IsPiece
<1>2. PICK y \in Nat : y = a + i /\ a <= y /\ y < a + c
  BY <1>1
<1>3. y \div SECTSIZE \in Sectors(Base(t), t.memsz)
  BY <1>1, <1>2, InSectors
<1> QED
  BY <1>1, <1>2, <1>3 DEF Apart

(* readseg's first variables.                                              *)
LEMMA ReadsegStarts ==
  ASSUME NEW p, IsPiece(p), NEW mm, NEW im
  PROVE  /\ Reading(p, readseg(p.va, p.filesz, p.memsz, p.offset))
         /\ Part(mm, im, p, readseg(p.va, p.filesz, p.memsz, p.offset).va)
<1>1. PICK s \in Nat : s = SECTSIZE /\ s > 0
  BY MachineIs
<1>2. PICK a \in Nat, f \in Nat, z \in Nat, o \in Nat :
        a = Base(p) /\ f = p.filesz /\ z = p.memsz /\ o = p.offset
  BY DEF IsPiece
<1>3. PICK q \in Nat, r \in 0 .. s - 1 : q = a \div s /\ r = a % s /\ a = q * s + r
  BY <1>1, DivMod
<1>4. PICK v \in Nat : v = q * s /\ v = a - (a % s) /\ v <= a
  BY <1>1, <1>3
<1>5. PICK k \in Nat : k = o \div s
  BY <1>1, DivMod
<1> DEFINE g == readseg(p.va, p.filesz, p.memsz, p.offset)
<1>6. g = [va |-> v, end_va |-> a + f, memsz |-> z + a, offset |-> k + 1]
  BY <1>1, <1>2, <1>4, <1>5 DEF readseg, Base
<1>7. g \in [va : Nat, end_va : Nat, memsz : Nat, offset : Nat]
  BY <1>6
<1>8. g.va = v /\ g.end_va = a + f /\ g.memsz = a + z /\ g.offset = k + 1
  BY <1>6
<1> HIDE DEF g
<1>9. g.offset = q - q + k + 1 /\ q >= q
  BY <1>8
<1>10. g.va = q * SECTSIZE /\ q >= Base(p) \div SECTSIZE
       /\ g.offset = q - (Base(p) \div SECTSIZE) + (p.offset \div SECTSIZE) + 1
  BY <1>1, <1>2, <1>3, <1>4, <1>5, <1>8, <1>9
<1>11. Reading(p, g)
  BY <1>2, <1>7, <1>8, <1>10 DEF Reading
<1>12. Part(mm, im, p, g.va)
  <2>1. ASSUME NEW x \in a .. a + f - 1, x < v PROVE FALSE
    BY <1>4, <2>1
  <2> QED
    BY <1>2, <1>8, <2>1 DEF Part
<1> QED
  BY <1>11, <1>12 DEF g

(* Memory nm is mm with the sector at disk sector o stored at address v.   *)
SectorStored(mm, nm, im, v, o) ==
  \A x \in 0 .. MemSize - 1 :
    nm[x] = IF x \in v .. v + SECTSIZE - 1 THEN DiskByte(im, o * SECTSIZE + (x - v)) ELSE mm[x]

(* The sector readseg reads is one of the piece's, and holds its bytes.    *)
LEMMA SectorOfPiece ==
  ASSUME NEW p, IsPiece(p), NEW g, Reading(p, g), g.va < g.end_va
  PROVE  \E q \in Sectors(Base(p), p.memsz) :
           /\ q \in Nat /\ g.va = q * SECTSIZE
           /\ g.offset * SECTSIZE = SECTSIZE + p.offset + g.va - Base(p)
<1>1. PICK s \in Nat : s = SECTSIZE /\ s > 0
  BY MachineIs
<1>2. PICK a \in Nat, f \in Nat, z \in Nat, o \in Nat :
        a = Base(p) /\ f = p.filesz /\ z = p.memsz /\ o = p.offset
  BY DEF IsPiece
<1>3. f <= z /\ a % s = o % s
  BY <1>1, <1>2 DEF IsPiece
<1>4. PICK q0 \in Nat, r \in 0 .. s - 1 : q0 = a \div s /\ r = a % s /\ a = q0 * s + r
  BY <1>1, DivMod
<1>5. PICK k \in Nat : k = o \div s /\ o = k * s + r
  BY <1>1, <1>3, <1>4, DivMod
<1>6. PICK q \in Nat : g.va = q * s /\ q >= q0 /\ g.offset = q - q0 + k + 1
  BY <1>1, <1>2, <1>4, <1>5 DEF Reading
<1>7. PICK v \in Nat : v = q * s /\ v = g.va
  BY <1>6
<1>8. v < a + f
  BY <1>2, <1>7 DEF Reading
<1>9. PICK e \in Nat : e = a + z - 1 /\ v <= e
  BY <1>3, <1>8
<1>10. q \in Sectors(a, z)
  <2>1. v \div s = q
    <3>1. v = q * s + 0 /\ 0 \in 0 .. s - 1
      BY <1>1, <1>7
    <3> QED
      BY <1>1, <3>1, DivUnique
  <2>2. q <= e \div s /\ e \div s \in Nat
    BY <1>1, <1>9, <2>1, DivLe, DivMod
  <2> QED
    BY <1>1, <1>4, <1>6, <1>9, <2>2 DEF Sectors
<1>11. g.offset * s = s + o + v - a
  <2>1. PICK d \in Nat : d = q - q0 /\ q = q0 + d
    BY <1>6
  <2>2. PICK u \in Nat : u = q0 * s
    OBVIOUS
  <2>3. PICK w \in Nat : w = k * s
    OBVIOUS
  <2>4. PICK y \in Nat : y = d * s
    OBVIOUS
  <2>5. v = u + y
    BY <1>7, <2>1, <2>2, <2>4
  <2>6. g.offset * s = y + w + s
    BY <1>6, <2>1, <2>3, <2>4
  <2> QED
    BY <1>4, <1>5, <2>2, <2>3, <2>5, <2>6
<1> QED
  BY <1>1, <1>2, <1>6, <1>7, <1>10, <1>11

LEMMA SectorRead ==
  ASSUME NEW p, IsPiece(p), NEW g, Reading(p, g), g.va < g.end_va,
         NEW mm, NEW nm, NEW im, Part(mm, im, p, g.va), SectorStored(mm, nm, im, g.va, g.offset)
  PROVE  Part(nm, im, p, g.va + SECTSIZE)
<1>1. PICK s \in Nat : s = SECTSIZE /\ s > 0
  BY MachineIs
<1>2. PICK a \in Nat, f \in Nat, z \in Nat, o \in Nat :
        a = Base(p) /\ f = p.filesz /\ z = p.memsz /\ o = p.offset
  BY DEF IsPiece
<1>3. f <= z /\ a + z <= MemSize /\ MemSize \in Nat
  BY <1>1, <1>2, MachineIs DEF IsPiece
<1>4. PICK v \in Nat, n \in Nat : v = g.va /\ n = g.offset
  BY DEF Reading
<1>5. PICK ns \in Int : ns = n * s /\ ns = s + o + v - a
  BY <1>1, <1>2, <1>4, SectorOfPiece
<1> SUFFICES ASSUME NEW x \in a .. a + f - 1, x < v + s
             PROVE  nm[x] = DiskByte(im, s + o + (x - a))
  BY <1>1, <1>2, <1>4 DEF Part
<1>6. x \in 0 .. MemSize - 1
  BY <1>3
<1>7. nm[x] = IF x \in v .. v + s - 1 THEN DiskByte(im, ns + (x - v)) ELSE mm[x]
  BY <1>1, <1>4, <1>5, <1>6 DEF SectorStored
<1>8. CASE x < v
  <2>1. mm[x] = DiskByte(im, s + o + (x - a))
    BY <1>1, <1>2, <1>4, <1>8 DEF Part
  <2>2. x \notin v .. v + s - 1
    BY <1>8
  <2> QED
    BY <1>7, <2>1, <2>2
<1>9. CASE x >= v
  <2>1. x \in v .. v + s - 1 /\ ns + (x - v) = s + o + (x - a)
    BY <1>5, <1>9
  <2> QED
    BY <1>7, <2>1
<1> QED
  BY <1>8, <1>9

LEMMA ReadingOn ==
  ASSUME NEW p, IsPiece(p), NEW g, Reading(p, g)
  PROVE  Reading(p, [g EXCEPT !.va = @ + SECTSIZE, !.offset = @ + 1])
<1>1. PICK s \in Nat : s = SECTSIZE /\ s > 0
  BY MachineIs
<1>2. PICK q0 \in Nat, k \in Nat : q0 = Base(p) \div s /\ k = p.offset \div s
  BY <1>1, DivMod DEF IsPiece
<1>3. PICK q \in Nat : g.va = q * s /\ q >= q0 /\ g.offset = q - q0 + k + 1
  BY <1>1, <1>2 DEF Reading
<1>4. g \in [va : Nat, end_va : Nat, memsz : Nat, offset : Nat]
      /\ g.end_va = Base(p) + p.filesz /\ g.memsz = Base(p) + p.memsz
  BY DEF Reading
<1> DEFINE h == [g EXCEPT !.va = @ + SECTSIZE, !.offset = @ + 1]
<1>5. /\ h \in [va : Nat, end_va : Nat, memsz : Nat, offset : Nat]
      /\ h.va = g.va + s /\ h.offset = g.offset + 1 /\ h.end_va = g.end_va /\ h.memsz = g.memsz
  <2>1. g.va \in Nat /\ g.offset \in Nat
    BY <1>4
  <2>2. PICK v \in Nat, o \in Nat : v = g.va + SECTSIZE /\ o = g.offset + 1
    BY <1>1, <2>1
  <2>3. h = [g EXCEPT !.va = v, !.offset = o]
    BY <2>2, Zenon
  <2> HIDE DEF h
  <2>4. /\ h \in [va : Nat, end_va : Nat, memsz : Nat, offset : Nat]
        /\ h.va = v /\ h.offset = o /\ h.end_va = g.end_va /\ h.memsz = g.memsz
    BY <1>4, <2>3
  <2> QED
    BY <1>1, <2>2, <2>4
<1> HIDE DEF h
<1>6. PICK q1 \in Nat : q1 = q + 1
  OBVIOUS
<1>7. q1 * s = q * s + s
  BY <1>6
<1>8. h.va = q1 * s
  BY <1>3, <1>5, <1>7
<1>9. q1 >= q0 /\ h.offset = q1 - q0 + k + 1
  BY <1>3, <1>5, <1>6
<1>10. Reading(p, h)
  BY <1>1, <1>2, <1>4, <1>5, <1>8, <1>9 DEF Reading
<1> QED
  BY <1>10 DEF h

(* The sector leaves every other piece as it was.                          *)
LEMMA ReadElsewhere ==
  ASSUME NEW p, IsPiece(p), NEW t, IsPiece(t), Apart(p, t),
         NEW g, Reading(p, g), g.va < g.end_va,
         NEW mm, NEW nm, NEW im, Loaded(mm, im, t), SectorStored(mm, nm, im, g.va, g.offset)
  PROVE  Loaded(nm, im, t)
<1>1. PICK s \in Nat : s = SECTSIZE /\ s > 0
  BY MachineIs
<1>2. PICK a \in Nat, z \in Nat : a = Base(t) /\ z = t.memsz /\ a + z <= MemSize
  BY DEF IsPiece
<1>3. PICK q \in Sectors(Base(p), p.memsz) : q \in Nat /\ g.va = q * s
  BY <1>1, SectorOfPiece
<1>4. PICK v \in Nat : v = q * s /\ v = g.va
  BY <1>3
<1>5. ASSUME NEW i \in 0 .. t.memsz - 1 PROVE nm[Base(t) + i] = mm[Base(t) + i]
  <2>1. PICK y \in Nat : y = Base(t) + i /\ y < MemSize
    BY <1>2, MachineIs
  <2>2. y \div s # q
    BY <1>1, <1>3, <2>1, Disjoint
  <2>3. y \notin v .. v + s - 1
    <3> SUFFICES ASSUME y \in v .. v + s - 1 PROVE FALSE
      OBVIOUS
    <3>1. PICK r \in 0 .. s - 1 : r = y - v
      OBVIOUS
    <3>2. y = q * s + r
      BY <1>4, <3>1
    <3> QED
      BY <1>1, <1>3, <2>2, <3>2, DivUnique
  <2>4. y \in 0 .. MemSize - 1
    BY <2>1, MachineIs
  <2> QED
    BY <1>1, <1>4, <2>1, <2>3, <2>4 DEF SectorStored
<1> QED
  BY <1>5, Zenon DEF Loaded

(* Memory nm is mm with zeros at the addresses from .. to - 1.             *)
Cleared(mm, nm, from, to) ==
  \A x \in 0 .. MemSize - 1 : nm[x] = IF x \in from .. to - 1 THEN Zero ELSE mm[x]

(* Once the sectors are read and the rest is cleared, the piece is loaded. *)
LEMMA PieceLoaded ==
  ASSUME NEW p, IsPiece(p), NEW g, Reading(p, g), g.va >= g.end_va,
         NEW mm, NEW nm, NEW im, Part(mm, im, p, g.va), Cleared(mm, nm, g.end_va, g.memsz)
  PROVE  Loaded(nm, im, p)
<1>1. PICK s \in Nat : s = SECTSIZE
  BY MachineIs
<1>2. PICK a \in Nat, f \in Nat, z \in Nat, o \in Nat :
        a = Base(p) /\ f = p.filesz /\ z = p.memsz /\ o = p.offset
  BY DEF IsPiece
<1>3. f <= z /\ a + z <= MemSize /\ MemSize \in Nat
  BY <1>1, <1>2, MachineIs DEF IsPiece
<1>4. PICK v \in Nat : v = g.va /\ v >= a + f /\ g.end_va = a + f /\ g.memsz = a + z
  BY <1>2 DEF Reading
<1> SUFFICES ASSUME NEW i \in 0 .. z - 1
             PROVE  nm[a + i] = IF i < f THEN DiskByte(im, s + o + i) ELSE Zero
  BY <1>1, <1>2 DEF Loaded
<1>5. PICK x \in Nat : x = a + i /\ x \in 0 .. MemSize - 1 /\ x - a = i
  BY <1>3
<1>6. nm[x] = IF x \in a + f .. a + z - 1 THEN Zero ELSE mm[x]
  BY <1>4, <1>5 DEF Cleared
<1>7. CASE i < f
  <2>1. x \in a .. a + f - 1 /\ x < v /\ x \notin a + f .. a + z - 1
    BY <1>4, <1>5, <1>7
  <2>2. mm[x] = DiskByte(im, s + o + (x - a))
    BY <1>1, <1>2, <1>4, <2>1 DEF Part
  <2> QED
    BY <1>5, <1>6, <1>7, <2>1, <2>2
<1>8. CASE ~(i < f)
  <2>1. x \in a + f .. a + z - 1
    BY <1>5, <1>8
  <2> QED
    BY <1>5, <1>6, <1>8, <2>1
<1> QED
  BY <1>7, <1>8

LEMMA ClearElsewhere ==
  ASSUME NEW p, IsPiece(p), NEW t, IsPiece(t), Apart(p, t), NEW g, Reading(p, g),
         NEW mm, NEW nm, NEW im, Loaded(mm, im, t), Cleared(mm, nm, g.end_va, g.memsz)
  PROVE  Loaded(nm, im, t)
<1>1. PICK a \in Nat, z \in Nat : a = Base(t) /\ z = t.memsz /\ a + z <= MemSize
  BY DEF IsPiece
<1>2. PICK b \in Nat, f \in Nat, c \in Nat : b = Base(p) /\ f = p.filesz /\ c = p.memsz
  BY DEF IsPiece
<1>3. g.end_va = b + f /\ g.memsz = b + c
  BY <1>2 DEF Reading
<1>4. ASSUME NEW i \in 0 .. t.memsz - 1 PROVE nm[Base(t) + i] = mm[Base(t) + i]
  <2>1. PICK y \in Nat : y = Base(t) + i /\ y < MemSize
    BY <1>1, MachineIs
  <2>2. y \notin b + f .. b + c - 1
    <3> SUFFICES ASSUME y \in b + f .. b + c - 1 PROVE FALSE
      OBVIOUS
    <3>1. b <= y /\ y < b + c
      OBVIOUS
    <3>2. y \div SECTSIZE \in Sectors(Base(p), p.memsz)
      BY <1>2, <3>1, InSectors
    <3> QED
      BY <2>1, <3>2, Disjoint
  <2>3. y \in 0 .. MemSize - 1
    BY <2>1, MachineIs
  <2> QED
    BY <1>3, <2>1, <2>2, <2>3 DEF Cleared
<1> QED
  BY <1>4, Zenon DEF Loaded

-----------------------------------------------------------------------------
(* Four bytes of the disk's registers name the sector they were made from. *)
Names(lba, n) ==
  n = lba[1] + ByteMod * (lba[2] + ByteMod * (lba[3] + ByteMod * lba[4]))

LEMMA DivDiv ==
  ASSUME NEW n \in Nat, NEW m \in Nat, m > 0, NEW k \in Nat, k > 0
  PROVE  n \div (m * k) = (n \div m) \div k
<1>1. PICK q \in Nat, r \in 0 .. m - 1 : q = n \div m /\ n = q * m + r
  BY DivMod
<1>2. PICK p \in Nat, t \in 0 .. k - 1 : p = q \div k /\ q = p * k + t
  BY DivMod
<1>3. PICK mk \in Nat : mk = m * k
  OBVIOUS
<1>4. PICK u \in Nat : u = t * m
  OBVIOUS
<1>5. u + m <= mk
  <2>1. t * m + m <= k * m
    BY MulLess
  <2> QED
    BY <1>3, <1>4, <2>1, k * m = m * k
<1>6. PICK w \in 0 .. mk - 1 : w = u + r
  BY <1>5
<1>7. PICK pk \in Nat : pk = p * mk
  OBVIOUS
<1>8. q * m = pk + u
  <2>1. q * m = (p * k) * m + t * m
    BY <1>2
  <2>2. (p * k) * m = p * (m * k)
    OBVIOUS
  <2> QED
    BY <1>3, <1>4, <1>7, <2>1, <2>2
<1>9. n = pk + w
  BY <1>1, <1>4, <1>6, <1>7, <1>8
<1>10. mk > 0
  BY <1>5
<1>11. n \div mk = p
  BY <1>6, <1>7, <1>9, <1>10, DivUnique
<1> QED
  BY <1>1, <1>2, <1>3, <1>11

LEMMA RegistersName ==
  ASSUME NEW n \in Nat
  PROVE  Names(<<n % ByteMod, (n \div ByteMod) % ByteMod, (n \div (ByteMod * ByteMod)) % ByteMod,
                 n \div (ByteMod * ByteMod * ByteMod)>>, n)
<1>1. PICK m \in Nat : m = ByteMod /\ m > 0
  BY MachineIs
<1>2. PICK a \in Nat, r1 \in Nat : a = n \div m /\ r1 = n % m /\ n = a * m + r1
  BY <1>1, DivMod
<1>3. PICK b \in Nat, r2 \in Nat : b = a \div m /\ r2 = a % m /\ a = b * m + r2
  BY <1>1, DivMod
<1>4. PICK c \in Nat, r3 \in Nat : c = b \div m /\ r3 = b % m /\ b = c * m + r3
  BY <1>1, DivMod
<1>5. n \div (m * m) = b
  BY <1>1, <1>2, <1>3, DivDiv
<1>6. PICK mm \in Nat : mm = m * m /\ mm > 0
  BY <1>1
<1>7. n \div (mm * m) = c
  <2>1. n \div (mm * m) = (n \div mm) \div m
    BY <1>1, <1>6, DivDiv
  <2> QED
    BY <1>4, <1>5, <1>6, <2>1
<1>8. n = r1 + m * (r2 + m * (r3 + m * c))
  <2>1. b = r3 + m * c
    BY <1>4
  <2>2. a = r2 + m * b
    BY <1>3
  <2>3. n = r1 + m * a
    BY <1>2
  <2> QED
    BY <2>1, <2>2, <2>3, Zenon
<1> DEFINE l == <<n % ByteMod, (n \div ByteMod) % ByteMod, (n \div (ByteMod * ByteMod)) % ByteMod,
                  n \div (ByteMod * ByteMod * ByteMod)>>
<1>9. l[1] = r1 /\ l[2] = r2 /\ l[3] = r3 /\ l[4] = c
  BY <1>1, <1>2, <1>3, <1>4, <1>5, <1>6, <1>7
<1> HIDE DEF l
<1>10. Names(l, n)
  BY <1>1, <1>8, <1>9 DEF Names
<1> QED
  BY <1>10 DEF l

(* What the disk returns for sector n, and where the processor puts it     *)
(* once the gate is open.                                                  *)
LEMMA DataIs ==
  ASSUME image \in Seq(Bytes), NEW ns \in Nat, Len(image) = ns * SECTSIZE,
         NEW n \in Nat, Names(ide.lba, n)
  PROVE  \A i \in 1 .. SECTSIZE : Data[i] = DiskByte(image, n * SECTSIZE + (i - 1))
<1>1. PICK s \in Nat : s = SECTSIZE /\ s > 0
  BY MachineIs
<1>2. PICK l \in Nat : l = ns * s /\ l = Len(image)
  BY <1>1
<1>3. PICK a \in Nat : a = n * s
  BY <1>1
<1>4. Len(image) \div SECTSIZE = ns
  <2>1. l = ns * s + 0 /\ 0 \in 0 .. s - 1
    BY <1>1, <1>2
  <2>2. l \div s = ns
    BY <1>1, <2>1, DivUnique
  <2> QED
    BY <1>1, <1>2, <2>2
<1>5. Data = IF n < ns THEN Sector(n) ELSE Zeros(SECTSIZE)
  BY <1>4 DEF Data, Names
<1> SUFFICES ASSUME NEW i \in 1 .. s PROVE Data[i] = DiskByte(image, a + (i - 1))
  BY <1>1, <1>3
<1>6. CASE n < ns
  <2>1. Data[i] = image[a + i]
    BY <1>1, <1>3, <1>5, <1>6, SectorIs
  <2>2. a + (i - 1) < l /\ a + (i - 1) + 1 = a + i
    <3>1. a + s <= l
      BY <1>2, <1>3, <1>6, MulLess
    <3> QED
      BY <3>1
  <2> QED
    BY <1>2, <2>1, <2>2 DEF DiskByte
<1>7. CASE ~(n < ns)
  <2>1. Data[i] = Zero
    BY <1>1, <1>5, <1>7, ZerosAre
  <2>2. ~(a + (i - 1) < l)
    <3>1. l <= a
      BY <1>2, <1>3, <1>7, MulLe
    <3> QED
      BY <3>1
  <2> QED
    BY <1>2, <2>1, <2>2 DEF DiskByte
<1> QED
  BY <1>6, <1>7

LEMMA StoredIs ==
  ASSUME a20 = TRUE, DOMAIN mem = 0 .. MemSize - 1, NEW v \in Nat, NEW n \in Nat, NEW d,
         \A i \in 1 .. SECTSIZE : d[i] = DiskByte(image, n * SECTSIZE + (i - 1))
  PROVE  SectorStored(mem, Stored(v, d), image, v, n) /\ DOMAIN Stored(v, d) = 0 .. MemSize - 1
<1>1. PICK s \in Nat : s = SECTSIZE /\ s > 0
  BY MachineIs
<1>2. PICK a \in Nat : a = n * s
  BY <1>1
<1>3. \A i \in 1 .. s : Phys(v + i - 1) = v + i - 1
  BY DEF Phys
<1>4. ASSUME NEW x \in 0 .. MemSize - 1
      PROVE  Stored(v, d)[x] =
             IF x \in v .. v + s - 1 THEN DiskByte(image, a + (x - v)) ELSE mem[x]
  <2>1. x \in Nat
    BY MachineIs
  <2>2. CASE x \in v .. v + s - 1
    <3>1. PICK j \in 1 .. s : j = x - v + 1 /\ j - 1 = x - v
      BY <2>1, <2>2
    <3>2. \A i \in 1 .. s : v + i - 1 = x <=> i = j
      BY <2>1, <3>1
    <3>3. \A i \in 1 .. s : Phys(v + i - 1) = x <=> i = j
      BY <1>3, <3>2
    <3>4. (CHOOSE i \in 1 .. s : Phys(v + i - 1) = x) = j
      BY <3>1, <3>3
    <3>5. Stored(v, d)[x] = d[j]
      <4>1. \E i \in 1 .. SECTSIZE : Phys(v + i - 1) = x
        BY <1>1, <3>1, <3>3
      <4> QED
        BY <1>1, <3>4, <4>1 DEF Stored
    <3>6. d[j] = DiskByte(image, a + (x - v))
      BY <1>1, <1>2, <3>1
    <3> QED
      BY <2>2, <3>5, <3>6
  <2>3. CASE x \notin v .. v + s - 1
    <3>1. \A i \in 1 .. s : v + i - 1 # x
      BY <2>1, <2>3
    <3>2. ~ \E i \in 1 .. SECTSIZE : Phys(v + i - 1) = x
      BY <1>1, <1>3, <3>1
    <3> QED
      BY <2>3, <3>2 DEF Stored
  <2> QED
    BY <2>2, <2>3
<1>5. DOMAIN Stored(v, d) = 0 .. MemSize - 1
  BY DEF Stored
<1> QED
  BY <1>1, <1>2, <1>4, <1>5 DEF SectorStored

(* The kernel's file on the disk, from sector 1: its header, its program   *)
(* headers and all of its segments.                                        *)
KernelOnDisk(in, im) ==
  /\ \A j \in 0 .. Len(in.segments) : DiskByte(im, SECTSIZE + j) = Byte(Kernel, j)
  /\ \A n \in 1 .. Len(in.segments) : \A i \in 0 .. in.segments[n].filesz - 1 :
       DiskByte(im, SECTSIZE + in.segments[n].offset + i) = Byte(Kernel, in.segments[n].offset + i)

(* If the kernel's first byte is where the loader looks for it, the file   *)
(* is: no byte of another file or of the padding is like it.               *)
LEMMA KernelFound ==
  ASSUME ImageInv, tool = "done", DiskByte(image, SECTSIZE) = Byte(Kernel, 0)
  PROVE  KernelOnDisk(input, image)
<1>1. /\ input \in Inputs /\ Written(input, image, nsectors, arg) /\ image \in Seq(Bytes)
      /\ Len(image) \in Nat
  BY DEF ImageInv, Written
<1>2. PICK s \in Nat : s = SECTSIZE /\ s > 0
  BY MachineIs
<1>3. Byte(Kernel, 0) # Zero
  BY DEF Byte, Kernel, Zero
<1>4. s < Len(image) /\ image[s + 1] = Byte(Kernel, 0)
  BY <1>2, <1>3 DEF DiskByte
<1>5. PICK st : Arranged(input.args, image, nsectors, arg, st)
  BY <1>1 DEF Written
<1>6. PICK k \in FilesBefore(input.args, arg) : s \in Extent(input.args, st, k)
  <2>1. s \in SECTSIZE .. Len(image) - 1
    BY <1>1, <1>2, <1>4
  <2>2. image[s + 1] # Zero
    BY <1>3, <1>4
  <2> QED
    BY <1>5, <2>1, <2>2, Zenon DEF Arranged
<1>7. Holds(input.args, image, st, k)
  BY <1>5, <1>6 DEF Arranged
<1>8. k \in 1 .. Len(input.args) /\ input.args[k].kind = "file"
  BY <1>6 DEF FilesBefore
<1>9. PICK a \in Nat, z \in Nat : a = At(st, k) /\ z = input.args[k].size
  BY <1>7 DEF Holds
<1>10. s \in a .. a + z - 1 /\ a + z <= Len(image)
       /\ \A i \in 0 .. z - 1 : image[a + i + 1] = Byte(input.args[k].id, i)
  BY <1>6, <1>7, <1>9 DEF Holds, Extent
<1>11. PICK i0 \in 0 .. z - 1 : i0 = s - a /\ a + i0 + 1 = s + 1
  BY <1>10
<1>12. Byte(input.args[k].id, i0) = Byte(Kernel, 0)
  BY <1>4, <1>10, <1>11
<1>13. input.args[k].id = Kernel /\ i0 = 0
  BY <1>12 DEF Byte
<1>14. a = s
  BY <1>11, <1>13
<1>15. ASSUME NEW j \in Nat, j < z PROVE DiskByte(image, s + j) = Byte(Kernel, j)
  <2>1. j \in 0 .. z - 1 /\ s + j < Len(image)
    BY <1>1, <1>10, <1>14, <1>15
  <2> QED
    BY <1>10, <1>13, <1>14, <2>1 DEF DiskByte
<1>16. /\ Len(input.segments) < z /\ Len(input.segments) \in Nat
       /\ \A n \in 1 .. Len(input.segments) :
            input.segments[n].offset + input.segments[n].filesz <= z
  <2>1. LinkedKernel(input)
    BY <1>1, BootLoaderAssumption
  <2> QED
    BY <1>8, <1>9, <1>13, <2>1 DEF LinkedKernel
<1>17. ASSUME NEW j \in 0 .. Len(input.segments) PROVE DiskByte(image, s + j) = Byte(Kernel, j)
  <2>1. j \in Nat /\ j < z
    BY <1>16
  <2> QED
    BY <1>15, <2>1
<1>18. ASSUME NEW n \in 1 .. Len(input.segments), NEW i \in 0 .. input.segments[n].filesz - 1
       PROVE  DiskByte(image, s + input.segments[n].offset + i)
                = Byte(Kernel, input.segments[n].offset + i)
  <2>1. PICK o \in Nat, f \in Nat : o = input.segments[n].offset /\ f = input.segments[n].filesz
    BY <1>1, SegmentsAre DEF IsSegment
  <2>2. PICK j \in Nat : j = o + i /\ j < z /\ s + o + i = s + j
    <3>1. i \in 0 .. f - 1 /\ o + f <= z
      BY <1>16, <2>1
    <3> QED
      BY <3>1
  <2>3. DiskByte(image, s + j) = Byte(Kernel, j)
    BY <1>15, <2>2
  <2> QED
    BY <2>1, <2>2, <2>3
<1> QED
  BY <1>2, <1>17, <1>18 DEF KernelOnDisk

-----------------------------------------------------------------------------
(* The gate is open, or will be before the disk has its first answer.      *)
GateOpens ==
  \/ a20 = TRUE
  \/ /\ kbc = "0xdf"
     /\ \/ pc = "protcseg"
        \/ pc = "readseg" /\ seg.va < seg.end_va
        \/ pc = "insl" /\ ide.busy = TRUE

LoadedTo(n) == \A k \in 0 .. n : Loaded(mem, image, Piece(input, k))
Magic == input.elf /\ DiskByte(image, SECTSIZE) = Byte(Kernel, 0)

LoaderShape ==
  /\ DOMAIN mem = 0 .. MemSize - 1 /\ DOMAIN ide = {"busy", "lba"} /\ "va" \in DOMAIN seg
  /\ a20 \in BOOLEAN /\ ide.busy \in BOOLEAN
  /\ ph \in 0 .. Len(input.segments)

LoaderInv ==
  /\ LoaderShape
  /\ pc \in {"off", "seta20.1", "seta20.2", "protcseg", "readseg", "insl", "bootmain",
             "kernel", "spin", "no boot disk"}
  /\ pc # "off" => tool = "done"
  /\ pc \in {"off", "seta20.1", "seta20.2", "protcseg"} => ph = 0
  /\ pc \in {"protcseg", "readseg", "insl", "bootmain"} => GateOpens
  /\ pc \in {"readseg", "insl"} =>
       /\ Reading(Piece(input, ph), seg) /\ Part(mem, image, Piece(input, ph), seg.va)
       /\ LoadedTo(ph - 1)
  /\ pc = "insl" => Names(ide.lba, seg.offset) /\ seg.va < seg.end_va
  /\ pc \in {"bootmain", "kernel"} => LoadedTo(ph)
  /\ ph > 0 \/ pc = "kernel" => Magic
  /\ pc = "kernel" => ph = Len(input.segments) /\ seg.va = input.entry % VaMask

LEMMA LoaderInit ==
  ASSUME Init PROVE LoaderInv
<1>1. input \in Inputs
  BY DEF Init, DiskInit
<1>2. 0 \in 0 .. Len(input.segments)
  BY <1>1, SegmentsAre
<1>3. DOMAIN mem = 0 .. MemSize - 1 /\ DOMAIN ide = {"busy", "lba"} /\ "va" \in DOMAIN seg
      /\ ide.busy \in BOOLEAN
  BY DEF Init
<1>4. a20 \in BOOLEAN /\ ph = 0 /\ pc = "off"
  BY DEF Init
<1> QED
  BY <1>2, <1>3, <1>4 DEF LoaderInv, LoaderShape

LEMMA DiskDone ==
  ASSUME ImageInv, LoaderInv, mkbootdisk /\ UNCHANGED loaderVars PROVE LoaderInv'
<1>1. tool # "done" /\ input' = input
  BY DEF mkbootdisk, write_boot_sector, write_file, skip_to_sector, fill_out, usage
<1>2. pc = "off" /\ ph = 0
  BY <1>1 DEF LoaderInv
<1>3. /\ mem' = mem /\ ide' = ide /\ seg' = seg /\ a20' = a20 /\ ph' = ph /\ pc' = pc
  BY DEF loaderVars
<1> QED
  BY <1>1, <1>2, <1>3 DEF LoaderInv, LoaderShape

LEMMA Bios ==
  ASSUME ImageInv, LoaderInv, bios PROVE LoaderInv'
<1>1. /\ pc = "off" /\ tool = "done" /\ pc' \in {"seta20.1", "no boot disk"}
      /\ DOMAIN mem' = DOMAIN mem
      /\ input' = input /\ tool' = tool
      /\ ide' = ide /\ seg' = seg /\ a20' = a20 /\ ph' = ph
  BY DEF bios, diskVars
<1>2. ph = 0 /\ ~(ph' > 0)
  <2>1. ph = 0
    BY <1>1 DEF LoaderInv
  <2>2. ph' = 0
    BY <1>1, <2>1, Zenon
  <2> QED
    BY <2>1, <2>2
<1>3. LoaderShape'
  BY <1>1 DEF LoaderInv, LoaderShape
<1> QED
  BY <1>1, <1>2, <1>3 DEF LoaderInv, LoaderShape

LEMMA KbcDone ==
  ASSUME LoaderInv, kbc_done PROVE LoaderInv'
<1>1. /\ mem' = mem /\ ide' = ide /\ seg' = seg /\ ph' = ph /\ pc' = pc
      /\ input' = input /\ tool' = tool /\ image' = image /\ a20' = (a20 \/ kbc = "0xdf")
  BY DEF kbc_done, diskVars
<1>2. GateOpens => GateOpens'
  BY <1>1 DEF GateOpens
<1>3. (\A n : LoadedTo(n) => LoadedTo(n)') /\ (Magic => Magic') /\ a20' \in BOOLEAN
  BY <1>1 DEF LoadedTo, Magic
<1> QED
  BY <1>1, <1>2, <1>3 DEF LoaderInv, LoaderShape

LEMMA IdeDone ==
  ASSUME LoaderInv, ide_done PROVE LoaderInv'
<1>1. /\ mem' = mem /\ seg' = seg /\ ph' = ph /\ pc' = pc /\ kbc = "idle"
      /\ input' = input /\ tool' = tool /\ image' = image /\ a20' = a20
      /\ ide' = [ide EXCEPT !.busy = FALSE]
  BY DEF ide_done, diskVars
<1>2. DOMAIN ide = {"busy", "lba"}
  BY DEF LoaderInv, LoaderShape
<1>3. DOMAIN ide' = {"busy", "lba"} /\ ide'.lba = ide.lba /\ ide'.busy = FALSE
  BY <1>1, <1>2
<1>4. GateOpens => GateOpens'
  BY <1>1 DEF GateOpens
<1>5. LoadedTo(ph - 1) => LoadedTo(ph - 1)'
  BY <1>1 DEF LoadedTo
<1>6. LoadedTo(ph) => LoadedTo(ph)'
  BY <1>1 DEF LoadedTo
<1>7. (Magic => Magic') /\ ide'.busy \in BOOLEAN
  BY <1>1, <1>3 DEF Magic
<1> QED
  BY <1>1, <1>3, <1>4, <1>5, <1>6, <1>7 DEF LoaderInv, LoaderShape

LEMMA SetA20 ==
  ASSUME LoaderInv, seta20 PROVE LoaderInv'
<1>1. /\ mem' = mem /\ seg' = seg /\ ph' = ph /\ ide' = ide
      /\ input' = input /\ tool' = tool /\ image' = image /\ a20' = a20
      /\ pc \in {"seta20.1", "seta20.2"} /\ pc' \in {"seta20.2", "protcseg"}
      /\ pc' = "protcseg" => kbc' = "0xdf"
  BY DEF seta20, diskVars
<1>2. pc' = "protcseg" => GateOpens'
  BY <1>1 DEF GateOpens
<1>3. ph = 0 /\ ~(ph' > 0) /\ tool = "done"
  <2>1. ph = 0 /\ tool = "done"
    BY <1>1 DEF LoaderInv
  <2> QED
    BY <1>1, <2>1
<1>4. LoaderShape'
  BY <1>1 DEF LoaderInv, LoaderShape
<1> QED
  BY <1>1, <1>2, <1>3, <1>4 DEF LoaderInv

LEMMA ProtCSeg ==
  ASSUME ImageInv, LoaderInv, protcseg PROVE LoaderInv'
<1>1. /\ mem' = mem /\ ph' = ph /\ ide' = ide /\ kbc' = kbc
      /\ input' = input /\ tool' = tool /\ image' = image /\ a20' = a20
      /\ pc = "protcseg" /\ pc' = "readseg"
      /\ seg' = readseg(ELFHDR, PAGESIZE, PAGESIZE, 0)
  BY DEF protcseg, diskVars
<1>2. ph = 0 /\ tool = "done" /\ GateOpens /\ LoaderShape
  BY <1>1 DEF LoaderInv
<1>3. Piece(input, 0) = HeaderPiece /\ HeaderPiece.va = ELFHDR /\ HeaderPiece.filesz = PAGESIZE
      /\ HeaderPiece.memsz = PAGESIZE /\ HeaderPiece.offset = 0
  BY DEF Piece, HeaderPiece
<1>4. input \in Inputs /\ IsPiece(HeaderPiece)
  <2>1. input \in Inputs
    BY DEF ImageInv
  <2>2. 0 \in 0 .. Len(input.segments)
    BY <2>1, SegmentsAre
  <2> QED
    BY <1>3, <2>1, <2>2, PieceIs
<1>5. Reading(HeaderPiece, seg') /\ Part(mem, image, HeaderPiece, seg'.va)
  BY <1>1, <1>3, <1>4, ReadsegStarts
<1>6. seg'.va < seg'.end_va
  <2>1. PICK s \in Nat : s = SECTSIZE /\ s > 0
    BY MachineIs
  <2>2. PICK e \in Nat, g \in Nat : e = ELFHDR /\ g = PAGESIZE /\ g > 0
    BY MachineIs
  <2>3. ELFHDR % VaMask = ELFHDR
    BY <1>3, HeaderBase DEF Base
  <2>4. seg'.va = e - (e % s) /\ seg'.end_va = e + g
    BY <1>1, <2>1, <2>2, <2>3 DEF readseg
  <2>5. e % s \in Nat
    BY <2>1, DivMod
  <2> QED
    BY <2>2, <2>4, <2>5
<1>7. GateOpens'
  BY <1>1, <1>2, <1>6 DEF GateOpens
<1>8. LoadedTo(ph - 1)'
  <2>1. \A k \in 0 .. ph' - 1 : FALSE
    BY <1>1, <1>2
  <2> QED
    BY <2>1, Zenon DEF LoadedTo
<1>9. LoaderShape' /\ ~(ph' > 0)
  <2>1. "va" \in DOMAIN seg'
    BY <1>1 DEF readseg
  <2>2. LoaderShape'
    BY <1>1, <1>2, <2>1 DEF LoaderShape
  <2>3. ph' = 0
    BY <1>1, <1>2, Zenon
  <2> QED
    BY <2>2, <2>3
<1>10. Reading(Piece(input, ph), seg)' /\ Part(mem, image, Piece(input, ph), seg.va)'
  BY <1>1, <1>2, <1>3, <1>5, Zenon
<1> QED
  BY <1>1, <1>2, <1>7, <1>8, <1>9, <1>10 DEF LoaderInv

LEMMA ReadSect ==
  ASSUME LoaderInv, readsect PROVE LoaderInv'
<1>1. /\ mem' = mem /\ ph' = ph /\ seg' = seg /\ kbc' = kbc
      /\ input' = input /\ tool' = tool /\ image' = image /\ a20' = a20
      /\ pc = "readseg" /\ pc' = "insl" /\ seg.va < seg.end_va
  BY DEF readsect, diskVars
<1>2. /\ tool = "done" /\ GateOpens /\ LoaderShape /\ LoadedTo(ph - 1)
      /\ Reading(Piece(input, ph), seg) /\ Part(mem, image, Piece(input, ph), seg.va)
      /\ (ph > 0 => Magic)
  BY <1>1 DEF LoaderInv
<1> DEFINE n == seg.offset
           l == <<n % ByteMod, (n \div ByteMod) % ByteMod, (n \div (ByteMod * ByteMod)) % ByteMod,
                  n \div (ByteMod * ByteMod * ByteMod)>>
<1>3. ide' = [busy |-> TRUE, lba |-> l]
  BY DEF readsect
<1>4. Names(l, n)
  BY <1>2, RegistersName DEF Reading
<1> HIDE DEF n, l
<1>5. ide'.busy = TRUE /\ ide'.lba = l /\ DOMAIN ide' = {"busy", "lba"}
  BY <1>3
<1>6. Names(ide'.lba, seg'.offset)
  BY <1>1, <1>4, <1>5 DEF n
<1>7. GateOpens'
  BY <1>1, <1>2, <1>5 DEF GateOpens
<1>8. LoaderShape'
  BY <1>1, <1>2, <1>5 DEF LoaderShape
<1>9. LoadedTo(ph - 1)' /\ (Magic => Magic')
  BY <1>1, <1>2 DEF LoadedTo, Magic
<1> QED
  BY <1>1, <1>2, <1>6, <1>7, <1>8, <1>9 DEF LoaderInv

(* The pieces that are loaded are pieces, apart from the one that is read. *)
LEMMA OtherPieces ==
  ASSUME ImageInv, LoaderShape
  PROVE  /\ ph \in Nat /\ IsPiece(Piece(input, ph))
         /\ \A k \in 0 .. ph - 1 : IsPiece(Piece(input, k)) /\ Apart(Piece(input, ph), Piece(input, k))
<1>1. input \in Inputs
  BY DEF ImageInv
<1>2. Len(input.segments) \in Nat /\ ph \in 0 .. Len(input.segments)
  BY <1>1, SegmentsAre DEF LoaderShape
<1>3. ASSUME NEW k \in 0 .. ph - 1
      PROVE  IsPiece(Piece(input, k)) /\ Apart(Piece(input, ph), Piece(input, k))
  <2>1. k \in 0 .. Len(input.segments) /\ k # ph
    BY <1>2
  <2> QED
    BY <1>1, <1>2, <2>1, PieceIs, PiecesApart
<1> QED
  BY <1>1, <1>2, <1>3, PieceIs

LEMMA Insl ==
  ASSUME ImageInv, LoaderInv, insl PROVE LoaderInv'
<1>1. /\ ph' = ph /\ kbc' = kbc /\ ide' = ide /\ ide.busy # TRUE
      /\ input' = input /\ tool' = tool /\ image' = image /\ a20' = a20
      /\ pc = "insl" /\ pc' = "readseg" /\ mem' = Stored(seg.va, Data)
      /\ seg' = [seg EXCEPT !.va = @ + SECTSIZE, !.offset = @ + 1]
  BY DEF insl, diskVars
<1>2. /\ tool = "done" /\ GateOpens /\ LoaderShape /\ LoadedTo(ph - 1)
      /\ Reading(Piece(input, ph), seg) /\ Part(mem, image, Piece(input, ph), seg.va)
      /\ (ph > 0 => Magic) /\ Names(ide.lba, seg.offset) /\ seg.va < seg.end_va
  BY <1>1 DEF LoaderInv
<1>3. a20 = TRUE
  BY <1>1, <1>2 DEF GateOpens
<1>4. Written(input, image, nsectors, arg)
  BY <1>2 DEF ImageInv
<1>5. PICK p : p = Piece(input, ph)
  OBVIOUS
<1>6. IsPiece(p) /\ Reading(p, seg) /\ Part(mem, image, p, seg.va)
  BY <1>2, <1>5, OtherPieces
<1>7. SectorStored(mem, mem', image, seg.va, seg.offset) /\ DOMAIN mem' = 0 .. MemSize - 1
  <2>1. image \in Seq(Bytes) /\ nsectors \in Nat /\ Len(image) = nsectors * SECTSIZE
    BY <1>4 DEF Written
  <2>2. seg.va \in Nat /\ seg.offset \in Nat
    BY <1>6 DEF Reading
  <2>3. \A i \in 1 .. SECTSIZE : Data[i] = DiskByte(image, seg.offset * SECTSIZE + (i - 1))
    BY <1>2, <2>1, <2>2, DataIs
  <2>4. DOMAIN mem = 0 .. MemSize - 1
    BY <1>2 DEF LoaderShape
  <2> QED
    BY <1>1, <1>3, <2>2, <2>3, <2>4, StoredIs, Zenon
<1>8. Reading(p, seg')
  BY <1>1, <1>6, ReadingOn
<1>9. seg'.va = seg.va + SECTSIZE /\ "va" \in DOMAIN seg'
  BY <1>1, <1>6 DEF Reading
<1>10. Part(mem', image, p, seg'.va)
  BY <1>2, <1>6, <1>7, <1>9, SectorRead, Zenon
<1>11. LoadedTo(ph - 1)'
  <2> SUFFICES ASSUME NEW k \in 0 .. ph - 1 PROVE Loaded(mem', image, Piece(input, k))
    BY <1>1, Zenon DEF LoadedTo
  <2>1. IsPiece(Piece(input, k)) /\ Apart(p, Piece(input, k))
    BY <1>2, <1>5, OtherPieces
  <2>2. Loaded(mem, image, Piece(input, k))
    BY <1>2 DEF LoadedTo
  <2> QED
    BY <1>2, <1>6, <1>7, <2>1, <2>2, ReadElsewhere, Zenon
<1>12. GateOpens' /\ (Magic => Magic')
  BY <1>1, <1>3 DEF GateOpens, Magic
<1>13. LoaderShape'
  BY <1>1, <1>2, <1>7, <1>9 DEF LoaderShape
<1>14. Reading(Piece(input, ph), seg)' /\ Part(mem, image, Piece(input, ph), seg.va)'
  BY <1>1, <1>5, <1>8, <1>10, Zenon
<1> QED
  BY <1>1, <1>2, <1>11, <1>12, <1>13, <1>14 DEF LoaderInv

LEMMA ClearBss ==
  ASSUME ImageInv, LoaderInv, clear_bss PROVE LoaderInv'
<1>1. /\ ph' = ph /\ kbc' = kbc /\ ide' = ide /\ seg' = seg
      /\ input' = input /\ tool' = tool /\ image' = image /\ a20' = a20
      /\ pc = "readseg" /\ pc' = "bootmain" /\ seg.va >= seg.end_va
      /\ mem' = [x \in DOMAIN mem |->
           IF \E a \in seg.end_va .. seg.memsz - 1 : Phys(a) = x THEN Zero ELSE mem[x]]
  BY DEF clear_bss, diskVars
<1>2. /\ tool = "done" /\ GateOpens /\ LoaderShape /\ LoadedTo(ph - 1)
      /\ Reading(Piece(input, ph), seg) /\ Part(mem, image, Piece(input, ph), seg.va)
      /\ (ph > 0 => Magic)
  BY <1>1 DEF LoaderInv
<1>3. PICK p : p = Piece(input, ph)
  OBVIOUS
<1>4. IsPiece(p) /\ Reading(p, seg) /\ Part(mem, image, p, seg.va)
  BY <1>2, <1>3, OtherPieces
<1>5. seg.va \in Nat /\ seg.end_va \in Nat /\ seg.memsz \in Nat
  BY <1>4 DEF Reading
<1>6. a20 = TRUE
  <2>1. ~(seg.va < seg.end_va)
    BY <1>1, <1>5
  <2> QED
    BY <1>1, <1>2, <2>1 DEF GateOpens
<1>7. DOMAIN mem' = 0 .. MemSize - 1 /\ Cleared(mem, mem', seg.end_va, seg.memsz)
  <2>1. DOMAIN mem = 0 .. MemSize - 1
    BY <1>2 DEF LoaderShape
  <2>2. \A a : Phys(a) = a
    BY <1>6 DEF Phys
  <2>3. \A x : (\E a \in seg.end_va .. seg.memsz - 1 : Phys(a) = x)
               <=> x \in seg.end_va .. seg.memsz - 1
    BY <2>2, Zenon
  <2> QED
    BY <1>1, <2>1, <2>3 DEF Cleared
<1>8. Loaded(mem', image, p)
  BY <1>1, <1>4, <1>7, PieceLoaded, Zenon
<1>9. ASSUME NEW k \in 0 .. ph - 1 PROVE Loaded(mem', image, Piece(input, k))
  <2>1. IsPiece(Piece(input, k)) /\ Apart(p, Piece(input, k))
    BY <1>2, <1>3, OtherPieces
  <2>2. Loaded(mem, image, Piece(input, k))
    BY <1>2 DEF LoadedTo
  <2> QED
    BY <1>4, <1>7, <2>1, <2>2, ClearElsewhere, Zenon
<1>10. LoadedTo(ph)'
  <2>1. \A k \in 0 .. ph : k \in 0 .. ph - 1 \/ k = ph
    BY <1>2, OtherPieces
  <2> QED
    BY <1>1, <1>3, <1>8, <1>9, <2>1, Zenon DEF LoadedTo
<1>11. GateOpens' /\ (Magic => Magic')
  BY <1>1, <1>6 DEF GateOpens, Magic
<1>12. LoaderShape'
  BY <1>1, <1>2, <1>7 DEF LoaderShape
<1> QED
  BY <1>1, <1>2, <1>10, <1>11, <1>12 DEF LoaderInv

(* The program headers bootmain finds in memory are the kernel's.          *)
LEMMA HeaderInMemory ==
  ASSUME ImageInv, LoaderShape, LoadedTo(ph)
  PROVE  /\ mem[ELFHDR + 0] = DiskByte(image, SECTSIZE)
         /\ \A j \in 0 .. Len(input.segments) : mem[ELFHDR + j] = DiskByte(image, SECTSIZE + j)
<1>1. input \in Inputs
  BY DEF ImageInv
<1>2. Len(input.segments) \in Nat /\ Len(input.segments) < PAGESIZE
  BY <1>1, SegmentsAre
<1>3. ph \in Nat
  BY OtherPieces
<1>4. Loaded(mem, image, HeaderPiece)
  <2>1. 0 \in 0 .. ph /\ Piece(input, 0) = HeaderPiece
    BY <1>3 DEF Piece
  <2> QED
    BY <2>1, Zenon DEF LoadedTo
<1>5. HeaderPiece.filesz = PAGESIZE /\ HeaderPiece.memsz = PAGESIZE /\ HeaderPiece.offset = 0
  BY DEF HeaderPiece
<1>6. ASSUME NEW j \in 0 .. Len(input.segments)
      PROVE  mem[ELFHDR + j] = DiskByte(image, SECTSIZE + j)
  <2>1. j \in 0 .. PAGESIZE - 1 /\ j < PAGESIZE /\ SECTSIZE + 0 + j = SECTSIZE + j
    BY <1>2, MachineIs
  <2>2. mem[ELFHDR + j] = IF j < PAGESIZE THEN DiskByte(image, SECTSIZE + 0 + j) ELSE Zero
    BY <1>4, <1>5, <2>1, HeaderBase DEF Loaded
  <2> QED
    BY <2>1, <2>2
<1>7. mem[ELFHDR + 0] = DiskByte(image, SECTSIZE)
  <2>1. 0 \in 0 .. Len(input.segments) /\ SECTSIZE + 0 = SECTSIZE
    BY <1>2, MachineIs
  <2> QED
    BY <1>6, <2>1
<1> QED
  BY <1>6, <1>7

LEMMA BootMain ==
  ASSUME ImageInv, LoaderInv, bootmain PROVE LoaderInv'
<1>1. /\ mem' = mem /\ kbc' = kbc /\ ide' = ide
      /\ input' = input /\ tool' = tool /\ image' = image /\ a20' = a20 /\ pc = "bootmain"
  BY DEF bootmain, diskVars
<1>2. tool = "done" /\ GateOpens /\ LoaderShape /\ LoadedTo(ph) /\ (ph > 0 => Magic)
  BY <1>1 DEF LoaderInv
<1>3. a20 = TRUE
  BY <1>1, <1>2 DEF GateOpens
<1>4. input \in Inputs
  BY DEF ImageInv
<1>5. ph \in 0 .. Len(input.segments) /\ Len(input.segments) \in Nat
  BY <1>2, <1>4, SegmentsAre DEF LoaderShape
<1>6. Header(0) <=> DiskByte(image, SECTSIZE) = Byte(Kernel, 0)
  BY <1>2, HeaderInMemory DEF Header
<1>7. GateOpens' /\ (Magic => Magic')
  BY <1>1, <1>3 DEF GateOpens, Magic
<1>8. CASE ph = 0 /\ ~(Header(0) /\ input.elf)
  <2>1. pc' = "spin" /\ ph' = ph /\ seg' = seg
    BY <1>8 DEF bootmain
  <2>2. LoaderShape'
    BY <1>1, <1>2, <2>1 DEF LoaderShape
  <2>3. ~(ph' > 0)
    BY <1>8, <2>1
  <2> QED
    BY <1>1, <1>2, <2>1, <2>2, <2>3 DEF LoaderInv
<1>9. CASE ~(ph = 0 /\ ~(Header(0) /\ input.elf))
  <2>1. Magic
    <3>1. CASE ph = 0
      BY <1>6, <1>9, <3>1 DEF Magic
    <3>2. CASE ph # 0
      BY <1>2, <1>5, <3>2
    <3> QED
      BY <3>1, <3>2
  <2>2. KernelOnDisk(input, image)
    BY <1>2, <2>1, KernelFound DEF Magic
  <2>3. CASE ph < Len(input.segments)
    <3>1. PICK n \in 1 .. Len(input.segments) : n = ph + 1
      BY <1>5, <2>3
    <3>2. Header(n)
      <4>1. n \in 0 .. Len(input.segments)
        BY <1>5
      <4> QED
        BY <1>2, <2>2, <4>1, HeaderInMemory DEF Header, KernelOnDisk
    <3>3. PICK p : p = input.segments[n]
      OBVIOUS
    <3>4. Proghdr(ph + 1) = p
      BY <3>1, <3>2, <3>3 DEF Proghdr
    <3>5. ph' = n /\ pc' = "readseg" /\ seg' = readseg(p.va, p.filesz, p.memsz, p.offset)
      BY <1>9, <2>3, <3>1, <3>4 DEF bootmain
    <3>6. Piece(input, n) = p /\ IsPiece(p)
      <4>1. n # 0 /\ n \in 0 .. Len(input.segments)
        BY <1>5
      <4>2. Piece(input, n) = p
        BY <3>3, <4>1 DEF Piece
      <4> QED
        BY <1>4, <4>1, <4>2, PieceIs
    <3>7. Reading(p, seg') /\ Part(mem, image, p, seg'.va)
      BY <3>5, <3>6, ReadsegStarts
    <3>8. Reading(Piece(input, ph), seg)' /\ Part(mem, image, Piece(input, ph), seg.va)'
      BY <1>1, <3>5, <3>6, <3>7, Zenon
    <3>9. LoaderShape'
      <4>1. "va" \in DOMAIN seg' /\ ph' \in 0 .. Len(input'.segments)
        BY <1>1, <1>5, <3>5 DEF readseg
      <4> QED
        BY <1>1, <1>2, <4>1 DEF LoaderShape
    <3>10. LoadedTo(ph - 1)'
      <4>1. ph' - 1 = ph
        BY <1>5, <3>1, <3>5
      <4> QED
        BY <1>1, <1>2, <4>1, Zenon DEF LoadedTo
    <3> QED
      BY <1>1, <1>2, <1>7, <2>1, <3>5, <3>8, <3>9, <3>10 DEF LoaderInv
  <2>4. CASE ~(ph < Len(input.segments))
    <3>1. pc' = "kernel" /\ ph' = ph
          /\ seg' = [seg EXCEPT !.va = IF Header(0) THEN input.entry % VaMask ELSE 0]
      BY <1>9, <2>4 DEF bootmain
    <3>2. Header(0)
      BY <1>6, <2>1 DEF Magic
    <3>3. "va" \in DOMAIN seg
      BY <1>2 DEF LoaderShape
    <3>4. seg'.va = input.entry % VaMask /\ "va" \in DOMAIN seg'
      BY <3>1, <3>2, <3>3
    <3>5. ph = Len(input.segments)
      BY <1>5, <2>4
    <3>6. LoadedTo(ph)'
      BY <1>1, <1>2, <3>1, Zenon DEF LoadedTo
    <3>7. LoaderShape'
      BY <1>1, <1>2, <3>1, <3>4 DEF LoaderShape
    <3> QED
      BY <1>1, <1>2, <1>7, <2>1, <3>1, <3>4, <3>5, <3>6, <3>7 DEF LoaderInv
  <2> QED
    BY <2>3, <2>4
<1> QED
  BY <1>8, <1>9

LEMMA LoaderStep ==
  ASSUME ImageInv, LoaderInv, [Next]_vars PROVE LoaderInv'
<1>1. CASE UNCHANGED vars
  <2>1. /\ mem' = mem /\ ide' = ide /\ seg' = seg /\ a20' = a20 /\ ph' = ph /\ pc' = pc
        /\ kbc' = kbc /\ input' = input /\ image' = image /\ tool' = tool
    BY <1>1 DEF vars, diskVars, loaderVars
  <2>2. (GateOpens => GateOpens') /\ (Magic => Magic') /\ (LoaderShape => LoaderShape')
    BY <2>1 DEF GateOpens, Magic, LoaderShape
  <2>3. (LoadedTo(ph) => LoadedTo(ph)') /\ (LoadedTo(ph - 1) => LoadedTo(ph - 1)')
    BY <2>1, Zenon DEF LoadedTo
  <2> QED
    BY <2>1, <2>2, <2>3 DEF LoaderInv
<1>2. CASE Loader
  BY <1>2, SetA20, ProtCSeg, ReadSect, Insl, ClearBss, BootMain DEF Loader
<1> QED
  BY <1>1, <1>2, DiskDone, Bios, KbcDone, IdeDone DEF Next

(* THEOREM: whenever the loader enters a kernel, with the disk and the     *)
(* keyboard controller answering in any order, every byte of every segment *)
(* is where its program header says and the bss is zero.                   *)
THEOREM KernelComplete == Spec => []KernelLoaded
<1>1. ASSUME ImageInv, LoaderInv PROVE KernelLoaded
  <2> SUFFICES ASSUME pc = "kernel" PROVE KernelLoaded
    BY DEF KernelLoaded
  <2>1. /\ tool = "done" /\ LoaderShape /\ LoadedTo(ph) /\ Magic
        /\ ph = Len(input.segments) /\ seg.va = input.entry % VaMask
    BY <1>1 DEF LoaderInv
  <2>2. input \in Inputs /\ Written(input, image, nsectors, arg)
    BY <1>1, <2>1 DEF ImageInv
  <2>3. Len(input.segments) \in Nat
    BY <2>2, SegmentsAre
  <2>4. KernelOnDisk(input, image)
    BY <1>1, <2>1, KernelFound DEF Magic
  <2>5. Sector(1)[1] = Byte(Kernel, 0)
    <3>1. PICK s \in Nat : s = SECTSIZE /\ s > 0
      BY MachineIs
    <3>2. image \in Seq(Bytes) /\ nsectors \in Nat /\ Len(image) = nsectors * s
      BY <2>2, <3>1 DEF Written
    <3>3. s < Len(image) /\ image[s + 1] = Byte(Kernel, 0)
      <4>1. Byte(Kernel, 0) # Zero
        BY DEF Byte, Kernel, Zero
      <4> QED
        BY <2>1, <3>1, <4>1 DEF Magic, DiskByte
    <3>4. 1 < nsectors
      <4>1. CASE nsectors <= 1
        <5>1. nsectors * s <= 1 * s
          BY <3>2, <4>1, MulLe, 1 \in Nat
        <5> QED
          BY <3>2, <3>3, <5>1
      <4> QED
        BY <3>2, <4>1
    <3>5. \A i \in 1 .. SECTSIZE : Sector(1)[i] = image[1 * SECTSIZE + i]
      BY <3>1, <3>2, <3>4, SectorIs, 1 \in Nat
    <3>6. 1 \in 1 .. SECTSIZE /\ 1 * SECTSIZE + 1 = s + 1
      BY <3>1
    <3> QED
      BY <3>3, <3>5, <3>6
  <2>6. ASSUME NEW n \in 1 .. Len(input.segments), NEW i \in 0 .. input.segments[n].memsz - 1
        PROVE  mem[(input.segments[n].va % VaMask) + i] =
                 IF i < input.segments[n].filesz THEN Byte(Kernel, input.segments[n].offset + i)
                                                 ELSE Zero
    <3>1. PICK p : p = input.segments[n]
      OBVIOUS
    <3>2. n \in 0 .. ph /\ Piece(input, n) = p
      BY <2>1, <2>3, <3>1 DEF Piece
    <3>3. Loaded(mem, image, p)
      BY <2>1, <3>2, Zenon DEF LoadedTo
    <3>4. mem[Base(p) + i] = IF i < p.filesz THEN DiskByte(image, SECTSIZE + p.offset + i) ELSE Zero
      BY <3>1, <3>3 DEF Loaded
    <3>5. CASE i < p.filesz
      <4>1. PICK f \in Nat, z \in Nat : f = p.filesz /\ z = p.memsz
        BY <2>2, <3>1, SegmentsAre DEF IsSegment
      <4>2. i \in 0 .. p.filesz - 1
        BY <3>1, <3>5, <4>1
      <4>3. DiskByte(image, SECTSIZE + p.offset + i) = Byte(Kernel, p.offset + i)
        BY <2>4, <3>1, <4>2 DEF KernelOnDisk
      <4> QED
        BY <3>1, <3>4, <3>5, <4>3 DEF Base
    <3>6. CASE ~(i < p.filesz)
      BY <3>1, <3>4, <3>6 DEF Base
    <3> QED
      BY <3>5, <3>6
  <2> QED
    BY <2>1, <2>5, <2>6, Zenon DEF KernelLoaded, Magic
<1>2. Init => LoaderInv
  BY LoaderInit
<1> QED
  BY <1>1, <1>2, LoaderStep, ImageAlways, PTL DEF Spec
=============================================================================

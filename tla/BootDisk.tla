------------------------------- MODULE BootDisk -------------------------------
(***************************************************************************)
(* boot/mkbootdisk.c: the program that writes the disk image, from a boot  *)
(* sector and arguments that are files or "@N".  A byte of a file is a     *)
(* pair that says which file and which byte of it, so that no byte can     *)
(* pass for another; a byte mkbootdisk or the loader makes is <<0, value>>.*)
(***************************************************************************)
EXTENDS Integers, Sequences, FiniteSets

CONSTANTS
  SECTSIZE,     \* bytes in a sector
  MinSectors,   \* sectors the image is filled to, 1024
  Inputs        \* [boot: bytes of the boot file, args: the arguments, ...]

VARIABLES input, image, nsectors, arg, tool
diskVars == <<input, image, nsectors, arg, tool>>

(* An argument: a file of some size (-1: it cannot be opened), or "@to".   *)
File(id, size) == [kind |-> "file", id |-> id, size |-> size]
Skip(to)       == [kind |-> "skip", to |-> to]

Boot   == 1
Kernel == 2
Byte(id, i)     == <<id, i>>
Zero            == <<0, 0>>
Sig55           == <<0, 85>>
SigAA           == <<0, 170>>
Zeros(n)        == [i \in 1 .. n |-> Zero]
Contents(id, n) == [i \in 1 .. n |-> Byte(id, i - 1)]

(* The arguments: strtoul makes "@N" a number that is not negative.        *)
IsArgument(a) ==
  \/ a.kind = "file" /\ a.id \in Nat \ {0} /\ a.size \in Int
  \/ a.kind = "skip" /\ a.to \in Nat

ASSUME BootDiskAssumption ==
  /\ SECTSIZE \in Nat \ {0, 1, 2} /\ MinSectors \in Nat
  /\ \A in \in Inputs :
       /\ in.boot \in Nat /\ Len(in.args) \in Nat
       /\ \A k \in 1 .. Len(in.args) : IsArgument(in.args[k])

DiskInit ==
  /\ input \in Inputs
  /\ image = <<>> /\ nsectors = 0 /\ arg = 1
  /\ tool = "boot"

usage == tool' = "usage" /\ UNCHANGED <<input, image, nsectors, arg>>

(* The boot sector: at most SECTSIZE - 2 bytes, zeros, and the signature.  *)
write_boot_sector ==
  /\ tool = "boot"
  /\ LET n == input.boot IN
     IF n > SECTSIZE - 2 THEN usage
     ELSE /\ image' = Contents(Boot, n) \o Zeros(SECTSIZE - 2 - n) \o <<Sig55, SigAA>>
          /\ nsectors' = 1
          /\ tool' = "args"
          /\ UNCHANGED <<input, arg>>

(* Seeded fault: a file that ends in the middle of a sector is not padded. *)
write_file_unpadded ==
  /\ tool = "args" /\ arg <= Len(input.args) /\ input.args[arg].kind = "file"
  /\ LET size == input.args[arg].size IN
     IF size < 0 THEN usage
     ELSE /\ image' = image \o Contents(input.args[arg].id, size)
          /\ nsectors' = nsectors + size \div SECTSIZE
          /\ arg' = arg + 1
          /\ UNCHANGED <<input, tool>>

(* A file, padded to the end of its last sector.                           *)
write_file ==
  /\ tool = "args" /\ arg <= Len(input.args) /\ input.args[arg].kind = "file"
  /\ LET size == input.args[arg].size
         pad  == IF size % SECTSIZE = 0 THEN 0 ELSE SECTSIZE - (size % SECTSIZE)
     IN  IF size < 0 THEN usage
         ELSE /\ image' = image \o Contents(input.args[arg].id, size) \o Zeros(pad)
              /\ nsectors' = nsectors + (size + pad) \div SECTSIZE
              /\ arg' = arg + 1
              /\ UNCHANGED <<input, tool>>

(* "@X" means "skip to sector X", which must not lie behind.               *)
skip_to_sector ==
  /\ tool = "args" /\ arg <= Len(input.args) /\ input.args[arg].kind = "skip"
  /\ LET to == input.args[arg].to IN
     IF nsectors > to THEN usage
     ELSE /\ image' = image \o Zeros((to - nsectors) * SECTSIZE)
          /\ nsectors' = to
          /\ arg' = arg + 1
          /\ UNCHANGED <<input, tool>>

fill_out ==
  /\ tool = "args" /\ arg > Len(input.args)
  /\ LET n == IF nsectors < MinSectors THEN MinSectors - nsectors ELSE 0 IN
     image' = image \o Zeros(n * SECTSIZE) /\ nsectors' = nsectors + n
  /\ tool' = "done"
  /\ UNCHANGED <<input, arg>>

mkbootdisk == write_boot_sector \/ write_file \/ skip_to_sector \/ fill_out

-----------------------------------------------------------------------------
FileArgs == {k \in 1 .. Len(input.args) : input.args[k].kind = "file"}
Sector(n) == SubSeq(image, n * SECTSIZE + 1, (n + 1) * SECTSIZE)

(* A finished image is a whole number of sectors, at least MinSectors; the *)
(* first holds the boot code and ends in the signature; every file argument*)
(* begins at a sector of its own, behind everything before it, the one the *)
(* "@N" before it names if there is one; and every other byte is zero.     *)
ImageAsAsked ==
  tool = "done" =>
    /\ Len(image) = nsectors * SECTSIZE /\ nsectors >= MinSectors
    /\ SubSeq(Sector(0), 1, input.boot) = Contents(Boot, input.boot)
    /\ SubSeq(Sector(0), SECTSIZE - 1, SECTSIZE) = <<Sig55, SigAA>>
    /\ \E start \in [FileArgs -> 1 .. nsectors] :
         /\ \A k \in FileArgs :
              /\ \A i \in 0 .. input.args[k].size - 1 :
                   image[start[k] * SECTSIZE + i + 1] = Byte(input.args[k].id, i)
              /\ (k > 1 /\ input.args[k - 1].kind = "skip") => start[k] = input.args[k - 1].to
              /\ \A j \in FileArgs :
                   j < k => start[j] * SECTSIZE + input.args[j].size <= start[k] * SECTSIZE
         /\ \A b \in SECTSIZE .. Len(image) - 1 :
              \/ image[b + 1] = Zero
              \/ \E k \in FileArgs :
                   b \in start[k] * SECTSIZE .. start[k] * SECTSIZE + input.args[k].size - 1
=============================================================================

----------------------------- MODULE MCBootLoader -----------------------------
EXTENDS BootLoader

(* Memory in bytes: boot sector 0..2, header page 3..8, the kernel from 16 *)
(* (A20) on; sectors of three bytes, pages of two sectors.  Addresses      *)
(* above VaMask are the kernel's link addresses.                           *)
Link(a) == 3 * VaMask + a
Seg(va, filesz, bss, offset) ==
  [va |-> Link(va), filesz |-> filesz, memsz |-> filesz + bss, offset |-> offset]

(* Text at the link address, data with the bss behind it on a later page,  *)
(* each as far into a page as into the file's page, and the empty header   *)
(* ld adds for the stack, in any place; also data that is loaded first.    *)
Stack == [va |-> 0, filesz |-> 0, memsz |-> 0, offset |-> 0]
Placements ==
  {<<Seg(18 + d, f, 0, 6 + d), Seg(30 + e, g, b, 18 + e)>> :
     d \in {0, 2}, f \in {3, 4, 7}, e \in {0, 1, 3}, g \in {0, 2, 5}, b \in {0, 4, 7}}
Swapped(s) == <<s[2], s[1]>>
Linked == Placements \cup {Swapped(s) : s \in Placements}
          \cup {Append(s, Stack) : s \in Placements} \cup {<<Stack>> \o s : s \in Placements}
First == Linked \cap {<<Seg(20, 7, 0, 8), Seg(31, 5, 4, 19)>>}

In(boot, args, segments, elf) ==
  [boot |-> boot, args |-> args, segments |-> segments, elf |-> elf, entry |-> Link(20)]
Arg == {File(Kernel, 26), File(3, 4), File(3, 0), File(4, -1), Skip(1), Skip(9), Skip(11)}
Args == UNION {[1 .. n -> Arg] : n \in 0 .. 3}
MCInputs ==
  {In(1, <<File(Kernel, 26), Skip(11)>>, s, TRUE) : s \in Linked}
  \cup {In(b, a, s, e) : b \in {0, 2}, a \in Args, s \in First, e \in {TRUE}}
  \cup {In(1, <<File(Kernel, 26)>>, s, FALSE) : s \in First}
=============================================================================

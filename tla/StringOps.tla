------------------------------ MODULE StringOps ------------------------------
(***************************************************************************)
(* lib/string.c.  Memory is a function from addresses to bytes; a function *)
(* that writes gives [mem, ret], the memory it leaves and what it returns, *)
(* the others what they return.  Pointers are addresses, NULL is -1.  A    *)
(* turn of a C loop is a turn of the recursion.                            *)
(***************************************************************************)
EXTENDS Integers, Sequences, FiniteSets, FiniteSetsExt

NULL == -1
Set(m, a, v) == [m EXCEPT ![a] = v]
Ret(m, v)    == [mem |-> m, ret |-> v]

RECURSIVE strnlen(_, _, _), copy_string(_, _, _), strncpy(_, _, _, _),
          strlcpy_from(_, _, _, _, _), strcmp(_, _, _), strncmp(_, _, _, _),
          strchr(_, _, _), strfind(_, _, _), set_down(_, _, _, _),
          copy_up(_, _, _, _), copy_down(_, _, _, _), memcmp(_, _, _, _),
          memfind(_, _, _, _), strlen(_, _), blanks(_, _), digits(_, _, _, _)

strlen(m, s) == IF m[s] = 0 THEN 0 ELSE 1 + strlen(m, s + 1)

(* size -1, the largest size_t, is no limit.                               *)
strnlen(m, s, size) ==
  IF size = 0 THEN 0 ELSE IF m[s] = 0 THEN 0 ELSE 1 + strnlen(m, s + 1, size - 1)

copy_string(m, d, s) ==
  LET w == Set(m, d, m[s]) IN IF w[d] = 0 THEN w ELSE copy_string(w, d + 1, s + 1)
strcpy(m, dst, src) == Ret(copy_string(m, dst, src), dst)

strncpy(m, d, s, size) ==
  IF size = 0 THEN m
  ELSE strncpy(Set(m, d, m[s]), d + 1, IF m[s] # 0 THEN s + 1 ELSE s, size - 1)

(* The loop of strlcpy and the null behind it.                             *)
strlcpy_from(m, dst_in, d, s, size) ==
  IF size - 1 > 0 /\ m[s] # 0
  THEN strlcpy_from(Set(m, d, m[s]), dst_in, d + 1, s + 1, size - 1)
  ELSE Ret(Set(m, d, 0), d - dst_in)
strlcpy(m, dst, src, size) ==
  IF size > 0 THEN strlcpy_from(m, dst, dst, src, size) ELSE Ret(m, 0)

strcmp(m, p, q) ==
  IF m[p] # 0 /\ m[p] = m[q] THEN strcmp(m, p + 1, q + 1) ELSE m[p] - m[q]

strncmp(m, p, q, n) ==
  IF n > 0 /\ m[p] # 0 /\ m[p] = m[q] THEN strncmp(m, p + 1, q + 1, n - 1)
  ELSE IF n = 0 THEN 0 ELSE m[p] - m[q]

strchr(m, s, c) ==
  IF m[s] = 0 THEN NULL ELSE IF m[s] = c THEN s ELSE strchr(m, s + 1, c)
strfind(m, s, c) ==
  IF m[s] = 0 \/ m[s] = c THEN s ELSE strfind(m, s + 1, c)

(* The byte stored is c as a char.                                         *)
set_down(m, p, c, n) == IF n - 1 < 0 THEN m ELSE set_down(Set(m, p, c % 256), p + 1, c, n - 1)
memset(m, v, c, n) == Ret(set_down(m, v, c, n), v)

copy_up(m, d, s, n) == IF n = 0 THEN m ELSE copy_up(Set(m, d, m[s]), d + 1, s + 1, n - 1)
copy_down(m, d, s, n) == IF n = 0 THEN m ELSE copy_down(Set(m, d - 1, m[s - 1]), d - 1, s - 1, n - 1)
memcpy(m, dst, src, n) == Ret(copy_up(m, dst, src, n), dst)

(* Seeded fault: regions that overlap are copied upward.                   *)
memmove_up(m, dst, src, n) == Ret(copy_up(m, dst, src, n), dst)

memmove(m, dst, src, n) ==
  Ret(IF src < dst /\ src + n > dst THEN copy_down(m, dst + n, src + n, n)
                                    ELSE copy_up(m, dst, src, n), dst)

memcmp(m, a, b, n) ==
  IF n = 0 THEN 0 ELSE IF m[a] # m[b] THEN m[a] - m[b] ELSE memcmp(m, a + 1, b + 1, n - 1)
memfind(m, s, c, n) ==
  IF n = 0 \/ m[s] = c % 256 THEN s ELSE memfind(m, s + 1, c, n - 1)

(* strtol, whose parts advance s: blanks, sign, the prefix and the base it *)
(* gives, digits.                                                          *)
blanks(m, s) == IF m[s] \in {32, 9} THEN blanks(m, s + 1) ELSE s
digit(c) ==
  CASE c \in 48 .. 57  -> c - 48
    [] c \in 97 .. 122 -> c - 97 + 10
    [] c \in 65 .. 90  -> c - 65 + 10
    [] OTHER           -> 99
prefix(m, s, base) ==
  IF base \in {0, 16} /\ m[s] = 48 /\ m[s + 1] = 120 THEN <<s + 2, 16>>
  ELSE IF base = 0 /\ m[s] = 48 THEN <<s + 1, 8>>
  ELSE <<s, IF base = 0 THEN 10 ELSE base>>
digits(m, s, base, val) ==
  IF digit(m[s]) >= base THEN [end |-> s, val |-> val]
  ELSE digits(m, s + 1, base, val * base + digit(m[s]))
strtol(m, str, base) ==
  LET b == blanks(m, str)
      s == IF m[b] \in {43, 45} THEN b + 1 ELSE b
      p == prefix(m, s, base)
      d == digits(m, p[1], p[2], 0)
  IN  [d EXCEPT !.val = IF m[b] = 45 THEN -@ ELSE @]
=============================================================================

---------------------------- MODULE ParityTable -----------------------------
(***************************************************************************)
(* misc/makeparitytable.c, the program that printed the literal            *)
(* parity_table of i8080.c.                                                *)
(***************************************************************************)
EXTENDS Words

\* The ones among the eight low bits of val; nbits only says whether to look.
count_set_bits(val, nbits) ==
  LET count[i \in 0 .. 8] == IF i = 0 THEN 0 ELSE count[i - 1] + BitOf(val, i - 1)
  IN  IF val = 0 \/ nbits = 0 THEN 0 ELSE count[8]

is_even(i) == IF i % 2 # 0 THEN 0 ELSE 1

\* What main prints: the entry for i - 1 in the i-th place.
makeparitytable == [i \in 1 .. 256 |-> is_even(count_set_bits(i - 1, 8))]
=============================================================================

----------------------------- MODULE BitStrings -----------------------------
(* Numbers as strings of bits, the most significant bit first.              *)
EXTENDS Integers, Sequences

Pow2[n \in Nat] == IF n = 0 THEN 1 ELSE 2 * Pow2[n - 1]

\* The w lowest bits of n.
Bits(n, w) == [i \in 1 .. w |-> (n \div Pow2[w - i]) % 2]

\* The number of the first i bits, for every i.
Number(bits) ==
  LET value[i \in 0 .. Len(bits)] == IF i = 0 THEN 0 ELSE 2 * value[i - 1] + bits[i]
  IN value[Len(bits)]
=============================================================================

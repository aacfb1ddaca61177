------------------------------- MODULE Binary -------------------------------
(***************************************************************************)
(* Binary numbers: their bits, and the sums that put bits together.        *)
(***************************************************************************)
EXTENDS Integers

Bit(v, i) == (v \div 2^i) % 2

\* f[1] + ... + f[n].  A recursive function, and no fold over a set: the
\* terms have an order, so that induction on n reaches them.
SumOf(f, n) ==
    LET sum[k \in Nat] == IF k = 0 THEN 0 ELSE sum[k - 1] + f[k]
    IN  sum[n]

\* The number of the n bits d[0], d[1], ...
FromBits(d, n) == SumOf([i \in 1 .. n |-> d[i - 1] * 2^(i - 1)], n)
=============================================================================

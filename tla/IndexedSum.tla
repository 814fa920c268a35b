------------------------------ MODULE IndexedSum ------------------------------
(* The sum of a function over 1..n, for totals kept beside per-wallet counters. *)
EXTENDS Integers

Sum(f, n) == LET upto[i \in 0..n] == IF i = 0 THEN 0 ELSE upto[i - 1] + f[i]
             IN  upto[n]
==============================================================================

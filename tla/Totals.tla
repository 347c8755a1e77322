------------------------------- MODULE Totals -------------------------------
(***************************************************************************)
(* The sum of a numeric function over 0 .. n-1, the index range of a       *)
(* Solidity array of length n.  It is written as a recursive function so   *)
(* that the proof modules can reason about it.                             *)
(***************************************************************************)
EXTENDS Integers

Prefixes(f, n) ==
  LET prefix[k \in 0 .. n] == IF k = 0 THEN 0 ELSE prefix[k - 1] + f[k - 1]
  IN  prefix

Total(f, n) == Prefixes(f, n)[n]
=============================================================================

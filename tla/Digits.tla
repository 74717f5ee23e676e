------------------------------- MODULE Digits -------------------------------
(***************************************************************************)
(* Numbers as sequences of digits, lowest first: the shifts and masks with *)
(* which ByteArray takes integers apart and puts them together.            *)
(***************************************************************************)
EXTENDS Integers, Sequences

\* w to the power of n (1 << n for w = 2), in a form that can be unfolded in proofs.
Pow(w, n) == LET p[k \in Nat] == IF k = 0 THEN 1 ELSE w * p[k - 1] IN p[n]

\* Digit i of v, and the number with the digits d.
Digit(v, w, i) == (v \div Pow(w, i - 1)) % w

FromDigits(d, w) ==
    LET sum[k \in 0 .. Len(d)] == IF k = 0 THEN 0 ELSE sum[k - 1] + d[k] * Pow(w, k - 1)
    IN  sum[Len(d)]
=============================================================================

------------------------------ MODULE Decimal ------------------------------
(***************************************************************************)
(* Numbers written in decimal, as core/denom has them from math/big and     *)
(* strings: a numeral is a sequence of digits, the highest first.           *)
(***************************************************************************)
EXTENDS Integers, Sequences

\* Powers of ten.
Tens[n \in Nat] == IF n = 0 THEN 1 ELSE 10 * Tens[n - 1]

\* The number that digits write, and the digits of a number: SetString and
\* String of big.Int.
Number(s) ==
  LET upTo[i \in 0 .. Len(s)] == IF i = 0 THEN 0 ELSE 10 * upTo[i - 1] + s[i]
  IN  upTo[Len(s)]

DigitsOf[n \in Nat] == IF n < 10 THEN <<n>> ELSE Append(DigitsOf[n \div 10], n % 10)

Zeros(n) == [i \in 1 .. n |-> 0]

\* The digits without the zeros at their end.
TrimRight(s) ==
  LET end[i \in 0 .. Len(s)] == IF i = 0 \/ s[i] # 0 THEN i ELSE end[i - 1]
  IN  SubSeq(s, 1, end[Len(s)])
=============================================================================

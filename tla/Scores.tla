------------------------------- MODULE Scores -------------------------------
(* What the scoring plugins take from the framework and from Go.            *)
EXTENDS Integers

\* The best score a NormalizeScore may leave; the worst is 0.
MaxNodeScore == 100

\* Division of int64 truncates towards zero.
Quotient(a, b) == IF a >= 0 THEN a \div b ELSE -((-a) \div b)
=============================================================================

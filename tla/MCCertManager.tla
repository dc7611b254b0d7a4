----------------------------- MODULE MCCertManager -----------------------------
(* CertManager for TLC: the domains a and b share a base domain. *)
EXTENDS CertManager

CONSTANTS a, b, c

TwoOfOne == [d \in Domain |-> IF d \in {a, b} THEN "one.org" ELSE "two.org"]
=============================================================================

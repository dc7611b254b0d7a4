------------------------------ MODULE MCMailFilter ------------------------------
(* MailFilter for TLC: two recipients in a domain of this server, one address of
   which is not ASCII, one on another server, and the sender in a second domain
   of this server. *)
EXTENDS MailFilter

CONSTANTS x1, x2, y, s

Domains == [a \in Address |-> IF a \in {x1, x2} THEN "x.org" ELSE IF a = y THEN "y.org" ELSE "s.org"]
=============================================================================

---------------------------- MODULE MCProvisioning ----------------------------
(* SieveFilters, and the Provisioning it extends, for TLC: two organizations,
   two domains, two mailboxes in the first of them, one alias address and one
   webhook endpoint; the scripts of one of the users.  The address of b ends in
   that of a, and the alias has the address of b. *)
EXTENDS SieveFilters

CONSTANTS o1, o2, d1, d2, a, b, s, e, x1

MailboxDomain == [x \in Account |-> d1]
AliasDomain == [x \in Source |-> d1]
EndpointOwner == [x \in Endpoint |-> o1]
Within == {<<a, a>>, <<b, b>>, <<b, a>>, <<s, b>>}
=============================================================================

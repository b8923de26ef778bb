----------------------------- MODULE MCDomains -----------------------------
(***************************************************************************)
(* The constants of Domains for TLC: one name that can be registered again *)
(* after its first row is gone, and that the operator may list as public;  *)
(* one mailbox under it.                                                   *)
(***************************************************************************)
EXTENDS Domains, TLC

CONSTANTS first, second, other, box1, theName, otherName, theAddress

MCNameOf    == [d \in DomainIds |-> IF d = other THEN otherName ELSE theName]
MCAddressOf == [a \in AccountIds |-> theAddress]
MCDomainOf  == [x \in Addresses |-> theName]
MCLifetimes == {1}

\* The two registrations of the name are interchangeable.
Registrations == Permutations({first, second})
=============================================================================

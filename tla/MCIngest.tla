------------------------------ MODULE MCIngest ------------------------------
(***************************************************************************)
(* The constants of Ingest for TLC.  alice's address can be taken by two   *)
(* accounts, one after the other, and bob's by one; a mail goes to alice   *)
(* alone, or names both and is filed in both mailboxes.  Each              *)
(* configuration picks the accounts and mails it needs.                    *)
(***************************************************************************)
EXTENDS Ingest, TLC

CONSTANTS alice1, alice2, bob1, alice, bob, toAlice, toBoth

MCAddresses  == {<<m>> : m \in Mailboxes}
MCAddressOf  == [a \in AccountIds |-> IF a = bob1 THEN <<bob>> ELSE <<alice>>]
MCMailboxOf  == [x \in MCAddresses |-> x[1]]
MCEnvelope   == [x \in Mails |-> IF x = toBoth THEN Mailboxes ELSE {alice}]
MCTo         == [x \in Mails |-> IF x = toBoth THEN MCAddresses ELSE {<<alice>>}]
MCLifetimes  == {1}

\* No local part holds an underscore: a pattern matches its own mailbox only.
PlainNames == [m \in Mailboxes |-> {m}]

\* bob's name holds an underscore where alice's has a letter, as a_x and abx.
UnderscoreNames == [m \in Mailboxes |-> IF m = bob THEN {alice, bob} ELSE {m}]

\* The two holders of alice's address are interchangeable.
Holders == Permutations({alice1, alice2})
=============================================================================

------------------------------ MODULE Accounts ------------------------------
(***************************************************************************)
(* The accounts table of the PostgreSQL store (pg_store.rs) and the clock  *)
(* that its expiry queries read.                                           *)
(*                                                                         *)
(* A row is never given another id or another address, so the address an   *)
(* id will carry is a constant: AddressOf groups the fresh UUIDs by the    *)
(* address they are created for.  Several ids may share an address, which  *)
(* is how a deleted mailbox is taken again by somebody else.  No code      *)
(* writes is_disabled after the INSERT, so that column is left out.        *)
(***************************************************************************)
EXTENDS Naturals

CONSTANTS
  AccountIds,   \* ids that accounts.id may take
  Addresses,    \* normalized addresses, local@domain
  AddressOf,    \* the address each id is created for
  Lifetimes,    \* the positive values of expires_in
  MaxTime       \* bound of the clock

ASSUME AccountsAssumption ==
  /\ AddressOf \in [AccountIds -> Addresses]
  /\ Lifetimes \subseteq Nat \ {0}
  /\ MaxTime \in Nat

VARIABLES
  now,          \* Utc::now() and SQL NOW(), taken as one clock
  status,       \* is_deleted, told apart by the audit entry that set it
  expires       \* expires_at

accountVars == <<now, status, expires>>

\* "expired" rows were soft deleted by the cleanup (audit entry
\* account.expire), "deleted" rows by a request (account.delete).
RowStates == {"unused", "live", "deleted", "expired"}

\* expires_at NULL: later than every reading of the bounded clock.
Never == MaxTime + 1

\* ensure_account_active, and the WHERE clause of the store's queries for
\* accounts in use.
Active(a) == status[a] = "live" /\ expires[a] > now

\* resolve_expires_at: -1 and 0 ask for no expiry, a positive value adds to
\* the clock, None takes the configured default (a lifetime like the others).
ExpiryChoices == {Never} \cup {now + t : t \in Lifetimes}

\* accounts_address_active_idx: UNIQUE (address) WHERE is_deleted = FALSE.
AddressFree(x) == \A b \in AccountIds : AddressOf[b] = x => status[b] # "live"

AccountsTypeOK ==
  /\ now \in 0..MaxTime
  /\ status \in [AccountIds -> RowStates]
  /\ expires \in [AccountIds -> Nat]

AccountsInit ==
  /\ now = 0
  /\ status = [a \in AccountIds |-> "unused"]
  /\ expires = [a \in AccountIds |-> 0]

\* INSERT INTO accounts; a taken address answers "already exists" instead.
InsertAccount(a, e) ==
  /\ status[a] = "unused"
  /\ AddressFree(AddressOf[a])
  /\ status' = [status EXCEPT ![a] = "live"]
  /\ expires' = [expires EXCEPT ![a] = e]
  /\ UNCHANGED now

\* UPDATE accounts SET is_deleted = TRUE WHERE id = ANY(rows).
SoftDelete(rows, how) ==
  /\ status' = [a \in AccountIds |-> IF a \in rows THEN how ELSE status[a]]
  /\ UNCHANGED <<now, expires>>

Tick ==
  /\ now < MaxTime
  /\ now' = now + 1
  /\ UNCHANGED <<status, expires>>

----------------------------------------------------------------------------
(* What the table promises, whichever component writes it                  *)

\* An address is taken when it is free, a row that exists is soft deleted by a
\* request or, past its expiry, by the cleanup, and time passes.
AccountsNext ==
  \/ \E a \in AccountIds, e \in ExpiryChoices : InsertAccount(a, e)
  \/ \E rows \in SUBSET {a \in AccountIds : status[a] # "unused"} :
       \/ SoftDelete(rows, "deleted")
       \/ (\A a \in rows : expires[a] <= now) /\ SoftDelete(rows, "expired")
  \/ Tick

AccountsSpec == AccountsInit /\ [][AccountsNext]_accountVars
=============================================================================

------------------------------ MODULE Delivery ------------------------------
(***************************************************************************)
(* What the store promises about upstream mail, whatever the poller, the   *)
(* requests, the cleanup and crashes do to each other: a message is handed *)
(* out once, to one holder of an address at most; an account has one copy  *)
(* of it at most, which once deleted is deleted for good; and an account   *)
(* that leaves use shows nothing of what it was given until then.          *)
(***************************************************************************)
EXTENDS Naturals

CONSTANTS AccountIds, AddressOf, Keys

VARIABLES
  status,     \* unused, live, deleted or expired
  delivered,  \* messages handed out
  copy        \* none, shown or deleted, for each account and message

promiseVars == <<status, delivered, copy>>

Init ==
  /\ status = [a \in AccountIds |-> "unused"]
  /\ delivered = {}
  /\ copy = [a \in AccountIds |-> [k \in Keys |-> "none"]]

\* The copies among these that are shown are deleted.
Deleted(copies) ==
  [a \in AccountIds |-> [k \in Keys |->
     IF <<a, k>> \in copies /\ copy[a][k] = "shown" THEN "deleted" ELSE copy[a][k]]]

\* Somebody takes an address that nobody holds.
Open(a) ==
  /\ status[a] = "unused"
  /\ \A b \in AccountIds : AddressOf[b] = AddressOf[a] => status[b] # "live"
  /\ status' = [status EXCEPT ![a] = "live"]
  /\ UNCHANGED <<delivered, copy>>

\* Accounts are taken out of use, and their mail with them.
Remove(rows, how) ==
  /\ \A a \in rows : status[a] # "unused"
  /\ status' = [a \in AccountIds |-> IF a \in rows THEN how ELSE status[a]]
  /\ copy' = Deleted(rows \X Keys)
  /\ UNCHANGED delivered

\* A message is handed out, all at once, to holders of different addresses.  One
\* of them may have deleted the account at that moment; none has expired.
Deliver(k, rows) ==
  /\ k \notin delivered
  /\ \A a \in rows : status[a] \in {"live", "deleted"}
  /\ \A a, b \in rows : AddressOf[a] = AddressOf[b] => a = b
  /\ delivered' = delivered \cup {k}
  /\ copy' = [a \in AccountIds |->
                IF a \in rows THEN [copy[a] EXCEPT ![k] = "shown"] ELSE copy[a]]
  /\ UNCHANGED status

\* Copies are deleted, one by its owner or many by the synchronization.
Delete(copies) ==
  /\ copy' = Deleted(copies)
  /\ UNCHANGED <<status, delivered>>

Next ==
  \/ \E a \in AccountIds : Open(a)
  \/ \E rows \in SUBSET AccountIds : \E how \in {"deleted", "expired"} : Remove(rows, how)
  \/ \E k \in Keys : \E rows \in SUBSET AccountIds : Deliver(k, rows)
  \/ \E copies \in SUBSET (AccountIds \X Keys) : Delete(copies)

Spec == Init /\ [][Next]_promiseVars
=============================================================================

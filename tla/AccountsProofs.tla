--------------------------- MODULE AccountsProofs ---------------------------
(***************************************************************************)
(* Facts about the accounts table that the proofs of the components share. *)
(***************************************************************************)
EXTENDS Accounts, TLAPS

\* An expiry is a time, or the time that the bounded clock never reaches.
LEMMA ExpiryTyped ==
  ASSUME AccountsTypeOK, NEW e \in ExpiryChoices
  PROVE  e \in Nat
<1>1. MaxTime \in Nat /\ now \in Nat /\ Lifetimes \subseteq Nat
  BY AccountsAssumption DEF AccountsTypeOK
<1>2. CASE e = Never
  BY <1>1, <1>2 DEF Never
<1>3. CASE e \in {now + t : t \in Lifetimes}
  <2>1. PICK t \in Lifetimes : e = now + t
    BY <1>3
  <2>2. t \in Nat
    BY <1>1
  <2>3. QED BY <1>1, <2>1, <2>2
<1>4. QED BY <1>2, <1>3 DEF ExpiryChoices

\* The statements on the accounts table keep it typed.
LEMMA AccountsTyped ==
  ASSUME AccountsTypeOK
  PROVE  /\ \A a \in AccountIds, e \in ExpiryChoices : InsertAccount(a, e) => AccountsTypeOK'
         /\ \A rows \in SUBSET AccountIds, how \in RowStates :
              SoftDelete(rows, how) => AccountsTypeOK'
         /\ Tick => AccountsTypeOK'
         /\ UNCHANGED accountVars => AccountsTypeOK'
<1>1. ASSUME NEW a \in AccountIds, NEW e \in ExpiryChoices, InsertAccount(a, e)
      PROVE  AccountsTypeOK'
  BY <1>1, ExpiryTyped DEF InsertAccount, AccountsTypeOK, RowStates
<1>2. ASSUME NEW rows \in SUBSET AccountIds, NEW how \in RowStates, SoftDelete(rows, how)
      PROVE  AccountsTypeOK'
  BY <1>2 DEF SoftDelete, AccountsTypeOK
<1>3. ASSUME Tick
      PROVE  AccountsTypeOK'
  BY <1>3, AccountsAssumption DEF Tick, AccountsTypeOK
<1>4. ASSUME UNCHANGED accountVars
      PROVE  AccountsTypeOK'
  BY <1>4 DEF accountVars, AccountsTypeOK
<1>5. QED BY <1>1, <1>2, <1>3, <1>4

----------------------------------------------------------------------------
(* What every component that keeps the table's promise can rely on         *)

\* The unique index: an address has at most one account in use.
OneHolderInUse ==
  \A a, b \in AccountIds :
    status[a] = "live" /\ status[b] = "live" /\ AddressOf[a] = AddressOf[b] => a = b

\* The cleanup never takes an account away before its time.
ExpiredWereDue == \A a \in AccountIds : status[a] = "expired" => expires[a] <= now

Removed(a) == status[a] \in {"deleted", "expired"}

TableInv == AccountsTypeOK /\ OneHolderInUse /\ ExpiredWereDue

LEMMA TableInit == AccountsInit => TableInv
  BY AccountsAssumption
     DEF AccountsInit, TableInv, AccountsTypeOK, RowStates, OneHolderInUse, ExpiredWereDue

LEMMA TableStep == TableInv /\ [AccountsNext]_accountVars => TableInv'
<1> SUFFICES ASSUME TableInv, [AccountsNext]_accountVars PROVE TableInv'
  OBVIOUS
<1> USE DEF TableInv
<1>1. ASSUME NEW a \in AccountIds, NEW e \in ExpiryChoices, InsertAccount(a, e)
      PROVE  TableInv'
  <2>1. AccountsTypeOK'
    BY <1>1, AccountsTyped
  <2>2. OneHolderInUse'
    BY <1>1 DEF InsertAccount, AddressFree, OneHolderInUse, AccountsTypeOK
  <2>3. ExpiredWereDue'
    BY <1>1 DEF InsertAccount, ExpiredWereDue, AccountsTypeOK
  <2>4. QED BY <2>1, <2>2, <2>3
<1>2. ASSUME NEW rows \in SUBSET {a \in AccountIds : status[a] # "unused"},
             NEW how \in {"deleted", "expired"}, SoftDelete(rows, how),
             how = "expired" => \A a \in rows : expires[a] <= now
      PROVE  TableInv'
  <2>1. AccountsTypeOK'
    BY <1>2, AccountsTyped DEF RowStates
  <2>2. OneHolderInUse' /\ ExpiredWereDue'
    BY <1>2 DEF SoftDelete, OneHolderInUse, ExpiredWereDue
  <2>3. QED BY <2>1, <2>2
<1>3. CASE Tick
  <2>1. AccountsTypeOK'
    BY <1>3, AccountsTyped
  <2>2. /\ status' = status /\ expires' = expires /\ now' = now + 1
        /\ now \in Nat /\ \A a \in AccountIds : expires[a] \in Nat
    BY <1>3, AccountsAssumption DEF Tick, AccountsTypeOK
  <2>3. QED BY <2>1, <2>2 DEF OneHolderInUse, ExpiredWereDue
<1>4. CASE UNCHANGED accountVars
  BY <1>4 DEF accountVars, AccountsTypeOK, OneHolderInUse, ExpiredWereDue
<1>5. QED BY <1>1, <1>2, <1>3, <1>4 DEF AccountsNext

\* Whoever writes the table by its statements alone: an address has one holder
\* in use at a time, and no account is expired early.
THEOREM AddressesHeldOnce == AccountsSpec => [](OneHolderInUse /\ ExpiredWereDue)
<1>1. AccountsSpec => []TableInv
  BY TableInit, TableStep, PTL DEF AccountsSpec
<1>2. TableInv => OneHolderInUse /\ ExpiredWereDue
  BY DEF TableInv
<1>3. QED BY <1>1, <1>2, PTL

\* ... an account once removed never comes back, and the expiry an account in
\* use was given never moves.
THEOREM RemovedForGood ==
  AccountsSpec => [][\A a \in AccountIds :
                       /\ Removed(a) => Removed(a)'
                       /\ status[a] # "unused" => expires'[a] = expires[a]]_accountVars
<1>1. AccountsSpec => []TableInv
  BY TableInit, TableStep, PTL DEF AccountsSpec
<1>2. TableInv /\ [AccountsNext]_accountVars
      => [\A a \in AccountIds :
            /\ Removed(a) => Removed(a)'
            /\ status[a] # "unused" => expires'[a] = expires[a]]_accountVars
  <2> SUFFICES ASSUME TableInv, AccountsNext, NEW a \in AccountIds
               PROVE  /\ Removed(a) => Removed(a)'
                      /\ status[a] # "unused" => expires'[a] = expires[a]
    OBVIOUS
  <2>1. ASSUME NEW b \in AccountIds, NEW e \in ExpiryChoices, InsertAccount(b, e)
        PROVE  /\ Removed(a) => Removed(a)'
               /\ status[a] # "unused" => expires'[a] = expires[a]
    BY <2>1 DEF TableInv, AccountsTypeOK, InsertAccount, Removed
  <2>2. ASSUME NEW rows, NEW how \in {"deleted", "expired"}, SoftDelete(rows, how)
        PROVE  (Removed(a) => Removed(a)') /\ expires'[a] = expires[a]
    BY <2>2 DEF SoftDelete, Removed
  <2>3. CASE Tick
    BY <2>3 DEF Tick, Removed
  <2>4. QED BY <2>1, <2>2, <2>3 DEF AccountsNext
<1>3. QED BY <1>1, <1>2, PTL DEF AccountsSpec
=============================================================================

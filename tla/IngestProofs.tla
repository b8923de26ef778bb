---------------------------- MODULE IngestProofs ----------------------------
(***************************************************************************)
(* What holds of Ingest for any accounts, addresses, mails and names.      *)
(***************************************************************************)
EXTENDS Ingest, AccountsProofs

----------------------------------------------------------------------------
(* The statements on the messages table                                    *)

\* Hiding rows keeps the counters typed, never changes how many rows a source
\* left in an account, and makes none of them visible again.
LEMMA HideKeepsRows ==
  ASSUME TypeOK, NEW rows, Hide(rows)
  PROVE  /\ live' \in [AccountIds -> [Sources -> Nat]]
         /\ gone' \in [AccountIds -> [Sources -> Nat]]
         /\ \A a \in AccountIds, s \in Sources :
              /\ Rows(a, s)' = Rows(a, s)
              /\ live'[a][s] <= live[a][s]
              /\ gone'[a][s] >= gone[a][s]
              /\ <<a, s>> \in rows => live'[a][s] = 0
              /\ <<a, s>> \notin rows => live'[a][s] = live[a][s]
<1>1. /\ live' \in [AccountIds -> [Sources -> Nat]]
      /\ gone' \in [AccountIds -> [Sources -> Nat]]
  BY DEF Hide, TypeOK
<1>2. ASSUME NEW a \in AccountIds, NEW s \in Sources
      PROVE  /\ Rows(a, s)' = Rows(a, s)
             /\ live'[a][s] <= live[a][s]
             /\ gone'[a][s] >= gone[a][s]
             /\ <<a, s>> \in rows => live'[a][s] = 0
             /\ <<a, s>> \notin rows => live'[a][s] = live[a][s]
  <2>1. live[a][s] \in Nat /\ gone[a][s] \in Nat
    BY DEF TypeOK
  <2>2. /\ live'[a][s] = IF <<a, s>> \in rows THEN 0 ELSE live[a][s]
        /\ gone'[a][s] = IF <<a, s>> \in rows THEN gone[a][s] + live[a][s]
                                               ELSE gone[a][s]
    BY DEF Hide
  <2>3. QED BY <2>1, <2>2 DEF Rows
<1>3. QED BY <1>1, <1>2

\* An insertion adds one visible row per account and touches no other row.
LEMMA InsertAddsOneRow ==
  ASSUME TypeOK, NEW rows, NEW source \in Sources, InsertMessages(rows, source)
  PROVE  /\ live' \in [AccountIds -> [Sources -> Nat]]
         /\ gone' \in [AccountIds -> [Sources -> Nat]]
         /\ \A a \in AccountIds, s \in Sources :
              /\ gone'[a][s] = gone[a][s]
              /\ a \in rows /\ s = source => /\ live'[a][s] = live[a][s] + 1
                                             /\ Rows(a, s)' = Rows(a, s) + 1
              /\ a \notin rows \/ s # source => /\ live'[a][s] = live[a][s]
                                                /\ Rows(a, s)' = Rows(a, s)
<1>1. /\ live' \in [AccountIds -> [Sources -> Nat]]
      /\ gone' \in [AccountIds -> [Sources -> Nat]]
  BY DEF InsertMessages, TypeOK
<1>2. ASSUME NEW a \in AccountIds, NEW s \in Sources
      PROVE  /\ gone'[a][s] = gone[a][s]
             /\ a \in rows /\ s = source => /\ live'[a][s] = live[a][s] + 1
                                            /\ Rows(a, s)' = Rows(a, s) + 1
             /\ a \notin rows \/ s # source => /\ live'[a][s] = live[a][s]
                                               /\ Rows(a, s)' = Rows(a, s)
  <2>1. live[a][s] \in Nat /\ gone[a][s] \in Nat /\ gone' = gone
    BY DEF TypeOK, InsertMessages
  <2>2. live'[a][s] = IF a \in rows /\ s = source THEN live[a][s] + 1
                                                  ELSE live[a][s]
    BY DEF InsertMessages, TypeOK
  <2>3. QED BY <2>1, <2>2 DEF Rows
<1>3. QED BY <1>1, <1>2

\* delete_message moves one row from the visible ones to the deleted ones.
LEMMA DeleteMessageKeepsRows ==
  ASSUME TypeOK, NEW b \in AccountIds, NEW t \in Sources, DeleteMessage(b, t)
  PROVE  /\ live' \in [AccountIds -> [Sources -> Nat]]
         /\ gone' \in [AccountIds -> [Sources -> Nat]]
         /\ \A a \in AccountIds, s \in Sources :
              /\ Rows(a, s)' = Rows(a, s)
              /\ live'[a][s] <= live[a][s]
              /\ gone'[a][s] >= gone[a][s]
<1>1. live[b][t] - 1 \in Nat
  BY DEF DeleteMessage, delete_message, TypeOK
<1>2. /\ live' \in [AccountIds -> [Sources -> Nat]]
      /\ gone' \in [AccountIds -> [Sources -> Nat]]
  BY <1>1 DEF DeleteMessage, delete_message, TypeOK
<1>3. ASSUME NEW a \in AccountIds, NEW s \in Sources
      PROVE  /\ Rows(a, s)' = Rows(a, s)
             /\ live'[a][s] <= live[a][s]
             /\ gone'[a][s] >= gone[a][s]
  <2>1. live[a][s] \in Nat /\ gone[a][s] \in Nat
    BY DEF TypeOK
  <2>2. /\ live'[a][s] = IF a = b /\ s = t THEN live[a][s] - 1 ELSE live[a][s]
        /\ gone'[a][s] = IF a = b /\ s = t THEN gone[a][s] + 1 ELSE gone[a][s]
    BY DEF DeleteMessage, delete_message, TypeOK
  <2>3. QED BY <2>1, <2>2 DEF Rows
<1>4. QED BY <1>2, <1>3

----------------------------------------------------------------------------
(* Type correctness                                                        *)

\* The poller names a source key whenever it fetches or imports one; without
\* it TypeOK does not survive ImportInsert.
KeyChosen == pc \in {"fetch", "import", "insert"} => key \in Keys

LEMMA TypeInit == Init => TypeOK
  BY AccountsAssumption, IngestAssumption
     DEF Init, TypeOK, AccountsInit, AccountsTypeOK, GateInit, GateTypeOK,
         RowStates, PollStates, Sources

LEMMA TypeStep == TypeOK /\ KeyChosen /\ [Next]_vars => TypeOK'
<1> SUFFICES ASSUME TypeOK, KeyChosen, [Next]_vars PROVE TypeOK'
  OBVIOUS
<1> USE AccountsAssumption, IngestAssumption
<1>1. ASSUME NEW a \in AccountIds, NEW e \in ExpiryChoices, CreateAccount(a, e)
      PROVE  TypeOK'
  <2>1. AccountsTypeOK'
    BY <1>1, AccountsTyped DEF CreateAccount, create_account_for_owner, TypeOK
  <2>2. /\ live' \in [AccountIds -> [Sources -> Nat]]
        /\ gone' \in [AccountIds -> [Sources -> Nat]]
    BY <1>1, InsertAddsOneRow DEF CreateAccount, create_account_for_owner, Sources
  <2>3. QED BY <1>1, <2>1, <2>2 DEF CreateAccount, create_account_for_owner, TypeOK,
                                    GateTypeOK, envVars, pollVars
<1>2. ASSUME NEW a \in AccountIds, AdmitRequest(a) \/ OtherRequest(a)
      PROVE  TypeOK'
  BY <1>2 DEF AdmitRequest, OtherRequest, TypeOK, AccountsTypeOK, GateTypeOK,
              accountVars, envVars, tableVars, pollVars
<1>3. ASSUME NEW a \in AccountIds, DeleteAccountTx(a)
      PROVE  TypeOK'
  <2>1. AccountsTypeOK'
    BY <1>3 DEF DeleteAccountTx, delete_account, SoftDelete, TypeOK, AccountsTypeOK, RowStates
  <2>2. /\ live' \in [AccountIds -> [Sources -> Nat]]
        /\ gone' \in [AccountIds -> [Sources -> Nat]]
    BY <1>3, HideKeepsRows DEF DeleteAccountTx, delete_account
  <2>3. QED BY <1>3, <2>1, <2>2 DEF DeleteAccountTx, delete_account, TypeOK, GateTypeOK,
                                    envVars, pollVars
<1>4. ASSUME NEW a \in AccountIds, NEW s \in Sources, DeleteMessage(a, s)
      PROVE  TypeOK'
  <2>1. /\ live' \in [AccountIds -> [Sources -> Nat]]
        /\ gone' \in [AccountIds -> [Sources -> Nat]]
    BY <1>4, DeleteMessageKeepsRows
  <2>2. QED BY <1>4, <2>1 DEF DeleteMessage, delete_message, TypeOK, AccountsTypeOK, GateTypeOK,
                              accountVars, envVars, pollVars
<1>5. CASE PollBegin
  BY <1>5 DEF PollBegin, active_account_addresses, PassThrough, TypeOK, AccountsTypeOK,
              GateTypeOK, PollStates, accountVars, envVars, tableVars
<1>6. ASSUME NEW m \in Mailboxes, ListMailbox(m)
      PROVE  TypeOK'
  BY <1>6 DEF ListMailbox, TypeOK, AccountsTypeOK, GateTypeOK, PollStates,
              accountVars, envVars, tableVars
<1>7. CASE Reconcile \/ ReconcileUnaudited
  <2>1. /\ live' \in [AccountIds -> [Sources -> Nat]]
        /\ gone' \in [AccountIds -> [Sources -> Nat]]
    BY <1>7, HideKeepsRows DEF Reconcile, ReconcileUnaudited
  <2>2. QED BY <1>7, <2>1
            DEF Reconcile, ReconcileUnaudited, PollerForgets, PassThrough, TypeOK,
                AccountsTypeOK, GateTypeOK, PollStates, accountVars, envVars
<1>8. CASE ReconcileSkipped
  BY <1>8 DEF ReconcileSkipped, GateTimesOut, TypeOK, AccountsTypeOK, GateTypeOK,
              PollStates, accountVars, envVars, tableVars
<1>9. ASSUME NEW k \in Keys, CheckImported(k) \/ CheckSkipped(k)
      PROVE  TypeOK'
  BY <1>9 DEF CheckImported, CheckSkipped, PassThrough, GateTimesOut, TypeOK,
              AccountsTypeOK, GateTypeOK, PollStates, accountVars, envVars, tableVars
<1>10. CASE FetchMessage
  BY <1>10 DEF FetchMessage, TypeOK, AccountsTypeOK, GateTypeOK, PollStates,
               accountVars, envVars, tableVars
<1>11. CASE ImportSelect \/ ImportSkipped
  <2>1. Recipients \subseteq AccountIds
    BY DEF Recipients
  <2>2. QED BY <1>11, <2>1
            DEF ImportSelect, ImportSkipped, PassThrough, Acquire, GateTimesOut, TypeOK,
                AccountsTypeOK, GateTypeOK, GateTasks, PollStates,
                accountVars, envVars, tableVars
<1>12. CASE ImportInsert
  <2>1. /\ live' \in [AccountIds -> [Sources -> Nat]]
        /\ gone' \in [AccountIds -> [Sources -> Nat]]
        /\ imported' \subseteq Keys
    <3>1. CASE UNCHANGED tableVars
      BY <3>1 DEF tableVars, TypeOK
    <3>2. CASE /\ key \notin imported
               /\ imported' = imported \cup {key}
               /\ InsertMessages(targets, key)
      <4>1. key \in Keys /\ key \in Sources
        BY <1>12 DEF ImportInsert, KeyChosen, Sources
      <4>2. /\ live' \in [AccountIds -> [Sources -> Nat]]
            /\ gone' \in [AccountIds -> [Sources -> Nat]]
        BY <3>2, <4>1, InsertAddsOneRow
      <4>3. QED BY <3>2, <4>1, <4>2 DEF TypeOK
    <3>3. QED BY <1>12, <3>1, <3>2 DEF ImportInsert, RecordImport
  <2>2. QED BY <1>12, <2>1
            DEF ImportInsert, Release, TypeOK, AccountsTypeOK, GateTypeOK, PollStates,
                accountVars, envVars
<1>13. CASE MailboxDone \/ PollEnd
  BY <1>13 DEF MailboxDone, PollEnd, TypeOK, AccountsTypeOK, GateTypeOK, PollStates,
               accountVars, envVars, tableVars
<1>14. CASE PollFails
  BY <1>14 DEF PollFails, PollerForgets, TypeOK, AccountsTypeOK, GateTypeOK, PollStates,
               accountVars, envVars, tableVars
<1>15. CASE CleanupSelect
  BY <1>15 DEF CleanupSelect, Acquire, TypeOK, AccountsTypeOK, GateTypeOK, GateTasks,
               accountVars, envVars, tableVars, pollVars
<1>16. CASE CleanupTx
  <2>1. AccountsTypeOK'
    BY <1>16 DEF CleanupTx, SoftDelete, TypeOK, AccountsTypeOK, RowStates
  <2>2. /\ live' \in [AccountIds -> [Sources -> Nat]]
        /\ gone' \in [AccountIds -> [Sources -> Nat]]
    BY <1>16, HideKeepsRows DEF CleanupTx
  <2>3. QED BY <1>16, <2>1, <2>2 DEF CleanupTx, TypeOK, GateTypeOK, envVars, pollVars
<1>17. CASE CleanupDone \/ CleanupFails
  BY <1>17 DEF CleanupDone, CleanupFails, Release, TypeOK, AccountsTypeOK, GateTypeOK,
               accountVars, envVars, tableVars, pollVars
<1>18. CASE Environment
  <2>1. ASSUME NEW x \in Mails, MailArrives(x)
        PROVE  TypeOK'
    BY <2>1 DEF MailArrives, TypeOK, AccountsTypeOK, GateTypeOK, Keys,
                accountVars, tableVars, pollVars
  <2>2. ASSUME NEW k \in Keys, UpstreamPurge(k)
        PROVE  TypeOK'
    BY <2>2 DEF UpstreamPurge, TypeOK, AccountsTypeOK, GateTypeOK,
                accountVars, tableVars, pollVars
  <2>3. CASE TimePasses
    BY <2>3 DEF TimePasses, Tick, TypeOK, AccountsTypeOK, GateTypeOK,
                envVars, tableVars, pollVars
  <2>4. QED BY <1>18, <2>1, <2>2, <2>3 DEF Environment
<1>19. CASE Restart
  BY <1>19 DEF Restart, PollerForgets, TypeOK, AccountsTypeOK, GateTypeOK, PollStates,
               accountVars, envVars, tableVars
<1>20. CASE UNCHANGED vars
  BY <1>20 DEF vars, TypeOK, AccountsTypeOK, GateTypeOK,
               accountVars, envVars, tableVars, pollVars
<1>21. QED
  BY <1>1, <1>2, <1>3, <1>4, <1>5, <1>6, <1>7, <1>8, <1>9, <1>10, <1>11, <1>12, <1>13,
     <1>14, <1>15, <1>16, <1>17, <1>18, <1>19, <1>20
     DEF Next, Requests, ReadMessages, PatchMessage, PollSteps, CleanupSteps, Faults

LEMMA KeyChosenStep == TypeOK /\ KeyChosen /\ [Next]_vars => KeyChosen'
<1> SUFFICES ASSUME TypeOK, KeyChosen, [Next]_vars PROVE KeyChosen'
  OBVIOUS
<1>1. CASE Requests
  BY <1>1 DEF Requests, ReadMessages, PatchMessage, CreateAccount,
              create_account_for_owner, AdmitRequest, DeleteAccountTx, delete_account,
              DeleteMessage, delete_message, OtherRequest, pollVars, KeyChosen
<1>2. CASE PollSteps
  <2>1. ASSUME NEW k \in Keys, CheckImported(k) \/ CheckSkipped(k)
        PROVE  KeyChosen'
    BY <2>1 DEF CheckImported, CheckSkipped, KeyChosen
  <2>2. CASE FetchMessage \/ ImportSelect \/ ImportSkipped \/ ImportInsert
    BY <2>2 DEF FetchMessage, ImportSelect, ImportSkipped, ImportInsert, KeyChosen
  <2>3. CASE PollBegin \/ Reconcile \/ ReconcileSkipped \/ MailboxDone \/ PollEnd
    BY <2>3 DEF PollBegin, active_account_addresses, Reconcile, ReconcileSkipped,
                MailboxDone, PollEnd, KeyChosen
  <2>4. CASE \E m \in Mailboxes : ListMailbox(m)
    BY <2>4 DEF ListMailbox, KeyChosen
  <2>5. QED BY <1>2, <2>1, <2>2, <2>3, <2>4 DEF PollSteps
<1>3. CASE CleanupSteps \/ Environment \/ CleanupFails
  BY <1>3 DEF CleanupSteps, CleanupSelect, CleanupTx, CleanupDone, CleanupFails,
              Environment, MailArrives, UpstreamPurge, TimePasses, pollVars, KeyChosen
<1>4. CASE PollFails \/ ReconcileUnaudited \/ Restart
  BY <1>4 DEF PollFails, ReconcileUnaudited, Restart, PollerForgets, KeyChosen
<1>5. CASE UNCHANGED vars
  BY <1>5 DEF vars, pollVars, KeyChosen
<1>6. QED BY <1>1, <1>2, <1>3, <1>4, <1>5 DEF Next, Faults

LEMMA Typed == Spec => [](TypeOK /\ KeyChosen)
<1>1. Init => TypeOK /\ KeyChosen
  BY TypeInit DEF Init, KeyChosen
<1>2. TypeOK /\ KeyChosen /\ [Next]_vars => (TypeOK /\ KeyChosen)'
  BY TypeStep, KeyChosenStep
<1>3. QED BY <1>1, <1>2, PTL DEF Spec

\* Every variable of the poller, the tables and the cleanup keeps its type,
\* for any number of accounts, mailboxes and mails.
THEOREM TypeCorrect == Spec => []TypeOK
  BY Typed, PTL

----------------------------------------------------------------------------
(* What a step does to the rows of upstream messages                       *)

\* No source gains a row and no deleted row comes back.
RowsKept ==
  /\ imported' = imported
  /\ \A a \in AccountIds, k \in Keys :
       /\ Rows(a, k)' = Rows(a, k)
       /\ live'[a][k] <= live[a][k]
       /\ gone'[a][k] >= gone[a][k]

\* A key not recorded before is recorded, with one row for each target.
RowsImported ==
  /\ pc = "insert"
  /\ key \in Keys
  /\ key \notin imported
  /\ imported' = imported \cup {key}
  /\ \A a \in AccountIds, k \in Keys :
       /\ gone'[a][k] = gone[a][k]
       /\ a \in targets /\ k = key => Rows(a, k)' = Rows(a, k) + 1
       /\ a \notin targets \/ k # key => /\ Rows(a, k)' = Rows(a, k)
                                         /\ live'[a][k] = live[a][k]

LEMMA RowsUntouched ==
  ASSUME TypeOK, UNCHANGED tableVars
  PROVE  RowsKept
<1>1. \A a \in AccountIds, k \in Keys : live[a][k] \in Nat /\ gone[a][k] \in Nat
  BY DEF TypeOK, Sources
<1>2. QED BY <1>1 DEF tableVars, RowsKept, Rows

\* Of all steps, only an import's transaction adds rows of upstream messages.
LEMMA OnlyImportsAddRows ==
  ASSUME TypeOK, KeyChosen, [Next]_vars
  PROVE  RowsKept \/ RowsImported
<1>1. CASE Requests
  <2>1. ASSUME NEW a \in AccountIds, NEW e \in ExpiryChoices, CreateAccount(a, e)
        PROVE  RowsKept
    <3>1. None \in Sources /\ None \notin Keys
      BY IngestAssumption DEF Sources
    <3>2. \A b \in AccountIds, k \in Sources :
            /\ gone'[b][k] = gone[b][k]
            /\ k # None => Rows(b, k)' = Rows(b, k) /\ live'[b][k] = live[b][k]
      BY <2>1, <3>1, InsertAddsOneRow DEF CreateAccount, create_account_for_owner
    <3>3. \A b \in AccountIds, k \in Keys : live[b][k] \in Nat /\ gone[b][k] \in Nat
      BY DEF TypeOK, Sources
    <3>4. QED BY <2>1, <3>1, <3>2, <3>3 DEF CreateAccount, create_account_for_owner,
        RowsKept, Sources
  <2>2. ASSUME NEW a \in AccountIds, AdmitRequest(a) \/ OtherRequest(a)
        PROVE  RowsKept
    BY <2>2, RowsUntouched DEF AdmitRequest, OtherRequest
  <2>3. ASSUME NEW a \in AccountIds, DeleteAccountTx(a)
        PROVE  RowsKept
    BY <2>3, HideKeepsRows DEF DeleteAccountTx, delete_account, RowsKept, Sources
  <2>4. ASSUME NEW a \in AccountIds, NEW s \in Sources, DeleteMessage(a, s)
        PROVE  RowsKept
    BY <2>4, DeleteMessageKeepsRows DEF DeleteMessage, delete_message, RowsKept, Sources
  <2>5. QED BY <1>1, <2>1, <2>2, <2>3, <2>4 DEF Requests, ReadMessages, PatchMessage
<1>2. CASE Reconcile \/ ReconcileUnaudited
  BY <1>2, HideKeepsRows DEF Reconcile, ReconcileUnaudited, RowsKept, Sources
<1>3. CASE ImportInsert
  <2>1. CASE UNCHANGED tableVars
    BY <2>1, RowsUntouched
  <2>2. CASE /\ key \notin imported
             /\ imported' = imported \cup {key}
             /\ InsertMessages(targets, key)
    <3>1. pc = "insert" /\ key \in Keys /\ key \in Sources
      BY <1>3 DEF ImportInsert, KeyChosen, Sources
    <3>2. \A a \in AccountIds, s \in Sources :
            /\ gone'[a][s] = gone[a][s]
            /\ a \in targets /\ s = key => Rows(a, s)' = Rows(a, s) + 1
            /\ a \notin targets \/ s # key => /\ Rows(a, s)' = Rows(a, s)
                                              /\ live'[a][s] = live[a][s]
      BY <2>2, <3>1, InsertAddsOneRow
    <3>3. QED BY <2>2, <3>1, <3>2 DEF RowsImported, Sources
  <2>3. QED BY <1>3, <2>1, <2>2 DEF ImportInsert, RecordImport
<1>4. CASE PollSteps /\ ~Reconcile /\ ~ImportInsert
  BY <1>4, RowsUntouched
     DEF PollSteps, PollBegin, active_account_addresses, ListMailbox, ReconcileSkipped,
         CheckImported, CheckSkipped, FetchMessage, ImportSelect, ImportSkipped,
         MailboxDone, PollEnd
<1>5. CASE CleanupTx
  BY <1>5, HideKeepsRows DEF CleanupTx, RowsKept, Sources
<1>6. CASE CleanupSelect \/ CleanupDone \/ CleanupFails \/ PollFails \/ Restart
  BY <1>6, RowsUntouched DEF CleanupSelect, CleanupDone, CleanupFails, PollFails, Restart
<1>7. CASE Environment
  BY <1>7, RowsUntouched DEF Environment, MailArrives, UpstreamPurge, TimePasses
<1>8. CASE UNCHANGED vars
  BY <1>8, RowsUntouched DEF vars, tableVars
<1>9. QED
  BY <1>1, <1>2, <1>3, <1>4, <1>5, <1>6, <1>7, <1>8
     DEF Next, PollSteps, CleanupSteps, Faults

----------------------------------------------------------------------------
(* The accounts table                                                      *)

\* A request past its check, an import and the cleanup each hold ids of rows
\* that exist: what they write later never touches an id nobody has taken.
NamedExist == \A a \in admitted \cup targets \cup expiring : status[a] # "unused"

LEMMA NamedExistStep == TypeOK /\ NamedExist /\ [Next]_vars => NamedExist'
<1> SUFFICES ASSUME TypeOK, NamedExist, [Next]_vars PROVE NamedExist'
  OBVIOUS
<1> USE DEF NamedExist
<1>1. ASSUME \A a \in AccountIds : status[a] # "unused" => status'[a] # "unused",
             admitted' \cup targets' \cup expiring' \subseteq
               admitted \cup targets \cup expiring
                 \cup {a \in AccountIds : status[a] # "unused"}
      PROVE  NamedExist'
  BY <1>1 DEF TypeOK
<1>2. ASSUME UNCHANGED status, 
             admitted' \cup targets' \cup expiring' \subseteq
               admitted \cup targets \cup expiring
                 \cup {a \in AccountIds : status[a] # "unused"}
      PROVE  NamedExist'
  BY <1>1, <1>2
<1>3. CASE \E a \in AccountIds, e \in ExpiryChoices : CreateAccount(a, e)
  BY <1>1, <1>3 DEF CreateAccount, create_account_for_owner, InsertAccount, TypeOK,
                    AccountsTypeOK, pollVars
<1>4. CASE \E a \in AccountIds : DeleteAccountTx(a)
  BY <1>1, <1>4 DEF DeleteAccountTx, delete_account, SoftDelete, pollVars
<1>5. CASE \E a \in AccountIds : AdmitRequest(a)
  BY <1>2, <1>5 DEF AdmitRequest, Active, accountVars, pollVars
<1>6. ASSUME NEW a \in AccountIds, NEW s \in Sources,
             OtherRequest(a) \/ DeleteMessage(a, s)
      PROVE  NamedExist'
  BY <1>2, <1>6 DEF OtherRequest, DeleteMessage, delete_message, accountVars, pollVars
<1>7. CASE ImportSelect
  BY <1>2, <1>7 DEF ImportSelect, Recipients, Active, accountVars
<1>8. CASE PollSteps /\ ~ImportSelect
  BY <1>2, <1>8
     DEF PollSteps, PollBegin, active_account_addresses, ListMailbox, Reconcile,
         ReconcileSkipped, CheckImported, CheckSkipped, FetchMessage, ImportSkipped,
         ImportInsert, MailboxDone, PollEnd, accountVars
<1>9. CASE CleanupSelect
  BY <1>2, <1>9 DEF CleanupSelect, accountVars, pollVars
<1>10. CASE CleanupTx
  BY <1>1, <1>10 DEF CleanupTx, SoftDelete, pollVars
<1>11. CASE CleanupDone \/ CleanupFails \/ Environment
  BY <1>2, <1>11 DEF CleanupDone, CleanupFails, Environment, MailArrives, UpstreamPurge,
                     TimePasses, Tick, accountVars, pollVars
<1>12. CASE PollFails \/ ReconcileUnaudited \/ Restart
  BY <1>2, <1>12 DEF PollFails, ReconcileUnaudited, Restart, PollerForgets, accountVars
<1>13. CASE UNCHANGED vars
  BY <1>2, <1>13 DEF vars, accountVars, pollVars
<1>14. QED
  BY <1>3, <1>4, <1>5, <1>6, <1>7, <1>8, <1>9, <1>10, <1>11, <1>12, <1>13,
     IngestAssumption
     DEF Next, Requests, ReadMessages, PatchMessage, PollSteps, CleanupSteps, Faults, Sources

\* What the cleanup selected is past its expiry, and stays so.
ExpiringDue == \A a \in expiring : expires[a] <= now

LEMMA ExpiringDueStep ==
  TypeOK /\ NamedExist /\ ExpiringDue /\ [Next]_vars => ExpiringDue'
<1> SUFFICES ASSUME TypeOK, NamedExist, ExpiringDue, [Next]_vars PROVE ExpiringDue'
  OBVIOUS
<1> USE DEF ExpiringDue
<1>1. CASE UNCHANGED <<now, expires>> /\ expiring' \subseteq expiring
  BY <1>1
<1>2. ASSUME NEW a \in AccountIds, NEW e \in ExpiryChoices, CreateAccount(a, e)
      PROVE  ExpiringDue'
  BY <1>2 DEF CreateAccount, create_account_for_owner, InsertAccount, NamedExist, TypeOK,
              AccountsTypeOK
<1>3. CASE CleanupSelect
  BY <1>3 DEF CleanupSelect, accountVars
<1>4. CASE CleanupTx
  BY <1>4 DEF CleanupTx
<1>5. CASE TimePasses
  <2>1. /\ now' = now + 1 /\ now \in Nat /\ UNCHANGED <<expires, expiring>>
        /\ \A a \in expiring : expires[a] \in Nat
    BY <1>5, AccountsAssumption DEF TimePasses, Tick, TypeOK, AccountsTypeOK
  <2>2. QED BY <2>1
<1>6. ASSUME NEW a \in AccountIds, NEW s \in Sources,
             AdmitRequest(a) \/ DeleteAccountTx(a) \/ OtherRequest(a) \/ DeleteMessage(a, s)
      PROVE  ExpiringDue'
  BY <1>1, <1>6 DEF AdmitRequest, DeleteAccountTx, delete_account, SoftDelete,
                    OtherRequest, DeleteMessage, delete_message, accountVars
<1>7. CASE PollSteps
  BY <1>1, <1>7
     DEF PollSteps, PollBegin, active_account_addresses, ListMailbox, Reconcile,
         ReconcileSkipped, CheckImported, CheckSkipped, FetchMessage, ImportSelect,
         ImportSkipped, ImportInsert, MailboxDone, PollEnd, accountVars
<1>8. CASE CleanupDone \/ CleanupFails \/ PollFails \/ ReconcileUnaudited \/ Restart
  BY <1>1, <1>8 DEF CleanupDone, CleanupFails, PollFails, ReconcileUnaudited, Restart,
                    accountVars
<1>9. CASE Environment /\ ~TimePasses
  BY <1>1, <1>9 DEF Environment, MailArrives, UpstreamPurge, accountVars
<1>10. CASE UNCHANGED vars
  BY <1>1, <1>10 DEF vars, accountVars
<1>11. QED
  BY <1>2, <1>3, <1>4, <1>5, <1>6, <1>7, <1>8, <1>9, <1>10, IngestAssumption
     DEF Next, Requests, ReadMessages, PatchMessage, CleanupSteps, Faults, Sources

LEMMA AccountsStep ==
  TypeOK /\ NamedExist /\ ExpiringDue /\ [Next]_vars => [AccountsNext]_accountVars
<1> SUFFICES ASSUME TypeOK, NamedExist, ExpiringDue, [Next]_vars
             PROVE  [AccountsNext]_accountVars
  OBVIOUS
<1>1. CASE UNCHANGED accountVars
  BY <1>1
<1>2. CASE \E a \in AccountIds, e \in ExpiryChoices : CreateAccount(a, e)
  BY <1>2 DEF CreateAccount, create_account_for_owner, AccountsNext
<1>3. ASSUME NEW a \in AccountIds, DeleteAccountTx(a)
      PROVE  AccountsNext
  <2>1. {a} \in SUBSET {b \in AccountIds : status[b] # "unused"}
    BY <1>3 DEF DeleteAccountTx, delete_account, NamedExist
  <2>2. QED BY <1>3, <2>1 DEF DeleteAccountTx, delete_account, AccountsNext
<1>4. CASE CleanupTx
  <2>1. expiring \in SUBSET {b \in AccountIds : status[b] # "unused"}
    BY DEF TypeOK, NamedExist
  <2>2. QED BY <1>4, <2>1 DEF CleanupTx, ExpiringDue, AccountsNext
<1>5. CASE TimePasses
  BY <1>5 DEF TimePasses, AccountsNext
<1>6. ASSUME NEW a \in AccountIds, NEW s \in Sources,
             AdmitRequest(a) \/ OtherRequest(a) \/ DeleteMessage(a, s)
      PROVE  UNCHANGED accountVars
  BY <1>6 DEF AdmitRequest, OtherRequest, DeleteMessage, delete_message
<1>7. CASE PollSteps
  BY <1>1, <1>7
     DEF PollSteps, PollBegin, active_account_addresses, ListMailbox, Reconcile,
         ReconcileSkipped, CheckImported, CheckSkipped, FetchMessage, ImportSelect,
         ImportSkipped, ImportInsert, MailboxDone, PollEnd
<1>8. CASE CleanupSelect \/ CleanupDone \/ Faults
  BY <1>1, <1>8 DEF CleanupSelect, CleanupDone, Faults, CleanupFails, PollFails,
                    ReconcileUnaudited, Restart
<1>9. CASE Environment /\ ~TimePasses
  BY <1>1, <1>9 DEF Environment, MailArrives, UpstreamPurge
<1>10. CASE UNCHANGED vars
  BY <1>1, <1>10 DEF vars
<1>11. QED
  BY <1>2, <1>3, <1>4, <1>5, <1>6, <1>7, <1>8, <1>9, <1>10, IngestAssumption
     DEF Next, Requests, ReadMessages, PatchMessage, CleanupSteps, Sources

LEMMA NamesCorrect == Spec => [](TypeOK /\ NamedExist /\ ExpiringDue)
<1>1. Init => NamedExist /\ ExpiringDue
  BY DEF Init, NamedExist, ExpiringDue
<1>2. QED BY <1>1, Typed, NamedExistStep, ExpiringDueStep, PTL DEF Spec

\* Ingestion and its cleanup write the accounts table by its statements alone,
\* although rows are selected in one statement and written in another.
THEOREM KeepsAccounts == Spec => AccountsSpec
<1>1. Init => AccountsInit
  BY DEF Init
<1>2. QED BY <1>1, AccountsStep, NamesCorrect, PTL DEF Spec, AccountsSpec

----------------------------------------------------------------------------
(* Delivery                                                                *)

\* An import selected accounts in use: no two of them hold one address.
TargetsDistinct == \A a, b \in targets : AddressOf[a] = AddressOf[b] => a = b

\* A key without a record has no rows anywhere.
RowsRecorded == \A a \in AccountIds, k \in Keys : k \notin imported => Rows(a, k) = 0

DeliveryInv ==
  /\ TypeOK
  /\ KeyChosen
  /\ OneHolderInUse
  /\ TargetsDistinct
  /\ RowsRecorded
  /\ OneRowPerSource
  /\ NoSecondHolder

LEMMA TargetsDistinctStep ==
  TypeOK /\ OneHolderInUse /\ TargetsDistinct /\ [Next]_vars => TargetsDistinct'
<1> SUFFICES ASSUME TypeOK, OneHolderInUse, TargetsDistinct, [Next]_vars
             PROVE  TargetsDistinct'
  OBVIOUS
<1>1. CASE ImportSelect
  BY <1>1 DEF ImportSelect, Recipients, Active, OneHolderInUse, TargetsDistinct
<1>2. CASE targets' = targets \/ targets' = {}
  BY <1>2 DEF TargetsDistinct
<1>3. CASE Requests
  BY <1>2, <1>3 DEF Requests, ReadMessages, PatchMessage, CreateAccount,
                    create_account_for_owner, AdmitRequest, DeleteAccountTx,
                    delete_account, DeleteMessage, delete_message, OtherRequest, pollVars
<1>4. CASE PollSteps /\ ~ImportSelect
  BY <1>2, <1>4
     DEF PollSteps, PollBegin, active_account_addresses, ListMailbox, Reconcile,
         ReconcileSkipped, CheckImported, CheckSkipped, FetchMessage, ImportSkipped,
         ImportInsert, MailboxDone, PollEnd
<1>5. CASE CleanupSteps \/ Environment \/ Faults
  BY <1>2, <1>5
     DEF CleanupSteps, CleanupSelect, CleanupTx, CleanupDone, Environment, MailArrives,
         UpstreamPurge, TimePasses, Faults, PollFails, ReconcileUnaudited, CleanupFails,
         Restart, PollerForgets, pollVars
<1>6. CASE UNCHANGED vars
  BY <1>2, <1>6 DEF vars, pollVars
<1>7. QED BY <1>1, <1>3, <1>4, <1>5, <1>6 DEF Next, PollSteps

LEMMA DeliveryStep == DeliveryInv /\ OneHolderInUse' /\ [Next]_vars => DeliveryInv'
<1> SUFFICES ASSUME DeliveryInv, OneHolderInUse', [Next]_vars PROVE DeliveryInv'
  OBVIOUS
<1>1. TypeOK' /\ KeyChosen' /\ OneHolderInUse' /\ TargetsDistinct'
  BY TypeStep, KeyChosenStep, TargetsDistinctStep DEF DeliveryInv
<1>2. RowsKept \/ RowsImported
  BY OnlyImportsAddRows DEF DeliveryInv
<1>3. CASE RowsKept
  BY <1>1, <1>3 DEF RowsKept, DeliveryInv, RowsRecorded, OneRowPerSource, NoSecondHolder
<1>4. CASE RowsImported
  <2>1. \A a \in AccountIds : Rows(a, key) = 0
    BY <1>4 DEF RowsImported, DeliveryInv, RowsRecorded
  <2>2. RowsRecorded'
    BY <1>4 DEF RowsImported, DeliveryInv, RowsRecorded
  <2>3. OneRowPerSource'
    BY <1>4, <2>1 DEF RowsImported, DeliveryInv, OneRowPerSource
  <2>4. NoSecondHolder'
    BY <1>4, <2>1 DEF RowsImported, DeliveryInv, NoSecondHolder, TargetsDistinct
  <2>5. QED BY <1>1, <2>2, <2>3, <2>4 DEF DeliveryInv
<1>5. QED BY <1>2, <1>3, <1>4

LEMMA DeliveryCorrect == Spec => []DeliveryInv
<1>1. Init => DeliveryInv
  <2>1. Init => TypeOK /\ KeyChosen
    BY TypeInit DEF Init, KeyChosen
  <2>2. Init => OneHolderInUse /\ TargetsDistinct
    BY DEF Init, AccountsInit, OneHolderInUse, TargetsDistinct
  <2>3. Init => \A a \in AccountIds, k \in Keys : Rows(a, k) = 0
    BY DEF Init, Rows, Sources
  <2>4. QED BY <2>1, <2>2, <2>3
            DEF DeliveryInv, RowsRecorded, OneRowPerSource, NoSecondHolder
<1>2. Spec => []OneHolderInUse
  <2>1. OneHolderInUse /\ ExpiredWereDue => OneHolderInUse
    OBVIOUS
  <2>2. QED BY <2>1, KeepsAccounts, AddressesHeldOnce, PTL
<1>3. QED BY <1>1, <1>2, DeliveryStep, PTL DEF Spec

\* An upstream message is one row of an account at most: the record of its key
\* and the rows are one transaction, and a step adds rows only with the record.
THEOREM AtMostOneRow == Spec => []OneRowPerSource
<1>1. DeliveryInv => OneRowPerSource
  BY DEF DeliveryInv
<1>2. QED BY <1>1, DeliveryCorrect, PTL

\* Two holders of an address never share an upstream message, because the
\* unique index lets an import see one of them only.
THEOREM NeverTwoHolders == Spec => []NoSecondHolder
<1>1. DeliveryInv => NoSecondHolder
  BY DEF DeliveryInv
<1>2. QED BY <1>1, DeliveryCorrect, PTL

\* A deleted message never returns to its account.
THEOREM DeletedForGood == Spec => GoneStaysGone
<1>1. DeliveryInv /\ [Next]_vars
      => [\A a \in AccountIds, k \in Keys :
            gone[a][k] > 0 => live'[a][k] <= live[a][k] /\ gone'[a][k] >= gone[a][k]]_vars
  <2> SUFFICES ASSUME DeliveryInv, [Next]_vars, NEW a \in AccountIds, NEW k \in Keys,
                      gone[a][k] > 0
               PROVE  live'[a][k] <= live[a][k] /\ gone'[a][k] >= gone[a][k]
    OBVIOUS
  <2>1. live[a][k] \in Nat /\ gone[a][k] \in Nat
    BY DEF DeliveryInv, TypeOK, Sources
  <2>2. k \in imported
    BY <2>1 DEF DeliveryInv, RowsRecorded, Rows
  <2>3. RowsKept \/ RowsImported
    BY OnlyImportsAddRows DEF DeliveryInv
  <2>4. CASE RowsKept
    BY <2>4 DEF RowsKept
  <2>5. CASE RowsImported
    BY <2>1, <2>2, <2>5 DEF RowsImported
  <2>6. QED BY <2>3, <2>4, <2>5
<1>2. QED BY <1>1, DeliveryCorrect, PTL DEF Spec, GoneStaysGone

----------------------------------------------------------------------------
(* The cleanup                                                             *)

\* While an import has targets it keeps the permit, and the cleanup has not
\* expired any of them since they were selected.
TargetsGuarded ==
  /\ targets # {} => pc = "insert" /\ gate = "poller"
  /\ \A a \in targets : status[a] # "expired"

CleanupInv == TypeOK /\ KeyChosen /\ TargetsGuarded /\ ExpiredHoldNoMail

LEMMA TargetsGuardedStep == TypeOK /\ TargetsGuarded /\ [Next]_vars => TargetsGuarded'
<1> SUFFICES ASSUME TypeOK, TargetsGuarded, [Next]_vars PROVE TargetsGuarded'
  OBVIOUS
<1>1. CASE targets' = {}
  BY <1>1 DEF TargetsGuarded
<1>2. CASE UNCHANGED <<pc, gate, targets, status>>
  BY <1>2 DEF TargetsGuarded
<1>3. ASSUME NEW a \in AccountIds,
             DeleteAccountTx(a) \/ \E e \in ExpiryChoices : CreateAccount(a, e)
      PROVE  TargetsGuarded'
  BY <1>3 DEF CreateAccount, create_account_for_owner, InsertAccount, DeleteAccountTx,
              delete_account, SoftDelete, pollVars, TargetsGuarded, TypeOK, AccountsTypeOK
<1>4. ASSUME NEW a \in AccountIds, NEW s \in Sources,
             AdmitRequest(a) \/ OtherRequest(a) \/ DeleteMessage(a, s)
      PROVE  TargetsGuarded'
  BY <1>2, <1>4 DEF AdmitRequest, OtherRequest, DeleteMessage, delete_message, accountVars, pollVars
<1>5. CASE ImportSelect
  BY <1>5 DEF ImportSelect, PassThrough, Acquire, Recipients, Active, TargetsGuarded,
              TypeOK, accountVars
<1>6. CASE PollSteps /\ ~ImportSelect
  \* every other step of the poller starts without targets or ends without
  <2>1. CASE targets = {}
    BY <1>1, <1>6, <2>1
       DEF PollSteps, PollBegin, active_account_addresses, ListMailbox, Reconcile, ReconcileSkipped,
           CheckImported, CheckSkipped, FetchMessage, ImportSkipped, ImportInsert,
           MailboxDone, PollEnd
  <2>2. CASE pc = "insert"
    BY <1>1, <1>6, <2>2
       DEF PollSteps, PollBegin, active_account_addresses, ListMailbox, Reconcile, ReconcileSkipped,
           CheckImported, CheckSkipped, FetchMessage, ImportSkipped, ImportInsert,
           MailboxDone, PollEnd
  <2>3. QED BY <2>1, <2>2 DEF TargetsGuarded
<1>7. CASE CleanupSelect \/ CleanupTx \/ CleanupDone \/ CleanupFails
  \* the cleanup has the permit, or takes it when it is free
  <2>1. gate # "poller" /\ targets' = targets
    BY <1>7 DEF CleanupSelect, CleanupTx, CleanupDone, CleanupFails, Acquire, Release,
                pollVars
  <2>2. QED BY <1>1, <2>1 DEF TargetsGuarded
<1>8. CASE Environment
  BY <1>2, <1>8 DEF Environment, MailArrives, UpstreamPurge, TimePasses, Tick,
                    accountVars, pollVars
<1>9. CASE PollFails \/ ReconcileUnaudited \/ Restart
  BY <1>1, <1>9 DEF PollFails, ReconcileUnaudited, Restart, PollerForgets
<1>10. CASE UNCHANGED vars
  BY <1>2, <1>10 DEF vars, accountVars, pollVars
<1>11. QED
  BY <1>3, <1>4, <1>5, <1>6, <1>7, <1>8, <1>9, <1>10
     DEF Next, Requests, ReadMessages, PatchMessage, PollSteps, CleanupSteps, Faults, Sources

LEMMA CleanupStep == CleanupInv /\ [Next]_vars => CleanupInv'
<1> SUFFICES ASSUME CleanupInv, [Next]_vars PROVE CleanupInv'
  OBVIOUS
<1> USE DEF CleanupInv
<1>1. TypeOK' /\ KeyChosen' /\ TargetsGuarded'
  BY TypeStep, KeyChosenStep, TargetsGuardedStep
<1>2. CASE UNCHANGED <<status, live>>
  BY <1>1, <1>2 DEF ExpiredHoldNoMail
<1>3. ASSUME NEW a \in AccountIds, NEW e \in ExpiryChoices, CreateAccount(a, e)
      PROVE  CleanupInv'
  <2>1. status' = [status EXCEPT ![a] = "live"]
    BY <1>3 DEF CreateAccount, create_account_for_owner, InsertAccount
  <2>2. None \in Sources
    BY DEF Sources
  <2>3. \A b \in AccountIds, s \in Sources : b # a => live'[b][s] = live[b][s]
    BY <1>3, <2>2, InsertAddsOneRow DEF CreateAccount, create_account_for_owner
  <2>4. QED BY <1>1, <2>1, <2>3 DEF ExpiredHoldNoMail, TypeOK, AccountsTypeOK
<1>4. ASSUME NEW rows \in SUBSET AccountIds, NEW how \in {"deleted", "expired"},
             SoftDelete(rows, how), Hide(rows \X Sources)
      PROVE  CleanupInv'
  \* whatever becomes expired loses its visible rows in the same transaction
  BY <1>1, <1>4 DEF SoftDelete, Hide, ExpiredHoldNoMail
<1>5. CASE \E a \in AccountIds : DeleteAccountTx(a)
  <2>1. PICK a \in AccountIds : DeleteAccountTx(a)
    BY <1>5
  <2>2. {a} \in SUBSET AccountIds
    OBVIOUS
  <2>3. QED BY <1>4, <2>1, <2>2 DEF DeleteAccountTx, delete_account
<1>6. CASE CleanupTx
  <2>1. expiring \in SUBSET AccountIds
    BY DEF TypeOK
  <2>2. QED BY <1>4, <1>6, <2>1 DEF CleanupTx
<1>7. ASSUME NEW a \in AccountIds, NEW s \in Sources, DeleteMessage(a, s)
      PROVE  CleanupInv'
  <2>1. /\ live' \in [AccountIds -> [Sources -> Nat]]
        /\ \A b \in AccountIds, t \in Sources : live'[b][t] <= live[b][t]
    BY <1>7, DeleteMessageKeepsRows
  <2>2. \A b \in AccountIds, t \in Sources : live'[b][t] \in Nat
    BY <2>1
  <2>3. ASSUME NEW b \in AccountIds, NEW t \in Sources, live[b][t] = 0
        PROVE  live'[b][t] = 0
    <3>1. live'[b][t] <= 0 /\ live'[b][t] \in Nat
      BY <2>1, <2>2, <2>3
    <3>2. QED BY <3>1
  <2>4. QED BY <1>1, <1>7, <2>3 DEF DeleteMessage, delete_message, accountVars, ExpiredHoldNoMail
<1>8. CASE Reconcile \/ ReconcileUnaudited
  <2>1. \A b \in AccountIds, t \in Sources : live'[b][t] = 0 \/ live'[b][t] = live[b][t]
    BY <1>8, HideKeepsRows DEF Reconcile, ReconcileUnaudited
  <2>2. QED BY <1>1, <1>8, <2>1
            DEF Reconcile, ReconcileUnaudited, accountVars, ExpiredHoldNoMail
<1>9. CASE ImportInsert
  <2>1. UNCHANGED status
    BY <1>9 DEF ImportInsert, accountVars
  <2>2. CASE UNCHANGED tableVars
    BY <1>2, <2>1, <2>2 DEF tableVars
  <2>3. CASE InsertMessages(targets, key)
    <3>1. \A b \in AccountIds : status[b] = "expired" => live'[b] = live[b]
      BY <2>3 DEF InsertMessages, TargetsGuarded
    <3>2. QED BY <1>1, <2>1, <3>1 DEF ExpiredHoldNoMail
  <2>4. QED BY <1>9, <2>2, <2>3 DEF ImportInsert, RecordImport
<1>10. CASE PollSteps /\ ~Reconcile /\ ~ImportInsert
  BY <1>2, <1>10
     DEF PollSteps, PollBegin, active_account_addresses, ListMailbox, ReconcileSkipped,
         CheckImported, CheckSkipped, FetchMessage, ImportSelect, ImportSkipped,
         MailboxDone, PollEnd, accountVars, tableVars
<1>11. CASE \E a \in AccountIds : AdmitRequest(a) \/ OtherRequest(a)
  BY <1>2, <1>11 DEF AdmitRequest, OtherRequest, accountVars, tableVars
<1>12. CASE CleanupSelect \/ CleanupDone \/ CleanupFails \/ PollFails \/ Restart
  BY <1>2, <1>12 DEF CleanupSelect, CleanupDone, CleanupFails, PollFails, Restart,
                     accountVars, tableVars
<1>13. CASE Environment
  BY <1>2, <1>13 DEF Environment, MailArrives, UpstreamPurge, TimePasses, Tick,
                     accountVars, tableVars
<1>14. CASE UNCHANGED vars
  BY <1>2, <1>14 DEF vars, accountVars, tableVars
<1>15. QED
  BY <1>3, <1>5, <1>6, <1>7, <1>8, <1>9, <1>10, <1>11, <1>12, <1>13, <1>14
     DEF Next, Requests, ReadMessages, PatchMessage, PollSteps, CleanupSteps, Faults

LEMMA CleanupCorrect == Spec => []CleanupInv
<1>1. Init => CleanupInv
  <2>1. Init => TypeOK /\ KeyChosen
    BY TypeInit DEF Init, KeyChosen
  <2>2. QED BY <2>1 DEF Init, AccountsInit, CleanupInv, TargetsGuarded, ExpiredHoldNoMail
<1>2. QED BY <1>1, CleanupStep, PTL DEF Spec

\* No visible mail is left in, or ever reaches, an account that the cleanup
\* expired: the permit keeps the cleanup out between an import's selection of
\* its recipients and its transaction.
THEOREM ExpiryHidesMail == Spec => []ExpiredHoldNoMail
<1>1. CleanupInv => ExpiredHoldNoMail
  BY DEF CleanupInv
<1>2. QED BY <1>1, CleanupCorrect, PTL

----------------------------------------------------------------------------
(* The synchronization                                                     *)

\* Every key the program has met names a mail that reached Inbucket.
KeysWereSent ==
  /\ \A k \in upstream \cup imported \cup todo : k[2] \in sent
  /\ key \in Keys => key[2] \in sent

\* When the mailbox is reconciled, a recorded key of it that Inbucket still
\* holds is in the listing: what arrives meanwhile is a mail not imported yet.
ListingComplete ==
  pc = "reconcile" =>
    /\ box \in Mailboxes
    /\ \A k \in upstream : k[1] = box /\ k \in imported => k \in todo

SyncInv ==
  /\ TypeOK
  /\ KeyChosen
  /\ RowsRecorded
  /\ KeysWereSent
  /\ ListingComplete

LEMMA RowsRecordedStep == TypeOK /\ KeyChosen /\ RowsRecorded /\ [Next]_vars => RowsRecorded'
<1> SUFFICES ASSUME TypeOK, KeyChosen, RowsRecorded, [Next]_vars PROVE RowsRecorded'
  OBVIOUS
<1>1. RowsKept \/ RowsImported
  BY OnlyImportsAddRows
<1>2. QED BY <1>1 DEF RowsKept, RowsImported, RowsRecorded

LEMMA KeysWereSentStep ==
  TypeOK /\ KeyChosen /\ KeysWereSent /\ [Next]_vars => KeysWereSent'
<1> SUFFICES ASSUME TypeOK, KeyChosen, KeysWereSent, [Next]_vars PROVE KeysWereSent'
  OBVIOUS
<1> USE IngestAssumption DEF KeysWereSent
<1>1. CASE UNCHANGED <<sent, upstream, imported, todo, key>>
  BY <1>1
<1>2. CASE Requests
  BY <1>1, <1>2 DEF Requests, ReadMessages, PatchMessage, CreateAccount,
                    create_account_for_owner, AdmitRequest, DeleteAccountTx,
                    delete_account, DeleteMessage, delete_message, OtherRequest, envVars,
                    pollVars, tableVars
<1>3. CASE PollSteps
  <2>1. ASSUME NEW m \in Mailboxes, ListMailbox(m)
        PROVE  KeysWereSent'
    BY <2>1 DEF ListMailbox, envVars, tableVars
  <2>2. ASSUME NEW k \in Keys, CheckImported(k) \/ CheckSkipped(k)
        PROVE  KeysWereSent'
    BY <2>2 DEF CheckImported, CheckSkipped, envVars, tableVars
  <2>3. CASE ImportInsert
    BY <2>3 DEF ImportInsert, RecordImport, KeyChosen, Keys, envVars, tableVars
  <2>4. CASE FetchMessage \/ ImportSelect \/ ImportSkipped
    BY <2>4 DEF FetchMessage, ImportSelect, ImportSkipped, envVars, tableVars
  <2>5. CASE PollBegin \/ Reconcile \/ ReconcileSkipped \/ MailboxDone \/ PollEnd
    BY <2>5 DEF PollBegin, active_account_addresses, Reconcile, ReconcileSkipped,
                MailboxDone, PollEnd, envVars, tableVars
  <2>6. QED BY <1>3, <2>1, <2>2, <2>3, <2>4, <2>5 DEF PollSteps
<1>4. CASE CleanupSteps \/ CleanupFails \/ TimePasses
  BY <1>1, <1>4 DEF CleanupSteps, CleanupSelect, CleanupTx, CleanupDone, CleanupFails,
                    TimePasses, envVars, pollVars, tableVars
<1>5. ASSUME NEW x \in Mails, MailArrives(x)
      PROVE  KeysWereSent'
  BY <1>5 DEF MailArrives, tableVars, pollVars
<1>6. CASE \E k \in Keys : UpstreamPurge(k)
  BY <1>6 DEF UpstreamPurge, tableVars, pollVars
<1>7. CASE PollFails \/ ReconcileUnaudited \/ Restart
  BY <1>7 DEF PollFails, ReconcileUnaudited, Restart, PollerForgets, envVars, tableVars
<1>8. CASE UNCHANGED vars
  BY <1>1, <1>8 DEF vars, envVars, pollVars, tableVars
<1>9. QED BY <1>2, <1>3, <1>4, <1>5, <1>6, <1>7, <1>8 DEF Next, Environment, Faults

LEMMA ListingCompleteStep ==
  TypeOK /\ KeysWereSent /\ ListingComplete /\ [Next]_vars => ListingComplete'
<1> SUFFICES ASSUME TypeOK, KeysWereSent, ListingComplete, [Next]_vars
             PROVE  ListingComplete'
  OBVIOUS
<1> USE DEF ListingComplete
<1>1. CASE UNCHANGED <<upstream, imported, pc, box, todo>>
  BY <1>1
<1>2. CASE pc' # "reconcile"
  BY <1>2
<1>3. CASE Requests
  BY <1>1, <1>3 DEF Requests, ReadMessages, PatchMessage, CreateAccount,
                    create_account_for_owner, AdmitRequest, DeleteAccountTx,
                    delete_account, DeleteMessage, delete_message, OtherRequest, envVars,
                    pollVars, tableVars
<1>4. ASSUME NEW m \in Mailboxes, ListMailbox(m)
      PROVE  ListingComplete'
  BY <1>4 DEF ListMailbox, envVars
<1>5. CASE PollSteps /\ ~ \E m \in Mailboxes : ListMailbox(m)
  BY <1>2, <1>5
     DEF PollSteps, PollBegin, active_account_addresses, Reconcile, ReconcileSkipped,
         CheckImported, CheckSkipped, FetchMessage, ImportSelect, ImportSkipped,
         ImportInsert, MailboxDone, PollEnd
<1>6. CASE CleanupSteps \/ CleanupFails \/ TimePasses
  BY <1>1, <1>6 DEF CleanupSteps, CleanupSelect, CleanupTx, CleanupDone, CleanupFails,
                    TimePasses, envVars, pollVars, tableVars
<1>7. ASSUME NEW x \in Mails, MailArrives(x)
      PROVE  ListingComplete'
  \* a key recorded before is not one of the new mail's
  BY <1>7 DEF MailArrives, KeysWereSent, tableVars, pollVars
<1>8. CASE \E k \in Keys : UpstreamPurge(k)
  BY <1>8 DEF UpstreamPurge, tableVars, pollVars
<1>9. CASE PollFails \/ ReconcileUnaudited \/ Restart
  BY <1>2, <1>9 DEF PollFails, ReconcileUnaudited, Restart, PollerForgets
<1>10. CASE UNCHANGED vars
  BY <1>1, <1>10 DEF vars, envVars, pollVars, tableVars
<1>11. QED
  BY <1>3, <1>4, <1>5, <1>6, <1>7, <1>8, <1>9, <1>10 DEF Next, PollSteps, Environment, Faults

LEMMA SyncCorrect == Spec => []SyncInv
<1>1. Init => SyncInv
  <2>1. Init => TypeOK /\ KeyChosen
    BY TypeInit DEF Init, KeyChosen
  <2>2. Init => RowsRecorded
    BY DEF Init, Rows, RowsRecorded, Sources
  <2>3. Init => KeysWereSent /\ ListingComplete
    BY IngestAssumption DEF Init, KeysWereSent, ListingComplete
  <2>4. QED BY <2>1, <2>2, <2>3 DEF SyncInv
<1>2. SyncInv /\ [Next]_vars => SyncInv'
  BY TypeStep, KeyChosenStep, RowsRecordedStep, KeysWereSentStep, ListingCompleteStep
     DEF SyncInv
<1>3. QED BY <1>1, <1>2, PTL DEF Spec

\* Where LIKE matches a mailbox's own keys only (no local part holds an
\* underscore), the synchronization deletes a row only when its upstream
\* message is gone, whatever arrives or is purged while the poller waits.
THEOREM SyncIsExact ==
  ASSUME \A m \in Mailboxes : LikeMatch[m] = {m}
  PROVE  Spec => SyncDeletesOnlyMissing
<1>1. SyncInv /\ [Next]_vars
      => [pc = "reconcile" /\ pc' # "reconcile" =>
            \A a \in AccountIds, k \in Keys :
              live'[a][k] < live[a][k] => k \notin upstream]_vars
  <2> SUFFICES ASSUME SyncInv, [Next]_vars, pc = "reconcile", pc' # "reconcile",
                      NEW a \in AccountIds, NEW k \in Keys, live'[a][k] < live[a][k]
               PROVE  k \notin upstream
    OBVIOUS
  <2>1. live[a][k] \in Nat /\ gone[a][k] \in Nat
    BY DEF SyncInv, TypeOK, Sources
  <2>2. live' # live
    BY <2>1
  <2>3. Hide(UpstreamMissing)
    BY <2>2
       DEF Next, Requests, ReadMessages, PatchMessage, CreateAccount,
           create_account_for_owner, AdmitRequest, DeleteAccountTx, delete_account,
           DeleteMessage, delete_message, OtherRequest, PollSteps, PollBegin,
           active_account_addresses, ListMailbox, Reconcile, ReconcileSkipped,
           CheckImported, CheckSkipped, FetchMessage, ImportSelect, ImportSkipped,
           ImportInsert, MailboxDone, PollEnd, CleanupSteps, CleanupSelect, CleanupTx,
           CleanupDone, Environment, MailArrives, UpstreamPurge, TimePasses, Faults,
           PollFails, ReconcileUnaudited, CleanupFails, Restart, vars, tableVars, pollVars
  <2>4. live'[a][k] = IF <<a, k>> \in UpstreamMissing THEN 0 ELSE live[a][k]
    BY <2>3 DEF Hide, Sources
  <2>5. /\ k[1] \in LikeMatch[box]
        /\ k \notin todo
        /\ live[a][k] > 0
    BY <2>1, <2>4 DEF UpstreamMissing
  <2>6. k \in imported
    BY <2>1, <2>5 DEF SyncInv, RowsRecorded, Rows
  <2>7. QED BY <2>5, <2>6 DEF SyncInv, ListingComplete
<1>2. QED BY <1>1, SyncCorrect, PTL DEF Spec, SyncDeletesOnlyMissing

----------------------------------------------------------------------------
(* The promise of delivery                                                 *)

PromiseInv == DeliveryInv /\ CleanupInv /\ NamedExist

\* Hiding rows is the promise's deletion of the copies they hold.
LEMMA HideDeletesCopies ==
  ASSUME TypeOK, NEW rows, NEW copies, Hide(rows),
         \A a \in AccountIds, k \in Keys : <<a, k>> \in rows <=> <<a, k>> \in copies
  PROVE  Copies' = Promise!Deleted(copies)
<1>1. ASSUME NEW a \in AccountIds, NEW k \in Keys
      PROVE  Copy(a, k)' = IF <<a, k>> \in copies /\ Copy(a, k) = "shown"
                           THEN "deleted" ELSE Copy(a, k)
  <2>1. live[a][k] \in Nat /\ gone[a][k] \in Nat /\ k \in Sources
    BY DEF TypeOK, Sources
  <2>2. /\ live'[a][k] = IF <<a, k>> \in rows THEN 0 ELSE live[a][k]
        /\ gone'[a][k] = IF <<a, k>> \in rows THEN gone[a][k] + live[a][k]
                                               ELSE gone[a][k]
    BY <2>1 DEF Hide
  <2>3. QED BY <2>1, <2>2 DEF Copy
<1>2. QED BY <1>1 DEF Copies, Promise!Deleted

\* The copies follow the counters and nothing else.
LEMMA CopiesUnchanged ==
  ASSUME UNCHANGED <<live, gone>>
  PROVE  UNCHANGED Copies
BY DEF Copies, Copy

\* Deleting the one visible row of a message deletes the account's copy; the
\* promise knows nothing of the welcome message.
LEMMA DeleteMessageDeletesCopy ==
  ASSUME TypeOK, OneRowPerSource, NEW b \in AccountIds, NEW t \in Sources,
         DeleteMessage(b, t)
  PROVE  Copies' = Promise!Deleted({<<b, t>>} \cap (AccountIds \X Keys))
<1>1. ASSUME NEW a \in AccountIds, NEW k \in Keys
      PROVE  Copy(a, k)' = IF <<a, k>> \in {<<b, t>>} \cap (AccountIds \X Keys)
                              /\ Copy(a, k) = "shown"
                           THEN "deleted" ELSE Copy(a, k)
  <2>1. live[a][k] \in Nat /\ gone[a][k] \in Nat /\ k \in Sources
    BY DEF TypeOK, Sources
  <2>2. /\ live'[a][k] = IF a = b /\ k = t THEN live[a][k] - 1 ELSE live[a][k]
        /\ gone'[a][k] = IF a = b /\ k = t THEN gone[a][k] + 1 ELSE gone[a][k]
        /\ live[b][t] > 0
    BY <2>1 DEF DeleteMessage, delete_message, TypeOK
  <2>3. live[a][k] + gone[a][k] <= 1
    BY DEF OneRowPerSource, Rows
  <2>4. QED BY <2>1, <2>2, <2>3 DEF Copy
<1>2. QED BY <1>1 DEF Copies, Promise!Deleted

\* An import's transaction gives every selected account its first copy.
LEMMA ImportDelivers ==
  ASSUME PromiseInv, pc = "insert", key \notin imported, InsertMessages(targets, key),
         imported' = imported \cup {key}, UNCHANGED status
  PROVE  Promise!Deliver(key, targets)
<1> USE DEF PromiseInv, DeliveryInv, CleanupInv
<1>1. key \in Keys /\ key \in Sources
  BY DEF KeyChosen, Sources
<1>2. ASSUME NEW a \in AccountIds, NEW k \in Keys
      PROVE  Copy(a, k)' = IF a \in targets /\ k = key THEN "shown" ELSE Copy(a, k)
  <2>1. live[a][k] \in Nat /\ gone[a][k] \in Nat /\ k \in Sources
    BY DEF TypeOK, Sources
  <2>2. /\ gone'[a][k] = gone[a][k]
        /\ live'[a][k] = IF a \in targets /\ k = key THEN live[a][k] + 1 ELSE live[a][k]
    BY <2>1, <1>1 DEF InsertMessages, TypeOK
  <2>3. QED BY <2>1, <2>2 DEF Copy
<1>3. Copies' = [a \in AccountIds |->
                  IF a \in targets THEN [Copies[a] EXCEPT ![key] = "shown"] ELSE Copies[a]]
  BY <1>1, <1>2 DEF Copies
<1>4. \A a \in targets : status[a] \in {"live", "deleted"}
  BY DEF TargetsGuarded, NamedExist, TypeOK, AccountsTypeOK, RowStates
<1>5. QED BY <1>3, <1>4 DEF Promise!Deliver, TargetsDistinct

\* Every step is a step of the promise, or changes nothing that it speaks of.
LEMMA PromiseStep == PromiseInv /\ [Next]_vars => [Promise!Next]_Promise!promiseVars
<1> SUFFICES ASSUME PromiseInv, [Next]_vars PROVE [Promise!Next]_Promise!promiseVars
  OBVIOUS
<1> TypeOK
  BY DEF PromiseInv, DeliveryInv
<1>1. CASE UNCHANGED <<status, imported, live, gone>>
  BY <1>1, CopiesUnchanged DEF Promise!promiseVars
<1>2. ASSUME NEW a \in AccountIds, NEW e \in ExpiryChoices, CreateAccount(a, e)
      PROVE  Promise!Next
  <2>1. None \in Sources /\ None \notin Keys
    BY IngestAssumption DEF Sources
  <2>2. \A b \in AccountIds, k \in Keys : Copy(b, k)' = Copy(b, k)
    BY <1>2, <2>1, InsertAddsOneRow DEF CreateAccount, create_account_for_owner, Copy, Sources
  <2>3. UNCHANGED Copies
    BY <2>2 DEF Copies
  <2>4. Promise!Open(a)
    BY <1>2, <2>3 DEF CreateAccount, create_account_for_owner, InsertAccount, AddressFree,
                      Promise!Open
  <2>5. QED BY <2>4 DEF Promise!Next
<1>3. ASSUME NEW rows \in SUBSET AccountIds, NEW how \in {"deleted", "expired"},
             SoftDelete(rows, how), Hide(rows \X Sources), UNCHANGED imported,
             \A a \in rows : status[a] # "unused"
      PROVE  Promise!Next
  <2>1. Copies' = Promise!Deleted(rows \X Keys)
    BY <1>3, HideDeletesCopies DEF Sources
  <2>2. Promise!Remove(rows, how)
    BY <1>3, <2>1 DEF SoftDelete, Promise!Remove
  <2>3. QED BY <2>2 DEF Promise!Next
<1>4. ASSUME NEW a \in AccountIds, DeleteAccountTx(a)
      PROVE  Promise!Next
  <2>1. {a} \in SUBSET AccountIds /\ status[a] # "unused"
    BY <1>4 DEF DeleteAccountTx, delete_account, PromiseInv, NamedExist
  <2>2. QED BY <1>3, <1>4, <2>1 DEF DeleteAccountTx, delete_account
<1>5. CASE CleanupTx
  <2>1. expiring \in SUBSET AccountIds /\ \A a \in expiring : status[a] # "unused"
    BY DEF TypeOK, PromiseInv, NamedExist
  <2>2. QED BY <1>3, <1>5, <2>1 DEF CleanupTx
<1>6. ASSUME NEW a \in AccountIds, NEW s \in Sources, DeleteMessage(a, s)
      PROVE  Promise!Next
  <2> DEFINE copies == {<<a, s>>} \cap (AccountIds \X Keys)
  <2>1. Copies' = Promise!Deleted(copies)
    BY <1>6, DeleteMessageDeletesCopy DEF PromiseInv, DeliveryInv
  <2>2. UNCHANGED <<status, imported>>
    BY <1>6 DEF DeleteMessage, delete_message, accountVars
  <2>3. Promise!Delete(copies)
    BY <2>1, <2>2 DEF Promise!Delete
  <2>4. copies \in SUBSET (AccountIds \X Keys)
    OBVIOUS
  <2>5. QED BY <2>3, <2>4 DEF Promise!Next
<1>7. CASE Reconcile \/ ReconcileUnaudited
  <2>1. UpstreamMissing \in SUBSET (AccountIds \X Keys)
    BY DEF UpstreamMissing
  <2>2. Copies' = Promise!Deleted(UpstreamMissing)
    BY <1>7, HideDeletesCopies DEF Reconcile, ReconcileUnaudited
  <2>3. UNCHANGED <<status, imported>>
    BY <1>7 DEF Reconcile, ReconcileUnaudited, accountVars
  <2>4. Promise!Delete(UpstreamMissing)
    BY <2>2, <2>3 DEF Promise!Delete
  <2>5. QED BY <2>1, <2>4 DEF Promise!Next
<1>8. CASE ImportInsert
  <2>1. pc = "insert" /\ UNCHANGED status /\ key \in Keys
    BY <1>8 DEF ImportInsert, accountVars, PromiseInv, DeliveryInv, KeyChosen
  <2>2. CASE UNCHANGED tableVars
    BY <1>1, <2>1, <2>2 DEF tableVars
  <2>3. CASE /\ key \notin imported
             /\ imported' = imported \cup {key}
             /\ InsertMessages(targets, key)
    <3>1. Promise!Deliver(key, targets)
      BY <2>1, <2>3, ImportDelivers
    <3>2. QED BY <2>1, <3>1 DEF Promise!Next, TypeOK
  <2>4. QED BY <1>8, <2>2, <2>3 DEF ImportInsert, RecordImport
<1>9. CASE PollSteps /\ ~Reconcile /\ ~ImportInsert
  BY <1>1, <1>9
     DEF PollSteps, PollBegin, active_account_addresses, ListMailbox, ReconcileSkipped,
         CheckImported, CheckSkipped, FetchMessage, ImportSelect, ImportSkipped,
         MailboxDone, PollEnd, accountVars, tableVars
<1>10. CASE \E a \in AccountIds : AdmitRequest(a) \/ OtherRequest(a)
  BY <1>1, <1>10 DEF AdmitRequest, OtherRequest, accountVars, tableVars
<1>11. CASE CleanupSelect \/ CleanupDone \/ CleanupFails \/ PollFails \/ Restart
  BY <1>1, <1>11 DEF CleanupSelect, CleanupDone, CleanupFails, PollFails, Restart,
                     accountVars, tableVars
<1>12. CASE Environment
  BY <1>1, <1>12 DEF Environment, MailArrives, UpstreamPurge, TimePasses, Tick,
                     accountVars, tableVars
<1>13. CASE UNCHANGED vars
  BY <1>1, <1>13 DEF vars, accountVars, tableVars
<1>14. QED
  BY <1>2, <1>4, <1>5, <1>6, <1>7, <1>8, <1>9, <1>10, <1>11, <1>12, <1>13
     DEF Next, Requests, ReadMessages, PatchMessage, PollSteps, CleanupSteps, Faults

\* Ingestion implements the promise of module Delivery: under any interleaving of
\* the poller with requests, cleanups, crashes and purges, the messages table
\* changes as if each message were handed out, and each account removed, at once.
THEOREM ImplementsDelivery == Spec => KeepsDelivery
<1>1. Init => Promise!Init
  <2>1. Init => \A a \in AccountIds, k \in Keys : Copy(a, k) = "none"
    BY DEF Init, Copy, Sources
  <2>2. QED BY <2>1 DEF Init, AccountsInit, Copies, Promise!Init
<1>2. Spec => []PromiseInv
  BY DeliveryCorrect, CleanupCorrect, NamesCorrect, PTL DEF PromiseInv
<1>3. QED BY <1>1, <1>2, PromiseStep, PTL DEF Spec, KeepsDelivery, Promise!Spec

-----------------------------------------------------------------------------
(* What the promise is worth: the following holds of every behaviour that  *)
(* module Delivery allows, so of every implementation of it.  The proofs   *)
(* use nothing of Ingest.                                                  *)

PromiseTypes ==
  /\ status \in [AccountIds -> {"unused", "live", "deleted", "expired"}]
  /\ Copies \in [AccountIds -> [Keys -> {"none", "shown", "deleted"}]]

\* Only a message that was handed out has copies.
CopiesDelivered ==
  \A a \in AccountIds, k \in Keys : Copies[a][k] # "none" => k \in imported

\* No two holders of an address ever have copies of one message, be they shown or
\* deleted: who takes an address over inherits none of its mail.
NothingInherited ==
  \A a, b \in AccountIds, k \in Keys :
    Copies[a][k] # "none" /\ Copies[b][k] # "none" /\ AddressOf[a] = AddressOf[b] => a = b

\* An expired account shows nothing, and nobody has mail before the account exists.
OnlyHoldersSee ==
  \A a \in AccountIds, k \in Keys :
    /\ Copies[a][k] = "shown" => status[a] \in {"live", "deleted"}
    /\ Copies[a][k] # "none" => status[a] # "unused"

\* A message is handed out once: afterwards nobody comes to have a copy who had
\* none, and a deleted copy stays deleted.
HandedOutOnce ==
  \A a \in AccountIds, k \in Keys :
    /\ k \in imported => k \in imported' /\ (Copies[a][k] = "none" => Copies'[a][k] = "none")
    /\ Copies[a][k] = "deleted" => Copies'[a][k] = "deleted"

PromiseSafe == PromiseTypes /\ CopiesDelivered /\ NothingInherited /\ OnlyHoldersSee

\* What deleting copies does to each of them.
Shrunk(copies) ==
  \A a \in AccountIds, k \in Keys :
    /\ Copies'[a][k] = "none" <=> Copies[a][k] = "none"
    /\ Copies'[a][k] = "shown" => Copies[a][k] = "shown" /\ <<a, k>> \notin copies
    /\ Copies[a][k] = "deleted" => Copies'[a][k] = "deleted"

LEMMA DeletedCopies ==
  ASSUME PromiseTypes, NEW copies, Copies' = Promise!Deleted(copies)
  PROVE  Copies' \in [AccountIds -> [Keys -> {"none", "shown", "deleted"}]] /\ Shrunk(copies)
<1>1. \A a \in AccountIds, k \in Keys : Copies[a][k] \in {"none", "shown", "deleted"}
  BY DEF PromiseTypes
<1>2. \A a \in AccountIds, k \in Keys : Copies'[a][k] =
        IF <<a, k>> \in copies /\ Copies[a][k] = "shown" THEN "deleted" ELSE Copies[a][k]
  BY DEF Promise!Deleted
<1>3. Copies' \in [AccountIds -> [Keys -> {"none", "shown", "deleted"}]]
  BY <1>1 DEF Promise!Deleted
<1>4. QED BY <1>1, <1>2, <1>3 DEF Shrunk

LEMMA PromiseKeepsSafe ==
  PromiseSafe /\ [Promise!Next]_(Promise!promiseVars) => PromiseSafe' /\ HandedOutOnce
<1> SUFFICES ASSUME PromiseSafe, [Promise!Next]_(Promise!promiseVars)
             PROVE  PromiseSafe' /\ HandedOutOnce
  OBVIOUS
<1> USE DEF PromiseSafe, CopiesDelivered, NothingInherited, OnlyHoldersSee, HandedOutOnce
<1>1. ASSUME NEW a \in AccountIds, Promise!Open(a) PROVE PromiseSafe' /\ HandedOutOnce
  BY <1>1 DEF Promise!Open, PromiseTypes
<1>2. ASSUME NEW rows \in SUBSET AccountIds, NEW how \in {"deleted", "expired"},
             Promise!Remove(rows, how)
      PROVE  PromiseSafe' /\ HandedOutOnce
  <2>1. /\ Copies' = Promise!Deleted(rows \X Keys)
        /\ \A a \in rows : status[a] # "unused"
        /\ status' = [a \in AccountIds |-> IF a \in rows THEN how ELSE status[a]]
        /\ imported' = imported
    BY <1>2 DEF Promise!Remove
  <2>2. Shrunk(rows \X Keys)
    BY <2>1, DeletedCopies
  <2>3. PromiseTypes'
    BY <2>1, DeletedCopies DEF PromiseTypes
  <2>4. \A a \in rows, k \in Keys : Copies'[a][k] # "shown"
    BY <2>2 DEF Shrunk
  <2>5. CopiesDelivered' /\ NothingInherited' /\ HandedOutOnce
    BY <2>1, <2>2 DEF Shrunk
  <2>6. OnlyHoldersSee'
    BY <2>1, <2>2, <2>4 DEF Shrunk, PromiseTypes
  <2>7. QED BY <2>3, <2>5, <2>6
<1>3. ASSUME NEW k \in Keys, NEW rows \in SUBSET AccountIds, Promise!Deliver(k, rows)
      PROVE  PromiseSafe' /\ HandedOutOnce
  <2>1. \A a \in AccountIds, j \in Keys :
          Copies'[a][j] = IF a \in rows /\ j = k THEN "shown" ELSE Copies[a][j]
    BY <1>3 DEF Promise!Deliver, PromiseTypes
  <2>2. PromiseTypes'
    BY <1>3 DEF Promise!Deliver, PromiseTypes
  <2>3. k \notin imported /\ imported' = imported \cup {k} /\ status' = status
    BY <1>3 DEF Promise!Deliver
  <2>4. \A a \in AccountIds : Copies[a][k] = "none"
    BY <2>3
  <2>5. CopiesDelivered'
    BY <2>1, <2>3
  <2>6. NothingInherited'
    BY <1>3, <2>1, <2>4 DEF Promise!Deliver
  <2>7. OnlyHoldersSee'
    BY <1>3, <2>1, <2>3 DEF Promise!Deliver
  <2>8. HandedOutOnce
    BY <2>1, <2>3, <2>4
  <2>9. QED BY <2>2, <2>5, <2>6, <2>7, <2>8
<1>4. ASSUME NEW copies \in SUBSET (AccountIds \X Keys), Promise!Delete(copies)
      PROVE  PromiseSafe' /\ HandedOutOnce
  <2>1. Copies' = Promise!Deleted(copies) /\ UNCHANGED <<status, imported>>
    BY <1>4 DEF Promise!Delete
  <2>2. PromiseTypes'
    BY <2>1, DeletedCopies DEF PromiseTypes
  <2>3. Shrunk(copies)
    BY <2>1, DeletedCopies
  <2>4. QED BY <2>1, <2>2, <2>3 DEF Shrunk
<1>5. CASE UNCHANGED Promise!promiseVars
  BY <1>5 DEF Promise!promiseVars, PromiseTypes
<1>6. QED BY <1>1, <1>2, <1>3, <1>4, <1>5 DEF Promise!Next

\* Whatever implements Delivery gives a message to one holder of an address at
\* most, once and for good, and shows mail to nobody who has not got the account.
THEOREM DeliveryIsSafe ==
  Promise!Spec =>
    /\ []CopiesDelivered /\ []NothingInherited /\ []OnlyHoldersSee
    /\ [][HandedOutOnce]_(Promise!promiseVars)
<1>1. Promise!Init => PromiseSafe
  BY DEF Promise!Init, PromiseSafe, PromiseTypes, CopiesDelivered, NothingInherited,
         OnlyHoldersSee
<1>2. PromiseSafe => CopiesDelivered /\ NothingInherited /\ OnlyHoldersSee
  BY DEF PromiseSafe
<1>3. QED BY <1>1, <1>2, PromiseKeepsSafe, PTL DEF Promise!Spec

\* So the messages table does: who takes an address over inherits nothing of its
\* mail, not even as deleted rows that something could bring back, and an expired
\* account is never given any.
THEOREM NothingIsInherited ==
  Spec =>
    /\ []CopiesDelivered /\ []NothingInherited /\ []OnlyHoldersSee
    /\ [][HandedOutOnce]_(Promise!promiseVars)
BY ImplementsDelivery, DeliveryIsSafe DEF KeepsDelivery
=============================================================================

--------------------------- MODULE DomainsProofs ---------------------------
(***************************************************************************)
(* What holds of Domains for any domains, names, accounts and retention.   *)
(***************************************************************************)
EXTENDS Domains, AccountsProofs

----------------------------------------------------------------------------
(* Type correctness                                                        *)

LEMMA TypeInit == Init => TypeOK
  BY AccountsAssumption, DomainsAssumption
     DEF Init, TypeOK, AccountsInit, AccountsTypeOK, GateInit, GateTypeOK, GateTasks,
         RowStates, DomainStates

LEMMA SetVerifiedTyped ==
  ASSUME TypeOK, NEW d \in DomainIds, NEW result, SetVerified(d, result)
  PROVE  /\ row' \in [DomainIds -> DomainStates]
         /\ UNCHANGED <<system, created, proven>>
  BY DEF SetVerified, TypeOK, AccountsTypeOK, DomainStates

\* A loop over the records of a domain, however far it comes, deals with ours.
LEMMA RecordsTyped ==
  ASSUME NEW d \in DomainIds, NEW done \in Reached(d)
  PROVE  done \subseteq DnsRecords
<1>1. Mx(NameOf[d]) \in DnsRecords /\ Txt(d) \in DnsRecords
  BY DomainsAssumption DEF DnsRecords
<1>2. Len(build_dns_records(d)) = 2
  BY DEF build_dns_records
<1>3. \A i \in 1 .. 2 : build_dns_records(d)[i] \in DnsRecords
  BY <1>1 DEF build_dns_records
<1>4. QED BY <1>2, <1>3 DEF Reached

LEMMA TypeStep == TypeOK /\ [Next]_vars => TypeOK'
<1> SUFFICES ASSUME TypeOK, [Next]_vars PROVE TypeOK'
  OBVIOUS
<1> USE AccountsAssumption, DomainsAssumption
<1>1. ASSUME NEW d \in DomainIds, CreateDomain(d)
      PROVE  TypeOK'
  <2>1. /\ row' \in [DomainIds -> DomainStates]
        /\ created' \in [DomainIds -> Nat]
    BY <1>1 DEF CreateDomain, create_domain, TypeOK, AccountsTypeOK, DomainStates
  <2>2. AccountsTypeOK'
    BY <1>1, AccountsTyped DEF CreateDomain, create_domain, TypeOK
  <2>3. QED BY <1>1, <2>1, <2>2 DEF CreateDomain, create_domain, TypeOK, GateTypeOK, checkVars, flowVars
<1>2. ASSUME NEW d \in DomainIds, RequestCheck(d)
      PROVE  TypeOK'
  <2>1. <<d, Answer(d)>> \in Verdicts
    BY DEF Verdicts, Answer
  <2>2. QED BY <1>2, <2>1
            DEF RequestCheck, Lookup, TypeOK, AccountsTypeOK, GateTypeOK,
                accountVars, domainVars, checkVars
<1>3. ASSUME NEW d \in DomainIds, DeleteFetch(d) \/ DeleteDrop(d)
      PROVE  TypeOK'
  BY <1>3 DEF DeleteFetch, DeleteDrop, TypeOK, AccountsTypeOK, GateTypeOK,
              accountVars, domainVars, checkVars
<1>4. ASSUME NEW d \in DomainIds, DeleteTx(d)
      PROVE  TypeOK'
  <2>1. AccountsTypeOK'
    BY <1>4 DEF DeleteTx, SoftDelete, TypeOK, AccountsTypeOK, RowStates
  <2>2. row' \in [DomainIds -> DomainStates]
    BY <1>4 DEF DeleteTx, TypeOK, DomainStates
  <2>3. QED BY <1>4, <2>1, <2>2 DEF DeleteTx, TypeOK, GateTypeOK, checkVars
<1>5. ASSUME NEW v \in Verdicts, RequestStore(v)
      PROVE  TypeOK'
  <2>1. v[1] \in DomainIds
    BY DEF Verdicts
  <2>2. /\ row' \in [DomainIds -> DomainStates]
        /\ UNCHANGED <<system, created, proven>>
    BY <1>5, <2>1, SetVerifiedTyped DEF RequestStore
  <2>3. QED BY <1>5, <2>2 DEF RequestStore, TypeOK, AccountsTypeOK, GateTypeOK,
                              accountVars, checkVars
<1>6. ASSUME NEW v \in Verdicts, RequestDrop(v)
      PROVE  TypeOK'
  BY <1>6 DEF RequestDrop, TypeOK, AccountsTypeOK, GateTypeOK,
              accountVars, domainVars, checkVars
<1>7. ASSUME NEW a \in AccountIds, CheckDomain(a) \/ CreateAccountDrop(a)
      PROVE  TypeOK'
  BY <1>7 DEF CheckDomain, CreateAccountDrop, TypeOK, AccountsTypeOK, GateTypeOK,
              accountVars, domainVars, checkVars
<1>8. ASSUME NEW a \in AccountIds, NEW e \in ExpiryChoices, CreateAccountTx(a, e)
      PROVE  TypeOK'
  <2>1. AccountsTypeOK'
    BY <1>8, AccountsTyped DEF CreateAccountTx, TypeOK
  <2>2. QED BY <1>8, <2>1 DEF CreateAccountTx, TypeOK, GateTypeOK, domainVars, checkVars
<1>9. ASSUME NEW a \in AccountIds, DeleteAccount(a)
      PROVE  TypeOK'
  BY <1>9 DEF DeleteAccount, SoftDelete, TypeOK, AccountsTypeOK, RowStates, GateTypeOK,
              domainVars, checkVars, flowVars
<1>10. CASE VerifyBegin \/ VerifyEnd \/ VerifySkipped \/ VerifyFails
  BY <1>10 DEF VerifyBegin, VerifyEnd, VerifySkipped, VerifyFails, VerifierForgets,
               PassThrough, GateTimesOut, TypeOK, AccountsTypeOK, GateTypeOK,
               accountVars, domainVars, flowVars
<1>11. ASSUME NEW d \in DomainIds, VerifyCheck(d)
      PROVE  TypeOK'
  <2>1. <<d, Answer(d)>> \in Verdicts
    BY DEF Verdicts, Answer
  <2>2. QED BY <1>11, <2>1
            DEF VerifyCheck, Lookup, TypeOK, AccountsTypeOK, GateTypeOK,
                accountVars, domainVars, flowVars
<1>12. CASE VerifyStore \/ VerifyUnaudited
  <2>1. verdict[1] \in DomainIds
    BY <1>12 DEF VerifyStore, VerifyUnaudited, TypeOK, Verdicts
  <2>2. /\ row' \in [DomainIds -> DomainStates]
        /\ UNCHANGED <<system, created, proven>>
    BY <1>12, <2>1, SetVerifiedTyped DEF VerifyStore, VerifyUnaudited
  <2>3. QED BY <1>12, <2>2
            DEF VerifyStore, VerifyUnaudited, VerifierForgets, PassThrough, TypeOK,
                AccountsTypeOK, GateTypeOK, accountVars, flowVars
<1>13. CASE CleanupBegin \/ CleanupFails
  BY <1>13 DEF CleanupBegin, CleanupFails, Acquire, Release, TypeOK, AccountsTypeOK,
               GateTypeOK, GateTasks, accountVars, domainVars, checkVars, flowVars
<1>14. CASE CleanupAccounts
  BY <1>14 DEF CleanupAccounts, SoftDelete, TypeOK, AccountsTypeOK, RowStates, GateTypeOK,
               domainVars, checkVars, flowVars
<1>15. CASE CleanupDomains
  BY <1>15 DEF CleanupDomains, Release, TypeOK, AccountsTypeOK, GateTypeOK, DomainStates,
               accountVars, checkVars, flowVars
<1>16. CASE Synchronization \/ Environment
  <2>1. zone' \subseteq DnsRecords
    <3>1. ASSUME NEW d \in DomainIds, SyncDomain(d) \/ ClearRecords(d)
          PROVE  zone' \subseteq DnsRecords
      <4>1. PICK done \in Reached(d) : zone' \in {zone \cup done, zone \ (zone \cap done)}
        BY <3>1 DEF SyncDomain, ClearRecords, sync_domain_records, upsert_dns_record,
                    delete_domain_records, matching_record_ids
      <4>2. QED BY <4>1, RecordsTyped DEF TypeOK
    <3>2. CASE Environment
      BY <3>2 DEF Environment, TimePasses, ZoneChanges, TypeOK
    <3>3. QED BY <1>16, <3>1, <3>2 DEF Synchronization
  <2>2. QED
    BY <1>16, <2>1
       DEF Environment, TimePasses, Tick, ZoneChanges, Synchronization, SyncDomain, ClearRecords,
           TypeOK, AccountsTypeOK, GateTypeOK, accountVars, domainVars, checkVars, flowVars
<1>17. ASSUME NEW listed \in SUBSET PublicNames, NEW fresh \in SUBSET DomainIds,
              Start(listed, fresh)
       PROVE  TypeOK'
  <2>1. row' \in [DomainIds -> DomainStates] /\ created' \in [DomainIds -> Nat]
    BY <1>17 DEF Start, TypeOK, AccountsTypeOK, DomainStates
  <2>2. system' \subseteq DomainIds
    BY <1>17 DEF Start, TypeOK, Present
  <2>3. QED BY <1>17, <2>1, <2>2
            DEF Start, VerifierForgets, TypeOK, AccountsTypeOK, GateTypeOK,
                accountVars
<1>18. CASE UNCHANGED vars
  BY <1>18 DEF vars, TypeOK, AccountsTypeOK, GateTypeOK, accountVars, domainVars,
               checkVars, flowVars
<1>19. QED
  BY <1>1, <1>2, <1>3, <1>4, <1>5, <1>6, <1>7, <1>8, <1>9, <1>10, <1>11, <1>12, <1>13,
     <1>14, <1>15, <1>16, <1>17, <1>18
     DEF Next, Requests, VerifySteps, CleanupSteps, Faults

\* The domains' rows, the worker and the requests keep their types.
THEOREM TypeCorrect == Spec => []TypeOK
  BY TypeInit, TypeStep, PTL DEF Spec

----------------------------------------------------------------------------
(* What an answer of DNS may do                                            *)

\* An answer waiting to be stored is about a row with a token, and says yes
\* only when DNS vouched for that token.
AnswersHonest ==
  /\ \A v \in verdicts : v[1] \notin system /\ (v[2] = "verified" => v[1] \in proven)
  /\ vpc = "store" => verdict[1] \notin system /\ (verdict[2] = "verified" => verdict[1] \in proven)
  /\ pending \cap system = {}

\* A deletion was requested for a row with a token.
DoomedHaveToken == doomed \cap system = {}

SystemActive == \A d \in system : row[d] = "active"

\* A request that found its domain available may act on it much later.
VettedUnderProven ==
  \A a \in vetted : \E d \in system \cup proven : NameOf[d] = DomainOf[AddressOf[a]]

ProofInv ==
  /\ TypeOK
  /\ AnswersHonest
  /\ DoomedHaveToken
  /\ SystemActive
  /\ ActiveIsProven
  /\ VettedUnderProven
  /\ MailboxesUnderProven

LEMMA AnswersHonestStep ==
  TypeOK /\ AnswersHonest /\ SystemActive /\ [Next]_vars => AnswersHonest'
<1> SUFFICES ASSUME TypeOK, AnswersHonest, SystemActive, [Next]_vars
             PROVE  AnswersHonest'
  OBVIOUS
<1> USE DEF AnswersHonest
<1>1. CASE UNCHANGED <<system, proven, verdicts, vpc, verdict, pending>>
  BY <1>1
<1>2. ASSUME NEW d \in DomainIds, RequestCheck(d)
      PROVE  AnswersHonest'
  BY <1>2 DEF RequestCheck, Lookup, Answer, domainVars, checkVars
<1>3. ASSUME NEW v \in Verdicts, RequestStore(v) \/ RequestDrop(v)
      PROVE  AnswersHonest'
  BY <1>3 DEF RequestStore, RequestDrop, SetVerified, domainVars, checkVars
<1>4. ASSUME NEW d \in DomainIds, VerifyCheck(d)
      PROVE  AnswersHonest'
  BY <1>4 DEF VerifyCheck, Lookup, Answer, domainVars, flowVars
<1>5. CASE VerifyStore \/ VerifyUnaudited
  BY <1>5 DEF VerifyStore, VerifyUnaudited, VerifierForgets, SetVerified, flowVars
<1>6. CASE VerifyBegin
  BY <1>6 DEF VerifyBegin, domainVars, flowVars
<1>7. CASE VerifyEnd \/ VerifySkipped \/ VerifyFails
  BY <1>7 DEF VerifyEnd, VerifySkipped, VerifyFails, VerifierForgets, domainVars, flowVars
<1>8. ASSUME NEW listed \in SUBSET PublicNames, NEW fresh \in SUBSET DomainIds,
             Start(listed, fresh)
      PROVE  AnswersHonest'
  BY <1>8 DEF Start, VerifierForgets
<1>9. ASSUME NEW d \in DomainIds,
             CreateDomain(d) \/ DeleteFetch(d) \/ DeleteTx(d) \/ DeleteDrop(d)
      PROVE  AnswersHonest'
  BY <1>1, <1>9 DEF CreateDomain, create_domain, DeleteFetch, DeleteTx, DeleteDrop, domainVars, checkVars,
                    flowVars
<1>10. ASSUME NEW a \in AccountIds,
              \/ CheckDomain(a) \/ CreateAccountDrop(a) \/ DeleteAccount(a)
              \/ \E e \in ExpiryChoices : CreateAccountTx(a, e)
       PROVE  AnswersHonest'
  BY <1>1, <1>10 DEF CheckDomain, CreateAccountDrop, DeleteAccount, CreateAccountTx,
                     domainVars, checkVars, flowVars
<1>11. CASE CleanupSteps \/ CleanupFails \/ Synchronization \/ Environment
  BY <1>1, <1>11 DEF CleanupSteps, CleanupBegin, CleanupAccounts, CleanupDomains,
                     CleanupFails, Environment, TimePasses, ZoneChanges, Synchronization,
                     SyncDomain, ClearRecords, domainVars, checkVars, flowVars
<1>12. CASE UNCHANGED vars
  BY <1>1, <1>12 DEF vars, domainVars, checkVars, flowVars
<1>13. QED
  BY <1>2, <1>3, <1>4, <1>5, <1>6, <1>7, <1>8, <1>9, <1>10, <1>11, <1>12
     DEF Next, Requests, VerifySteps, Faults

\* A step leaves rows as they are, or is one of the few that write them.  Only
\* a start adds to the operator's domains.
RowsChange ==
  \/ UNCHANGED <<row, system>>
  \/ UNCHANGED system /\ \E d \in DomainIds : CreateDomain(d)
  \/ UNCHANGED system /\ \E v \in verdicts : SetVerified(v[1], v[2])
  \/ UNCHANGED system /\ vpc = "store" /\ SetVerified(verdict[1], verdict[2])
  \/ UNCHANGED system /\ \E d \in doomed : row' \in {row, [row EXCEPT ![d] = "removed"]}
  \/ UNCHANGED system /\ row' = [d \in DomainIds |-> IF d \in Stale THEN "removed" ELSE row[d]]
  \/ \E listed \in SUBSET PublicNames, fresh \in SUBSET DomainIds : Start(listed, fresh)

LEMMA RowsChangeSo == TypeOK /\ [Next]_vars => RowsChange /\ proven \subseteq proven'
<1> SUFFICES ASSUME TypeOK, [Next]_vars PROVE RowsChange /\ proven \subseteq proven'
  OBVIOUS
<1>1. CASE \E d \in DomainIds : CreateDomain(d)
  BY <1>1 DEF CreateDomain, create_domain, RowsChange
<1>2. CASE \E v \in Verdicts : RequestStore(v)
  BY <1>2 DEF RequestStore, SetVerified, RowsChange
<1>3. CASE VerifyStore \/ VerifyUnaudited
  BY <1>3 DEF VerifyStore, VerifyUnaudited, SetVerified, RowsChange
<1>4. CASE \E d \in DomainIds : DeleteTx(d)
  BY <1>4 DEF DeleteTx, RowsChange
<1>5. CASE CleanupDomains
  BY <1>5 DEF CleanupDomains, RowsChange
<1>6. CASE \E listed \in SUBSET PublicNames, fresh \in SUBSET DomainIds : Start(listed, fresh)
  <2>1. proven' = proven
    BY <1>6 DEF Start
  <2>2. QED BY <1>6, <2>1 DEF RowsChange
<1>7. CASE UNCHANGED domainVars /\ proven \subseteq proven'
  BY <1>7 DEF domainVars, RowsChange
<1>8. CASE \E d \in DomainIds :
             RequestCheck(d) \/ DeleteFetch(d) \/ DeleteDrop(d) \/ VerifyCheck(d)
  BY <1>7, <1>8 DEF RequestCheck, DeleteFetch, DeleteDrop, VerifyCheck, Lookup
<1>9. CASE \E v \in Verdicts : RequestDrop(v)
  BY <1>7, <1>9 DEF RequestDrop
<1>10. CASE \E a \in AccountIds :
              \/ CheckDomain(a) \/ CreateAccountDrop(a) \/ DeleteAccount(a)
              \/ \E e \in ExpiryChoices : CreateAccountTx(a, e)
  BY <1>7, <1>10 DEF CheckDomain, CreateAccountDrop, DeleteAccount, CreateAccountTx
<1>11. CASE VerifyBegin \/ VerifyEnd \/ VerifySkipped \/ VerifyFails
  BY <1>7, <1>11 DEF VerifyBegin, VerifyEnd, VerifySkipped, VerifyFails
<1>12. CASE CleanupBegin \/ CleanupAccounts \/ CleanupFails \/ Synchronization \/ Environment
  BY <1>7, <1>12 DEF CleanupBegin, CleanupAccounts, CleanupFails, Environment, TimePasses,
                     ZoneChanges, Synchronization, SyncDomain, ClearRecords
<1>13. CASE UNCHANGED vars
  BY <1>7, <1>13 DEF vars
<1>14. QED
  BY <1>1, <1>2, <1>3, <1>4, <1>5, <1>6, <1>8, <1>9, <1>10, <1>11, <1>12, <1>13
     DEF Next, Requests, VerifySteps, CleanupSteps, Faults

----------------------------------------------------------------------------
(* Verified domains                                                        *)

LEMMA SystemActiveStep ==
  TypeOK /\ AnswersHonest /\ DoomedHaveToken /\ SystemActive /\ [Next]_vars
  => /\ SystemActive'
     /\ system \subseteq system'
     /\ \A d \in system : row'[d] = "active"
<1> SUFFICES ASSUME TypeOK, AnswersHonest, DoomedHaveToken, SystemActive, [Next]_vars
             PROVE  SystemActive' /\ system \subseteq system'
  BY DEF SystemActive
<1> USE DEF SystemActive
<1>1. RowsChange
  BY RowsChangeSo
<1>2. CASE UNCHANGED <<row, system>>
  BY <1>2
<1>3. CASE UNCHANGED system /\ \E d \in DomainIds : CreateDomain(d)
  BY <1>3 DEF CreateDomain, create_domain, TypeOK
<1>4. CASE UNCHANGED system /\ \E v \in verdicts : SetVerified(v[1], v[2])
  BY <1>4 DEF SetVerified, AnswersHonest, TypeOK
<1>5. CASE UNCHANGED system /\ vpc = "store" /\ SetVerified(verdict[1], verdict[2])
  BY <1>5 DEF SetVerified, AnswersHonest, TypeOK
<1>6. CASE UNCHANGED system /\ \E d \in doomed : row' \in {row, [row EXCEPT ![d] = "removed"]}
  BY <1>6 DEF DoomedHaveToken, TypeOK
<1>7. CASE /\ UNCHANGED system
           /\ row' = [d \in DomainIds |-> IF d \in Stale THEN "removed" ELSE row[d]]
  BY <1>7 DEF Stale, TypeOK
<1>8. ASSUME NEW listed \in SUBSET PublicNames, NEW fresh \in SUBSET DomainIds,
             Start(listed, fresh)
      PROVE  SystemActive' /\ system \subseteq system'
  BY <1>8 DEF Start, Present, TypeOK
<1>9. QED BY <1>1, <1>2, <1>3, <1>4, <1>5, <1>6, <1>7, <1>8 DEF RowsChange

LEMMA ActiveIsProvenStep ==
  TypeOK /\ AnswersHonest /\ SystemActive /\ ActiveIsProven /\ [Next]_vars
  => ActiveIsProven' /\ system \subseteq system' /\ proven \subseteq proven'
<1> SUFFICES ASSUME TypeOK, AnswersHonest, SystemActive, ActiveIsProven, [Next]_vars
             PROVE  ActiveIsProven' /\ system \subseteq system' /\ proven \subseteq proven'
  OBVIOUS
<1> USE DEF ActiveIsProven
<1>1. RowsChange /\ proven \subseteq proven'
  BY RowsChangeSo
<1>2. CASE UNCHANGED <<row, system>>
  BY <1>1, <1>2
<1>3. CASE UNCHANGED system /\ \E d \in DomainIds : CreateDomain(d)
  BY <1>1, <1>3 DEF CreateDomain, create_domain, TypeOK
<1>4. CASE UNCHANGED system /\ \E v \in verdicts : SetVerified(v[1], v[2])
  BY <1>1, <1>4 DEF SetVerified, AnswersHonest, TypeOK
<1>5. CASE UNCHANGED system /\ vpc = "store" /\ SetVerified(verdict[1], verdict[2])
  BY <1>1, <1>5 DEF SetVerified, AnswersHonest, TypeOK
<1>6. CASE UNCHANGED system /\ \E d \in doomed : row' \in {row, [row EXCEPT ![d] = "removed"]}
  BY <1>1, <1>6 DEF TypeOK
<1>7. CASE /\ UNCHANGED system
           /\ row' = [d \in DomainIds |-> IF d \in Stale THEN "removed" ELSE row[d]]
  BY <1>1, <1>7
<1>8. ASSUME NEW listed \in SUBSET PublicNames, NEW fresh \in SUBSET DomainIds,
             Start(listed, fresh)
      PROVE  ActiveIsProven' /\ system \subseteq system'
  BY <1>1, <1>8 DEF Start
<1>9. QED BY <1>1, <1>2, <1>3, <1>4, <1>5, <1>6, <1>7, <1>8 DEF RowsChange

LEMMA DoomedHaveTokenStep == TypeOK /\ DoomedHaveToken /\ [Next]_vars => DoomedHaveToken'
<1> SUFFICES ASSUME TypeOK, DoomedHaveToken, [Next]_vars PROVE DoomedHaveToken'
  OBVIOUS
<1> USE DEF DoomedHaveToken
<1>1. CASE UNCHANGED system /\ doomed' \subseteq doomed
  BY <1>1
<1>2. CASE \E d \in DomainIds : DeleteFetch(d)
  BY <1>2 DEF DeleteFetch, domainVars
<1>3. CASE \E d \in DomainIds :
             CreateDomain(d) \/ RequestCheck(d) \/ DeleteTx(d) \/ DeleteDrop(d)
  BY <1>1, <1>3 DEF CreateDomain, create_domain, RequestCheck, DeleteTx, DeleteDrop, domainVars, flowVars
<1>4. CASE \E v \in Verdicts : RequestStore(v) \/ RequestDrop(v)
  BY <1>1, <1>4 DEF RequestStore, RequestDrop, SetVerified, domainVars
<1>5. CASE \E a \in AccountIds :
             \/ CheckDomain(a) \/ CreateAccountDrop(a) \/ DeleteAccount(a)
             \/ \E e \in ExpiryChoices : CreateAccountTx(a, e)
  BY <1>1, <1>5 DEF CheckDomain, CreateAccountDrop, DeleteAccount, CreateAccountTx,
                    domainVars, flowVars
<1>6. CASE VerifySteps \/ VerifyFails \/ VerifyUnaudited
  BY <1>1, <1>6 DEF VerifySteps, VerifyBegin, VerifyCheck, VerifyStore, VerifySkipped,
                    VerifyEnd, VerifyFails, VerifyUnaudited, SetVerified, domainVars, flowVars
<1>7. CASE CleanupSteps \/ CleanupFails \/ Synchronization \/ Environment
  BY <1>1, <1>7 DEF CleanupSteps, CleanupBegin, CleanupAccounts, CleanupDomains,
                    CleanupFails, Environment, TimePasses, ZoneChanges, Synchronization,
                    SyncDomain, ClearRecords, domainVars, flowVars
<1>8. CASE \E listed \in SUBSET PublicNames, fresh \in SUBSET DomainIds : Start(listed, fresh)
  BY <1>8 DEF Start
<1>9. CASE UNCHANGED vars
  BY <1>1, <1>9 DEF vars, domainVars, flowVars
<1>10. QED
  BY <1>2, <1>3, <1>4, <1>5, <1>6, <1>7, <1>8, <1>9 DEF Next, Requests, Faults

LEMMA MailboxesStep ==
  /\ TypeOK /\ ActiveIsProven /\ VettedUnderProven /\ MailboxesUnderProven /\ [Next]_vars
  /\ system \subseteq system' /\ proven \subseteq proven'
  => VettedUnderProven' /\ MailboxesUnderProven'
<1> SUFFICES ASSUME TypeOK, ActiveIsProven, VettedUnderProven, MailboxesUnderProven,
                    [Next]_vars, system \subseteq system', proven \subseteq proven'
             PROVE  VettedUnderProven' /\ MailboxesUnderProven'
  OBVIOUS
<1> USE DEF VettedUnderProven, MailboxesUnderProven
\* only an account that was vetted stops being unused
<1>1. CASE /\ vetted' \subseteq vetted
           /\ \A a \in AccountIds : status'[a] # "unused" => status[a] # "unused" \/ a \in vetted
  BY <1>1 DEF TypeOK
<1>2. ASSUME NEW a \in AccountIds, CheckDomain(a)
      PROVE  VettedUnderProven' /\ MailboxesUnderProven'
  <2>1. \E d \in system \cup proven : NameOf[d] = DomainOf[AddressOf[a]]
    BY <1>2 DEF CheckDomain, ActiveIsProven
  <2>2. QED BY <1>2, <2>1 DEF CheckDomain, accountVars, domainVars
<1>3. ASSUME NEW a \in AccountIds,
             \/ CreateAccountDrop(a) \/ DeleteAccount(a)
             \/ \E e \in ExpiryChoices : CreateAccountTx(a, e)
      PROVE  VettedUnderProven' /\ MailboxesUnderProven'
  BY <1>1, <1>3 DEF CreateAccountDrop, DeleteAccount, Active, CreateAccountTx, InsertAccount,
                    SoftDelete, accountVars, flowVars, TypeOK, AccountsTypeOK
<1>4. CASE \E d \in DomainIds :
             CreateDomain(d) \/ RequestCheck(d) \/ DeleteFetch(d) \/ DeleteDrop(d)
  BY <1>1, <1>4 DEF CreateDomain, create_domain, RequestCheck, DeleteFetch, DeleteDrop, accountVars, flowVars
<1>5. CASE \E d \in DomainIds : DeleteTx(d)
  BY <1>1, <1>5 DEF DeleteTx, SoftDelete, AccountsUnder
<1>6. CASE \E v \in Verdicts : RequestStore(v) \/ RequestDrop(v)
  BY <1>1, <1>6 DEF RequestStore, RequestDrop, accountVars
<1>7. CASE VerifySteps \/ VerifyFails \/ VerifyUnaudited
  BY <1>1, <1>7 DEF VerifySteps, VerifyBegin, VerifyCheck, VerifyStore, VerifySkipped,
                    VerifyEnd, VerifyFails, VerifyUnaudited, accountVars, flowVars
<1>8. CASE CleanupAccounts
  BY <1>1, <1>8 DEF CleanupAccounts, SoftDelete, flowVars
<1>9. CASE CleanupBegin \/ CleanupDomains \/ CleanupFails \/ Synchronization \/ Environment
  BY <1>1, <1>9 DEF CleanupBegin, CleanupDomains, CleanupFails, Environment, TimePasses,
                    Tick, ZoneChanges, Synchronization, SyncDomain, ClearRecords,
                    accountVars, flowVars
<1>10. CASE \E listed \in SUBSET PublicNames, fresh \in SUBSET DomainIds : Start(listed, fresh)
  BY <1>1, <1>10 DEF Start, accountVars
<1>11. CASE UNCHANGED vars
  BY <1>1, <1>11 DEF vars, accountVars, flowVars
<1>12. QED
  BY <1>2, <1>3, <1>4, <1>5, <1>6, <1>7, <1>8, <1>9, <1>10, <1>11
     DEF Next, Requests, CleanupSteps, Faults

LEMMA ProofInvCorrect == Spec => []ProofInv
<1>1. Init => ProofInv
  <2>1. Init => TypeOK
    BY TypeInit
  <2>2. QED BY <2>1
            DEF Init, AccountsInit, ProofInv, AnswersHonest, DoomedHaveToken, SystemActive,
                ActiveIsProven, VettedUnderProven, MailboxesUnderProven
<1>2. ProofInv /\ [Next]_vars => ProofInv'
  BY TypeStep, AnswersHonestStep, SystemActiveStep, ActiveIsProvenStep, DoomedHaveTokenStep,
     MailboxesStep
     DEF ProofInv
<1>3. QED BY <1>1, <1>2, PTL DEF Spec

\* Only a domain that DNS vouched for, by its own token, or that the operator
\* listed is ever usable.
THEOREM NoUnprovenDomain == Spec => []ActiveIsProven
<1>1. ProofInv => ActiveIsProven
  BY DEF ProofInv
<1>2. QED BY <1>1, ProofInvCorrect, PTL

\* No mailbox exists under a name that nobody proved to control.
THEOREM NoUnprovenMailbox == Spec => []MailboxesUnderProven
<1>1. ProofInv => MailboxesUnderProven
  BY DEF ProofInv
<1>2. QED BY <1>1, ProofInvCorrect, PTL

\* The operator's domains are out of reach of every request and worker.
THEOREM SystemDomainsStay == Spec => SystemStaysActive
<1>1. ProofInv /\ [Next]_vars
      => [\A d \in system : row'[d] = "active" /\ d \in system']_vars
  BY SystemActiveStep DEF ProofInv
<1>2. QED BY <1>1, ProofInvCorrect, PTL DEF Spec, SystemStaysActive

----------------------------------------------------------------------------
(* The accounts table                                                      *)

LEMMA AccountsStep == TypeOK /\ [Next]_vars => [AccountsNext]_accountVars
<1> SUFFICES ASSUME TypeOK, [Next]_vars PROVE [AccountsNext]_accountVars
  OBVIOUS
<1>1. ASSUME NEW rows \in SUBSET AccountIds, SoftDelete(rows, "deleted"),
             \A a \in rows : status[a] = "live"
      PROVE  AccountsNext
  <2>1. rows \in SUBSET {a \in AccountIds : status[a] # "unused"}
    BY <1>1
  <2>2. QED BY <1>1, <2>1 DEF AccountsNext
<1>2. CASE \E a \in AccountIds, e \in ExpiryChoices : CreateAccountTx(a, e)
  BY <1>2 DEF CreateAccountTx, AccountsNext
<1>3. CASE \E a \in AccountIds : DeleteAccount(a)
  <2>1. PICK a \in AccountIds : DeleteAccount(a)
    BY <1>3
  <2>2. {a} \in SUBSET AccountIds /\ status[a] = "live"
    BY <2>1 DEF DeleteAccount, Active
  <2>3. QED BY <1>1, <2>1, <2>2 DEF DeleteAccount
<1>4. CASE \E d \in DomainIds : DeleteTx(d)
  BY <1>1, <1>4 DEF DeleteTx, AccountsUnder
<1>5. CASE CleanupAccounts
  <2> DEFINE rows == {a \in AccountIds : status[a] = "live" /\ expires[a] <= now}
  <2>1. rows \in SUBSET {a \in AccountIds : status[a] # "unused"}
    OBVIOUS
  <2>2. (\A a \in rows : expires[a] <= now) /\ SoftDelete(rows, "expired")
    BY <1>5 DEF CleanupAccounts
  <2>3. QED BY <2>1, <2>2 DEF AccountsNext
<1>6. CASE TimePasses
  BY <1>6 DEF TimePasses, AccountsNext
<1>7. CASE \/ Synchronization
           \/ \E d \in DomainIds :
                CreateDomain(d) \/ RequestCheck(d) \/ DeleteFetch(d) \/ DeleteDrop(d)
  BY <1>7 DEF CreateDomain, create_domain, RequestCheck, DeleteFetch, DeleteDrop, Synchronization, SyncDomain,
              ClearRecords
<1>8. CASE \E v \in Verdicts : RequestStore(v) \/ RequestDrop(v)
  BY <1>8 DEF RequestStore, RequestDrop
<1>9. CASE \E a \in AccountIds : CheckDomain(a) \/ CreateAccountDrop(a)
  BY <1>9 DEF CheckDomain, CreateAccountDrop
<1>10. CASE VerifySteps \/ VerifyFails \/ VerifyUnaudited
  BY <1>10 DEF VerifySteps, VerifyBegin, VerifyCheck, VerifyStore, VerifySkipped, VerifyEnd,
               VerifyFails, VerifyUnaudited
<1>11. CASE CleanupBegin \/ CleanupDomains \/ CleanupFails
  BY <1>11 DEF CleanupBegin, CleanupDomains, CleanupFails
<1>12. CASE \/ \E r \in DnsRecords : ZoneChanges(r)
            \/ \E listed \in SUBSET PublicNames, fresh \in SUBSET DomainIds :
                 Start(listed, fresh)
  BY <1>12 DEF ZoneChanges, Start
<1>13. CASE UNCHANGED vars
  BY <1>13 DEF vars
<1>14. QED
  BY <1>2, <1>3, <1>4, <1>5, <1>6, <1>7, <1>8, <1>9, <1>10, <1>11, <1>12, <1>13
     DEF Next, Requests, CleanupSteps, Faults, Environment

\* Domains writes the accounts table by the same statements as Ingest: what
\* AccountsProofs says of the table holds of both.
THEOREM KeepsAccounts == Spec => AccountsSpec
<1>1. Init => AccountsInit
  BY DEF Init
<1>2. Spec => []TypeOK
  BY TypeCorrect
<1>3. QED BY <1>1, <1>2, AccountsStep, PTL DEF Spec, AccountsSpec

----------------------------------------------------------------------------
(* The promise of managed domains                                          *)

\* The UNIQUE index: a name has one row at most.
NamesUnique == \A d, e \in Present : NameOf[d] = NameOf[e] => d = e

\* The verifier asks DNS about rows that exist, or did.
PendingKnown == \A d \in pending : row[d] # "unborn"

PromiseInv == ProofInv /\ NamesUnique /\ PendingKnown

\* Storing an answer neither adds a row nor removes one.
LEMMA SetVerifiedKeepsRows ==
  ASSUME TypeOK, NEW d \in DomainIds, NEW result, SetVerified(d, result)
  PROVE  /\ Present' = Present
         /\ \A e \in DomainIds : row'[e] = "unborn" <=> row[e] = "unborn"
  BY DEF SetVerified, Present, TypeOK

\* Which rows exist changes by a registration, a removal, or a start.
LEMMA NamesUniqueStep == ProofInv /\ NamesUnique /\ [Next]_vars => NamesUnique'
<1> SUFFICES ASSUME ProofInv, NamesUnique, [Next]_vars PROVE NamesUnique'
  OBVIOUS
<1> TypeOK
  BY DEF ProofInv
<1> USE DEF NamesUnique
<1>1. RowsChange
  BY RowsChangeSo
<1>2. CASE Present' \subseteq Present
  BY <1>2
<1>3. CASE UNCHANGED <<row, system>>
  BY <1>2, <1>3 DEF Present
<1>4. CASE \E d \in DomainIds : CreateDomain(d)
  BY <1>4 DEF CreateDomain, create_domain, NameFree, Present, TypeOK
<1>5. CASE \E v \in verdicts : SetVerified(v[1], v[2])
  BY <1>2, <1>5, SetVerifiedKeepsRows DEF TypeOK, Verdicts
<1>6. CASE vpc = "store" /\ SetVerified(verdict[1], verdict[2])
  BY <1>2, <1>6, SetVerifiedKeepsRows DEF TypeOK, Verdicts
<1>7. CASE \E d \in doomed : row' \in {row, [row EXCEPT ![d] = "removed"]}
  BY <1>2, <1>7 DEF Present, TypeOK
<1>8. CASE row' = [d \in DomainIds |-> IF d \in Stale THEN "removed" ELSE row[d]]
  BY <1>2, <1>8 DEF Present
<1>9. ASSUME NEW listed \in SUBSET PublicNames, NEW fresh \in SUBSET DomainIds,
             Start(listed, fresh)
      PROVE  NamesUnique'
  <2>1. Present' = Present \cup fresh
    BY <1>9 DEF Start, Present
  <2>2. \A d \in fresh, e \in Present : NameOf[d] # NameOf[e]
    BY <1>9 DEF Start, NameFree
  <2>3. \A d, e \in fresh : NameOf[d] = NameOf[e] => d = e
    BY <1>9 DEF Start
  <2>4. QED BY <2>1, <2>2, <2>3
<1>10. QED BY <1>1, <1>3, <1>4, <1>5, <1>6, <1>7, <1>8, <1>9 DEF RowsChange

LEMMA PendingKnownStep == TypeOK /\ PendingKnown /\ [Next]_vars => PendingKnown'
<1> SUFFICES ASSUME TypeOK, PendingKnown, [Next]_vars PROVE PendingKnown'
  OBVIOUS
<1> USE DEF PendingKnown
<1>1. CASE UNCHANGED row /\ pending' \subseteq pending
  BY <1>1
<1>2. CASE pending' = {}
  BY <1>2
<1>3. CASE VerifyBegin
  BY <1>3 DEF VerifyBegin, domainVars
<1>4. CASE VerifyStore
  BY <1>4, SetVerifiedKeepsRows DEF VerifyStore, TypeOK, Verdicts
<1>5. CASE \E d \in DomainIds : CreateDomain(d)
  BY <1>5 DEF CreateDomain, create_domain, checkVars, TypeOK
<1>6. CASE \E v \in Verdicts : RequestStore(v)
  BY <1>6, SetVerifiedKeepsRows DEF RequestStore, TypeOK, Verdicts, checkVars
<1>7. CASE \E d \in DomainIds : DeleteTx(d)
  BY <1>7 DEF DeleteTx, checkVars, TypeOK
<1>8. CASE CleanupDomains
  BY <1>8 DEF CleanupDomains, checkVars, TypeOK
<1>9. CASE VerifyFails \/ VerifyUnaudited
           \/ \E listed \in SUBSET PublicNames, fresh \in SUBSET DomainIds : Start(listed, fresh)
  BY <1>2, <1>9 DEF VerifyFails, VerifyUnaudited, Start, VerifierForgets
<1>10. CASE \E d \in DomainIds :
              RequestCheck(d) \/ DeleteFetch(d) \/ DeleteDrop(d) \/ VerifyCheck(d)
  BY <1>1, <1>10 DEF RequestCheck, DeleteFetch, DeleteDrop, VerifyCheck, domainVars, checkVars
<1>11. CASE \E v \in Verdicts : RequestDrop(v)
  BY <1>1, <1>11 DEF RequestDrop, domainVars, checkVars
<1>12. CASE \E a \in AccountIds :
              \/ CheckDomain(a) \/ CreateAccountDrop(a) \/ DeleteAccount(a)
              \/ \E e \in ExpiryChoices : CreateAccountTx(a, e)
  BY <1>1, <1>12 DEF CheckDomain, CreateAccountDrop, DeleteAccount, CreateAccountTx,
                     domainVars, checkVars
<1>13. CASE VerifyEnd \/ VerifySkipped
  BY <1>1, <1>13 DEF VerifyEnd, VerifySkipped, domainVars
<1>14. CASE CleanupBegin \/ CleanupAccounts \/ CleanupFails \/ Synchronization \/ Environment
  BY <1>1, <1>14 DEF CleanupBegin, CleanupAccounts, CleanupFails, Environment, TimePasses,
                     ZoneChanges, Synchronization, SyncDomain, ClearRecords, domainVars,
                     checkVars
<1>15. CASE UNCHANGED vars
  BY <1>1, <1>15 DEF vars, domainVars, checkVars
<1>16. QED
  BY <1>3, <1>4, <1>5, <1>6, <1>7, <1>8, <1>9, <1>10, <1>11, <1>12, <1>13, <1>14, <1>15
     DEF Next, Requests, VerifySteps, CleanupSteps, Faults

LEMMA PromiseInvCorrect == Spec => []PromiseInv
<1>1. Init => NamesUnique /\ PendingKnown
  BY DEF Init, NamesUnique, PendingKnown, Present
<1>2. ProofInv /\ NamesUnique /\ PendingKnown /\ [Next]_vars
      => NamesUnique' /\ PendingKnown'
  BY NamesUniqueStep, PendingKnownStep DEF ProofInv
<1>3. QED BY <1>1, <1>2, ProofInvCorrect, PTL DEF Spec, PromiseInv

\* A stored answer verifies a registration that DNS vouched for, doubts one
\* that the operator has not listed, or changes nothing.
LEMMA AnswerKeepsPromise ==
  ASSUME TypeOK, NEW d \in DomainIds \ system, NEW result \in {"verified", "failed"},
         result = "verified" => d \in proven, SetVerified(d, result), UNCHANGED status
  PROVE  [Promise!Next]_Promise!promiseVars
<1>1. /\ Present' = Present
      /\ {e \in DomainIds : row'[e] # "unborn"} = {e \in DomainIds : row[e] # "unborn"}
  BY SetVerifiedKeepsRows
<1>2. UNCHANGED <<system, proven>> /\ d \in Present
  BY DEF SetVerified
<1>3. CASE result = "verified"
  <2>1. {e \in DomainIds : row'[e] = "active"} = {e \in DomainIds : row[e] = "active"} \cup {d}
    BY <1>3 DEF SetVerified, TypeOK
  <2>2. Promise!Verify(d)
    BY <1>1, <1>2, <1>3, <2>1 DEF Promise!Verify
  <2>3. QED BY <2>2 DEF Promise!Next
<1>4. CASE result = "failed" /\ row[d] = "active"
  <2>1. {e \in DomainIds : row'[e] = "active"} = {e \in DomainIds : row[e] = "active"} \ {d}
    BY <1>4 DEF SetVerified, TypeOK
  <2>2. Promise!Doubt(d)
    BY <1>1, <1>2, <1>4, <2>1 DEF Promise!Doubt
  <2>3. QED BY <2>2 DEF Promise!Next
<1>5. CASE result = "failed" /\ row[d] # "active"
  <2>1. row' = row
    BY <1>5 DEF SetVerified, Present, TypeOK
  <2>2. QED BY <1>2, <2>1 DEF Promise!promiseVars, Present
<1>6. QED BY <1>3, <1>4, <1>5

\* The promise speaks of accounts by whether they were ever opened.
LEMMA RemovalsOpenNothing ==
  ASSUME NEW rows, NEW how \in {"deleted", "expired"}, SoftDelete(rows, how),
         \A a \in AccountIds \cap rows : status[a] # "unused"
  PROVE  {a \in AccountIds : status'[a] # "unused"} = {a \in AccountIds : status[a] # "unused"}
  BY DEF SoftDelete

LEMMA PromiseStep == PromiseInv /\ [Next]_vars => [Promise!Next]_Promise!promiseVars
<1> SUFFICES ASSUME PromiseInv, [Next]_vars PROVE [Promise!Next]_Promise!promiseVars
  OBVIOUS
<1> TypeOK
  BY DEF PromiseInv, ProofInv
<1> DEFINE known  == {d \in DomainIds : row[d] # "unborn"}
           usable == {d \in DomainIds : row[d] = "active"}
           opened == {a \in AccountIds : status[a] # "unused"}
<1>1. ASSUME UNCHANGED <<row, system, proven, opened>>
      PROVE  UNCHANGED Promise!promiseVars
  BY <1>1 DEF Promise!promiseVars, Present
<1>2. ASSUME NEW d \in known, Lookup(d), UNCHANGED <<row, system, opened>>
      PROVE  [Promise!Next]_Promise!promiseVars
  <2>1. CASE Found(d)
    <3>1. Promise!Vouch(d)
      BY <1>2, <2>1 DEF Lookup, Promise!Vouch, Present
    <3>2. QED BY <3>1 DEF Promise!Next
  <2>2. CASE ~Found(d)
    BY <1>1, <1>2, <2>2 DEF Lookup
  <2>3. QED BY <2>1, <2>2
<1>3. ASSUME NEW d \in DomainIds, CreateDomain(d)
      PROVE  Promise!Next
  <2>1. /\ known' = known \cup {d} /\ d \notin known
        /\ Present' = Present \cup {d}
        /\ usable' = usable
    BY <1>3 DEF CreateDomain, create_domain, Present, TypeOK
  <2>2. \A e \in Present : NameOf[e] # NameOf[d]
    BY <1>3 DEF CreateDomain, create_domain, NameFree
  <2>3. Promise!Register(d)
    BY <1>3, <2>1, <2>2 DEF CreateDomain, create_domain, accountVars, Promise!Register, Promise!Enter
  <2>4. QED BY <2>3 DEF Promise!Next
<1>4. ASSUME NEW ds \in SUBSET (Present \ system),
             row' = [d \in DomainIds |-> IF d \in ds THEN "removed" ELSE row[d]],
             UNCHANGED <<system, proven, opened>>
      PROVE  Promise!Next
  <2>1. /\ known' = known
        /\ Present' = Present \ ds
        /\ usable' = usable \ ds
    BY <1>4 DEF Present
  <2>2. Promise!Remove(ds)
    BY <1>4, <2>1 DEF Promise!Remove
  <2>3. ds \in SUBSET DomainIds
    BY DEF Present
  <2>4. QED BY <2>2, <2>3 DEF Promise!Next
<1>5. ASSUME NEW d \in DomainIds, DeleteTx(d)
      PROVE  [Promise!Next]_Promise!promiseVars
  <2>1. opened' = opened
    BY <1>5, RemovalsOpenNothing DEF DeleteTx, AccountsUnder
  <2>2. d \notin system
    BY <1>5 DEF DeleteTx, PromiseInv, ProofInv, DoomedHaveToken
  <2>3. CASE d \in Present
    <3>1. row' = [e \in DomainIds |-> IF e \in {d} THEN "removed" ELSE row[e]]
      BY <1>5, <2>3 DEF DeleteTx, TypeOK
    <3>2. {d} \in SUBSET (Present \ system) /\ UNCHANGED <<system, proven>>
      BY <1>5, <2>2, <2>3 DEF DeleteTx
    <3>3. QED BY <1>4, <2>1, <3>1, <3>2
  <2>4. CASE d \notin Present
    BY <1>1, <1>5, <2>1, <2>4 DEF DeleteTx
  <2>5. QED BY <2>3, <2>4
<1>6. CASE CleanupDomains
  <2>1. Stale \in SUBSET (Present \ system)
    BY DEF Stale, Present, PromiseInv, ProofInv, SystemActive
  <2>2. QED BY <1>4, <1>6, <2>1 DEF CleanupDomains, accountVars
<1>7. ASSUME NEW v \in Verdicts, RequestStore(v)
      PROVE  [Promise!Next]_Promise!promiseVars
  <2>1. /\ v[1] \in DomainIds \ system /\ v[2] \in {"verified", "failed"}
        /\ v[2] = "verified" => v[1] \in proven
    BY <1>7 DEF RequestStore, PromiseInv, ProofInv, AnswersHonest, Verdicts
  <2>2. QED BY <1>7, <2>1, AnswerKeepsPromise DEF RequestStore, accountVars
<1>8. CASE VerifyStore \/ VerifyUnaudited
  <2>1. vpc = "store"
    BY <1>8 DEF VerifyStore, VerifyUnaudited
  <2>2. /\ verdict[1] \in DomainIds \ system /\ verdict[2] \in {"verified", "failed"}
        /\ verdict[2] = "verified" => verdict[1] \in proven
    BY <2>1 DEF PromiseInv, ProofInv, AnswersHonest, TypeOK, Verdicts
  <2>3. QED BY <1>8, <2>2, AnswerKeepsPromise DEF VerifyStore, VerifyUnaudited, accountVars
<1>9. ASSUME NEW d \in DomainIds, RequestCheck(d) \/ VerifyCheck(d)
      PROVE  [Promise!Next]_Promise!promiseVars
  <2>1. d \in known
    BY <1>9 DEF RequestCheck, VerifyCheck, Present, PromiseInv, PendingKnown
  <2>2. QED BY <1>2, <1>9, <2>1 DEF RequestCheck, VerifyCheck, domainVars, accountVars
<1>10. ASSUME NEW names \in SUBSET PublicNames, NEW fresh \in SUBSET DomainIds,
              Start(names, fresh)
       PROVE  Promise!Next
  <2> DEFINE taken == {d \in Present : NameOf[d] \in names}
  <2>1. /\ fresh \cap known = {}
        /\ taken \subseteq Present /\ taken \in SUBSET DomainIds
        /\ row' = [d \in DomainIds |-> IF d \in fresh \cup taken THEN "active" ELSE row[d]]
    BY <1>10 DEF Start, Present
  <2>2. /\ known' = known \cup fresh
        /\ Present' = Present \cup fresh
        /\ usable' = usable \cup taken \cup fresh
    BY <2>1 DEF Present
  <2>3. \A d \in fresh, e \in Present \cup fresh : NameOf[d] = NameOf[e] => d = e
    BY <1>10 DEF Start, NameFree
  <2>4. /\ system' = system \cup taken \cup fresh
        /\ UNCHANGED <<proven, opened>>
    BY <1>10 DEF Start, accountVars
  <2>5. Promise!List(taken, fresh)
    BY <2>1, <2>2, <2>3, <2>4 DEF Promise!List, Promise!Enter
  <2>6. QED BY <2>1, <2>5 DEF Promise!Next
<1>11. ASSUME NEW a \in AccountIds, NEW e \in ExpiryChoices, CreateAccountTx(a, e)
       PROVE  Promise!Next
  <2>1. opened' = opened \cup {a}
    BY <1>11 DEF CreateAccountTx, InsertAccount, TypeOK, AccountsTypeOK
  <2>2. \E d \in proven \cup system : NameOf[d] = DomainOf[AddressOf[a]]
    BY <1>11 DEF CreateAccountTx, PromiseInv, ProofInv, VettedUnderProven
  <2>3. Promise!Open(a)
    BY <1>11, <2>1, <2>2 DEF CreateAccountTx, domainVars, Present, Promise!Open
  <2>4. QED BY <2>3 DEF Promise!Next
<1>12. ASSUME NEW a \in AccountIds, DeleteAccount(a)
       PROVE  [Promise!Next]_Promise!promiseVars
  <2>1. opened' = opened
    BY <1>12, RemovalsOpenNothing DEF DeleteAccount, Active
  <2>2. QED BY <1>1, <1>12, <2>1 DEF DeleteAccount, domainVars
<1>13. CASE CleanupAccounts
  <2>1. opened' = opened
    BY <1>13, RemovalsOpenNothing DEF CleanupAccounts
  <2>2. QED BY <1>1, <1>13, <2>1 DEF CleanupAccounts, domainVars
<1>14. CASE \E a \in AccountIds : CheckDomain(a) \/ CreateAccountDrop(a)
  BY <1>1, <1>14 DEF CheckDomain, CreateAccountDrop, accountVars, domainVars
<1>15. CASE \/ \E d \in DomainIds : DeleteFetch(d) \/ DeleteDrop(d)
            \/ \E v \in Verdicts : RequestDrop(v)
  BY <1>1, <1>15 DEF DeleteFetch, DeleteDrop, RequestDrop, accountVars, domainVars
<1>16. CASE VerifyBegin \/ VerifySkipped \/ VerifyEnd \/ VerifyFails
  BY <1>1, <1>16 DEF VerifyBegin, VerifySkipped, VerifyEnd, VerifyFails, accountVars,
                     domainVars
<1>17. CASE CleanupBegin \/ CleanupFails \/ Synchronization \/ Environment
  BY <1>1, <1>17 DEF CleanupBegin, CleanupFails, Environment, TimePasses, Tick,
                     ZoneChanges, Synchronization, SyncDomain, ClearRecords, accountVars,
                     domainVars
<1>18. CASE UNCHANGED vars
  BY <1>1, <1>18 DEF vars, accountVars, domainVars
<1>19. QED
  BY <1>3, <1>5, <1>6, <1>7, <1>8, <1>9, <1>10, <1>11, <1>12, <1>13, <1>14, <1>15, <1>16,
     <1>17, <1>18
     DEF Next, Requests, VerifySteps, CleanupSteps, Faults

\* Managed domains implement the promise of module Registry: names are given to
\* one registration at a time, and answers, deletions and restarts, however
\* late, count for the registration they are about.
THEOREM ImplementsRegistry == Spec => KeepsRegistry
<1>1. Init => Promise!Init
  BY DEF Init, AccountsInit, Present, Promise!Init
<1>2. QED
  BY <1>1, PromiseStep, PromiseInvCorrect, PTL DEF Spec, KeepsRegistry, Promise!Spec

-----------------------------------------------------------------------------
(* What the promise is worth: the following holds of every behaviour that  *)
(* module Registry allows, so of every implementation of it.  The proofs   *)
(* use nothing of Domains.                                                 *)

\* The promise's variables, named: what module Registry is about.
Known == {d \in DomainIds : row[d] # "unborn"}
Usable == {d \in DomainIds : row[d] = "active"}
Opened == {a \in AccountIds : status[a] # "unused"}

\* A name stands for one registration at most.
NamesStandForOne ==
  /\ Present \subseteq Known
  /\ \A d, e \in Present : NameOf[d] = NameOf[e] => d = e

\* What is usable stands, and was vouched for under its own token or listed; what
\* is listed is usable.
UsableIsEarned ==
  /\ Usable \subseteq Present \cap (proven \cup system)
  /\ system \subseteq Usable
  /\ proven \subseteq Known

\* Mailboxes lie under names that were vouched for or listed once.
OpenedUnderEarned ==
  \A a \in Opened : \E d \in proven \cup system : NameOf[d] = DomainOf[AddressOf[a]]

RegistrySafe == NamesStandForOne /\ UsableIsEarned /\ OpenedUnderEarned

\* What is gone never stands again, and what is listed stays listed and usable.
NothingReturns ==
  /\ (Known \ Present) \cap Present' = {}
  /\ system \subseteq system' \cap Usable'

LEMMA RegistryKeepsSafe ==
  ASSUME RegistrySafe, [Promise!Next]_(Promise!promiseVars)
  PROVE  RegistrySafe' /\ NothingReturns
<1> USE DEF RegistrySafe, NamesStandForOne, UsableIsEarned, OpenedUnderEarned, NothingReturns
<1>1. ASSUME NEW d \in DomainIds, Promise!Register(d) PROVE RegistrySafe' /\ NothingReturns
  <2>1. /\ d \notin Known
        /\ \A e \in Present \cup {d} : NameOf[d] = NameOf[e] => d = e
        /\ Known' = Known \cup {d}
        /\ Present' = Present \cup {d}
        /\ UNCHANGED <<Usable, system, proven, Opened>>
    BY <1>1 DEF Promise!Register, Promise!Enter, Known, Usable, Opened
  <2>2. QED BY <2>1
<1>2. ASSUME NEW d \in DomainIds, Promise!Vouch(d) PROVE RegistrySafe' /\ NothingReturns
  <2>1. /\ d \in Known /\ proven' = proven \cup {d}
        /\ UNCHANGED <<Known, Present, Usable, system, Opened>>
    BY <1>2 DEF Promise!Vouch, Known, Usable, Opened
  <2>2. QED BY <2>1
<1>3. ASSUME NEW d \in DomainIds, Promise!Verify(d) PROVE RegistrySafe' /\ NothingReturns
  <2>1. /\ d \in Present \cap proven /\ Usable' = Usable \cup {d}
        /\ UNCHANGED <<Known, Present, system, proven, Opened>>
    BY <1>3 DEF Promise!Verify, Known, Usable, Opened
  <2>2. QED BY <2>1
<1>4. ASSUME NEW d \in DomainIds, Promise!Doubt(d) PROVE RegistrySafe' /\ NothingReturns
  <2>1. /\ d \in Usable \ system /\ Usable' = Usable \ {d}
        /\ UNCHANGED <<Known, Present, system, proven, Opened>>
    BY <1>4 DEF Promise!Doubt, Known, Usable, Opened
  <2>2. QED BY <2>1
<1>5. ASSUME NEW ds \in SUBSET DomainIds, Promise!Remove(ds)
      PROVE  RegistrySafe' /\ NothingReturns
  <2>1. /\ ds \subseteq Present \ system
        /\ Present' = Present \ ds /\ Usable' = Usable \ ds
        /\ UNCHANGED <<Known, system, proven, Opened>>
    BY <1>5 DEF Promise!Remove, Known, Usable, Opened
  <2>2. QED BY <2>1
<1>6. ASSUME NEW old \in SUBSET DomainIds, NEW new \in SUBSET DomainIds, Promise!List(old, new)
      PROVE  RegistrySafe' /\ NothingReturns
  <2>1. /\ old \subseteq Present /\ new \cap Known = {}
        /\ \A d \in new, e \in Present \cup new : NameOf[d] = NameOf[e] => d = e
        /\ Known' = Known \cup new /\ Present' = Present \cup new
        /\ Usable' = Usable \cup old \cup new
        /\ system' = system \cup old \cup new
        /\ UNCHANGED <<proven, Opened>>
    BY <1>6 DEF Promise!List, Promise!Enter, Known, Usable, Opened
  <2>2. QED BY <2>1
<1>7. ASSUME NEW a \in AccountIds, Promise!Open(a) PROVE RegistrySafe' /\ NothingReturns
  <2>1. /\ \E d \in proven \cup system : NameOf[d] = DomainOf[AddressOf[a]]
        /\ Opened' = Opened \cup {a}
        /\ UNCHANGED <<Known, Present, Usable, system, proven>>
    BY <1>7 DEF Promise!Open, Known, Usable, Opened
  <2>2. QED BY <2>1
<1>8. CASE UNCHANGED Promise!promiseVars
  <2>1. UNCHANGED <<Known, Present, Usable, system, proven, Opened>>
    BY <1>8 DEF Promise!promiseVars, Known, Usable, Opened
  <2>2. QED BY <2>1
<1>9. QED BY <1>1, <1>2, <1>3, <1>4, <1>5, <1>6, <1>7, <1>8 DEF Promise!Next

\* Whatever implements Registry lets a name stand for one registration at a time,
\* makes usable only what DNS vouched for or the operator listed, opens mailboxes
\* under such names alone, and never brings back what is gone.
THEOREM RegistryIsSafe ==
  Promise!Spec =>
    /\ []NamesStandForOne /\ []UsableIsEarned /\ []OpenedUnderEarned
    /\ [][NothingReturns]_(Promise!promiseVars)
<1>1. Promise!Init => RegistrySafe
  BY DEF Promise!Init, RegistrySafe, NamesStandForOne, UsableIsEarned, OpenedUnderEarned,
         Known, Usable, Opened
<1>2. RegistrySafe /\ [Promise!Next]_(Promise!promiseVars) => RegistrySafe' /\ NothingReturns
  BY RegistryKeepsSafe
<1>3. RegistrySafe => NamesStandForOne /\ UsableIsEarned /\ OpenedUnderEarned
  BY DEF RegistrySafe
<1>4. QED BY <1>1, <1>2, <1>3, PTL DEF Promise!Spec

\* So do managed domains.
THEOREM DomainsAreSafe ==
  Spec =>
    /\ []NamesStandForOne /\ []UsableIsEarned /\ []OpenedUnderEarned
    /\ [][NothingReturns]_(Promise!promiseVars)
BY ImplementsRegistry, RegistryIsSafe DEF KeepsRegistry
=============================================================================

------------------------------ MODULE Domains ------------------------------
(***************************************************************************)
(* Managed domains: rows of the domains table are created by console       *)
(* users, verified against DNS by a background worker (domain_worker.rs)   *)
(* and on request (routes/domains.rs), deleted with their accounts, or     *)
(* removed by the cleanup while they are pending.  DNS is asked between    *)
(* two statements, so its answer is applied to whatever the row has become *)
(* meanwhile.  Mailboxes are created under verified domains only.          *)
(***************************************************************************)
EXTENDS Accounts, StoreGate, Sequences

CONSTANTS
  DomainIds,     \* ids that domains.id may take
  Names,         \* domain names
  NameOf,        \* the name each id is created for
  DomainOf,      \* the domain part of an address
  PublicNames,   \* names that TMPMAIL_PUBLIC_DOMAINS may list
  Retention      \* pending_domain_retention_seconds

ASSUME DomainsAssumption ==
  /\ NameOf \in [DomainIds -> Names]
  /\ DomainOf \in [Addresses -> Names]
  /\ PublicNames \subseteq Names
  /\ Retention \in Nat

VARIABLES
  row,        \* the row of each id
  system,     \* ids whose verification_token is NULL
  created,    \* created_at
  zone,       \* the records of ours that a DNS lookup finds now
  vpc,        \* where the verifier is in verify_pending_domains
  pending,    \* its pending_domain_checks left
  verdict,    \* <<id, result>> the verifier is about to store
  verdicts,   \* those that requests are about to store
  vetted,     \* accounts whose request found their domain available
  doomed,     \* ids that a request fetched in order to delete them
  cpc,        \* where the cleanup is in run_cleanup_once
  proven      \* history: ids that DNS has vouched for

domainVars == <<row, system, created>>
checkVars  == <<vpc, pending, verdict>>
flowVars   == <<verdicts, vetted, doomed>>
vars == <<accountVars, gate, domainVars, zone, checkVars, flowVars, cpc, proven>>

\* The id's row does not exist yet, is_verified is FALSE, is TRUE, or it was
\* deleted (an id is never used again).
DomainStates == {"unborn", "pending", "active", "removed"}
Present == {d \in DomainIds : row[d] \in {"pending", "active"}}

NoVerdict == <<>>
Verdicts == DomainIds \X {"verified", "failed"}

\* An MX record that sends a name's mail here, and the TXT record with a row's token.
Mx(n) == <<"MX", n>>
Txt(d) == <<"TXT", d>>
DnsRecords == {Mx(n) : n \in Names} \cup {Txt(d) : d \in DomainIds}

\* domains.domain is UNIQUE.
NameFree(n) == \A d \in Present : NameOf[d] # n

AccountsUnder(n) == {a \in AccountIds : status[a] = "live" /\ DomainOf[AddressOf[a]] = n}

TypeOK ==
  /\ AccountsTypeOK
  /\ GateTypeOK
  /\ row \in [DomainIds -> DomainStates]
  /\ system \subseteq DomainIds
  /\ created \in [DomainIds -> Nat]
  /\ zone \subseteq DnsRecords
  /\ vpc \in {"idle", "check", "store"}
  /\ pending \subseteq DomainIds
  /\ verdict \in Verdicts \cup {NoVerdict}
  /\ vpc = "store" => verdict \in Verdicts
  /\ verdicts \subseteq Verdicts
  /\ vetted \subseteq AccountIds
  /\ doomed \subseteq DomainIds
  /\ cpc \in {"idle", "accounts", "domains"}
  /\ proven \subseteq DomainIds

Init ==
  /\ AccountsInit
  /\ GateInit
  /\ row = [d \in DomainIds |-> "unborn"]
  /\ created = [d \in DomainIds |-> 0]
  /\ vpc = "idle" /\ verdict = NoVerdict /\ cpc = "idle"
  /\ system = {} /\ zone = {} /\ pending = {} /\ verdicts = {} /\ vetted = {}
  /\ doomed = {} /\ proven = {}

----------------------------------------------------------------------------
(* Statements on the domains table                                         *)

\* Seeded bug: the row is looked up by its name instead of its id.
SetVerifiedByName(d, result) ==
  \E e \in Present :
    /\ NameOf[e] = NameOf[d]
    /\ row' = [row EXCEPT ![e] = IF result = "verified" THEN "active" ELSE "pending"]
    /\ UNCHANGED <<system, created, proven>>

\* update_domain_verification_status: UPDATE ... WHERE id.  Zero rows is the
\* error NotFound.
SetVerified(d, result) ==
  /\ d \in Present
  /\ row' = [row EXCEPT ![d] = IF result = "verified" THEN "active" ELSE "pending"]
  /\ UNCHANGED <<system, created, proven>>

\* verify_txt_token: some TXT record carries the token of d.
TokenFound(d) == Txt(d) \in zone

\* verify_domain_dns_inner asks for the MX record too.  A missing route record
\* (CNAME or A of the mail host) is only logged, so it is left out here.
Found(d) == TokenFound(d) /\ Mx(NameOf[d]) \in zone

\* What verify_domain_dns answers when it is asked about the token of d.
Answer(d) == IF Found(d) THEN "verified" ELSE "failed"

Lookup(d) ==
  proven' = IF Found(d) THEN proven \cup {d} ELSE proven

----------------------------------------------------------------------------
(* The records of a domain at Cloudflare                                   *)

\* build_dns_records, in the order in which the loops go through them.
build_dns_records(d) == <<Mx(NameOf[d]), Txt(d)>>

\* The records that such a loop has dealt with when it ends, or when a request
\* to Cloudflare fails and `?` leaves the rest.
Reached(d) ==
  {{build_dns_records(d)[i] : i \in 1 .. n} : n \in 1 .. Len(build_dns_records(d))}

\* upsert_txt_record adds a token beside those that are there, upsert_mx_record
\* redirects the MX record of our priority or adds one.
upsert_dns_record(wanted) == zone \cup wanted

sync_domain_records(d) == {upsert_dns_record(done) : done \in Reached(d)}

\* Those of the records there that still have the value we gave them.
matching_record_ids(wanted) == zone \cap wanted

delete_domain_records(d) == {zone \ matching_record_ids(done) : done \in Reached(d)}

----------------------------------------------------------------------------
(* Requests                                                                *)

create_domain(d) ==
  /\ row[d] = "unborn"
  /\ NameFree(NameOf[d])
  /\ row' = [row EXCEPT ![d] = "pending"]
  /\ created' = [created EXCEPT ![d] = now]
  /\ UNCHANGED system

\* The user's limit is looked at first.
CreateDomain(d) ==
  /\ create_domain(d)
  /\ UNCHANGED <<accountVars, gate, zone, checkVars, flowVars, cpc, proven>>

\* Seeded bug: domains without a token are verified like the others.
RequestCheckAny(d) ==
  /\ d \in Present
  /\ verdicts' = verdicts \cup {<<d, Answer(d)>>}
  /\ Lookup(d)
  /\ UNCHANGED <<accountVars, gate, domainVars, zone, checkVars, vetted, doomed, cpc>>

\* verify_domain, or the verification at the end of SyncDomain: the
\* token is read and DNS asked about it.  The row may be active already.  That
\* the row may go between the two makes no difference: the answer is lost.
RequestCheck(d) ==
  /\ d \in Present \ system
  /\ verdicts' = verdicts \cup {<<d, Answer(d)>>}
  /\ Lookup(d)
  /\ UNCHANGED <<accountVars, gate, domainVars, zone, checkVars, vetted, doomed, cpc>>

RequestStore(v) ==
  /\ v \in verdicts
  /\ SetVerified(v[1], v[2])
  /\ verdicts' = verdicts \ {v}
  /\ UNCHANGED <<accountVars, gate, zone, checkVars, vetted, doomed, cpc>>

\* The row is gone, or the caller or the store is.
RequestDrop(v) ==
  /\ v \in verdicts
  /\ verdicts' = verdicts \ {v}
  /\ UNCHANGED <<accountVars, gate, domainVars, zone, checkVars, vetted, doomed, cpc,
                 proven>>

\* sync_domain_cloudflare: the records of a domain that is not verified yet are
\* then looked up, as in RequestCheck.  If the row goes between its reading and
\* these writes, or between two of them, they go on: ZoneChanges has them.
SyncDomain(d) ==
  /\ d \in Present \ system
  /\ zone' \in sync_domain_records(d)
  /\ UNCHANGED <<accountVars, gate, domainVars, checkVars, flowVars, cpc, proven>>

\* The route delete_domain clears the records first, where Cloudflare is set up;
\* if that fails the row stays.
ClearRecords(d) ==
  /\ d \in Present \ system
  /\ zone' \in delete_domain_records(d)
  /\ UNCHANGED <<accountVars, gate, domainVars, checkVars, flowVars, cpc, proven>>

\* delete_domain of the store reads the row before it opens its transaction.
DeleteFetch(d) ==
  /\ d \in Present \ system
  /\ doomed' = doomed \cup {d}
  /\ UNCHANGED <<accountVars, gate, domainVars, zone, checkVars, verdicts, vetted, cpc,
                 proven>>

\* The transaction takes the accounts by name and the row by id, if it is
\* still there.
DeleteTx(d) ==
  /\ d \in doomed
  /\ SoftDelete(AccountsUnder(NameOf[d]), "deleted")
  /\ row' = IF d \in Present THEN [row EXCEPT ![d] = "removed"] ELSE row
  /\ doomed' = doomed \ {d}
  /\ UNCHANGED <<gate, system, created, zone, checkVars, verdicts, vetted, cpc,
                 proven>>

DeleteDrop(d) ==
  /\ d \in doomed
  /\ doomed' = doomed \ {d}
  /\ UNCHANGED <<accountVars, gate, domainVars, zone, checkVars, verdicts, vetted, cpc,
                 proven>>

\* Seeded bug: any row of the name will do.
CheckDomainListed(a) ==
  /\ status[a] = "unused"
  /\ a \notin vetted
  /\ ~NameFree(DomainOf[AddressOf[a]])
  /\ vetted' = vetted \cup {a}
  /\ UNCHANGED <<accountVars, gate, domainVars, zone, checkVars, verdicts, doomed, cpc,
                 proven>>

\* create_account_for_owner asks for an active domain of that name ...
CheckDomain(a) ==
  /\ status[a] = "unused"
  /\ a \notin vetted
  /\ \E d \in DomainIds : row[d] = "active" /\ NameOf[d] = DomainOf[AddressOf[a]]
  /\ vetted' = vetted \cup {a}
  /\ UNCHANGED <<accountVars, gate, domainVars, zone, checkVars, verdicts, doomed, cpc,
                 proven>>

\* ... and inserts the account in a transaction that does not look again.
CreateAccountTx(a, e) ==
  /\ a \in vetted
  /\ InsertAccount(a, e)
  /\ vetted' = vetted \ {a}
  /\ UNCHANGED <<gate, domainVars, zone, checkVars, verdicts, doomed, cpc, proven>>

\* The address is taken, or the transaction fails.
CreateAccountDrop(a) ==
  /\ a \in vetted
  /\ vetted' = vetted \ {a}
  /\ UNCHANGED <<accountVars, gate, domainVars, zone, checkVars, verdicts, doomed, cpc,
                 proven>>

DeleteAccount(a) ==
  /\ Active(a)
  /\ SoftDelete({a}, "deleted")
  /\ UNCHANGED <<gate, domainVars, zone, checkVars, flowVars, cpc, proven>>

----------------------------------------------------------------------------
(* The verifier: verify_pending_domains                                    *)

\* Seeded bug: a domain that was verified once is not asked about again.
VerifyBeginOnce ==
  /\ vpc = "idle"
  /\ PassThrough
  /\ pending' = {d \in DomainIds \ (system \cup proven) : row[d] = "pending"}
  /\ vpc' = "check"
  /\ UNCHANGED <<accountVars, domainVars, zone, verdict, flowVars, cpc, proven>>

\* pending_domain_checks.  A round that finds the gate busy does nothing.
VerifyBegin ==
  /\ vpc = "idle"
  /\ PassThrough
  /\ pending' = {d \in DomainIds \ system : row[d] = "pending"}
  /\ vpc' = "check"
  /\ UNCHANGED <<accountVars, domainVars, zone, verdict, flowVars, cpc, proven>>

\* DNS answers for the oldest domain left.
VerifyCheck(d) ==
  /\ vpc = "check"
  /\ d \in pending
  /\ \A e \in pending : created[d] <= created[e]
  /\ pending' = pending \ {d}
  /\ verdict' = <<d, Answer(d)>>
  /\ Lookup(d)
  /\ vpc' = "store"
  /\ UNCHANGED <<accountVars, gate, domainVars, zone, flowVars, cpc>>

VerifyStore ==
  /\ vpc = "store"
  /\ PassThrough
  /\ SetVerified(verdict[1], verdict[2])
  /\ vpc' = "check" /\ verdict' = NoVerdict
  /\ UNCHANGED <<accountVars, zone, pending, flowVars, cpc>>

\* The gate is busy: the answer is thrown away.
VerifySkipped ==
  /\ vpc = "store"
  /\ GateTimesOut("verifier")
  /\ vpc' = "check" /\ verdict' = NoVerdict
  /\ UNCHANGED <<accountVars, domainVars, zone, pending, flowVars, cpc, proven>>

VerifyEnd ==
  /\ vpc = "check"
  /\ pending = {}
  /\ vpc' = "idle"
  /\ UNCHANGED <<accountVars, gate, domainVars, zone, pending, verdict, flowVars, cpc,
                 proven>>

\* Seeded bug: the loop goes on with the answer it has given up.
VerifierGoesOn == vpc' = vpc /\ pending' = {} /\ verdict' = NoVerdict

VerifierForgets == vpc' = "idle" /\ pending' = {} /\ verdict' = NoVerdict

\* The row is gone (NotFound) or the store fails: `?` abandons the round.
VerifyFails ==
  /\ vpc = "store"
  /\ PassThrough
  /\ VerifierForgets
  /\ UNCHANGED <<accountVars, domainVars, zone, flowVars, cpc, proven>>

\* The UPDATE commits by itself; then its audit entry fails.
VerifyUnaudited ==
  /\ vpc = "store"
  /\ PassThrough
  /\ SetVerified(verdict[1], verdict[2])
  /\ VerifierForgets
  /\ UNCHANGED <<accountVars, zone, flowVars, cpc>>

----------------------------------------------------------------------------
(* The cleanup: run_cleanup_once                                           *)

CleanupBegin ==
  /\ cpc = "idle"
  /\ Acquire("cleanup")
  /\ cpc' = "accounts"
  /\ UNCHANGED <<accountVars, domainVars, zone, checkVars, flowVars, proven>>

\* cleanup_expired_accounts; module Ingest takes it apart.
CleanupAccounts ==
  /\ cpc = "accounts"
  /\ SoftDelete({a \in AccountIds : status[a] = "live" /\ expires[a] <= now}, "expired")
  /\ cpc' = "domains"
  /\ UNCHANGED <<gate, domainVars, zone, checkVars, flowVars, proven>>

\* Seeded bug: a domain is kept at the instant its retention ends, which may be
\* the last of a bounded clock.
StaleLate == {d \in DomainIds : row[d] = "pending" /\ created[d] + Retention < now}

Stale == {d \in DomainIds : row[d] = "pending" /\ created[d] + Retention <= now}

\* cleanup_stale_pending_domains: the rows only, by age.
CleanupDomains ==
  /\ cpc = "domains"
  /\ row' = [d \in DomainIds |-> IF d \in Stale THEN "removed" ELSE row[d]]
  /\ Release("cleanup")
  /\ cpc' = "idle"
  /\ UNCHANGED <<accountVars, system, created, zone, checkVars, flowVars, proven>>

CleanupFails ==
  /\ cpc # "idle"
  /\ Release("cleanup")
  /\ cpc' = "idle"
  /\ UNCHANGED <<accountVars, domainVars, zone, checkVars, flowVars, proven>>

----------------------------------------------------------------------------
(* The world and the process                                               *)

\* The domain's owner edits the zone, lookups start or stop to fail, or a request
\* whose row is gone goes on with its records.
ZoneChanges(r) ==
  /\ zone' = IF r \in zone THEN zone \ {r} ELSE zone \cup {r}
  /\ UNCHANGED <<accountVars, gate, domainVars, checkVars, flowVars, cpc, proven>>

TimePasses ==
  /\ Tick
  /\ UNCHANGED <<gate, domainVars, zone, checkVars, flowVars, cpc, proven>>

\* The backend starts, for the first time or again, maybe with other public
\* domains: ensure_configured_public_domains inserts those that have no row
\* and takes over the rows that are there.
Start(listed, fresh) ==
  LET taken == {d \in Present : NameOf[d] \in listed} IN
  /\ fresh \subseteq {d \in DomainIds : row[d] = "unborn"}
  /\ {NameOf[d] : d \in fresh} = {n \in listed : NameFree(n)}
  /\ \A d, e \in fresh : NameOf[d] = NameOf[e] => d = e
  /\ row' = [d \in DomainIds |-> IF d \in fresh \cup taken THEN "active" ELSE row[d]]
  /\ system' = system \cup fresh \cup taken
  /\ created' = [d \in DomainIds |-> IF d \in fresh THEN now ELSE created[d]]
  /\ VerifierForgets
  /\ verdicts' = {} /\ vetted' = {} /\ doomed' = {}
  /\ gate' = "free" /\ cpc' = "idle"
  /\ UNCHANGED <<accountVars, zone, proven>>

----------------------------------------------------------------------------

Synchronization == \E d \in DomainIds : SyncDomain(d) \/ ClearRecords(d)

Requests ==
  \/ \E d \in DomainIds :
       CreateDomain(d) \/ RequestCheck(d) \/ DeleteFetch(d) \/ DeleteTx(d) \/ DeleteDrop(d)
  \/ \E v \in Verdicts : RequestStore(v) \/ RequestDrop(v)
  \/ \E a \in AccountIds :
       \/ CheckDomain(a)
       \/ \E e \in ExpiryChoices : CreateAccountTx(a, e)
       \/ CreateAccountDrop(a)
       \/ DeleteAccount(a)
  \/ Synchronization

\* The verifier's steps when nothing fails.
VerifySteps ==
  \/ VerifyBegin
  \/ \E d \in DomainIds : VerifyCheck(d)
  \/ VerifyStore
  \/ VerifySkipped
  \/ VerifyEnd

CleanupSteps == CleanupBegin \/ CleanupAccounts \/ CleanupDomains

Faults ==
  \/ VerifyFails
  \/ VerifyUnaudited
  \/ CleanupFails
  \/ \E listed \in SUBSET PublicNames, fresh \in SUBSET DomainIds : Start(listed, fresh)

Environment == TimePasses \/ \E r \in DnsRecords : ZoneChanges(r)

Next == Requests \/ VerifySteps \/ CleanupSteps \/ Faults \/ Environment

Spec == Init /\ [][Next]_vars

----------------------------------------------------------------------------
(* Properties                                                              *)

\* A domain is usable only if DNS vouched for its own token, or the operator
\* listed it: an answer that was asked for an earlier registration of the name
\* never verifies a later one, however late it is stored.
ActiveIsProven == \A d \in DomainIds : row[d] = "active" => d \in system \cup proven

\* A mailbox was only ever created under a name that somebody had proven to
\* control, although its domain is checked outside the transaction.
MailboxesUnderProven ==
  \A a \in AccountIds : status[a] # "unused" =>
    \E d \in system \cup proven : NameOf[d] = DomainOf[AddressOf[a]]

\* A domain the operator has listed, be it one that users had registered, stays
\* active from then on: no verification, deletion, cleanup or restart with
\* other public domains makes it wait for a proof it cannot give, or removes it.
SystemStaysActive ==
  [][\A d \in system : row'[d] = "active" /\ d \in system']_vars

\* Answers of DNS that arrive late, deletions, the cleanup and restarts with
\* other public domains do nothing to names and mailboxes that the promise of
\* module Registry does not do at once: a name never stands for two rows, an
\* answer counts for the registration it was asked for, and the operator's
\* domains are never doubted or removed.
Promise == INSTANCE Registry WITH
  Under    <- [a \in AccountIds |-> DomainOf[AddressOf[a]]],
  known    <- {d \in DomainIds : row[d] # "unborn"},
  standing <- Present,
  usable   <- {d \in DomainIds : row[d] = "active"},
  listed   <- system,
  vouched  <- proven,
  opened   <- {a \in AccountIds : status[a] # "unused"}

KeepsRegistry == Promise!Spec

----------------------------------------------------------------------------
(* Progress                                                                *)

\* The worker loops for ever, every await of it returns or times out, and
\* neither failures, a busy gate nor restarts meet the same domain for ever.
VerifyFairness ==
  /\ WF_vars(VerifySteps \/ VerifyFails \/ VerifyUnaudited)
  /\ []<>(vpc = "idle") => []<><<VerifyBegin>>_vars
  /\ \A d \in DomainIds :
       SF_vars(VerifyCheck(d))
  /\ \A d \in DomainIds :
       []<>(verdict \in {<<d, "verified">>, <<d, "failed">>} /\ d \in Present)
         => []<><<verdict \in {<<d, "verified">>, <<d, "failed">>} /\ VerifyStore>>_vars

CleanupFairness ==
  /\ SF_vars(CleanupBegin)
  /\ SF_vars(CleanupAccounts)
  /\ SF_vars(CleanupDomains)

\* A request's answer is stored or dropped.
RequestFairness == \A v \in Verdicts : WF_vars(RequestStore(v) \/ RequestDrop(v))

FairSpec == Spec /\ VerifyFairness /\ CleanupFairness /\ RequestFairness

\* Once a domain's DNS records stay right its row ends up verified and stays
\* so, or is removed: an answer from before that arrives late may undo the
\* verification, but not for good.
SettlesVerified ==
  \A d \in DomainIds :
    <>[](Found(d) /\ d \in Present) => <>[](row[d] = "active")

\* A domain that is never verified does not occupy its name for ever.
StaleIsRemoved ==
  \A d \in DomainIds :
    (row[d] = "pending" /\ created[d] + Retention <= now) ~> (row[d] # "pending")
=============================================================================

------------------------------- MODULE Ingest -------------------------------
(***************************************************************************)
(* Mail ingestion: the Inbucket poller (ingest.rs) copies upstream mail    *)
(* into the messages table while requests create and delete accounts and   *)
(* messages, the cleanup expires accounts, Inbucket drops old mail, and    *)
(* the backend may crash.  Each action ends where the code awaits: at an   *)
(* HTTP call to Inbucket, at the store gate, or between two SQL            *)
(* statements that are not in one transaction.                             *)
(*                                                                         *)
(* The messages table is kept as two counters per account and source: the  *)
(* rows that are visible and the rows that were soft deleted.              *)
(***************************************************************************)
EXTENDS Accounts, StoreGate

CONSTANTS
  Mailboxes,   \* Inbucket mailbox names: lower-case local parts
  MailboxOf,   \* the mailbox of an address
  Mails,       \* messages that may arrive, each at most once
  Envelope,    \* the mailboxes Inbucket files a copy of a mail in
  To,          \* the addresses a mail's To header names
  LikeMatch,   \* the mailboxes whose keys match LIKE 'mailbox:%'
  None         \* Option::None, SQL NULL

\* A source key "mailbox:id" of inbucket.rs; a mail's copies have distinct keys.
Keys == Mailboxes \X Mails

\* messages.source_key is NULL for the welcome message.
Sources == Keys \cup {None}

ASSUME IngestAssumption ==
  /\ MailboxOf \in [Addresses -> Mailboxes]
  /\ Envelope \in [Mails -> SUBSET Mailboxes]
  /\ To \in [Mails -> SUBSET Addresses]
  /\ LikeMatch \in [Mailboxes -> SUBSET Mailboxes]
  /\ \A m \in Mailboxes : m \in LikeMatch[m]
  /\ None \notin Keys \cup Mailboxes

VARIABLES
  sent,        \* mails that reached Inbucket so far
  upstream,    \* source keys Inbucket holds
  imported,    \* imported_source_keys
  live,        \* rows of messages per account and source, is_deleted = FALSE
  gone,        \* and is_deleted = TRUE
  admitted,    \* accounts with a request past its account check
  pc,          \* where the poller is in sync_once
  boxes,       \* mailboxes left in this cycle
  box,         \* mailbox being synchronized
  todo,        \* summaries of that mailbox left to handle
  key,         \* source key being imported
  targets,     \* accounts selected to receive it
  expiring     \* accounts the cleanup selected

tableVars == <<imported, live, gone>>
pollVars  == <<pc, boxes, box, todo, key, targets>>
envVars   == <<sent, upstream>>
vars == <<accountVars, gate, envVars, tableVars, admitted, pollVars, expiring>>

PollStates ==
  {"idle", "next", "reconcile", "messages", "fetch", "import", "insert"}

TypeOK ==
  /\ AccountsTypeOK
  /\ GateTypeOK
  /\ sent \subseteq Mails
  /\ upstream \subseteq Keys
  /\ imported \subseteq Keys
  /\ live \in [AccountIds -> [Sources -> Nat]]
  /\ gone \in [AccountIds -> [Sources -> Nat]]
  /\ admitted \subseteq AccountIds
  /\ pc \in PollStates
  /\ boxes \subseteq Mailboxes
  /\ box \in Mailboxes \cup {None}
  /\ todo \subseteq Keys
  /\ key \in Keys \cup {None}
  /\ targets \subseteq AccountIds
  /\ expiring \subseteq AccountIds

Init ==
  /\ AccountsInit
  /\ GateInit
  /\ sent = {} /\ upstream = {} /\ imported = {}
  /\ live = [a \in AccountIds |-> [s \in Sources |-> 0]]
  /\ gone = [a \in AccountIds |-> [s \in Sources |-> 0]]
  /\ admitted = {} /\ expiring = {} /\ targets = {}
  /\ pc = "idle" /\ boxes = {} /\ box = None /\ todo = {} /\ key = None

----------------------------------------------------------------------------
(* Statements on the messages table                                        *)

\* UPDATE messages SET is_deleted = TRUE for the visible rows among these.
Hide(rows) ==
  /\ live' = [a \in AccountIds |-> [s \in Sources |->
                IF <<a, s>> \in rows THEN 0 ELSE live[a][s]]]
  /\ gone' = [a \in AccountIds |-> [s \in Sources |->
                IF <<a, s>> \in rows THEN gone[a][s] + live[a][s] ELSE gone[a][s]]]

\* insert_message_tx for each of the rows' accounts.
InsertMessages(rows, source) ==
  /\ live' = [a \in AccountIds |->
                IF a \in rows THEN [live[a] EXCEPT ![source] = @ + 1] ELSE live[a]]
  /\ UNCHANGED gone

----------------------------------------------------------------------------
(* Requests                                                                *)

\* The row and its welcome message in one transaction.
create_account_for_owner(a, e) ==
  /\ InsertAccount(a, e)
  /\ InsertMessages({a}, None)
  /\ UNCHANGED imported

\* create_account, for a user of the console or for anybody.  Settings, domain,
\* limit and one-time code are looked at before the store is asked, and refuse
\* the request before it has changed a table of this module.
CreateAccount(a, e) ==
  /\ create_account_for_owner(a, e)
  /\ UNCHANGED <<gate, envVars, admitted, pollVars, expiring>>

\* assert_account_active, or the SELECT at the head of delete_account.  The
\* statement that acts on the answer comes in a later step.
AdmitRequest(a) ==
  /\ Active(a)
  /\ a \notin admitted
  /\ admitted' = admitted \cup {a}
  /\ UNCHANGED <<accountVars, gate, envVars, tableVars, pollVars, expiring>>

\* The transaction works by id, whatever has happened to the row since.
delete_account(a) ==
  /\ SoftDelete({a}, "deleted")
  /\ Hide({a} \X Sources)
  /\ UNCHANGED imported

\* delete_account, by the mailbox's owner or with its token.
DeleteAccountTx(a) ==
  /\ a \in admitted
  /\ delete_account(a)
  /\ admitted' = admitted \ {a}
  /\ UNCHANGED <<gate, envVars, pollVars, expiring>>

\* Seeded bug: the UPDATE has lost its AND is_deleted = FALSE.
DeleteMessageAgain(a, s) ==
  /\ a \in admitted
  /\ live' = [live EXCEPT ![a][s] = @ - 1]
  /\ gone' = [gone EXCEPT ![a][s] = @ + 1]
  /\ admitted' = admitted \ {a}
  /\ UNCHANGED <<accountVars, gate, envVars, imported, pollVars, expiring>>

\* The UPDATE of one visible row.
delete_message(a, s) ==
  /\ live[a][s] > 0
  /\ live' = [live EXCEPT ![a][s] = @ - 1]
  /\ gone' = [gone EXCEPT ![a][s] = @ + 1]
  /\ UNCHANGED imported

DeleteMessage(a, s) ==
  /\ a \in admitted
  /\ delete_message(a, s)
  /\ admitted' = admitted \ {a}
  /\ UNCHANGED <<accountVars, gate, envVars, pollVars, expiring>>

\* A read, a change of the seen flag, or "message not found": no row moves.
OtherRequest(a) ==
  /\ a \in admitted
  /\ admitted' = admitted \ {a}
  /\ UNCHANGED <<accountVars, gate, envVars, tableVars, pollVars, expiring>>

\* The list, a message, its source or an attachment; and patch_message.
ReadMessages(a) == OtherRequest(a)
PatchMessage(a) == OtherRequest(a)

----------------------------------------------------------------------------
(* The poller: sync_once                                                   *)

\* The poller's locals go out of scope.
PollerForgets ==
  /\ pc' = "idle" /\ boxes' = {} /\ box' = None /\ todo' = {} /\ key' = None
  /\ targets' = {}

\* Seeded bug: only the accounts that never expire are polled.
PollBeginUnexpiring ==
  /\ pc = "idle"
  /\ PassThrough
  /\ boxes' = {MailboxOf[AddressOf[a]] :
                 a \in {b \in AccountIds : Active(b) /\ expires[b] = Never}}
  /\ pc' = "next"
  /\ UNCHANGED <<accountVars, envVars, tableVars, admitted, box, todo, key,
                 targets, expiring>>

active_account_addresses == {AddressOf[a] : a \in {b \in AccountIds : Active(b)}}

\* active_mailboxes of the addresses in use.  A cycle that finds the gate
\* busy does nothing, which is a stuttering step.
PollBegin ==
  /\ pc = "idle"
  /\ PassThrough
  /\ boxes' = {MailboxOf[x] : x \in active_account_addresses}
  /\ pc' = "next"
  /\ UNCHANGED <<accountVars, envVars, tableVars, admitted, box, todo, key,
                 targets, expiring>>

\* list_mailbox answers with what Inbucket holds at that moment.
ListMailbox(m) ==
  /\ pc = "next"
  /\ m \in boxes
  /\ boxes' = boxes \ {m}
  /\ box' = m
  /\ todo' = {k \in upstream : k[1] = m}
  /\ pc' = "reconcile"
  /\ UNCHANGED <<accountVars, gate, envVars, tableVars, admitted, key, targets,
                 expiring>>

\* Seeded bugs: the mail already imported is struck from the listing first; an
\* empty listing is taken for an error.
UpstreamMissingUnrecorded ==
  AccountIds \X {k \in Keys : k[1] \in LikeMatch[box] /\ k \notin todo \ imported}
UpstreamMissingUnlessEmpty ==
  AccountIds \X {k \in Keys : todo # {} /\ k[1] \in LikeMatch[box] /\ k \notin todo}

\* The rows whose key LIKE 'box:%' matches and the listing does not name.
UpstreamMissing ==
  AccountIds \X {k \in Keys : k[1] \in LikeMatch[box] /\ k \notin todo}

\* reconcile_mailbox_sources.
Reconcile ==
  /\ pc = "reconcile"
  /\ PassThrough
  /\ Hide(UpstreamMissing)
  /\ pc' = "messages"
  /\ UNCHANGED <<accountVars, envVars, imported, admitted, boxes, box, todo, key,
                 targets, expiring>>

\* The UPDATE commits by itself; the transaction that audits it then fails and
\* takes the rest of the cycle with it.
ReconcileUnaudited ==
  /\ pc = "reconcile"
  /\ PassThrough
  /\ Hide(UpstreamMissing)
  /\ PollerForgets
  /\ UNCHANGED <<accountVars, envVars, imported, admitted, expiring>>

\* The gate is busy: on to the next mailbox, this one's mail included.
ReconcileSkipped ==
  /\ pc = "reconcile"
  /\ GateTimesOut("poller")
  /\ pc' = "next" /\ box' = None /\ todo' = {}
  /\ UNCHANGED <<accountVars, envVars, tableVars, admitted, boxes, key, targets,
                 expiring>>

\* has_imported_source: the summary is passed over, or its mail is fetched.
CheckImported(k) ==
  /\ pc = "messages"
  /\ k \in todo
  /\ PassThrough
  /\ todo' = todo \ {k}
  /\ \/ /\ k \in imported
        /\ UNCHANGED <<pc, key>>
     \/ /\ k \notin imported
        /\ key' = k
        /\ pc' = "fetch"
  /\ UNCHANGED <<accountVars, envVars, tableVars, admitted, boxes, box, targets,
                 expiring>>

\* The gate is busy: this summary waits for the next cycle.
CheckSkipped(k) ==
  /\ pc = "messages"
  /\ k \in todo
  /\ GateTimesOut("poller")
  /\ todo' = todo \ {k}
  /\ UNCHANGED <<accountVars, envVars, tableVars, admitted, pc, boxes, box, key,
                 targets, expiring>>

\* get_message answers; a mail that names no recipient is passed over.
FetchMessage ==
  /\ pc = "fetch"
  /\ key \in upstream
  /\ \/ /\ To[key[2]] = {}
        /\ key' = None
        /\ pc' = "messages"
     \/ /\ To[key[2]] # {}
        /\ pc' = "import"
        /\ UNCHANGED key
  /\ UNCHANGED <<accountVars, gate, envVars, tableVars, admitted, boxes, box, todo,
                 targets, expiring>>

Recipients == {a \in AccountIds : Active(a) /\ AddressOf[a] \in To[key[2]]}

\* import_message_for_recipients selects the recipients before it opens its
\* transaction; the permit is kept across both.
ImportSelect ==
  /\ pc = "import"
  /\ \/ /\ Recipients = {}
        /\ PassThrough
        /\ key' = None
        /\ pc' = "messages"
        /\ UNCHANGED targets
     \/ /\ Recipients # {}
        /\ Acquire("poller")
        /\ targets' = Recipients
        /\ pc' = "insert"
        /\ UNCHANGED key
  /\ UNCHANGED <<accountVars, envVars, tableVars, admitted, boxes, box, todo,
                 expiring>>

ImportSkipped ==
  /\ pc = "import"
  /\ GateTimesOut("poller")
  /\ key' = None
  /\ pc' = "messages"
  /\ UNCHANGED <<accountVars, envVars, tableVars, admitted, boxes, box, todo,
                 targets, expiring>>

\* Seeded bug: the rows are written and the key is not.
RecordImportUnrecorded == InsertMessages(targets, key) /\ UNCHANGED imported

\* The transaction: INSERT ... ON CONFLICT DO NOTHING guards the rows.
RecordImport ==
  \/ /\ key \in imported
     /\ UNCHANGED tableVars
  \/ /\ key \notin imported
     /\ imported' = imported \cup {key}
     /\ InsertMessages(targets, key)

ImportInsert ==
  /\ pc = "insert"
  /\ RecordImport
  /\ Release("poller")
  /\ pc' = "messages" /\ key' = None /\ targets' = {}
  /\ UNCHANGED <<accountVars, envVars, admitted, boxes, box, todo, expiring>>

MailboxDone ==
  /\ pc = "messages"
  /\ todo = {}
  /\ pc' = "next" /\ box' = None
  /\ UNCHANGED <<accountVars, gate, envVars, tableVars, admitted, boxes, todo, key,
                 targets, expiring>>

PollEnd ==
  /\ pc = "next"
  /\ boxes = {}
  /\ pc' = "idle"
  /\ UNCHANGED <<accountVars, gate, envVars, tableVars, admitted, boxes, box, todo,
                 key, targets, expiring>>

\* A call to Inbucket or the store fails: `?` abandons the whole cycle.
PollFails ==
  /\ \/ pc \in {"reconcile", "fetch", "import", "insert"}
     \/ pc = "next" /\ boxes # {}
     \/ pc = "messages" /\ todo # {}
  /\ PollerForgets
  /\ gate' = IF gate = "poller" THEN "free" ELSE gate
  /\ UNCHANGED <<accountVars, envVars, tableVars, admitted, expiring>>

----------------------------------------------------------------------------
(* The cleanup: run_cleanup_once, from its worker or from an administrator *)

\* Seeded bugs: one transaction that does not take the gate; an account is
\* overlooked at the instant it expires, which is the last of a bounded clock.
CleanupUngated ==
  LET rows == {a \in AccountIds : status[a] = "live" /\ expires[a] <= now} IN
  /\ SoftDelete(rows, "expired")
  /\ Hide(rows \X Sources)
  /\ UNCHANGED <<gate, envVars, imported, admitted, pollVars, expiring>>
CleanupSelectLate ==
  /\ Acquire("cleanup")
  /\ expiring' = {a \in AccountIds : status[a] = "live" /\ expires[a] < now}
  /\ UNCHANGED <<accountVars, envVars, tableVars, admitted, pollVars>>

CleanupSelect ==
  /\ Acquire("cleanup")
  /\ expiring' = {a \in AccountIds : status[a] = "live" /\ expires[a] <= now}
  /\ UNCHANGED <<accountVars, envVars, tableVars, admitted, pollVars>>

\* cleanup_expired_accounts' transaction, by the ids selected before it.
CleanupTx ==
  /\ gate = "cleanup"
  /\ expiring # {}
  /\ SoftDelete(expiring, "expired")
  /\ Hide(expiring \X Sources)
  /\ expiring' = {}
  /\ UNCHANGED <<gate, envVars, imported, admitted, pollVars>>

\* The pending domains follow (module Domains), then the permit goes.
CleanupDone ==
  /\ expiring = {}
  /\ Release("cleanup")
  /\ UNCHANGED <<accountVars, envVars, tableVars, admitted, pollVars, expiring>>

CleanupFails ==
  /\ expiring # {}
  /\ Release("cleanup")
  /\ expiring' = {}
  /\ UNCHANGED <<accountVars, envVars, tableVars, admitted, pollVars>>

----------------------------------------------------------------------------
(* Inbucket and the process                                                *)

\* Inbucket files a copy of the mail in each mailbox of its envelope.
MailArrives(x) ==
  /\ x \notin sent
  /\ sent' = sent \cup {x}
  /\ upstream' = upstream \cup {<<m, x>> : m \in Envelope[x]}
  /\ UNCHANGED <<accountVars, gate, tableVars, admitted, pollVars, expiring>>

\* Inbucket's retention, or a deletion made there.
UpstreamPurge(k) ==
  /\ k \in upstream
  /\ upstream' = upstream \ {k}
  /\ UNCHANGED <<accountVars, gate, sent, tableVars, admitted, pollVars, expiring>>

\* The backend dies and starts again: open transactions roll back, the
\* requests, the poller's cycle and the semaphore are lost.
Restart ==
  /\ PollerForgets
  /\ gate' = "free"
  /\ admitted' = {}
  /\ expiring' = {}
  /\ UNCHANGED <<accountVars, envVars, tableVars>>

TimePasses ==
  /\ Tick
  /\ UNCHANGED <<gate, envVars, tableVars, admitted, pollVars, expiring>>

----------------------------------------------------------------------------

Requests ==
  \E a \in AccountIds :
    \/ \E e \in ExpiryChoices : CreateAccount(a, e)
    \/ AdmitRequest(a)
    \/ DeleteAccountTx(a)
    \/ \E s \in Sources : DeleteMessage(a, s)
    \/ ReadMessages(a) \/ PatchMessage(a)

\* The poller's steps when nothing fails.
PollSteps ==
  \/ PollBegin
  \/ \E m \in Mailboxes : ListMailbox(m)
  \/ Reconcile
  \/ ReconcileSkipped
  \/ \E k \in Keys : CheckImported(k) \/ CheckSkipped(k)
  \/ FetchMessage
  \/ ImportSelect
  \/ ImportSkipped
  \/ ImportInsert
  \/ MailboxDone
  \/ PollEnd

CleanupSteps == CleanupSelect \/ CleanupTx \/ CleanupDone

Environment ==
  \/ \E x \in Mails : MailArrives(x)
  \/ \E k \in Keys : UpstreamPurge(k)
  \/ TimePasses

Faults == PollFails \/ ReconcileUnaudited \/ CleanupFails \/ Restart

Next == Requests \/ PollSteps \/ CleanupSteps \/ Environment \/ Faults

Spec == Init /\ [][Next]_vars

----------------------------------------------------------------------------
(* Properties                                                              *)

\* The rows a source has left in an account, deleted ones included.
Rows(a, s) == live[a][s] + gone[a][s]

\* However the poller, the requests, the cleanup and crashes interleave, an
\* upstream message becomes at most one row of an account.
OneRowPerSource ==
  \A a \in AccountIds, k \in Keys : Rows(a, k) <= 1

\* Two accounts that held the same address one after the other never both get
\* a row of the same upstream message: what was delivered to a mailbox is not
\* handed to the next holder of its address.
NoSecondHolder ==
  \A a, b \in AccountIds, k \in Keys :
    /\ a # b
    /\ AddressOf[a] = AddressOf[b]
    => Rows(a, k) = 0 \/ Rows(b, k) = 0

\* The cleanup leaves no visible mail in an account it expired, not even mail
\* whose import had selected the account before: the gate keeps an import's
\* selection and its transaction on one side of the cleanup.
ExpiredHoldNoMail ==
  \A a \in AccountIds, s \in Sources : status[a] = "expired" => live[a][s] = 0

\* A message that was deleted, by its owner or by the synchronization, never
\* comes back to that account, however often the poller sees it upstream.
GoneStaysGone ==
  [][\A a \in AccountIds, k \in Keys :
       gone[a][k] > 0 => live'[a][k] <= live[a][k] /\ gone'[a][k] >= gone[a][k]]_vars

\* The synchronization deletes a row only when its upstream message is gone,
\* as its audit entry says ("upstream message missing"): mail that arrived
\* after the mailbox was listed, or that is another mailbox's, is left alone.
SyncDeletesOnlyMissing ==
  [][pc = "reconcile" /\ pc' # "reconcile" =>
       \A a \in AccountIds, k \in Keys :
         live'[a][k] < live[a][k] => k \notin upstream]_vars

----------------------------------------------------------------------------
(* What ingestion promises                                                 *)

\* What an account has of an upstream message: its row, visible or deleted.
Copy(a, k) ==
  IF live[a][k] > 0 THEN "shown" ELSE IF gone[a][k] > 0 THEN "deleted" ELSE "none"

Copies == [a \in AccountIds |-> [k \in Keys |-> Copy(a, k)]]

Promise == INSTANCE Delivery WITH delivered <- imported, copy <- Copies

\* Ingestion, with its gate, its retries and its crashes between statements,
\* does nothing to the messages that the one-step promise of module Delivery
\* does not do: mail is handed out once, to one holder of an address, never to
\* an account already expired, and what was deleted stays deleted.
KeepsDelivery == Promise!Spec

----------------------------------------------------------------------------
(* Progress                                                                *)

\* A call that is reached again and again succeeds again and again: neither
\* an error of Inbucket or the store nor a timeout at the gate meets the same
\* call for ever.  tokio's semaphore serves its waiters in order, the permit is
\* kept over a few statements only, and each task tries again in its next round.
\* The poller is a loop that never ends: every call it awaits returns or runs
\* into its timeout.
PollFairness ==
  /\ WF_vars(PollSteps \/ PollFails \/ ReconcileUnaudited)
  /\ []<>(pc = "idle") => []<><<PollBegin>>_vars
  /\ \A m \in Mailboxes :
       /\ SF_vars(ListMailbox(m))
       /\ []<>(pc = "reconcile" /\ box = m) => []<><<box = m /\ Reconcile>>_vars
  /\ \A k \in Keys :
       /\ []<>(pc = "messages" /\ k \in todo) => []<><<CheckImported(k)>>_vars
       /\ SF_vars(key = k /\ FetchMessage)
       /\ []<>(pc = "import" /\ key = k) => []<><<key = k /\ ImportSelect>>_vars
       /\ SF_vars(key = k /\ ImportInsert)

CleanupFairness ==
  /\ SF_vars(CleanupSelect)
  /\ SF_vars(CleanupTx)
  /\ WF_vars(CleanupDone)

FairSpec == Spec /\ PollFairness /\ CleanupFairness

\* Mail that waits upstream in the mailbox of an account in use that it is
\* addressed to is imported, unless Inbucket drops it or the account goes.
MailIsImported ==
  \A a \in AccountIds, k \in Keys :
    ( /\ Active(a)
      /\ k \in upstream
      /\ k[1] = MailboxOf[AddressOf[a]]
      /\ AddressOf[a] \in To[k[2]] )
    ~> (k \in imported \/ k \notin upstream \/ ~Active(a))

\* A row whose upstream message is gone is deleted in the end, while the
\* mailbox it came from still belongs to the account that shows it.
MissingIsHidden ==
  \A a \in AccountIds, k \in Keys :
    ( /\ Active(a)
      /\ live[a][k] > 0
      /\ k \notin upstream
      /\ k[1] = MailboxOf[AddressOf[a]] )
    ~> (live[a][k] = 0 \/ ~Active(a))

\* An account past its expiry is removed, however busy the gate is.
ExpiredIsRemoved ==
  \A a \in AccountIds :
    (status[a] = "live" /\ expires[a] <= now) ~> (status[a] # "live")
=============================================================================

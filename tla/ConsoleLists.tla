---------------------------- MODULE ConsoleLists ----------------------------
(***************************************************************************)
(* The lists of the console page (domain-management-page.tsx): domains,    *)
(* users, access keys, invite codes, mailboxes and the audit log.  Each    *)
(* handler asks where the code asks, calls the backend, and changes the    *)
(* rows by the answer; whole lists are loaded when a view is first opened, *)
(* by a button, and after some of the changes.                             *)
(*                                                                         *)
(* A behaviour follows one of the lists, its panel.  What the rest of the  *)
(* page does to that list (other views load it again, a batch adds to it,  *)
(* a restored session or a sign-out empties it) is in the section "The     *)
(* rest of the page".  A row is kept as the number of changes it shows, 0  *)
(* for no row.  The page is an administrator's, who sees every control;    *)
(* a row's own loading flag, which another row's click moves, disables     *)
(* nothing.                                                                *)
(***************************************************************************)
EXTENDS Naturals, Sequences, SequencesExt, FiniteSets

CONSTANTS
  Items,         \* the ids the backend gives to what it creates
  MaxRevision,   \* bound: changes of an item, its creation included
  MaxListCalls   \* bound: calls and answers under way when a click adds one

ASSUME ConsoleListsAssumption ==
  /\ IsFiniteSet(Items)
  /\ {MaxRevision, MaxListCalls} \subseteq Nat \ {0}

VARIABLES
  panel,      \* the list this behaviour is about
  server,     \* the backend's items
  used,       \* ids that were given away
  rows,       \* the list on display
  doubled,    \* items it shows twice
  loading,    \* its loading flag
  asking,     \* actionDialog: the call it asks about, or none
  sent,       \* calls the backend has not handled
  answers,    \* its answers, in the order it handled the calls
  drift       \* history: the rows have missed something no later load has made up for

listVars == <<panel, server, used, rows, doubled, loading, asking, sent, answers, drift>>
shownVars == <<rows, doubled>>

Panels == {"domains", "users", "keys", "codes", "mailboxes", "logs"}
Lists  == [Items -> 0 .. MaxRevision]
NoRows == [i \in Items |-> 0]
Ops    == {"load", "activate", "create", "patch", "delete", "read", "cleanup"}

\* A call about an item, with the rows of the render its handler belongs to.
ListCalls == [op : Ops, item : SUBSET Items, base : Lists]

\* What the backend said: the whole list, or the item as it is now; clean is
\* history: nothing the rows cannot follow has happened since.
Answers == [call : ListCalls, list : Lists, clean : BOOLEAN]

ListsTypeOK ==
  /\ panel \in Panels
  /\ server \in Lists /\ rows \in Lists
  /\ used \subseteq Items /\ \A i \in Items \ used : server[i] = 0
  /\ doubled \subseteq Items
  /\ loading \in BOOLEAN /\ drift \in BOOLEAN
  /\ asking \subseteq ListCalls /\ Cardinality(asking) <= 1
  /\ sent \subseteq ListCalls
  /\ answers \in Seq(Answers)

ListCall(op, is, base) == [op |-> op, item |-> is, base |-> base]
LoadCall == ListCall("load", {}, NoRows)

\* A load of the mailboxes, or the deletion of is, goes on by activating one.
Activation(is) == ListCall("activate", is, NoRows)

\* Bootstrap or the effect of the view has just sent the first load.
ListsInit ==
  /\ panel \in Panels
  /\ server \in [Items -> {0, 1}] /\ used = {i \in Items : server[i] = 1}
  /\ rows = NoRows /\ doubled = {} /\ loading = TRUE
  /\ asking = {}
  /\ sent = {LoadCall} /\ answers = <<>>
  /\ drift = TRUE

----------------------------------------------------------------------------
(* What the functions of lib/api.ts send.  The handlers of mailboxes use   *)
(* the rows of their own render later on, so these go with their calls.    *)

fetchManagedDomains   == LoadCall
fetchAdminUsers       == LoadCall
fetchAdminAccessKeys  == LoadCall
fetchAdminInviteCodes == LoadCall
fetchOwnedAccounts    == LoadCall
getAdminAuditLogs     == LoadCall

Post     == ListCall("create", {}, NoRows)
PatchOf(i) == ListCall("patch", {i}, NoRows)
Delete(i)  == ListCall("delete", {i}, NoRows)

createManagedDomain   == Post
createAdminUser       == Post
createAdminAccessKey  == Post
createAdminInviteCode == Post
createOwnedAccount    == ListCall("create", {}, rows)

verifyManagedDomain(i)         == PatchOf(i)
updateManagedDomainSharing(i)  == PatchOf(i)
syncManagedDomainCloudflare(i) == PatchOf(i)
updateAdminUser(i)             == PatchOf(i)
updateAdminInviteCode(i)       == PatchOf(i)

deleteManagedDomain(i)   == Delete(i)
deleteAdminUser(i)       == Delete(i)
deleteAdminAccessKey(i)  == Delete(i)
deleteAdminInviteCode(i) == Delete(i)
deleteOwnedAccount(i)    == ListCall("delete", {i}, rows)

\* The records and the password are not in the row.
getManagedDomainRecords(i) == ListCall("read", {i}, NoRows)
resetAdminUserPassword(i)  == ListCall("read", {i}, NoRows)

clearAdminAuditLogs == ListCall("delete", {i \in Items : rows[i] > 0}, NoRows)
runAdminCleanup     == ListCall("cleanup", {}, NoRows)

----------------------------------------------------------------------------
(* Clicks                                                                  *)

CallsLeft == Cardinality(sent) + Len(answers) < MaxListCalls

\* The dialog is modal: no other button can be pressed.
Room == asking = {} /\ CallsLeft

UnderWay(op) ==
  (\E c \in sent : c.op = op) \/ (\E n \in DOMAIN answers : answers[n].call.op = op)

Send(c) ==
  /\ sent' = sent \cup {c}
  /\ UNCHANGED <<panel, server, used, shownVars, loading, asking, answers, drift>>

\* The buttons there are: those of the view on display, and none under a dialog.
DomainsView   == panel = "domains" /\ Room
UsersView     == panel = "users" /\ Room
KeysView      == panel = "keys" /\ Room
CodesView     == panel = "codes" /\ Room
MailboxesView == panel = "mailboxes" /\ Room
LogsView      == panel = "logs" /\ Room

\* The button that loads the list is disabled while it is loading.
Load(c) ==
  /\ ~loading /\ loading' = TRUE
  /\ sent' = sent \cup {c}
  /\ UNCHANGED <<panel, server, used, shownVars, asking, answers, drift>>

loadManagedDomains  == DomainsView /\ Load(fetchManagedDomains)
loadUsers           == UsersView /\ Load(fetchAdminUsers)
loadAccessKeys      == KeysView /\ Load(fetchAdminAccessKeys)
loadInviteCodes     == CodesView /\ Load(fetchAdminInviteCodes)
loadMailboxAccounts == MailboxesView /\ Load(fetchOwnedAccounts)
loadOps             == LogsView /\ Load(getAdminAuditLogs)

\* One creation at a time.
Creating == UnderWay("create")

CreateDomain  == DomainsView /\ ~Creating /\ Send(createManagedDomain)
CreateUser    == UsersView /\ ~Creating /\ Send(createAdminUser)
GenerateKey   == KeysView /\ ~Creating /\ ~loading /\ Send(createAdminAccessKey)
CreateInviteCode == CodesView /\ ~Creating /\ ~loading /\ Send(createAdminInviteCode)
CreateMailbox == MailboxesView /\ ~Creating /\ Send(createOwnedAccount)

Listed(i) == rows[i] > 0

VerifyDomain(i)     == DomainsView /\ Listed(i) /\ Send(verifyManagedDomain(i))
ShareDomain(i)      == DomainsView /\ Listed(i) /\ Send(updateManagedDomainSharing(i))
SyncCloudflare(i)   == DomainsView /\ Listed(i) /\ Send(syncManagedDomainCloudflare(i))
PatchUser(i)        == UsersView /\ Listed(i) /\ Send(updateAdminUser(i))
ToggleInviteCode(i) == CodesView /\ Listed(i) /\ Send(updateAdminInviteCode(i))

\* handleToggleDomainRecords: the records are shown beside the row.
ShowRecords(i) == DomainsView /\ Listed(i) /\ Send(getManagedDomainRecords(i))

\* requestConfirmation and requestInputValue.
Prompt(c) ==
  /\ asking' = {c}
  /\ UNCHANGED <<panel, server, used, shownVars, loading, sent, answers, drift>>

AskDeleteDomain(i)  == DomainsView /\ Listed(i) /\ Prompt(deleteManagedDomain(i))
AskDeleteUser(i)    == UsersView /\ Listed(i) /\ Prompt(deleteAdminUser(i))
AskUserLimit(i)     == UsersView /\ Listed(i) /\ Prompt(updateAdminUser(i))
AskUserPassword(i)  == UsersView /\ Listed(i) /\ Prompt(resetAdminUserPassword(i))
AskDeleteKey(i)     == KeysView /\ Listed(i) /\ Prompt(deleteAdminAccessKey(i))
AskDeleteCode(i)    == CodesView /\ Listed(i) /\ Prompt(deleteAdminInviteCode(i))
\* A domain's deletion does the same to the mailboxes under it.
AskDeleteMailbox(i) == MailboxesView /\ Listed(i) /\ Prompt(deleteOwnedAccount(i))

\* handleActionDialogConfirm, and the handler up to its next await.
ConfirmPrompt ==
  /\ asking # {}
  /\ sent' = sent \cup asking /\ asking' = {}
  /\ UNCHANGED <<panel, server, used, shownVars, loading, answers, drift>>

\* closeActionDialog.
ClosePrompt ==
  /\ asking # {}
  /\ asking' = {}
  /\ UNCHANGED <<panel, server, used, shownVars, loading, sent, answers, drift>>

\* handleClearAuditLogs; handleRunCleanup.
ClearLogs ==
  LogsView /\ ~UnderWay("delete") /\ rows # NoRows /\ Send(clearAdminAuditLogs)
RunCleanup == LogsView /\ ~UnderWay("cleanup") /\ Send(runAdminCleanup)

----------------------------------------------------------------------------
(* The backend                                                             *)

Handled(c, srv, is) ==
  /\ server' = srv
  /\ sent' = sent \ {c}
  /\ answers' = Append(answers, [call |-> [c EXCEPT !.item = is], list |-> srv, clean |-> TRUE])
  /\ UNCHANGED <<panel, shownVars, loading, asking>>

\* What came before this is no longer enough for the rows to be right.
Unfollowable(as) == [n \in DOMAIN as |-> [as[n] EXCEPT !.clean = FALSE]]

HandleLoad(c)   == c.op = "load" /\ Handled(c, server, {}) /\ UNCHANGED <<used, drift>>
HandleCreate(c) ==
  /\ c.op = "create"
  /\ \E i \in Items \ used : Handled(c, [server EXCEPT ![i] = 1], {i}) /\ used' = used \cup {i}
  /\ UNCHANGED drift
HandlePatch(c) ==
  /\ c.op = "patch"
  /\ \E i \in c.item :
       /\ server[i] \in 1 .. MaxRevision - 1
       /\ Handled(c, [server EXCEPT ![i] = @ + 1], {i})
  /\ UNCHANGED <<used, drift>>
\* The audit log is cleared as a whole.
HandleDelete(c) ==
  /\ c.op = "delete" /\ panel # "logs"
  /\ \A i \in c.item : server[i] > 0
  /\ Handled(c, [server EXCEPT ![CHOOSE i \in c.item : TRUE] = 0], c.item)
  /\ UNCHANGED <<used, drift>>

\* A user's password, a domain's records.
HandleRead(c) == c.op = "read" /\ Handled(c, server, {}) /\ UNCHANGED <<used, drift>>

\* clear_audit_logs, and trigger_cleanup, whose entries come when they come: the
\* answers do not say which.
HandleCleanup(c) ==
  /\ \/ c.op = "delete" /\ panel = "logs" /\ server' = NoRows /\ UNCHANGED used
     \/ c.op = "cleanup" /\ \E new \in SUBSET (Items \ used) :
          /\ server' = [i \in Items |-> IF i \in new THEN 1 ELSE server[i]]
          /\ used' = used \cup new
  /\ sent' = sent \ {c}
  /\ answers' = Append(Unfollowable(answers), [call |-> c, list |-> server', clean |-> FALSE])
  /\ drift' = TRUE
  /\ UNCHANGED <<panel, shownVars, loading, asking>>

\* Somebody else, the verifier or the cleanup worker changes the items.
OthersChange ==
  /\ \E i \in Items :
       \/ server[i] > 0 /\ server' = [server EXCEPT ![i] = 0] /\ UNCHANGED used
       \/ /\ server[i] \in 1 .. MaxRevision - 1
          /\ server' = [server EXCEPT ![i] = @ + 1] /\ UNCHANGED used
       \/ /\ i \notin used
          /\ server' = [server EXCEPT ![i] = 1] /\ used' = used \cup {i}
  /\ drift' = TRUE
  /\ answers' = Unfollowable(answers)
  /\ UNCHANGED <<panel, shownVars, loading, asking, sent>>

----------------------------------------------------------------------------
(* The rest of the page                                                    *)

\* The bootstrap loads domains and mailboxes once it has restored the session, a
\* cleanup is followed by a load of the domains, a save of the settings by one of
\* the log.
LoadedElsewhere ==
  /\ panel \in {"domains", "mailboxes", "logs"} /\ CallsLeft
  /\ sent' = sent \cup {LoadCall}
  /\ loading' = TRUE
  /\ UNCHANGED <<panel, server, used, shownVars, asking, answers, drift>>

\* A batch puts the domains it created on the list, and those it synchronized,
\* as they were answered to it.
BatchListed(i, v) ==
  /\ panel = "domains" /\ i \in used
  /\ rows' = [rows EXCEPT ![i] = v]
  /\ drift' = TRUE
  /\ UNCHANGED <<panel, server, used, doubled, loading, asking, sent, answers>>

\* The bootstrap of a console that had its session from a sign-in empties these
\* lists once the session is restored, loaded or not.
ListsReset ==
  /\ panel \in {"users", "codes", "logs"}
  /\ rows' = NoRows /\ doubled' = {}
  /\ drift' = TRUE
  /\ UNCHANGED <<panel, server, used, loading, asking, sent, answers>>

\* clearAdminSession, and the console of the next session: what is still under
\* way is to it like a change made by others.
NextSession ==
  /\ rows' = NoRows /\ doubled' = {} /\ loading' = TRUE
  /\ asking' = {}
  /\ sent' = {LoadCall} /\ answers' = <<>>
  /\ drift' = TRUE
  /\ UNCHANGED <<panel, server, used>>

----------------------------------------------------------------------------
(* Answers                                                                 *)

\* The calls a handler makes once its call is answered.  A mailbox that was on
\* display is replaced by another before the list is loaded again.
Follows(op) ==
  IF \/ op = "cleanup"
     \/ op = "create" /\ panel = "keys"
     \/ op = "delete" /\ panel \in {"mailboxes", "logs"}
  THEN {LoadCall} ELSE {}
Replaces(c) == c.op = "delete" /\ panel = "mailboxes"

\* The synchronization of a domain that was just added (handleCreateDomain).
AutoSync(c) == {syncManagedDomainCloudflare(i) : i \in c.item}

\* Seeded bug: a loaded list is merged into the rows.
ShownMerged(a) ==
  LET from == IF panel = "mailboxes" THEN a.call.base ELSE rows
  IN CASE a.call.op = "load"    -> [i \in Items |-> IF a.list[i] > 0 THEN a.list[i] ELSE rows[i]]
       [] a.call.op = "create"  -> [i \in Items |-> IF i \in a.call.item THEN 1 ELSE from[i]]
       [] a.call.op = "patch"   ->
            [i \in Items |-> IF i \in a.call.item /\ rows[i] > 0 THEN a.list[i] ELSE rows[i]]
       [] a.call.op = "delete" /\ panel # "logs" ->
            [i \in Items |-> IF i \in a.call.item THEN 0 ELSE from[i]]
       [] OTHER -> rows

\* The rows once answer a is in: a mailbox's handlers start from the rows of
\* their render, the others from the rows there are; users and codes that are
\* not listed any more are not added by a patch.
Shown(a) ==
  LET from == IF panel = "mailboxes" THEN a.call.base ELSE rows
  IN CASE a.call.op = "load"    -> a.list
       [] a.call.op = "create"  -> [i \in Items |-> IF i \in a.call.item THEN 1 ELSE from[i]]
       [] a.call.op = "patch"   ->
            [i \in Items |-> IF i \in a.call.item /\ rows[i] > 0 THEN a.list[i] ELSE rows[i]]
       [] a.call.op = "delete" /\ panel # "logs" ->
            [i \in Items |-> IF i \in a.call.item THEN 0 ELSE from[i]]
       [] OTHER -> rows

\* A user that was created is appended, listed by then or not.
ShownTwice(a) ==
  CASE a.call.op = "load" -> {}
    [] a.call.op = "create" /\ panel = "users" ->
         doubled \cup {i \in a.call.item : rows[i] > 0}
    [] a.call.op = "delete" -> doubled \ a.call.item
    [] OTHER -> doubled

\* An answer that overtook others, or found other rows than its handler's, is
\* not followed; a load answered in order, with nothing missed since, is.
Receive(n) ==
  LET a == answers[n]
      inOrder == n = 1 /\ (panel = "mailboxes" /\ a.call.op \in {"create", "delete"} => rows = a.call.base)
      rest == RemoveAt(answers, n)
  IN /\ rows' = Shown(a) /\ doubled' = ShownTwice(a)
     /\ drift' = (~inOrder \/ (drift /\ ~(a.call.op = "load" /\ a.clean)))
     /\ answers' = IF inOrder THEN rest ELSE Unfollowable(rest)

ListLoaded(n) ==
  /\ answers[n].call.op = "load"
  /\ Receive(n)
  /\ \/ loading' = FALSE /\ UNCHANGED sent
     \/ /\ panel = "mailboxes"
        /\ sent' = sent \cup {Activation({})} /\ UNCHANGED loading
  /\ UNCHANGED <<panel, server, used, asking>>

\* The activation of a mailbox is over, one way or another.
ActivationEnds(c) ==
  /\ c.op = "activate"
  /\ IF c.item = {} THEN sent' = sent \ {c} /\ loading' = FALSE
     ELSE sent' = (sent \ {c}) \cup {LoadCall} /\ loading' = TRUE
  /\ UNCHANGED <<panel, server, used, shownVars, asking, answers, drift>>

\* A change is answered; the loads that follow it are silent.
ChangeAnswered(n) ==
  /\ answers[n].call.op # "load"
  /\ Receive(n)
  /\ LET op == answers[n].call.op
     IN \/ /\ Replaces(answers[n].call)
           /\ sent' = sent \cup {Activation(answers[n].call.item)}
           /\ UNCHANGED loading
        \/ /\ sent' = sent \cup Follows(op)
           /\ loading' = (loading \/ Follows(op) # {})
        \/ /\ op = "create" /\ panel = "domains"
           /\ sent' = sent \cup AutoSync(answers[n].call)
           /\ UNCHANGED loading
  /\ UNCHANGED <<panel, server, used, asking>>

\* Seeded bug: no finally around the load.
AnswerLostLoading(n) ==
  /\ answers' = Unfollowable(RemoveAt(answers, n))
  /\ drift' = TRUE
  /\ UNCHANGED <<panel, server, used, shownVars, loading, asking, sent>>

\* The answer is lost on its way: the handler sees a failure, and the rows stay.
AnswerLost(n) ==
  /\ answers' = Unfollowable(RemoveAt(answers, n))
  /\ drift' = TRUE
  /\ loading' = (loading /\ answers[n].call.op # "load")
  /\ UNCHANGED <<panel, server, used, shownVars, asking, sent>>

\* The call is refused, or does not arrive.  A mailbox that is not there any
\* more counts as deleted.
CallRefused(c) ==
  /\ c \in sent /\ c.op # "activate"
  /\ loading' = (loading /\ c.op # "load")
  /\ sent' = sent \ {c}
  /\ UNCHANGED <<panel, server, used, shownVars, asking, answers, drift>>

MailboxNotFound(c) ==
  /\ c \in sent /\ c.op = "delete" /\ panel = "mailboxes"
  /\ \A i \in c.item : server[i] = 0
  /\ rows' = [i \in Items |-> IF i \in c.item THEN 0 ELSE c.base[i]]
  /\ drift' = TRUE
  /\ answers' = Unfollowable(answers)
  /\ \/ sent' = (sent \ {c}) \cup {LoadCall} /\ loading' = TRUE
     \/ sent' = (sent \ {c}) \cup {Activation(c.item)} /\ UNCHANGED loading
  /\ UNCHANGED <<panel, server, used, doubled, asking>>

----------------------------------------------------------------------------

ListClicks ==
  \/ loadManagedDomains \/ loadUsers \/ loadAccessKeys \/ loadInviteCodes
  \/ loadMailboxAccounts \/ loadOps
  \/ CreateDomain \/ CreateUser \/ GenerateKey \/ CreateInviteCode \/ CreateMailbox
  \/ \E i \in Items :
       \/ VerifyDomain(i) \/ ShareDomain(i) \/ SyncCloudflare(i)
       \/ ShowRecords(i) \/ PatchUser(i) \/ ToggleInviteCode(i) \/ AskUserPassword(i)
       \/ AskDeleteDomain(i) \/ AskDeleteUser(i) \/ AskUserLimit(i)
       \/ AskDeleteKey(i) \/ AskDeleteCode(i) \/ AskDeleteMailbox(i)
  \/ ConfirmPrompt \/ ClosePrompt
  \/ ClearLogs \/ RunCleanup

Backend ==
  \/ \E c \in sent :
       \/ HandleLoad(c) \/ HandleCreate(c) \/ HandlePatch(c) \/ HandleDelete(c)
       \/ HandleRead(c) \/ HandleCleanup(c)
       \/ CallRefused(c) \/ MailboxNotFound(c) \/ ActivationEnds(c)
  \/ OthersChange

RestOfPage ==
  \/ LoadedElsewhere \/ ListsReset \/ NextSession
  \/ \E i \in Items, v \in 1 .. MaxRevision : BatchListed(i, v)

ListsNext ==
  \/ ListClicks
  \/ Backend
  \/ RestOfPage
  \/ \E n \in DOMAIN answers : ListLoaded(n) \/ ChangeAnswered(n) \/ AnswerLost(n)

ListsSpec == ListsInit /\ [][ListsNext]_listVars

----------------------------------------------------------------------------
(* Properties                                                              *)

\* Once nothing is under way the rows are the backend's, however changes and
\* loads were mixed, as long as answers came in the order they were given; and
\* after one that was lost, overtaken or worked on old rows, and after changes
\* made elsewhere, a load puts everything right.
ListsAgree == sent = {} /\ answers = <<>> /\ ~drift => rows = server /\ doubled = {}

\* A list that shows itself as loading has a load under way, or the activation
\* of a mailbox a load goes on with.
LoadingEnds == loading => UnderWay("load") \/ Activation({}) \in sent
=============================================================================

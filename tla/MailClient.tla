----------------------------- MODULE MailClient -----------------------------
(***************************************************************************)
(* The mailbox half of the console page: the current mailbox               *)
(* (auth-context.tsx and the page's activateMailbox), the inbox            *)
(* (message-list.tsx), the event stream that keeps it fresh                *)
(* (use-mail-checker.ts) and the message on display (message-detail.tsx),  *)
(* over the calls of MailCalls.  An action is one task of the browser's    *)
(* event loop: a click, a timer, or an answer with everything that runs    *)
(* before the next await, React's re-render and its effects included.      *)
(*                                                                         *)
(* A list of messages is kept as the mailbox it came from.                 *)
(***************************************************************************)
EXTENDS MailCalls

CONSTANTS
  MaxAsked,   \* bound: tokens asked for at once by activateMailbox
  MaxCalls    \* bound: calls under way when a click, an event or a new mailbox starts one more

VARIABLES
  page,        \* the view of the console, "closed" when signed out
  selected,    \* a message is selected: its detail takes the inbox's place
  asked,       \* mailboxes a token was asked for by activateMailbox
  shown,       \* whose messages the inbox lists
  initial,     \* isInitialLoading
  manual,      \* isRefreshing
  stale,       \* the refreshKey the inbox has not handled yet
  detail,      \* the detail view
  conn,        \* the newest connection of the event stream
  watched,     \* the mailbox and token it was opened with
  watchdog,    \* watchdogRef holds a timer
  timer        \* reconnectRef holds a timer

inboxVars  == <<shown, initial, manual, stale>>
streamVars == <<conn, watched, watchdog, timer>>
vars == <<callVars, page, selected, asked, inboxVars, detail, streamVars>>

\* busy: reading, while a refresh it started is awaited; stalled: open, but
\* nothing arrives any more; cut: aborted by the watchdog; late: aborted while
\* busy, so that the events read before are still to be handled; broken: failed,
\* while the refresh that precedes the reconnection is awaited.
Connections ==
  {"none", "connecting", "open", "busy", "stalled", "late", "cut", "broken"}

TypeOK ==
  /\ CallsTypeOK
  /\ page \in {"closed", "mailboxes", "elsewhere"}
  /\ selected \in BOOLEAN
  /\ asked \subseteq Mailboxes
  /\ shown \in Mailboxes \cup {None}
  /\ initial \in BOOLEAN /\ manual \in BOOLEAN /\ stale \in BOOLEAN
  /\ detail \in {"none", "loading", "shown", "failed"}
  /\ conn \in Connections
  /\ watched \in (Mailboxes \X Tokens) \cup {None}
  /\ watchdog \in BOOLEAN /\ timer \in BOOLEAN

Init ==
  /\ CallsInit
  /\ page = "mailboxes" /\ selected = FALSE /\ asked = {}
  /\ shown = None /\ initial = FALSE /\ manual = FALSE /\ stale = FALSE
  /\ detail = "none"
  /\ conn = "none" /\ watched = None /\ watchdog = FALSE /\ timer = FALSE

----------------------------------------------------------------------------
(* Rendering                                                               *)

ListUp   == page = "mailboxes" /\ cur # None /\ ~selected
DetailUp == page = "mailboxes" /\ cur # None /\ selected

FromInbox(c)  == c.kind \in {"initial", "manual"}
FromStream(c) == c.kind \in {"reading", "recovering"}

Orphaned(cs, dropped) ==
  {IF c \in dropped THEN [c EXCEPT !.kind = "orphan", !.live = FALSE] ELSE c : c \in cs}

\* isRefreshingRef of the inbox on display.
Checking(cs) == \E c \in cs : FromStream(c)

\* The calls after the inbox is set up anew: the request id of its fetches has
\* moved on, and the stream's connection is no longer the newest.  When it is
\* not the same inbox any more, nothing of the old one is left.
Superseded(cs, same) ==
  {IF FromStream(c) /\ same THEN [c EXCEPT !.live = FALSE] ELSE c :
     c \in Orphaned(cs, {c \in cs : FromInbox(c) \/ (FromStream(c) /\ ~same)})}

\* connectStream up to its request, which aborts the connection before it.
ConnectStream(c, t) ==
  /\ conn' = "connecting" /\ watched' = <<c, t>>
  /\ watchdog' = FALSE /\ timer' = FALSE

\* Seeded bug: the reconnection is not cancelled.
StopCheckingLater ==
  /\ conn' = "none" /\ watched' = None
  /\ watchdog' = FALSE /\ UNCHANGED timer

StopChecking ==
  /\ conn' = "none" /\ watched' = None
  /\ watchdog' = FALSE /\ timer' = FALSE

\* The render that follows a change of the view, the selection or the mailbox:
\* fresh says that currentAccount is a new object or token a new string, which
\* runs the effects of the inbox and the stream again.
Render(cs, p, s, c, t, fresh) ==
  LET list   == p = "mailboxes" /\ c # None /\ ~s
      single == p = "mailboxes" /\ c # None /\ s
      rerun  == list /\ (fresh \/ ~ListUp)
      reload == single /\ (t # tok \/ ~DetailUp)
      kept   == IF rerun \/ ~list THEN Superseded(cs, list /\ ListUp) ELSE cs
      read   == IF reload \/ ~single
                THEN Orphaned(kept, {k \in kept : k.kind = "detail"}) ELSE kept
  IN /\ page' = p /\ selected' = s /\ cur' = c /\ tok' = t
     /\ calls' = read \cup (IF rerun THEN {Call("initial", t)} ELSE {})
                      \cup (IF reload THEN {Call("detail", t)} ELSE {})
     /\ initial' = (list /\ (rerun \/ initial))
     /\ manual'  = (list /\ ListUp /\ manual)
     /\ stale'   = (list /\ ListUp /\ c = cur /\ stale)
     /\ shown'   = IF list /\ ListUp THEN shown ELSE None
     /\ detail'  = IF reload THEN "loading" ELSE IF single THEN detail ELSE "none"
     /\ IF rerun THEN ConnectStream(c, t)
        ELSE IF ~list THEN StopChecking
        ELSE UNCHANGED streamVars

NewToken(a) == [of |-> a, period |-> period]

----------------------------------------------------------------------------
(* The current mailbox                                                     *)

\* A click on a mailbox: issueOwnedAccountToken.
ActivateMailbox(a) ==
  /\ page = "mailboxes"
  /\ a \notin asked /\ Cardinality(asked) < MaxAsked
  /\ Cardinality(calls) < MaxCalls
  /\ asked' = asked \cup {a}
  /\ UNCHANGED <<callVars, page, selected, inboxVars, detail, streamVars>>

\* Its answer, whatever has become of the page: activateAccount.
MailboxActivated(a) ==
  /\ a \in asked
  /\ Cardinality(calls) <= MaxCalls
  /\ asked' = asked \ {a}
  /\ Render(calls, page, FALSE, a, NewToken(a), TRUE)
  /\ UNCHANGED <<period, refreshing>>

ActivationFails(a) ==
  /\ a \in asked
  /\ asked' = asked \ {a}
  /\ UNCHANGED <<callVars, page, selected, inboxVars, detail, streamVars>>

\* The list of mailboxes was loaded, or changed by a creation or a deletion, and
\* the page may have been left since: syncAccounts keeps the current mailbox if
\* it is still listed, and a mailbox of the list may be activated next.  A
\* message on display is dropped with the last mailbox, or by the deletion of
\* the current one.
MailboxesSynced(list, next, drop) ==
  /\ next \subseteq list
  /\ Cardinality(next) <= 1
  /\ next = {} => cur \in list \/ list = {}
  /\ cur \in list => ~drop
  /\ list = {} => drop
  /\ Cardinality(calls) < MaxCalls
  /\ asked' = asked \cup next /\ Cardinality(asked') <= MaxAsked
  /\ LET c == IF cur \in list THEN cur ELSE None
     IN Render(calls, page, selected /\ ~drop, c,
               IF c = None THEN None ELSE tok, c # None)
  /\ UNCHANGED <<period, refreshing>>

\* clearAdminSession, up to its await: clearAccounts; the marker it clears
\* replaces the page by the entry page.
SignOut ==
  /\ page # "closed"
  /\ Cardinality(calls) <= MaxCalls
  /\ Render(Orphaned(calls, {c \in calls : c.kind = "delete"}),
            "closed", FALSE, None, None, TRUE)
  /\ UNCHANGED <<period, refreshing, asked>>

\* A console call is refused with a 401 or a 403, which clears the marker in
\* api.ts: the entry page takes the console's place, and the AuthProvider above
\* both keeps the mailbox and its token.
SessionLost ==
  /\ page # "closed"
  /\ Cardinality(calls) <= MaxCalls
  /\ Render(Orphaned(calls, {c \in calls : c.kind = "delete"}),
            "closed", FALSE, cur, tok, FALSE)
  /\ UNCHANGED <<period, refreshing, asked>>

\* A console page of its own, over the same AuthProvider.
SignIn ==
  /\ page = "closed"
  /\ Cardinality(calls) < MaxCalls
  /\ Render(calls, "mailboxes", FALSE, cur, tok, TRUE)
  /\ UNCHANGED <<period, refreshing, asked>>

\* handleSelectView, to another view or back.
SelectView(p) ==
  /\ page # "closed" /\ p # page
  /\ Cardinality(calls) < MaxCalls
  /\ Render(calls, p, selected, cur, tok, FALSE)
  /\ UNCHANGED <<period, refreshing, asked>>

\* Seeded bug: the event is taken for a change of the token alone, and the
\* account object is kept.
TokenRefreshedInPlace ==
  /\ refreshing # None
  /\ refreshing' = None
  /\ LET t == NewToken(refreshing)
     IN IF cur = None
        THEN /\ calls' = Resumed(calls, t)
             /\ UNCHANGED <<page, selected, cur, tok, inboxVars, detail, streamVars>>
        ELSE Render(Resumed(calls, t), page, selected, cur, t, FALSE)
  /\ UNCHANGED <<period, asked>>

\* The refresh yields a token, and updateRuntimeMailboxToken gives it to the
\* mailbox that is current by then.
TokenRefreshed ==
  /\ refreshing # None
  /\ refreshing' = None
  /\ LET t == NewToken(refreshing)
     IN IF cur = None
        THEN /\ calls' = Resumed(calls, t)
             /\ UNCHANGED <<page, selected, cur, tok, inboxVars, detail, streamVars>>
        ELSE Render(Resumed(calls, t), page, selected, cur, t, TRUE)
  /\ UNCHANGED <<period, asked>>

----------------------------------------------------------------------------
(* The inbox                                                               *)

\* What a change of the inbox leaves: a refresh key that could not be handled
\* while it was loading is handled now, by fetchInbox("refresh").
Settle(cs, show, load, man, key) ==
  /\ shown' = show
  /\ initial' = load
  /\ IF key /\ ~load
     THEN /\ calls' = Orphaned(cs, {c \in cs : FromInbox(c)}) \cup {Call("manual", tok)}
          /\ manual' = TRUE /\ stale' = FALSE
     ELSE /\ calls' = cs
          /\ manual' = man /\ stale' = key

\* What the inbox displays instead of the console's list or under its header:
\* the skeleton, the panel of an empty or failed inbox, or the rows.
InboxShows ==
  IF initial THEN "skeleton" ELSE IF shown = None THEN "panel" ELSE "rows"

\* The refresh buttons, disabled while the inbox refreshes.
ManualRefresh ==
  /\ ListUp /\ InboxShows # "skeleton" /\ ~manual
  /\ Cardinality(calls) < MaxCalls
  /\ Settle(calls, shown, FALSE, FALSE, TRUE)
  /\ UNCHANGED <<period, cur, tok, refreshing, page, selected, asked, detail, streamVars>>

\* The guard of ten seconds on the first load; its request goes on.
InitialLoadGuard ==
  /\ \E c \in calls : c.kind = "initial"
  /\ initial
  /\ Settle(calls, shown, FALSE, manual, stale)
  /\ UNCHANGED <<period, cur, tok, refreshing, page, selected, asked, detail, streamVars>>

\* The newest fetchInbox returns.
InboxFetched(c, ok) ==
  /\ FromInbox(c)
  /\ Settle(calls \ {c},
            IF ok THEN c.token.of ELSE IF c.kind = "initial" THEN None ELSE shown,
            initial /\ c.kind # "initial", manual /\ c.kind # "manual", stale)
  /\ UNCHANGED <<period, cur, tok, refreshing, page, selected, asked, detail, streamVars>>

----------------------------------------------------------------------------
(* The event stream                                                        *)

\* scheduleReconnect.
ScheduleReconnect == timer' = TRUE

StreamOpens ==
  /\ conn = "connecting"
  /\ conn' = "open" /\ watchdog' = TRUE
  /\ UNCHANGED <<callVars, page, selected, asked, inboxVars, detail, watched, timer>>

\* The newest connection's reader has an event to handle: one that arrives, or
\* after the watchdog cut it off one that was read before.
Handles ==
  \/ conn = "open"
  \/ conn = "late" /\ ~\E c \in calls : c.kind = "reading" /\ c.live

\* A heartbeat, or a notice that events were lost: neither refreshes.
Heartbeat ==
  /\ Handles
  /\ watchdog' = TRUE
  /\ UNCHANGED <<callVars, page, selected, asked, inboxVars, detail, conn, watched, timer>>

\* handleEvent on a message event, and refreshMessages up to its call, unless
\* one is under way.
MessageEvent ==
  /\ Handles
  /\ watchdog' = TRUE
  /\ IF Checking(calls)
     THEN UNCHANGED <<conn, calls>>
     ELSE /\ Cardinality(calls) < MaxCalls
          /\ conn' = IF conn = "late" THEN "late" ELSE "busy"
          /\ calls' = calls \cup {Call("reading", tok)}
  /\ UNCHANGED <<period, cur, tok, refreshing, page, selected, asked, inboxVars, detail, watched, timer>>

\* The server or the network goes silent.
StreamStalls ==
  /\ conn = "open"
  /\ conn' = "stalled"
  /\ UNCHANGED <<callVars, page, selected, asked, inboxVars, detail, watched, watchdog, timer>>

\* armWatchdog's timer, which aborts the newest connection: a reader that waits
\* for the stream fails, one that waits for a refresh goes on with its buffer.
WatchdogFires ==
  /\ watchdog /\ conn \in {"stalled", "busy", "late"}
  /\ conn' = IF conn = "stalled" THEN "cut" ELSE "late"
  /\ watchdog' = FALSE
  /\ UNCHANGED <<callVars, page, selected, asked, inboxVars, detail, watched, timer>>

\* Seeded bug: a refresh under way is taken for the recovery of this connection.
StreamFailsUnlessChecking ==
  /\ conn \in {"connecting", "open", "stalled", "late", "cut"}
  /\ ~\E c \in calls : c.kind = "reading" /\ c.live
  /\ watchdog' = FALSE
  /\ IF Checking(calls)
     THEN conn' = "none" /\ UNCHANGED calls
     ELSE conn' = "broken" /\ calls' = calls \cup {Call("recovering", tok)}
  /\ UNCHANGED <<period, cur, tok, refreshing, page, selected, asked, inboxVars, detail, watched, timer>>

\* connectStream's catch block, up to the end of refreshMessages if that does
\* not call.  A connection aborted while its refresh is awaited notices later.
StreamFails ==
  /\ conn \in {"connecting", "open", "stalled", "late", "cut"}
  /\ ~\E c \in calls : c.kind = "reading" /\ c.live
  /\ watchdog' = FALSE
  /\ IF Checking(calls)
     THEN /\ conn' = "none" /\ ScheduleReconnect
          /\ UNCHANGED calls
     ELSE /\ conn' = "broken"
          /\ calls' = calls \cup {Call("recovering", tok)}
          /\ UNCHANGED timer
  /\ UNCHANGED <<period, cur, tok, refreshing, page, selected, asked, inboxVars, detail, watched>>

\* The timer of scheduleReconnect: connectStream anew, aborting what there is.
Reconnect ==
  /\ timer
  /\ ConnectStream(cur, tok)
  /\ calls' = {IF FromStream(c) THEN [c EXCEPT !.live = FALSE] ELSE c : c \in calls}
  /\ UNCHANGED <<period, cur, tok, refreshing, page, selected, asked, inboxVars, detail>>

\* The reader of a connection that was replaced asks once more, for an event it
\* had read before, with the token it was opened with.
AskedAgain(c) == [Call("reading", c.first) EXCEPT !.live = FALSE]

\* refreshMessages returns to the reader, which reads on: that of a connection
\* replaced meanwhile handles what it has read, which arms the watchdog (more:
\* it refreshes again), and then clears it; or to the catch block, which reconnects.
MessagesRefreshed(c, ok, more) ==
  /\ FromStream(c)
  /\ more => c.kind = "reading" /\ ~c.live
  /\ LET rest == (calls \ {c}) \cup (IF more THEN {AskedAgain(c)} ELSE {})
     IN IF ok THEN Settle(rest, c.token.of, FALSE, FALSE, stale)
              ELSE Settle(rest, shown, initial, manual, stale)
  /\ CASE c.kind = "recovering" ->
            /\ ScheduleReconnect
            /\ conn' = IF c.live THEN "none" ELSE conn
            /\ UNCHANGED watchdog
       [] c.kind = "reading" /\ c.live ->
            /\ conn' = IF conn = "busy" THEN "open" ELSE conn
            /\ UNCHANGED <<watchdog, timer>>
       [] c.kind = "reading" /\ ~c.live ->
            /\ watchdog' = more
            /\ UNCHANGED <<conn, timer>>
  /\ UNCHANGED <<period, cur, tok, refreshing, page, selected, asked, detail, watched>>

----------------------------------------------------------------------------
(* The message on display                                                  *)

\* A click on a row.
SelectMessage ==
  /\ ListUp /\ InboxShows = "rows"
  /\ Cardinality(calls) < MaxCalls
  /\ Render(calls, page, TRUE, cur, tok, FALSE)
  /\ UNCHANGED <<period, refreshing, asked>>

\* onBack, from the message or from what is displayed when there is none.
CloseMessage ==
  /\ DetailUp /\ detail # "loading"
  /\ Cardinality(calls) < MaxCalls
  /\ Render(calls, page, FALSE, cur, tok, FALSE)
  /\ UNCHANGED <<period, refreshing, asked>>

\* A message that was not seen is marked, which changes nothing on display.
MarkAsRead(seen) == IF seen THEN {} ELSE {Call("orphan", tok)}

DetailFetched(c, ok, seen) ==
  /\ c.kind = "detail"
  /\ detail' = IF ok THEN "shown" ELSE "failed"
  /\ calls' = (calls \ {c}) \cup (IF ok THEN MarkAsRead(seen) ELSE {})
  /\ UNCHANGED <<period, cur, tok, refreshing, page, selected, asked, inboxVars, streamVars>>

DeleteMessage ==
  /\ detail = "shown"
  /\ Cardinality(calls) < MaxCalls
  /\ calls' = calls \cup {Call("delete", tok)}
  /\ UNCHANGED <<period, cur, tok, refreshing, page, selected, asked, inboxVars, detail, streamVars>>

\* The source of the message or an attachment.  The flags that keep the same
\* button from starting a second one are left out: nothing else reads them.
Download ==
  /\ detail = "shown"
  /\ Cardinality(calls) < MaxCalls
  /\ calls' = calls \cup {DownloadCall(tok)}
  /\ UNCHANGED <<period, cur, tok, refreshing, page, selected, asked, inboxVars, detail, streamVars>>

\* handleDelete after its await, whatever is on display by then: onDelete
\* clears the selection and raises the refresh key.  An error is displayed in
\* the message's place, if it is that message's view still.
MessageDeleted(c, ok) ==
  /\ c.kind = "delete"
  /\ \/ /\ ok /\ selected
        /\ Render(calls \ {c}, page, FALSE, cur, tok, FALSE)
     \/ /\ ok /\ ~selected /\ ListUp
        /\ Settle(calls \ {c}, shown, initial, manual, TRUE)
        /\ UNCHANGED <<cur, tok, page, selected, detail, streamVars>>
     \/ /\ ~ok \/ (~selected /\ ~ListUp)
        /\ calls' = calls \ {c}
        /\ \/ UNCHANGED detail
           \/ ~ok /\ detail = "shown" /\ detail' = "failed"
        /\ UNCHANGED <<cur, tok, page, selected, inboxVars, streamVars>>
  /\ UNCHANGED <<period, refreshing, asked>>

NobodyWaits(c) ==
  /\ c.kind = "orphan"
  /\ calls' = calls \ {c}
  /\ UNCHANGED <<period, cur, tok, refreshing, page, selected, asked, inboxVars, detail, streamVars>>

----------------------------------------------------------------------------

Return(c, ok) ==
  \/ InboxFetched(c, ok)
  \/ \E more \in BOOLEAN : MessagesRefreshed(c, ok, more)
  \/ \E seen \in BOOLEAN : DetailFetched(c, ok, seen)
  \/ MessageDeleted(c, ok)
  \/ NobodyWaits(c)

\* An answer to the call, or what api.ts does about one.
CallStep(c) ==
  \/ Succeeds(c) /\ Return(c, TRUE)
  \/ (Refused(c) \/ Fails(c)) /\ Return(c, FALSE)
  \/ /\ WaitsForToken(c) \/ Denied(c) \/ FallsBack(c) \/ Retried(c)
     /\ UNCHANGED <<page, selected, asked, inboxVars, detail, streamVars>>

RefreshSteps ==
  \/ TokenRefreshed
  \/ RefreshFails /\ UNCHANGED <<page, selected, asked, inboxVars, detail, streamVars>>

StreamSteps ==
  \/ StreamOpens \/ Heartbeat \/ MessageEvent \/ StreamStalls
  \/ WatchdogFires \/ StreamFails \/ Reconnect

UserSteps ==
  \/ \E a \in Mailboxes : ActivateMailbox(a)
  \/ \E list, next \in SUBSET Mailboxes, drop \in BOOLEAN :
       MailboxesSynced(list, next, drop)
  \/ SignOut \/ SessionLost \/ SignIn
  \/ \E p \in {"mailboxes", "elsewhere"} : SelectView(p)
  \/ ManualRefresh \/ SelectMessage \/ CloseMessage
  \/ DeleteMessage \/ Download

Next ==
  \/ UserSteps
  \/ \E a \in Mailboxes : MailboxActivated(a) \/ ActivationFails(a)
  \/ \E c \in calls : CallStep(c)
  \/ RefreshSteps
  \/ StreamSteps
  \/ InitialLoadGuard
  \/ TimePasses /\ UNCHANGED <<page, selected, asked, inboxVars, detail, streamVars>>

Spec == Init /\ [][Next]_vars

----------------------------------------------------------------------------
(* Properties                                                              *)

\* Whatever the page shows as under way is under way: an inbox or a message
\* that loads has a request that will end it, a connection that broke is being
\* replaced, and no call waits for a refresh that is over.
NothingIsAbandoned ==
  /\ initial => \E c \in calls : c.kind = "initial"
  /\ detail = "loading" => \E c \in calls : c.kind = "detail"
  /\ ListUp /\ conn = "none" => timer
  /\ conn = "broken" => \E c \in calls : c.kind = "recovering" /\ c.live
  /\ conn = "busy" => \E c \in calls : c.kind = "reading" /\ c.live
  /\ \A c \in calls : c.stage = "waiting" => refreshing # None

\* The event stream is the current mailbox's, opened with its current token.
StreamFollowsMailbox ==
  conn # "none" => ListUp /\ watched = <<cur, tok>>

\* Whose answer is still wanted: a connection that was replaced finishes its
\* refresh, and what comes of it is shown all the same.
Wanted(c) == FromInbox(c) \/ (FromStream(c) /\ c.live) \/ c.kind = "detail"

Single(cs) == \A c, d \in cs : c = d

\* Inbox, stream and message each wait for one answer at most, however often
\* they were set up anew while the last one was on its way.
OneAnswerEach(cs) ==
  /\ Single({c \in cs : FromInbox(c)})
  /\ Single({c \in cs : FromStream(c)})
  /\ Single({c \in cs : c.kind = "detail"})

\* What they wait for was asked with this token, and carries it.
AskedWith(cs, t) == \A c \in cs : Wanted(c) => c.first = t /\ c.token = t

\* The page waits for the current mailbox alone: its stream, and one answer for
\* each of its parts, asked with the token on display.
DisplayFollowsMailbox ==
  /\ StreamFollowsMailbox
  /\ OneAnswerEach(calls)
  /\ AskedWith(calls, tok)

\* The inbox comes to list another mailbox's messages, or the current one's
\* again, only by an answer with the current token or by the refresh of a
\* connection that was replaced.
ListsByTokenOrOldStream ==
  [][shown' \notin {shown, None} =>
       \/ cur # None /\ shown' = tok.of
       \/ \E c \in calls : FromStream(c) /\ ~c.live /\ shown' = c.token.of]_vars

\* The token the client holds for the current mailbox is a token of that
\* mailbox: the refresh has, as its comment says, protection against races.
TokenOfItsMailbox == cur # None => tok.of = cur

\* It comes to be another mailbox's in one way only: by a refresh that was asked
\* for that one, and is answered after the user has left it.
MixedByLateRefresh ==
  [][cur' # None /\ tok'.of # cur' /\ (cur # None => tok.of = cur) =>
       /\ refreshing \notin {None, cur} /\ refreshing' = None
       /\ cur' = cur /\ tok'.of = refreshing]_vars

Kinded(k) == \E c \in calls : c.kind = k /\ CallStep(c)

\* An aborted connection notices, once it has handled what it had read.
CutNoticed == conn \in {"late", "cut"} /\ StreamFails

\* Every request is answered or times out (fetchWithTimeout), timers fire, a
\* connection cut off has read finitely many events, and a stream that is asked
\* for again and again opens in the end.
Fairness ==
  /\ \A k \in {"reading", "recovering"} : WF_vars(Kinded(k))
  /\ WF_vars(RefreshSteps)
  /\ WF_vars(Reconnect)
  /\ WF_vars((conn = "connecting" /\ StreamFails) \/ StreamOpens)
  /\ SF_vars(CutNoticed)
  /\ SF_vars(StreamOpens)

FairSpec == Spec /\ Fairness

\* A broken stream is open again in the end, unless the inbox is closed.
StreamReturns ==
  (ListUp /\ conn \in {"none", "late", "cut", "broken"})
    ~> (conn \in {"open", "busy", "stalled"} \/ ~ListUp)
=============================================================================

------------------------------ MODULE MailCalls ------------------------------
(***************************************************************************)
(* Calls of the browser client to the mailbox endpoints (lib/api.ts): each *)
(* carries a mailbox token; a 401 makes the client refresh the token of    *)
(* the mailbox that is current by then, once for all the calls that wait,  *)
(* and try again.                                                          *)
(*                                                                         *)
(* A token speaks for one mailbox and for one period of time.  cur and tok *)
(* are the currentAccount and token of the React state and of its runtime  *)
(* copy, which a layout effect keeps equal.                                *)
(***************************************************************************)
EXTENDS Naturals, FiniteSets

CONSTANTS
  Mailboxes,   \* the accounts of the console's user
  None,        \* null
  MaxPeriod,   \* bound: how often tokens may expire
  Retries      \* what retryFetch adds to a failing deletion (3 in api.ts)

ASSUME MailCallsAssumption ==
  /\ None \notin Mailboxes \cup [of : Mailboxes, period : Nat]
  /\ MaxPeriod \in Nat
  /\ Retries \in Nat

VARIABLES
  period,      \* time, as tokens see it
  cur,         \* authState.currentAccount
  tok,         \* authState.token
  calls,       \* calls that have not returned to their caller
  refreshing   \* the mailbox refreshTokenPromise asks a token for

callVars == <<period, cur, tok, calls, refreshing>>

Tokens == [of : Mailboxes, period : Nat]

\* What the server's check of a token's signature and expiry comes to.
Valid(t) == t.period = period

\* Who made the call: the inbox's two kinds of fetch, the stream reader and
\* its recovery (use-mail-checker.ts), the detail view, or nobody who wants the
\* answer, or does any more.
Kinds == {"initial", "manual", "reading", "recovering",
          "detail", "delete", "orphan"}

\* live: the stream connection that asked is still the newest.  first is the
\* function's currentToken, token what the request under way carries; sent
\* counts the requests of this attempt, left the attempts retryFetch has left.
Calls == [kind : Kinds, live : BOOLEAN, first : Tokens, token : Tokens,
          stage : {"sent", "waiting", "denied"}, sent : Nat, left : Nat]

CallsTypeOK ==
  /\ period \in Nat
  /\ cur \in Mailboxes \cup {None}
  /\ tok \in Tokens \cup {None}
  /\ calls \subseteq Calls
  /\ refreshing \in Mailboxes \cup {None}

CallsInit ==
  /\ period = 0
  /\ cur = None /\ tok = None
  /\ calls = {}
  /\ refreshing = None

\* getMessages, getMessage, markMessageAsRead: no retries; deleteMessage: some.
Call(kind, t) ==
  [kind |-> kind, live |-> kind # "orphan", first |-> t, token |-> t, stage |-> "sent",
   sent |-> 1, left |-> IF kind = "delete" THEN Retries ELSE 0]

\* downloadProtectedAsset: retried, and nothing on display waits for it.
DownloadCall(t) == [Call("orphan", t) EXCEPT !.left = Retries]

\* The same call with another token.
SentAgain(c, t) == [c EXCEPT !.token = t, !.stage = "sent", !.sent = @ + 1]

Replaced(c, d) == (calls \ {c}) \cup {d}

----------------------------------------------------------------------------
(* The steps of a call.  What its caller does with the answer is up to the *)
(* module that composes this one.                                          *)

Answered(c) == c \in calls /\ c.stage = "sent"

\* 2xx: the data of the mailbox the token is for.
Succeeds(c) == Answered(c) /\ Valid(c.token)

\* A 401, and fetchWithTokenRefresh has not retried yet: tryRefreshToken joins
\* the refresh under way, or starts one for the current mailbox.
WaitsForToken(c) ==
  /\ Answered(c)
  /\ ~Valid(c.token)
  /\ c.sent = 1
  /\ refreshing # None \/ cur # None
  /\ calls' = Replaced(c, [c EXCEPT !.stage = "waiting"])
  /\ refreshing' = IF refreshing # None THEN refreshing ELSE cur
  /\ UNCHANGED <<period, cur, tok>>

\* A 401 with no token to be had, or after the refreshed token was tried.
Denied(c) ==
  /\ Answered(c)
  /\ ~Valid(c.token)
  /\ c.sent > 1 \/ (refreshing = None /\ cur = None)
  /\ calls' = Replaced(c, [c EXCEPT !.stage = "denied"])
  /\ UNCHANGED <<period, cur, tok, refreshing>>

\* getCurrentAccountFromRuntime has a token other than the call's.
OtherToken(c) == cur # None /\ tok # c.first

\* The last resort of each function: once more with the token current by now.
FallsBack(c) ==
  /\ c \in calls
  /\ c.stage = "denied"
  /\ c.sent < 3
  /\ OtherToken(c)
  /\ calls' = Replaced(c, [SentAgain(c, tok) EXCEPT !.first = tok, !.sent = 3])
  /\ UNCHANGED <<period, cur, tok, refreshing>>

\* The 401 reaches retryFetch, which does not retry it.
Refused(c) ==
  /\ c \in calls
  /\ c.stage = "denied"
  /\ c.sent = 3 \/ ~OtherToken(c)

\* A network error or a status retryFetch retries: the function runs again.
Retried(c) ==
  /\ Answered(c)
  /\ c.left > 0
  /\ calls' = Replaced(c, [c EXCEPT !.token = c.first, !.sent = 1, !.left = @ - 1])
  /\ UNCHANGED <<period, cur, tok, refreshing>>

\* Such an error with no attempt left, or a status that is not retried.
Fails(c) == Answered(c)

\* Seeded bug: only the call that started the refresh hears of its failure.
RefreshFailsAlone ==
  /\ refreshing # None
  /\ refreshing' = None
  /\ UNCHANGED <<period, cur, tok, calls>>

\* The refresh yields no token: every call that waits is left with its 401.
RefreshFails ==
  /\ refreshing # None
  /\ refreshing' = None
  /\ calls' = {IF c.stage = "waiting" THEN [c EXCEPT !.stage = "denied"] ELSE c : c \in calls}
  /\ UNCHANGED <<period, cur, tok>>

\* What the calls become when the refresh yields a token.
Resumed(cs, t) == {IF c.stage = "waiting" THEN SentAgain(c, t) ELSE c : c \in cs}

\* Tokens issued so far expire.
TimePasses ==
  /\ period < MaxPeriod
  /\ period' = period + 1
  /\ UNCHANGED <<cur, tok, calls, refreshing>>
=============================================================================

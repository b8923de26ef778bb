----------------------------- MODULE WebSession -----------------------------
(***************************************************************************)
(* The console's session as one browser tab sees it: the http-only cookie  *)
(* that the proxy (app/api/mail/route.ts) sets and clears, the marker and  *)
(* the pending session of sessionStorage (lib/admin-session.ts), and the   *)
(* pages that read and write them: the entry page, the console page and    *)
(* the Linux Do callback.  The marker decides between entry and console.   *)
(*                                                                         *)
(* A step is one task of the tab: a click, a page load, or an answer with  *)
(* the cookie it carries and the render it leads to.  The sessions are one *)
(* user's.                                                                 *)
(***************************************************************************)
EXTENDS Naturals, FiniteSets

CONSTANTS
  Offered,      \* what the status offers besides login: register, otp, linux-do, recover
  Attempts,     \* of restoreAdminSessionInfo (2 in api.ts)
  MaxSessions,  \* bound: sessions opened, here and in other tabs
  MaxStates,    \* bound: authorizations started at Linux Do
  MaxRequests   \* bound: requests under way when a click starts one more

ASSUME WebSessionAssumption ==
  /\ Attempts \in Nat \ {0}
  /\ {MaxSessions, MaxStates, MaxRequests} \subseteq Nat

VARIABLES
  trusted,     \* the context allows sensitive actions (isTrustedAdminContext)
  cookie,      \* the session of the cookie, 0 if there is none
  alive,       \* the sessions the backend accepts
  issued,      \* the sessions opened so far
  setUp,       \* the backend has its first administrator
  marker,      \* hasStoredAdminSession
  handed,      \* the pending session a sign-in leaves for the console, or 0
  page,        \* the page the tab shows, "away" while it is at Linux Do
  booting,     \* isBootstrapping of that page
  info,        \* the console's sessionInfo: a session, or 0
  status,      \* the entry page's status
  requests,    \* requests whose answers the tab has not seen
  states,      \* authorizations started so far: the nth has state n and code n
  tabState,    \* the state in sessionStorage, or 0
  pendingToken,\* the pending token in sessionStorage
  callback,    \* what the callback page does
  url,         \* the code and state it was opened with, or 0
  codesSent,   \* history: how often each code was sent to the backend
  out          \* history: the user signed out and has not come back

cookieVars == <<trusted, cookie, alive, issued, setUp>>
tabVars    == <<marker, handed, page, booting, info, status, requests>>
oauthVars  == <<states, tabState, pendingToken, callback, url, codesSent>>
sessionVars == <<cookieVars, tabVars, oauthVars, out>>

Sessions == 0 .. MaxSessions
Codes    == 1 .. MaxStates
Forms    == {"setup", "login", "register", "recover"}

\* mounted: the page that asked is still there.  session is the cookie the
\* request went out with, left the attempts it has left.
Requests == [kind : Forms \cup {"otp", "status", "resume", "authorize", "restore",
                                "request", "password", "signout", "complete"},
             session : Sessions, mounted : BOOLEAN, left : 0 .. Attempts, code : {0} \cup Codes]

SessionTypeOK ==
  /\ trusted \in BOOLEAN
  /\ cookie \in Sessions /\ alive \subseteq Sessions /\ issued \in Sessions
  /\ setUp \in BOOLEAN /\ marker \in BOOLEAN /\ handed \in Sessions
  /\ page \in {"entry", "console", "callback", "away"}
  /\ booting \in BOOLEAN /\ info \in Sessions
  /\ status \in {"unknown", "setup", "login"}
  /\ requests \subseteq Requests
  /\ states \in 0 .. MaxStates /\ tabState \in 0 .. MaxStates
  /\ pendingToken \in BOOLEAN
  /\ callback \in {"none", "working", "prompt", "failed", "denied"}
  /\ url \in 0 .. MaxStates
  /\ codesSent \in [Codes -> Nat]
  /\ out \in BOOLEAN

Request(kind, c) ==
  [kind |-> kind, session |-> c, mounted |-> TRUE, code |-> 0,
   left |-> IF kind \in {"restore", "resume"} THEN Attempts ELSE 1]

\* What the functions of lib/api.ts send: a form its own request, the callback
\* the code n, or 0 with the token that waits for an invite code.
getAdminStatus         == Request("status", 0)
setupAdminPassword     == Request("setup", 0)
loginAdmin             == Request("login", 0)
registerConsole        == Request("register", 0)
recoverAdmin           == Request("recover", 0)
sendConsoleRegisterOtp == Request("otp", 0)
getLinuxDoAuthorizationUrl == Request("authorize", 0)
completeLinuxDoLogin(n) == [Request("complete", 0) EXCEPT !.code = n]

\* The requests of a page that is replaced; a status nobody shows is dropped.
Unmounted(rs) == {[r EXCEPT !.mounted = FALSE] : r \in {x \in rs : x.kind # "status"}}

SessionInit ==
  /\ trusted \in BOOLEAN
  /\ cookie = 0 /\ alive = {} /\ issued = 0 /\ setUp \in BOOLEAN
  /\ marker = FALSE /\ handed = 0
  /\ page = "entry" /\ booting = TRUE /\ info = 0 /\ status = "unknown"
  /\ requests = {getAdminStatus}
  /\ states = 0 /\ tabState = 0 /\ pendingToken = FALSE
  /\ callback = "none" /\ url = 0
  /\ codesSent = [n \in Codes |-> 0]
  /\ out = FALSE

----------------------------------------------------------------------------
(* Pages replacing each other                                              *)

\* The entry page, mounted over requests rs: its bootstrap asks for the status.
ToEntry(rs) ==
  /\ page' = "entry" /\ booting' = TRUE /\ status' = "unknown" /\ info' = 0
  /\ requests' = rs \cup {getAdminStatus}

\* takePendingAdminSession and applyAdminSession: the pending session h, if there
\* is one, is taken and shown at once.
TakePending(h) == handed' = 0 /\ info' = h /\ booting' = (h = 0)

\* The console, mounted with cookie c and the pending session h: its bootstrap
\* restores the session of the cookie as well.
ToConsole(rs, c, h) ==
  /\ page' = "console" /\ status' = "unknown" /\ marker' = TRUE
  /\ TakePending(h)
  /\ requests' = rs \cup {Request("restore", c)}

\* clearStoredAdminSession, with requests rs under way: the console goes.
MarkerCleared(rs) ==
  /\ marker' = FALSE /\ handed' = 0
  /\ IF page = "console" THEN ToEntry(Unmounted(rs))
     ELSE requests' = rs /\ UNCHANGED <<page, booting, info, status>>

\* A load of the home page with cookie c, marker m and pending session h.  The
\* server renders by the cookie, the browser then by the marker: with a marker
\* alone the entry page is mounted for a moment.  Where the context is not
\* trusted the console signs out, and the server's word sets the marker again.
HomeLoaded(c, m, h) ==
  CASE c # 0 /\ trusted  -> ToConsole({}, c, h)
    [] c = 0 /\ m /\ trusted ->
         ToConsole({[Request("resume", 0) EXCEPT !.mounted = FALSE]}, 0, h)
    [] c # 0 /\ ~trusted ->
         /\ page' = "console" /\ booting' = TRUE /\ info' = 0 /\ status' = "unknown"
         /\ marker' = TRUE /\ handed' = 0 /\ requests' = {Request("signout", c)}
    [] c = 0 /\ ~(m /\ trusted) ->
         /\ marker' = FALSE /\ handed' = 0
         /\ ToEntry(IF m THEN {[Request("signout", 0) EXCEPT !.mounted = FALSE]} ELSE {})

clearLinuxDoSessionStorage == tabState' = 0 /\ pendingToken' = FALSE

PageLoad ==
  /\ page # "away"
  /\ IF page = "callback" THEN clearLinuxDoSessionStorage  \* redirectToHome
     ELSE UNCHANGED <<tabState, pendingToken>>
  /\ callback' = "none" /\ url' = 0
  /\ HomeLoaded(cookie, marker, handed)
  /\ out' = (out /\ cookie = 0)
  /\ UNCHANGED <<cookieVars, states, codesSent>>

----------------------------------------------------------------------------
(* The entry page                                                          *)

StatusAnswered(r, ok) ==
  /\ r.kind = "status"
  /\ status' = IF ~ok THEN status ELSE IF setUp THEN "login" ELSE "setup"
  /\ booting' = FALSE
  /\ requests' = requests \ {r}
  /\ UNCHANGED <<cookieVars, marker, handed, page, info, oauthVars, out>>

\* The restore of the entry page that a load showed for a moment.
ResumeAnswered(r, refused, again) ==
  /\ r.kind = "resume"
  /\ cookie' = IF refused THEN 0 ELSE cookie
  /\ IF again
     THEN /\ ~refused /\ r.left > 1
          /\ requests' = (requests \ {r}) \cup {[r EXCEPT !.left = @ - 1, !.session = cookie]}
          /\ UNCHANGED <<marker, handed, page, booting, info, status>>
     ELSE MarkerCleared(requests \ {r})
  /\ UNCHANGED <<trusted, alive, issued, setUp, oauthVars, out>>

ResumeSucceeds(r) ==
  /\ r.kind = "resume" /\ r.session \in alive
  /\ requests' = requests \ {r}
  /\ UNCHANGED <<cookieVars, marker, handed, page, booting, info, status, oauthVars, out>>

Clickable == Cardinality(requests) < MaxRequests

\* The entry page once it is up: every button needs a trusted context.
Entry == page = "entry" /\ ~booting /\ trusted

\* The forms the status leads to.  Without one it is the setup; otherwise a
\* login, one click away from the registration and from the recovery.
SetupForm    == Entry /\ status # "login"
LoginForm    == Entry /\ status = "login"
RegisterForm == LoginForm /\ "register" \in Offered
RecoveryForm == LoginForm /\ "recover" \in Offered

\* A button shows itself as loading, and does nothing, while its own request is
\* under way.
Idle(kind) == ~\E r \in requests : r.kind = kind /\ r.mounted

Submit(r) ==
  /\ Entry /\ Idle(r.kind) /\ Clickable
  /\ requests' = requests \cup {r}
  /\ UNCHANGED <<cookieVars, marker, handed, page, booting, info, status, oauthVars, out>>

handleSetupAdmin      == SetupForm /\ Submit(setupAdminPassword)
handleLoginAdmin      == LoginForm /\ Submit(loginAdmin)
handleRegisterConsole == RegisterForm /\ Submit(registerConsole)
handleRecoverAdmin    == RecoveryForm /\ Submit(recoverAdmin)

\* The code a registration may need.  Its answer starts the button's cooldown,
\* which is left out: the click comes after it.
handleSendRegisterOtp == RegisterForm /\ "otp" \in Offered /\ Submit(sendConsoleRegisterOtp)

RegisterOtpSent(r) ==
  /\ r.kind = "otp"
  /\ requests' = requests \ {r}
  /\ UNCHANGED <<cookieVars, marker, handed, page, booting, info, status, oauthVars, out>>

\* What the backend does when it lets the user in; a recovery changes the
\* password, which ends the other sessions.
Opens(form) ==
  /\ issued < MaxSessions
  /\ (form = "setup") = ~setUp
  /\ issued' = issued + 1
  /\ cookie' = issued + 1
  /\ alive' = {issued + 1} \cup (IF form = "recover" THEN {} ELSE alive)
  /\ setUp' = TRUE
  /\ UNCHANGED trusted

\* The cookie is set whoever is left to see it; enterConsole only while mounted.
FormSucceeds(r) ==
  /\ r.kind \in Forms
  /\ Opens(r.kind)
  /\ IF r.mounted
     THEN ToConsole(Unmounted(requests \ {r}), issued + 1, issued + 1) /\ out' = FALSE
     ELSE /\ requests' = requests \ {r}
          /\ UNCHANGED <<marker, handed, page, booting, info, status, out>>
  /\ UNCHANGED <<oauthVars>>

\* The catch blocks, mounted or not.
FormFails(r) ==
  /\ r.kind \in Forms
  /\ MarkerCleared(requests \ {r})
  /\ UNCHANGED <<cookieVars, oauthVars, out>>

----------------------------------------------------------------------------
(* Linux Do                                                                *)

\* canUseLinuxDo
LinuxDoOffered == RegisterForm /\ "linux-do" \in Offered

\* handleLinuxDoAuth up to its await.
LinuxDoAuth ==
  /\ LinuxDoOffered /\ Idle("authorize") /\ Clickable
  /\ states < MaxStates
  /\ states' = states + 1 /\ tabState' = states + 1 /\ pendingToken' = FALSE
  /\ requests' = requests \cup {getLinuxDoAuthorizationUrl}
  /\ UNCHANGED <<cookieVars, marker, handed, page, booting, info, status, callback, url, codesSent, out>>

\* window.location.assign, from whatever page the tab shows by now.
Authorized(r) ==
  /\ r.kind = "authorize"
  /\ page' = "away" /\ booting' = FALSE /\ info' = 0 /\ status' = "unknown" /\ requests' = {}
  /\ UNCHANGED <<cookieVars, marker, handed, oauthVars, out>>

AuthorizeFails(r) ==
  /\ r.kind = "authorize"
  /\ clearLinuxDoSessionStorage
  /\ requests' = requests \ {r}
  /\ UNCHANGED <<cookieVars, marker, handed, page, booting, info, status, states, callback, url,
                 codesSent, out>>

\* Seeded bug: the state stays in sessionStorage until the login is complete.
OpenCallbackKeepingState(n) ==
  /\ page' = "callback" /\ url' = n /\ UNCHANGED tabState
  /\ IF pendingToken \/ n = 0 \/ n # tabState
     THEN /\ callback' = (IF pendingToken THEN "prompt" ELSE "failed") /\ requests' = {}
          /\ UNCHANGED codesSent
     ELSE /\ callback' = "working"
          /\ requests' = {completeLinuxDoLogin(n)}
          /\ codesSent' = [codesSent EXCEPT ![n] = @ + 1]

\* The callback page with code and state n (0: neither): a token that waits for
\* an invite code goes first; otherwise the state must be the tab's, and is
\* removed before the code is sent.
OpenCallback(n) ==
  /\ page' = "callback" /\ url' = n
  /\ CASE pendingToken -> callback' = "prompt" /\ tabState' = 0 /\ requests' = {} /\ UNCHANGED codesSent
       [] ~pendingToken /\ (n = 0 \/ n # tabState) ->
            callback' = "failed" /\ requests' = {} /\ UNCHANGED <<tabState, codesSent>>
       [] ~pendingToken /\ n # 0 /\ n = tabState ->
            /\ callback' = "working" /\ tabState' = 0
            /\ requests' = {completeLinuxDoLogin(n)}
            /\ codesSent' = [codesSent EXCEPT ![n] = @ + 1]

\* Linux Do sends the tab back, from this authorization or an earlier one.
CallbackLoad(n) ==
  /\ page = "away" /\ n \in 1 .. states
  /\ OpenCallback(n)
  /\ UNCHANGED <<cookieVars, marker, handed, booting, info, status, states, pendingToken, out>>

\* It answers with an error, which the page shows whatever the tab holds.
CallbackError ==
  /\ page = "away"
  /\ page' = "callback" /\ callback' = "denied" /\ url' = 0 /\ requests' = {}
  /\ UNCHANGED <<cookieVars, marker, handed, booting, info, status, states, tabState, pendingToken,
                 codesSent, out>>

\* A page that was opened with an error shows it again.
CallbackReload ==
  /\ page = "callback" /\ callback # "denied"
  /\ OpenCallback(url)
  /\ UNCHANGED <<cookieVars, marker, handed, booting, info, status, states, pendingToken, out>>

\* handleInviteCodeSubmit.
SubmitInvite ==
  /\ page = "callback" /\ callback = "prompt"
  /\ requests = {}
  /\ requests' = {completeLinuxDoLogin(0)}
  /\ UNCHANGED <<cookieVars, marker, handed, page, booting, info, status, oauthVars, out>>

\* finishAuthenticated: the console is loaded with the pending session.
CompleteSucceeds(r) ==
  /\ r.kind = "complete"
  /\ Opens("login")
  /\ clearLinuxDoSessionStorage /\ callback' = "none" /\ url' = 0
  /\ HomeLoaded(issued + 1, TRUE, issued + 1)
  /\ out' = FALSE
  /\ UNCHANGED <<states, codesSent>>

\* An invite code is wanted.  Without one the page is loaded anew, without the
\* code; with one that did not do, it asks at once.
InviteRequired(r) ==
  /\ r.kind = "complete"
  /\ pendingToken' = TRUE /\ callback' = "prompt" /\ requests' = {}
  /\ \/ UNCHANGED <<url, tabState>>
     \/ r.code # 0 /\ url' = 0 /\ tabState' = 0
  /\ UNCHANGED <<cookieVars, marker, handed, page, booting, info, status, states, codesSent, out>>

CompleteFails(r) ==
  /\ r.kind = "complete"
  /\ callback' = "failed" /\ requests' = {}
  /\ UNCHANGED <<cookieVars, marker, handed, page, booting, info, status, states, tabState,
                 pendingToken, url, codesSent, out>>

----------------------------------------------------------------------------
(* The console                                                             *)

\* Seeded bug: the answer is applied to a page that is gone as well.
RestoreSucceedsAnyway(r) ==
  /\ r.kind = "restore" /\ r.session \in alive
  /\ requests' = requests \ {r}
  /\ marker' = TRUE
  /\ UNCHANGED <<cookieVars, handed, page, booting, info, status, oauthVars, out>>

\* applyAdminSession, while mounted.
RestoreSucceeds(r) ==
  /\ r.kind = "restore" /\ r.session \in alive
  /\ requests' = requests \ {r}
  /\ IF r.mounted
     THEN info' = r.session /\ booting' = FALSE /\ marker' = TRUE
     ELSE UNCHANGED <<info, booting, marker>>
  /\ UNCHANGED <<cookieVars, handed, page, status, oauthVars, out>>

\* A timeout or a 502, 503, 504 with an attempt left.
RestoreRetried(r) ==
  /\ r.kind = "restore" /\ r.left > 1
  /\ requests' = (requests \ {r}) \cup {[r EXCEPT !.left = @ - 1, !.session = cookie]}
  /\ UNCHANGED <<cookieVars, marker, handed, page, booting, info, status, oauthVars, out>>

\* Seeded bug: the catch block returns when the failure may be temporary.
RestoreFailsSilently(r, refused) ==
  /\ r.kind = "restore"
  /\ cookie' = IF refused THEN 0 ELSE cookie
  /\ IF refused THEN MarkerCleared((requests \ {r}) \cup {Request("signout", cookie')})
     ELSE requests' = requests \ {r} /\ UNCHANGED <<marker, handed, page, booting, info, status>>
  /\ UNCHANGED <<trusted, alive, issued, setUp, oauthVars, out>>

\* The catch block: clearAdminSession, mounted or not.
RestoreFails(r, refused) ==
  /\ r.kind = "restore"
  /\ cookie' = IF refused THEN 0 ELSE cookie
  /\ MarkerCleared((requests \ {r}) \cup {[Request("signout", cookie') EXCEPT !.mounted = FALSE]})
  /\ UNCHANGED <<trusted, alive, issued, setUp, oauthVars, out>>

InConsole == page = "console" /\ ~booting /\ info # 0

\* Any other request of the console; "password" is handleUpdatePassword's.
ConsoleRequest(kind) ==
  /\ InConsole /\ Clickable
  /\ kind \in {"request", "password"}
  /\ requests' = requests \cup {Request(kind, cookie)}
  /\ UNCHANGED <<cookieVars, marker, handed, page, booting, info, status, oauthVars, out>>

\* Its answer, or an error that says nothing about the session.
RequestAnswered(r) ==
  /\ r.kind \in {"request", "password"}
  /\ requests' = requests \ {r}
  /\ UNCHANGED <<cookieVars, marker, handed, page, booting, info, status, oauthVars, out>>

\* A 401 or 403: the proxy clears the cookie, ensureAdminSessionResponse the
\* marker.  So does a changed password, which ends the sessions of the user.
SessionRefused(r) ==
  /\ r.kind \in {"request", "password"}
  /\ cookie' = 0
  /\ MarkerCleared(requests \ {r})
  /\ UNCHANGED <<trusted, alive, issued, setUp, oauthVars, out>>

PasswordChanged(r) ==
  /\ r.kind = "password" /\ r.session \in alive
  /\ cookie' = 0 /\ alive' = {}
  /\ MarkerCleared(requests \ {r})
  /\ UNCHANGED <<trusted, issued, setUp, oauthVars, out>>

\* handleClearAdminSession: clearAdminSession up to its await.
LeaveConsole ==
  /\ InConsole /\ Clickable
  /\ MarkerCleared(requests \cup {Request("signout", cookie)})
  /\ out' = TRUE
  /\ UNCHANGED <<cookieVars, oauthVars>>

\* deleteAdminSession returns: its finally clears the marker once more.  When
\* the request was lost, the cookie stays.
SignoutAnswered(r, ok) ==
  /\ r.kind = "signout"
  /\ cookie' = IF ok THEN 0 ELSE cookie
  /\ MarkerCleared(requests \ {r})
  /\ UNCHANGED <<trusted, alive, issued, setUp, oauthVars, out>>

----------------------------------------------------------------------------
(* Everything else                                                         *)

\* The backend ends the sessions: expiry, or a password set elsewhere.
SessionsEnd ==
  /\ alive # {}
  /\ alive' = {}
  /\ UNCHANGED <<trusted, cookie, issued, setUp, tabVars, oauthVars, out>>

\* Another tab signs out, or signs in.
OtherTab ==
  /\ \/ cookie # 0 /\ cookie' = 0 /\ UNCHANGED <<alive, issued>>
     \/ /\ setUp /\ issued < MaxSessions
        /\ issued' = issued + 1 /\ cookie' = issued + 1 /\ alive' = alive \cup {issued + 1}
  /\ UNCHANGED <<trusted, setUp, tabVars, oauthVars, out>>

Answer(r) ==
  \/ \E ok \in BOOLEAN : StatusAnswered(r, ok) \/ SignoutAnswered(r, ok)
  \/ ResumeSucceeds(r) \/ \E refused, again \in BOOLEAN : ResumeAnswered(r, refused, again)
  \/ FormSucceeds(r) \/ FormFails(r) \/ RegisterOtpSent(r)
  \/ Authorized(r) \/ AuthorizeFails(r)
  \/ CompleteSucceeds(r) \/ InviteRequired(r) \/ CompleteFails(r)
  \/ RestoreSucceeds(r) \/ RestoreRetried(r)
  \/ \E refused \in BOOLEAN : RestoreFails(r, refused)
  \/ RequestAnswered(r) \/ SessionRefused(r) \/ PasswordChanged(r)

Clicks ==
  \/ handleSetupAdmin \/ handleLoginAdmin \/ handleRegisterConsole \/ handleRecoverAdmin
  \/ handleSendRegisterOtp \/ LinuxDoAuth \/ SubmitInvite
  \/ \E kind \in {"request", "password"} : ConsoleRequest(kind)
  \/ LeaveConsole
  \/ PageLoad \/ CallbackReload

SessionNext ==
  \/ \E r \in requests : Answer(r)
  \/ Clicks
  \/ \E n \in Codes : CallbackLoad(n)
  \/ CallbackError
  \/ SessionsEnd \/ OtherTab

SessionSpec == SessionInit /\ [][SessionNext]_sessionVars

----------------------------------------------------------------------------
(* Properties                                                              *)

\* A user who signed out is not put back into the console by an answer that was
\* under way: only a sign-in, or a page load that still finds a cookie, does.
SignedOutStaysOut == out => ~marker /\ page # "console"

\* A code of Linux Do, which is good for one exchange, is sent at most once
\* however often the callback page is loaded or an older one is returned to.
CodesAreSentOnce == \A n \in Codes : codesSent[n] <= 1

\* A page that shows its loading screen waits for an answer that will end it.
BootIsAnswered ==
  booting => \E r \in requests : r.mounted /\ r.kind \in {"status", "restore", "signout"}
=============================================================================

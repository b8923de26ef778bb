-------------------------- MODULE WebSessionProofs --------------------------
(***************************************************************************)
(* Proofs about WebSession: its types, that a user who signed out stays    *)
(* out, that a code of Linux Do is sent at most once, and that a loading   *)
(* screen waits for an answer.                                             *)
(*                                                                         *)
(* The first rests on an invariant about requests: only the console has a  *)
(* mounted restore under way.  The second rests on the state of the tab:   *)
(* while it is there, its code has not been sent.  The third rests on what *)
(* each page waits for, and on the callback page alone sending codes.      *)
(***************************************************************************)
EXTENDS WebSession, TLAPS

Kinds == Forms \cup {"otp", "status", "resume", "authorize", "restore", "request", "password",
                     "signout", "complete"}

CookieTypes ==
  trusted \in BOOLEAN /\ cookie \in Sessions /\ alive \subseteq Sessions /\ issued \in Sessions
  /\ setUp \in BOOLEAN

TabTypes ==
  /\ marker \in BOOLEAN /\ handed \in Sessions
  /\ page \in {"entry", "console", "callback", "away"}
  /\ booting \in BOOLEAN /\ info \in Sessions
  /\ status \in {"unknown", "setup", "login"}
  /\ requests \subseteq Requests

OAuthTypes ==
  /\ states \in 0 .. MaxStates /\ tabState \in 0 .. MaxStates
  /\ pendingToken \in BOOLEAN
  /\ callback \in {"none", "working", "prompt", "failed", "denied"}
  /\ url \in 0 .. MaxStates
  /\ codesSent \in [Codes -> Nat]

Restoring(rs) == \E r \in rs : r.kind = "restore" /\ r.mounted

OnlyConsoleRestores == Restoring(requests) => page = "console"

TabInv == TabTypes /\ OnlyConsoleRestores

\* A state is in the tab until its code is sent, and codes not asked for yet
\* have not been sent either.
OAuthInv ==
  /\ OAuthTypes
  /\ tabState # 0 => tabState <= states /\ codesSent[tabState] = 0
  /\ \A n \in Codes : n > states => codesSent[n] = 0
  /\ CodesAreSentOnce

----------------------------------------------------------------------------
(* Requests                                                                *)

LEMMA NoSession == 0 \in Sessions
BY WebSessionAssumption DEF Sessions

USE DEF getAdminStatus, getLinuxDoAuthorizationUrl, completeLinuxDoLogin, clearLinuxDoSessionStorage

LEMMA KindsType ==
  /\ Forms \subseteq Kinds
  /\ {"otp", "status", "resume", "authorize", "restore", "request", "password", "signout", "complete"}
       \subseteq Kinds
BY DEF Kinds

LEMMA FormClicks ==
  handleSetupAdmin \/ handleLoginAdmin \/ handleRegisterConsole \/ handleRecoverAdmin
      \/ handleSendRegisterOtp
    => \E form \in Forms \cup {"otp"} : Submit(Request(form, 0))
BY DEF handleSetupAdmin, handleLoginAdmin, handleRegisterConsole, handleRecoverAdmin,
   handleSendRegisterOtp, setupAdminPassword, loginAdmin, registerConsole, recoverAdmin,
   sendConsoleRegisterOtp, Forms

LEMMA RequestType ==
  ASSUME NEW kind \in Kinds, NEW c \in Sessions
  PROVE  /\ Request(kind, c) \in Requests
         /\ Request(kind, c).kind = kind
         /\ [Request(kind, c) EXCEPT !.mounted = FALSE] \in Requests
         /\ [Request(kind, c) EXCEPT !.mounted = FALSE].kind = kind
<1>1. 1 \in 0 .. Attempts /\ Attempts \in 0 .. Attempts
  BY WebSessionAssumption
<1> QED
  BY <1>1 DEF Request, Requests, Kinds, Codes

LEMMA CodeRequestType ==
  ASSUME NEW n \in Codes
  PROVE  /\ [Request("complete", 0) EXCEPT !.code = n] \in Requests
         /\ [Request("complete", 0) EXCEPT !.code = n].kind = "complete"
<1>1. 1 \in 0 .. Attempts /\ 0 \in Sessions
  BY WebSessionAssumption DEF Sessions
<1> QED
  BY <1>1 DEF Request, Requests, Codes

LEMMA UnmountedType ==
  ASSUME NEW rs \in SUBSET Requests
  PROVE  Unmounted(rs) \in SUBSET Requests /\ ~Restoring(Unmounted(rs))
<1>1. \A r \in Requests : [r EXCEPT !.mounted = FALSE] \in Requests
                          /\ [r EXCEPT !.mounted = FALSE].mounted = FALSE
  BY DEF Requests
<1> QED
  BY <1>1 DEF Unmounted, Restoring

\* A request that is tried again.
LEMMA RetryType ==
  ASSUME NEW r \in Requests, r.left > 1, NEW c \in Sessions
  PROVE  /\ [r EXCEPT !.left = @ - 1, !.session = c] \in Requests
         /\ [r EXCEPT !.left = @ - 1, !.session = c].kind = r.kind
         /\ [r EXCEPT !.left = @ - 1, !.session = c].mounted = r.mounted
<1>1. r.left - 1 \in 0 .. Attempts
  BY WebSessionAssumption DEF Requests
<1> QED
  BY <1>1 DEF Requests

----------------------------------------------------------------------------
(* Pages replacing each other                                              *)

LEMMA ToEntryTab ==
  ASSUME NEW rs \in SUBSET Requests, ~Restoring(rs), ToEntry(rs),
         marker' \in BOOLEAN, handed' \in Sessions
  PROVE  TabInv' /\ page' = "entry"
<1>1. Request("status", 0) \in Requests /\ Request("status", 0).kind = "status"
  BY RequestType, NoSession, KindsType
<1>2. requests' \in SUBSET Requests /\ page' = "entry"
  BY <1>1 DEF ToEntry
<1>3. ~Restoring(requests')
  BY <1>1 DEF ToEntry, Restoring
<1>4. booting' = TRUE /\ info' \in Sessions /\ status' = "unknown"
  BY NoSession DEF ToEntry
<1> QED
  BY <1>2, <1>3, <1>4 DEF TabInv, TabTypes, OnlyConsoleRestores, Restoring

LEMMA ToConsoleTab ==
  ASSUME NEW rs \in SUBSET Requests, NEW c \in Sessions, NEW h \in Sessions, ToConsole(rs, c, h)
  PROVE  TabInv' /\ page' = "console"
<1>1. Request("restore", c) \in Requests /\ 0 \in Sessions
  BY RequestType, NoSession, KindsType
<1>2. requests' \in SUBSET Requests /\ page' = "console"
  BY <1>1 DEF ToConsole, TakePending
<1>3. booting' \in BOOLEAN
  BY DEF ToConsole, TakePending
<1>4. info' \in Sessions /\ status' = "unknown" /\ marker' = TRUE /\ handed' \in Sessions
  BY <1>1 DEF ToConsole, TakePending
<1> QED
  BY <1>2, <1>3, <1>4 DEF TabInv, TabTypes, OnlyConsoleRestores

LEMMA MarkerClearedTab ==
  ASSUME TabInv, NEW rs \in SUBSET Requests, Restoring(rs) => page = "console", MarkerCleared(rs)
  PROVE  TabInv' /\ SignedOutStaysOut'
<1>0. 0 \in Sessions
  BY NoSession
<1>1. CASE page = "console"
  <2>1. ToEntry(Unmounted(rs)) /\ marker' = FALSE /\ handed' = 0
    BY <1>1 DEF MarkerCleared
  <2> QED
    BY <1>0, <2>1, ToEntryTab, UnmountedType DEF SignedOutStaysOut
<1>2. CASE page # "console"
  BY <1>0, <1>2 DEF MarkerCleared, TabInv, TabTypes, OnlyConsoleRestores, SignedOutStaysOut
<1> QED
  BY <1>1, <1>2

LEMMA HomeLoadedTab ==
  ASSUME NEW c \in Sessions, NEW m \in BOOLEAN, NEW h \in Sessions, HomeLoaded(c, m, h),
         trusted \in BOOLEAN
  PROVE  TabInv' /\ (c = 0 /\ ~m => ~marker' /\ page' # "console")
<1>0. 0 \in Sessions
  BY NoSession
<1>1. CASE c # 0 /\ trusted
  <2>1. ToConsole({}, c, h)
    BY <1>1 DEF HomeLoaded
  <2> QED
    BY <1>1, <2>1, ToConsoleTab
<1>2. CASE c = 0 /\ m /\ trusted
  <2>1. ToConsole({[Request("resume", 0) EXCEPT !.mounted = FALSE]}, 0, h)
    BY <1>2 DEF HomeLoaded
  <2>2. [Request("resume", 0) EXCEPT !.mounted = FALSE] \in Requests
    BY <1>0, RequestType, KindsType
  <2> QED
    BY <1>0, <1>2, <2>1, <2>2, ToConsoleTab
<1>3. CASE c # 0 /\ ~trusted
  <2>1. /\ page' = "console" /\ booting' = TRUE /\ info' = 0 /\ status' = "unknown"
        /\ marker' = TRUE /\ handed' = 0 /\ requests' = {Request("signout", c)}
    BY <1>3 DEF HomeLoaded
  <2>2. Request("signout", c) \in Requests
    BY RequestType, KindsType
  <2>3. requests' \in SUBSET Requests
    BY <2>1, <2>2
  <2> QED
    BY <1>0, <1>3, <2>1, <2>3 DEF TabInv, TabTypes, OnlyConsoleRestores
<1>4. CASE c = 0 /\ ~(m /\ trusted)
  <2> DEFINE q == [Request("signout", 0) EXCEPT !.mounted = FALSE]
  <2> DEFINE rs == IF m THEN {q} ELSE {}
  <2>1. marker' = FALSE /\ handed' = 0 /\ ToEntry(rs)
    BY <1>4 DEF HomeLoaded
  <2>2. rs \in SUBSET Requests /\ ~Restoring(rs)
    <3>1. q \in Requests /\ q.kind = "signout"
      BY <1>0, RequestType, KindsType
    <3> HIDE DEF q
    <3> QED
      BY <3>1 DEF Restoring
  <2> HIDE DEF rs
  <2> QED
    BY <1>0, <2>1, <2>2, ToEntryTab
<1> QED
  BY <1>1, <1>2, <1>3, <1>4

----------------------------------------------------------------------------
(* The tab, one lemma per kind of step                                     *)

SignedOutInv == TabInv /\ CookieTypes /\ SignedOutStaysOut

LEMMA SignedOutInit == SessionInit => SignedOutInv
<1> SUFFICES ASSUME SessionInit PROVE SignedOutInv
  OBVIOUS
<1>1. Request("status", 0) \in Requests /\ Request("status", 0).kind = "status"
  BY RequestType, NoSession, KindsType
<1>2. TabInv
  BY <1>1, NoSession DEF SessionInit, TabInv, TabTypes, OnlyConsoleRestores, Restoring
<1>3. CookieTypes /\ SignedOutStaysOut
  BY NoSession DEF SessionInit, CookieTypes, SignedOutStaysOut
<1> QED
  BY <1>2, <1>3 DEF SignedOutInv

\* Fewer requests, or more of a kind that restores nothing, and the same page.
LEMMA SamePage ==
  ASSUME SignedOutInv, CookieTypes', UNCHANGED <<marker, handed, page, booting, info, status, out>>,
         requests' \in SUBSET Requests, Restoring(requests') => Restoring(requests)
  PROVE  SignedOutInv'
BY DEF SignedOutInv, TabInv, TabTypes, OnlyConsoleRestores, SignedOutStaysOut

LEMMA Removed ==
  ASSUME NEW rs \in SUBSET Requests, NEW r
  PROVE  rs \ {r} \in SUBSET Requests /\ (Restoring(rs \ {r}) => Restoring(rs))
BY DEF Restoring

LEMMA AddedOne ==
  ASSUME NEW rs \in SUBSET Requests, NEW q \in Requests, q.kind # "restore"
  PROVE  rs \cup {q} \in SUBSET Requests /\ (Restoring(rs \cup {q}) => Restoring(rs))
BY DEF Restoring

LEMMA Added ==
  ASSUME NEW rs \in SUBSET Requests, NEW kind \in Kinds \ {"restore"}, NEW c \in Sessions
  PROVE  /\ rs \cup {Request(kind, c)} \in SUBSET Requests
         /\ Restoring(rs \cup {Request(kind, c)}) => Restoring(rs)
         /\ rs \cup {[Request(kind, c) EXCEPT !.mounted = FALSE]} \in SUBSET Requests
         /\ Restoring(rs \cup {[Request(kind, c) EXCEPT !.mounted = FALSE]}) => Restoring(rs)
<1> DEFINE q == Request(kind, c)
           u == [Request(kind, c) EXCEPT !.mounted = FALSE]
<1>1. q \in Requests /\ q.kind # "restore" /\ u \in Requests /\ u.kind # "restore"
  BY RequestType
<1>2. rs \cup {q} \in SUBSET Requests /\ (Restoring(rs \cup {q}) => Restoring(rs))
  <2> HIDE DEF q
  <2> QED BY <1>1, AddedOne
<1>3. rs \cup {u} \in SUBSET Requests /\ (Restoring(rs \cup {u}) => Restoring(rs))
  <2> HIDE DEF u
  <2> QED BY <1>1, AddedOne
<1> QED
  BY <1>2, <1>3

LEMMA ClearedKeeps ==
  ASSUME SignedOutInv, NEW rs \in SUBSET Requests, Restoring(rs) => Restoring(requests),
         MarkerCleared(rs), CookieTypes'
  PROVE  SignedOutInv'
BY MarkerClearedTab DEF SignedOutInv, TabInv, OnlyConsoleRestores

LEMMA StatusAnsweredKeeps ==
  ASSUME SignedOutInv, NEW r, NEW ok, StatusAnswered(r, ok) PROVE SignedOutInv'
<1>1. requests' \in SUBSET Requests /\ (Restoring(requests') => Restoring(requests))
  BY Removed DEF StatusAnswered, SignedOutInv, TabInv, TabTypes
<1>2. status' \in {"unknown", "setup", "login"} /\ booting' = FALSE
  BY DEF StatusAnswered, SignedOutInv, TabInv, TabTypes
<1>3. UNCHANGED <<cookieVars, marker, handed, page, info, out>>
  BY DEF StatusAnswered
<1>4. TabTypes'
  BY <1>1, <1>2, <1>3 DEF SignedOutInv, TabInv, TabTypes
<1>5. OnlyConsoleRestores' /\ SignedOutStaysOut'
  BY <1>1, <1>3 DEF SignedOutInv, TabInv, OnlyConsoleRestores, SignedOutStaysOut
<1>6. CookieTypes'
  BY <1>3 DEF SignedOutInv, CookieTypes, cookieVars
<1> QED
  BY <1>4, <1>5, <1>6 DEF SignedOutInv, TabInv

\* An attempt more, with the cookie there is now.
LEMMA Retried ==
  ASSUME SignedOutInv, NEW r \in requests, r.left > 1,
         requests' = (requests \ {r}) \cup {[r EXCEPT !.left = @ - 1, !.session = cookie]}
  PROVE  requests' \in SUBSET Requests /\ (Restoring(requests') => Restoring(requests))
<1> DEFINE q == [r EXCEPT !.left = @ - 1, !.session = cookie]
<1>1. q \in Requests /\ q.kind = r.kind /\ q.mounted = r.mounted
  BY RetryType DEF SignedOutInv, TabInv, TabTypes, CookieTypes
<1>2. requests' = (requests \ {r}) \cup {q} /\ requests \in SUBSET Requests
  BY DEF SignedOutInv, TabInv, TabTypes
<1> HIDE DEF q
<1> QED
  BY <1>1, <1>2 DEF Restoring

LEMMA ResumeKeeps ==
  ASSUME SignedOutInv, NEW r \in requests, NEW refused \in BOOLEAN, NEW again \in BOOLEAN,
         ResumeAnswered(r, refused, again)
  PROVE  SignedOutInv'
<1>1. CookieTypes'
  BY NoSession DEF ResumeAnswered, SignedOutInv, CookieTypes
<1>2. CASE again
  <2>1. requests' \in SUBSET Requests /\ (Restoring(requests') => Restoring(requests))
    BY <1>2, Retried DEF ResumeAnswered
  <2> QED
    BY <1>1, <1>2, <2>1, SamePage DEF ResumeAnswered
<1>3. CASE ~again
  <2>1. MarkerCleared(requests \ {r})
    BY <1>3 DEF ResumeAnswered
  <2>2. requests \in SUBSET Requests
    BY DEF SignedOutInv, TabInv, TabTypes
  <2> QED
    BY <1>1, <2>1, <2>2, Removed, ClearedKeeps
<1> QED
  BY <1>2, <1>3

\* The answers that drop their request and leave the page as it is.
LEMMA DroppedKeeps ==
  ASSUME SignedOutInv, NEW r \in requests,
         ResumeSucceeds(r) \/ AuthorizeFails(r) \/ RequestAnswered(r) \/ RegisterOtpSent(r)
  PROVE  SignedOutInv'
<1>1. requests' = requests \ {r} /\ requests \in SUBSET Requests
  BY DEF ResumeSucceeds, AuthorizeFails, RequestAnswered, RegisterOtpSent, SignedOutInv, TabInv, TabTypes
<1>2. CookieTypes' /\ UNCHANGED <<marker, handed, page, booting, info, status, out>>
  BY DEF ResumeSucceeds, AuthorizeFails, RequestAnswered, RegisterOtpSent, SignedOutInv, CookieTypes,
         cookieVars
<1>3. requests' \in SUBSET Requests /\ (Restoring(requests') => Restoring(requests))
  BY <1>1, Removed
<1> QED
  BY <1>2, <1>3, SamePage

\* The clicks that send a request and leave the page as it is.
LEMMA ClickKeeps ==
  ASSUME SignedOutInv,
         \/ \E form \in Forms \cup {"otp"} : Submit(Request(form, 0))
         \/ LinuxDoAuth \/ SubmitInvite
         \/ \E kind \in {"request", "password"} : ConsoleRequest(kind)
  PROVE  SignedOutInv'
<1>1. \E kind \in Kinds \ {"restore"}, c \in Sessions, rs \in SUBSET requests :
        requests' = rs \cup {Request(kind, c)}
  <2>1. requests \in SUBSET requests /\ {} \in SUBSET requests
    OBVIOUS
  <2>2. Forms \cup {"otp"} \subseteq Kinds \ {"restore"} /\ 0 \in Sessions /\ cookie \in Sessions
    BY NoSession, KindsType DEF Forms, SignedOutInv, CookieTypes
  <2>3. ASSUME NEW form \in Forms \cup {"otp"}, Submit(Request(form, 0))
        PROVE  requests' = requests \cup {Request(form, 0)}
    BY <2>3 DEF Submit
  <2>4. ASSUME LinuxDoAuth PROVE requests' = requests \cup {Request("authorize", 0)}
    BY <2>4 DEF LinuxDoAuth
  <2>5. ASSUME SubmitInvite PROVE requests' = {} \cup {Request("complete", 0)}
    <3>1. [Request("complete", 0) EXCEPT !.code = 0] = Request("complete", 0)
      BY DEF Request
    <3> QED
      BY <2>5, <3>1 DEF SubmitInvite
  <2>6. ASSUME NEW kind \in {"request", "password"}, ConsoleRequest(kind)
        PROVE  requests' = requests \cup {Request(kind, cookie)}
    BY <2>6 DEF ConsoleRequest
  <2> QED
    BY <2>1, <2>2, <2>3, <2>4, <2>5, <2>6, KindsType
<1>2. PICK kind \in Kinds \ {"restore"}, c \in Sessions, rs \in SUBSET requests :
        requests' = rs \cup {Request(kind, c)}
  BY <1>1
<1>3. rs \in SUBSET Requests /\ (Restoring(rs) => Restoring(requests))
  BY DEF SignedOutInv, TabInv, TabTypes, Restoring
<1>4. requests' \in SUBSET Requests /\ (Restoring(requests') => Restoring(requests))
  BY <1>2, <1>3, Added
<1>5. CookieTypes' /\ UNCHANGED <<marker, handed, page, booting, info, status, out>>
  BY DEF Submit, LinuxDoAuth, SubmitInvite, ConsoleRequest, SignedOutInv, CookieTypes, cookieVars
<1> QED
  BY <1>4, <1>5, SamePage

LEMMA OpensType ==
  ASSUME CookieTypes, NEW form \in Forms, Opens(form)
  PROVE  CookieTypes' /\ issued + 1 \in Sessions
<1>1. issued + 1 \in Sessions
  BY WebSessionAssumption DEF CookieTypes, Opens, Sessions
<1>2. trusted' \in BOOLEAN /\ setUp' \in BOOLEAN
  BY DEF CookieTypes, Opens
<1>3. cookie' \in Sessions /\ issued' \in Sessions /\ alive' \subseteq Sessions
  BY <1>1 DEF CookieTypes, Opens
<1> QED
  BY <1>1, <1>2, <1>3 DEF CookieTypes

\* A sign-in, of a form that is still there or not.
LEMMA FormSucceedsKeeps ==
  ASSUME SignedOutInv, NEW r \in requests, FormSucceeds(r) PROVE SignedOutInv'
<1>1. r.kind \in Forms /\ Opens(r.kind)
  BY DEF FormSucceeds
<1>2. CookieTypes' /\ issued + 1 \in Sessions
  BY <1>1, OpensType DEF SignedOutInv
<1>3. requests \ {r} \in SUBSET Requests /\ (Restoring(requests \ {r}) => Restoring(requests))
  BY Removed DEF SignedOutInv, TabInv, TabTypes
<1>4. CASE r.mounted
  <2>1. ToConsole(Unmounted(requests \ {r}), issued + 1, issued + 1) /\ out' = FALSE
    BY <1>4 DEF FormSucceeds
  <2>2. TabInv'
    BY <1>2, <1>3, <2>1, UnmountedType, ToConsoleTab
  <2> QED
    BY <1>2, <2>1, <2>2 DEF SignedOutInv, SignedOutStaysOut
<1>5. CASE ~r.mounted
  <2>1. requests' = requests \ {r} /\ UNCHANGED <<marker, handed, page, booting, info, status, out>>
    BY <1>5 DEF FormSucceeds
  <2> QED
    BY <1>2, <1>3, <2>1, SamePage
<1> QED
  BY <1>4, <1>5

\* The answers that clear the marker.
LEMMA ClearingKeeps ==
  ASSUME SignedOutInv, NEW r \in requests,
         FormFails(r) \/ SessionRefused(r) \/ PasswordChanged(r)
           \/ \E ok \in BOOLEAN : SignoutAnswered(r, ok)
  PROVE  SignedOutInv'
<1>1. MarkerCleared(requests \ {r})
  BY DEF FormFails, SessionRefused, PasswordChanged, SignoutAnswered
<1>2. CookieTypes'
  BY NoSession DEF FormFails, SessionRefused, PasswordChanged, SignoutAnswered, SignedOutInv,
     CookieTypes, cookieVars
<1>3. requests \ {r} \in SUBSET Requests /\ (Restoring(requests \ {r}) => Restoring(requests))
  BY Removed DEF SignedOutInv, TabInv, TabTypes
<1> QED
  BY <1>1, <1>2, <1>3, ClearedKeeps

\* The page is replaced by one that restores nothing.
LEMMA OtherPage ==
  ASSUME SignedOutInv, UNCHANGED <<marker, handed, out>>, CookieTypes',
         page' \in {"callback", "away"}, booting' \in BOOLEAN, info' \in Sessions,
         status' \in {"unknown", "setup", "login"},
         requests' \in SUBSET Requests, ~Restoring(requests')
  PROVE  SignedOutInv'
BY DEF SignedOutInv, TabInv, TabTypes, OnlyConsoleRestores, SignedOutStaysOut

LEMMA AuthorizedKeeps ==
  ASSUME SignedOutInv, NEW r, Authorized(r) PROVE SignedOutInv'
<1>1. CookieTypes' /\ UNCHANGED <<marker, handed, out>>
  BY DEF Authorized, SignedOutInv, CookieTypes, cookieVars
<1>2. /\ page' = "away" /\ booting' = FALSE /\ info' \in Sessions /\ status' = "unknown"
      /\ requests' = {} /\ ~Restoring(requests')
  BY NoSession DEF Authorized, Restoring
<1> QED
  BY <1>1, <1>2, OtherPage

LEMMA CallbackKeeps ==
  ASSUME SignedOutInv, NEW n \in {0} \cup Codes, OpenCallback(n),
         UNCHANGED <<cookieVars, marker, handed, booting, info, status, out>>
  PROVE  SignedOutInv'
<1>1. page' = "callback" /\ requests' \in SUBSET Requests /\ ~Restoring(requests')
  <2>1. page' = "callback"
    BY DEF OpenCallback
  <2>2. CASE requests' = {}
    BY <2>1, <2>2 DEF Restoring
  <2>3. CASE n # 0 /\ requests' = {[Request("complete", 0) EXCEPT !.code = n]}
    <3> DEFINE q == [Request("complete", 0) EXCEPT !.code = n]
    <3>1. q \in Requests /\ q.kind = "complete"
      BY <2>3, CodeRequestType
    <3>2. requests' = {q}
      BY <2>3
    <3> HIDE DEF q
    <3> QED
      BY <2>1, <3>1, <3>2 DEF Restoring
  <2> QED
    BY <2>2, <2>3 DEF OpenCallback
<1>2. CookieTypes'
  BY DEF SignedOutInv, CookieTypes, cookieVars
<1> QED
  BY <1>1, <1>2, OtherPage DEF SignedOutInv, TabInv, TabTypes

LEMMA CallbackAnswersKeep ==
  ASSUME SignedOutInv, NEW r \in requests, InviteRequired(r) \/ CompleteFails(r)
  PROVE  SignedOutInv'
<1>1. requests' = {} /\ CookieTypes' /\ UNCHANGED <<marker, handed, page, booting, info, status, out>>
  BY DEF InviteRequired, CompleteFails, SignedOutInv, CookieTypes, cookieVars
<1> QED
  BY <1>1, SamePage DEF Restoring

LEMMA CompleteSucceedsKeeps ==
  ASSUME SignedOutInv, NEW r \in requests, CompleteSucceeds(r)
  PROVE  SignedOutInv'
<1>1. CookieTypes' /\ issued + 1 \in Sessions
  BY OpensType DEF CompleteSucceeds, SignedOutInv, Forms
<1>2. TabInv'
  BY <1>1, HomeLoadedTab DEF CompleteSucceeds, SignedOutInv, CookieTypes
<1>3. out' = FALSE
  BY DEF CompleteSucceeds
<1> QED
  BY <1>1, <1>2, <1>3 DEF SignedOutInv, SignedOutStaysOut

LEMMA PageLoadKeeps == ASSUME SignedOutInv, PageLoad PROVE SignedOutInv'
<1>1. CookieTypes'
  BY DEF PageLoad, SignedOutInv, CookieTypes, cookieVars
<1>2. TabInv' /\ (cookie = 0 /\ ~marker => ~marker' /\ page' # "console")
  BY HomeLoadedTab DEF PageLoad, SignedOutInv, TabInv, TabTypes, CookieTypes
<1>3. out' => cookie = 0 /\ out
  BY DEF PageLoad
<1>4. SignedOutStaysOut'
  BY <1>2, <1>3 DEF SignedOutInv, SignedOutStaysOut
<1> QED
  BY <1>1, <1>2, <1>4 DEF SignedOutInv

\* The console's restore: while it is mounted the user has not signed out.
LEMMA RestoreSucceedsKeeps ==
  ASSUME SignedOutInv, NEW r \in requests, RestoreSucceeds(r) PROVE SignedOutInv'
<1>1. requests' \in SUBSET Requests /\ (Restoring(requests') => Restoring(requests))
  BY Removed DEF RestoreSucceeds, SignedOutInv, TabInv, TabTypes
<1>2. CookieTypes'
  BY DEF RestoreSucceeds, SignedOutInv, CookieTypes, cookieVars
<1>3. CASE r.mounted
  <2>1. page = "console" /\ ~out
    BY <1>3 DEF RestoreSucceeds, SignedOutInv, TabInv, OnlyConsoleRestores, Restoring,
       SignedOutStaysOut
  <2>2. marker' = TRUE /\ booting' = FALSE /\ info' = r.session /\ UNCHANGED <<handed, page, status, out>>
    BY <1>3 DEF RestoreSucceeds
  <2>3. info' \in Sessions
    BY <2>2 DEF SignedOutInv, TabInv, TabTypes, Requests
  <2>4. TabTypes' /\ OnlyConsoleRestores'
    BY <1>1, <2>1, <2>2, <2>3 DEF SignedOutInv, TabInv, TabTypes, OnlyConsoleRestores
  <2> QED
    BY <1>2, <2>1, <2>2, <2>4 DEF SignedOutInv, TabInv, SignedOutStaysOut
<1>4. CASE ~r.mounted
  BY <1>1, <1>2, <1>4, SamePage DEF RestoreSucceeds
<1> QED
  BY <1>3, <1>4

LEMMA RestoreRetriedKeeps ==
  ASSUME SignedOutInv, NEW r \in requests, RestoreRetried(r) PROVE SignedOutInv'
<1>1. CookieTypes' /\ UNCHANGED <<marker, handed, page, booting, info, status, out>>
  BY DEF RestoreRetried, SignedOutInv, CookieTypes, cookieVars
<1> QED
  BY <1>1, Retried, SamePage DEF RestoreRetried

LEMMA RestoreFailsKeeps ==
  ASSUME SignedOutInv, NEW r \in requests, NEW refused \in BOOLEAN, RestoreFails(r, refused)
  PROVE  SignedOutInv'
<1>1. CookieTypes'
  BY NoSession DEF RestoreFails, SignedOutInv, CookieTypes
<1> DEFINE rs == (requests \ {r}) \cup {[Request("signout", cookie') EXCEPT !.mounted = FALSE]}
<1>2. cookie' \in Sessions /\ "signout" \in Kinds \ {"restore"}
  BY <1>1, KindsType DEF CookieTypes
<1>3. requests \ {r} \in SUBSET Requests /\ (Restoring(requests \ {r}) => Restoring(requests))
  BY Removed DEF SignedOutInv, TabInv, TabTypes
<1>4. rs \in SUBSET Requests /\ (Restoring(rs) => Restoring(requests))
  BY <1>2, <1>3, Added
<1>5. MarkerCleared(rs)
  BY DEF RestoreFails
<1> HIDE DEF rs
<1> QED
  BY <1>1, <1>4, <1>5, ClearedKeeps

LEMMA LeaveConsoleKeeps == ASSUME SignedOutInv, LeaveConsole PROVE SignedOutInv'
<1>1. CookieTypes' /\ cookie \in Sessions /\ "signout" \in Kinds \ {"restore"}
  BY KindsType DEF LeaveConsole, SignedOutInv, CookieTypes, cookieVars
<1> DEFINE rs == requests \cup {Request("signout", cookie)}
<1>2. rs \in SUBSET Requests /\ (Restoring(rs) => Restoring(requests))
  BY <1>1, Added DEF SignedOutInv, TabInv, TabTypes
<1>3. MarkerCleared(rs)
  BY DEF LeaveConsole
<1> HIDE DEF rs
<1> QED
  BY <1>1, <1>2, <1>3, ClearedKeeps

LEMMA ElsewhereKeeps ==
  ASSUME SignedOutInv, SessionsEnd \/ OtherTab \/ UNCHANGED sessionVars PROVE SignedOutInv'
<1>1. CookieTypes'
  <2>1. CASE SessionsEnd \/ UNCHANGED sessionVars
    BY <2>1 DEF SessionsEnd, sessionVars, cookieVars, SignedOutInv, CookieTypes
  <2>2. CASE OtherTab
    <3>1. issued < MaxSessions => issued + 1 \in Sessions
      BY WebSessionAssumption DEF SignedOutInv, CookieTypes, Sessions
    <3> QED
      BY <2>2, <3>1, NoSession DEF OtherTab, SignedOutInv, CookieTypes
  <2> QED
    BY <2>1, <2>2
<1>2. UNCHANGED <<tabVars, out>>
  BY DEF SessionsEnd, OtherTab, sessionVars
<1>3. requests \in SUBSET Requests
  BY DEF SignedOutInv, TabInv, TabTypes
<1> QED
  BY <1>1, <1>2, <1>3, SamePage DEF tabVars

LEMMA CallbackErrorKeeps == ASSUME SignedOutInv, CallbackError PROVE SignedOutInv'
<1>1. CookieTypes' /\ UNCHANGED <<marker, handed, booting, info, status, out>>
  BY DEF CallbackError, SignedOutInv, CookieTypes, cookieVars
<1>2. page' = "callback" /\ requests' = {} /\ ~Restoring(requests')
  BY DEF CallbackError, Restoring
<1> QED
  BY <1>1, <1>2, OtherPage DEF SignedOutInv, TabInv, TabTypes

LEMMA SignedOutStep ==
  ASSUME SignedOutInv, url \in {0} \cup Codes, [SessionNext]_sessionVars
  PROVE  SignedOutInv'
<1>1. ASSUME NEW r \in requests, Answer(r) PROVE SignedOutInv'
  BY <1>1, StatusAnsweredKeeps, ClearingKeeps, ResumeKeeps, DroppedKeeps, FormSucceedsKeeps,
     AuthorizedKeeps, CompleteSucceedsKeeps, CallbackAnswersKeep, RestoreSucceedsKeeps,
     RestoreRetriedKeeps, RestoreFailsKeeps DEF Answer
<1>2. CASE Clicks
  <2>1. CASE CallbackReload
    BY <2>1, CallbackKeeps DEF CallbackReload
  <2> QED
    BY <1>2, <2>1, FormClicks, ClickKeeps, LeaveConsoleKeeps, PageLoadKeeps DEF Clicks
<1>3. ASSUME NEW n \in Codes, CallbackLoad(n) PROVE SignedOutInv'
  BY <1>3, CallbackKeeps DEF CallbackLoad
<1> QED
  BY <1>1, <1>2, <1>3, CallbackErrorKeeps, ElsewhereKeeps DEF SessionNext

----------------------------------------------------------------------------
(* The authorization                                                       *)

LEMMA OAuthInit == SessionInit => OAuthInv
<1> SUFFICES ASSUME SessionInit PROVE OAuthInv
  OBVIOUS
<1>1. 0 \in 0 .. MaxStates
  BY WebSessionAssumption
<1>2. codesSent \in [Codes -> Nat] /\ \A n \in Codes : codesSent[n] = 0
  BY DEF SessionInit
<1>3. states = 0 /\ tabState = 0 /\ pendingToken = FALSE /\ callback = "none" /\ url = 0
  BY DEF SessionInit
<1>4. OAuthTypes
  BY <1>1, <1>2, <1>3 DEF OAuthTypes
<1> QED
  BY <1>2, <1>3, <1>4 DEF OAuthInv, CodesAreSentOnce

LEMMA OAuthUnchanged == ASSUME OAuthInv, UNCHANGED oauthVars PROVE OAuthInv'
BY DEF OAuthInv, OAuthTypes, oauthVars, CodesAreSentOnce

\* No code is sent, no authorization started, and the state stays or goes.
LEMMA OAuthQuiet ==
  ASSUME OAuthInv, UNCHANGED <<states, codesSent>>, tabState' \in {0, tabState},
         pendingToken' \in BOOLEAN, callback' \in {"none", "working", "prompt", "failed", "denied"},
         url' \in 0 .. MaxStates
  PROVE  OAuthInv'
<1>1. tabState' \in 0 .. MaxStates
  BY WebSessionAssumption DEF OAuthInv, OAuthTypes
<1>2. OAuthTypes'
  BY <1>1 DEF OAuthInv, OAuthTypes
<1>3. tabState' # 0 => tabState' <= states' /\ codesSent'[tabState'] = 0
  BY DEF OAuthInv
<1>4. CodesAreSentOnce' /\ \A n \in Codes : n > states' => codesSent'[n] = 0
  BY DEF OAuthInv, CodesAreSentOnce
<1> QED
  BY <1>2, <1>3, <1>4 DEF OAuthInv

\* A new state comes with a code that nobody has sent.
LEMMA LinuxDoAuthKeeps == ASSUME OAuthInv, LinuxDoAuth PROVE OAuthInv'
<1>1. states + 1 \in Codes /\ states \in Nat
  BY WebSessionAssumption DEF OAuthInv, OAuthTypes, LinuxDoAuth, Codes
<1>2. codesSent[states + 1] = 0
  BY <1>1 DEF OAuthInv
<1>3. /\ states' = states + 1 /\ tabState' = states + 1 /\ pendingToken' = FALSE
      /\ UNCHANGED <<callback, url, codesSent>>
  BY DEF LinuxDoAuth
<1>4. OAuthTypes'
  <2>1. states' \in 0 .. MaxStates /\ tabState' \in 0 .. MaxStates
    BY <1>1, <1>3 DEF Codes
  <2>2. pendingToken' \in BOOLEAN
    BY <1>3
  <2>3. /\ callback' \in {"none", "working", "prompt", "failed", "denied"}
        /\ url' \in 0 .. MaxStates /\ codesSent' \in [Codes -> Nat]
    BY <1>3 DEF OAuthInv, OAuthTypes
  <2> QED
    BY <2>1, <2>2, <2>3 DEF OAuthTypes
<1>5. \A n \in Codes : n > states' => codesSent'[n] = 0
  BY <1>1, <1>3 DEF OAuthInv, Codes
<1> QED
  BY <1>1, <1>2, <1>3, <1>4, <1>5 DEF OAuthInv, CodesAreSentOnce

\* The one step that sends a code takes its state from the tab.
LEMMA OpenCallbackOAuth ==
  ASSUME OAuthInv, NEW n \in 0 .. MaxStates, OpenCallback(n), UNCHANGED <<states, pendingToken>>
  PROVE  OAuthInv'
<1>0. 0 \in 0 .. MaxStates
  BY WebSessionAssumption
<1>1. CASE pendingToken \/ n = 0 \/ n # tabState
  BY <1>0, <1>1, OAuthQuiet DEF OpenCallback, OAuthInv, OAuthTypes
<1>2. CASE ~pendingToken /\ n # 0 /\ n = tabState
  <2>1. n \in Codes /\ n <= states /\ codesSent[n] = 0
    BY <1>2 DEF OAuthInv, Codes
  <2>2. /\ callback' = "working" /\ tabState' = 0 /\ url' = n
        /\ codesSent' = [codesSent EXCEPT ![n] = @ + 1]
    BY <1>2 DEF OpenCallback
  <2>3. codesSent \in [Codes -> Nat]
    BY DEF OAuthInv, OAuthTypes
  <2>4. /\ codesSent' \in [Codes -> Nat]
        /\ codesSent'[n] = 1 /\ \A m \in Codes \ {n} : codesSent'[m] = codesSent[m]
    BY <2>1, <2>2, <2>3
  <2>5. OAuthTypes'
    BY <1>0, <2>2, <2>4 DEF OAuthInv, OAuthTypes
  <2>6. CodesAreSentOnce'
    BY <2>4 DEF OAuthInv, CodesAreSentOnce
  <2>7. \A m \in Codes : m > states' => codesSent'[m] = 0
    BY <2>1, <2>4 DEF OAuthInv, OAuthTypes, Codes
  <2> QED
    BY <2>2, <2>5, <2>6, <2>7 DEF OAuthInv
<1> QED
  BY <1>1, <1>2

LEMMA OAuthStep == OAuthInv /\ [SessionNext]_sessionVars => OAuthInv'
<1> SUFFICES ASSUME OAuthInv, [SessionNext]_sessionVars PROVE OAuthInv'
  OBVIOUS
<1>0. 0 \in 0 .. MaxStates
  BY WebSessionAssumption
<1>1. ASSUME NEW r, AuthorizeFails(r) \/ InviteRequired(r) \/ CompleteFails(r) PROVE OAuthInv'
  BY <1>0, <1>1, OAuthQuiet DEF AuthorizeFails, InviteRequired, CompleteFails, OAuthInv, OAuthTypes
<1>2. ASSUME NEW r, CompleteSucceeds(r) PROVE OAuthInv'
  BY <1>0, <1>2, OAuthQuiet DEF CompleteSucceeds
<1>3. CASE PageLoad
  BY <1>0, <1>3, OAuthQuiet DEF PageLoad, OAuthInv, OAuthTypes
<1>4. CASE CallbackError
  BY <1>0, <1>4, OAuthQuiet DEF CallbackError, OAuthInv, OAuthTypes
<1>5. ASSUME NEW n \in Codes, CallbackLoad(n) PROVE OAuthInv'
  BY <1>5, OpenCallbackOAuth DEF CallbackLoad, Codes
<1>6. CASE CallbackReload
  BY <1>6, OpenCallbackOAuth DEF CallbackReload, OAuthInv, OAuthTypes
<1>7. CASE LinuxDoAuth
  BY <1>7, LinuxDoAuthKeeps
<1>8. ASSUME NEW r \in requests, Answer(r),
             ~AuthorizeFails(r), ~InviteRequired(r), ~CompleteFails(r), ~CompleteSucceeds(r)
      PROVE  OAuthInv'
  BY <1>8, OAuthUnchanged DEF Answer, StatusAnswered, SignoutAnswered, ResumeSucceeds, ResumeAnswered,
     FormSucceeds, FormFails, Authorized, RestoreSucceeds, RestoreRetried, RestoreFails,
     RequestAnswered, RegisterOtpSent, SessionRefused, PasswordChanged
<1>9. CASE \/ \E form \in Forms \cup {"otp"} : Submit(Request(form, 0))
          \/ SubmitInvite \/ LeaveConsole
          \/ \E kind \in {"request", "password"} : ConsoleRequest(kind)
          \/ SessionsEnd \/ OtherTab \/ UNCHANGED sessionVars
  BY <1>9, OAuthUnchanged DEF Submit, SubmitInvite, LeaveConsole, ConsoleRequest, SessionsEnd,
     OtherTab, sessionVars
<1> QED
  BY <1>1, <1>2, <1>3, <1>4, <1>5, <1>6, <1>7, <1>8, <1>9, FormClicks DEF SessionNext, Clicks

----------------------------------------------------------------------------
(* Loading screens                                                         *)

\* One of rs will be answered to the page on display.
Waits(kinds, rs) == \E r \in rs : r.mounted /\ r.kind \in kinds

NoCode(rs) == \A r \in rs : r.kind # "complete"

\* The callback page sends codes, and it alone; a tab that is away has no requests.
CodesFromCallback ==
  /\ page = "callback" => \A r \in requests : r.kind = "complete"
  /\ page # "callback" => NoCode(requests)
  /\ page = "away" => requests = {}

\* Each page waits for an answer of its own.
BootWaits ==
  /\ page \in {"callback", "away"} => ~booting
  /\ booting /\ page = "entry" => Waits({"status"}, requests)
  /\ booting /\ page = "console" => Waits({"restore", "signout"}, requests)

BootInv == CodesFromCallback /\ BootWaits

LEMMA ToEntryBoot == ASSUME NEW rs, NoCode(rs), ToEntry(rs) PROVE BootInv'
<1>1. Request("status", 0).kind = "status" /\ Request("status", 0).mounted = TRUE
  BY DEF Request
<1>2. requests' = rs \cup {Request("status", 0)} /\ page' = "entry"
  BY DEF ToEntry
<1> QED
  BY <1>1, <1>2 DEF BootInv, CodesFromCallback, BootWaits, Waits, NoCode

LEMMA ToConsoleBoot == ASSUME NEW rs, NEW c, NEW h, NoCode(rs), ToConsole(rs, c, h) PROVE BootInv'
<1>1. Request("restore", c).kind = "restore" /\ Request("restore", c).mounted = TRUE
  BY DEF Request
<1>2. requests' = rs \cup {Request("restore", c)} /\ page' = "console"
  BY DEF ToConsole, TakePending
<1> QED
  BY <1>1, <1>2 DEF BootInv, CodesFromCallback, BootWaits, Waits, NoCode

LEMMA UnmountedNoCode ==
  ASSUME NEW rs \in SUBSET Requests, NoCode(rs)
  PROVE  NoCode(Unmounted(rs))
<1>1. \A r \in Requests : [r EXCEPT !.mounted = FALSE].kind = r.kind
  BY DEF Requests
<1> QED
  BY <1>1 DEF Unmounted, NoCode

LEMMA HomeLoadedBoot == ASSUME NEW c, NEW m \in BOOLEAN, NEW h, HomeLoaded(c, m, h) PROVE BootInv'
<1> DEFINE u(kind) == [Request(kind, 0) EXCEPT !.mounted = FALSE]
<1>1. u("resume").kind = "resume" /\ u("signout").kind = "signout"
  BY DEF Request
<1>2. CASE c # 0 /\ trusted
  <2>1. ToConsole({}, c, h) /\ NoCode({})
    BY <1>2 DEF HomeLoaded, NoCode
  <2> QED
    BY <2>1, ToConsoleBoot
<1>3. CASE c = 0 /\ m /\ trusted
  <2>1. ToConsole({u("resume")}, 0, h)
    BY <1>3 DEF HomeLoaded
  <2>2. NoCode({u("resume")})
    BY <1>1 DEF NoCode
  <2> QED
    BY <2>1, <2>2, ToConsoleBoot
<1>4. CASE c # 0 /\ ~trusted
  <2>1. page' = "console" /\ requests' = {Request("signout", c)}
    BY <1>4 DEF HomeLoaded
  <2>2. Request("signout", c).kind = "signout" /\ Request("signout", c).mounted = TRUE
    BY DEF Request
  <2> QED
    BY <2>1, <2>2 DEF BootInv, CodesFromCallback, BootWaits, Waits, NoCode
<1>5. CASE c = 0 /\ ~(m /\ trusted)
  <2>1. ToEntry(IF m THEN {u("signout")} ELSE {})
    BY <1>5 DEF HomeLoaded
  <2>2. NoCode(IF m THEN {u("signout")} ELSE {})
    BY <1>1 DEF NoCode
  <2> HIDE DEF u
  <2> QED
    BY <2>1, <2>2, ToEntryBoot
<1> QED
  BY <1>2, <1>3, <1>4, <1>5

\* The page stays, and what it waits for is under way still.
LEMMA SamePageBoot ==
  ASSUME BootInv, page' = page, booting' => booting, page # "callback", page # "away",
         NoCode(requests'),
         booting' /\ page = "entry" => Waits({"status"}, requests'),
         booting' /\ page = "console" => Waits({"restore", "signout"}, requests')
  PROVE  BootInv'
BY DEF BootInv, CodesFromCallback, BootWaits

\* The marker goes: of an entry page, the status is awaited still.
LEMMA ClearedBoot ==
  ASSUME BootInv, NEW rs \in SUBSET Requests, NoCode(rs), page # "callback", page # "away",
         Waits({"status"}, requests) => Waits({"status"}, rs), MarkerCleared(rs)
  PROVE  BootInv'
<1>1. CASE page = "console"
  BY <1>1, ToEntryBoot, UnmountedNoCode DEF MarkerCleared
<1>2. CASE page # "console"
  <2>1. requests' = rs /\ UNCHANGED <<page, booting, info, status>>
    BY <1>2 DEF MarkerCleared
  <2> QED
    BY <1>2, <2>1 DEF BootInv, CodesFromCallback, BootWaits
<1> QED
  BY <1>1, <1>2

\* Where a request other than a code is under way.
LEMMA RequestPage ==
  ASSUME BootInv, NEW r \in requests, r.kind # "complete"
  PROVE  page # "callback" /\ page # "away" /\ NoCode(requests)
BY DEF BootInv, CodesFromCallback

\* An answer nobody waits for is gone.
LEMMA DroppedBoot ==
  ASSUME NEW rs, NEW r, NEW kinds, Waits(kinds, rs), ~(r.mounted /\ r.kind \in kinds)
  PROVE  Waits(kinds, rs \ {r})
BY DEF Waits

LEMMA GrownBoot ==
  ASSUME NEW rs, NEW more, NEW kinds, Waits(kinds, rs)
  PROVE  Waits(kinds, rs \cup more)
BY DEF Waits

\* A request that is answered and clears the marker, sending another or not.
LEMMA ClearingBoot ==
  ASSUME BootInv, NEW r \in requests, r.kind \notin {"complete", "status"}, requests \subseteq Requests,
         NEW more \in SUBSET Requests, NoCode(more), MarkerCleared((requests \ {r}) \cup more)
  PROVE  BootInv'
<1>1. page # "callback" /\ page # "away" /\ NoCode(requests)
  BY RequestPage
<1>2. (requests \ {r}) \cup more \in SUBSET Requests /\ NoCode((requests \ {r}) \cup more)
  BY <1>1 DEF NoCode
<1>3. Waits({"status"}, requests) => Waits({"status"}, (requests \ {r}) \cup more)
  BY DroppedBoot, GrownBoot
<1> QED
  BY <1>1, <1>2, <1>3, ClearedBoot

BootStart == BootInv /\ SignedOutInv

LEMMA RequestsType ==
  ASSUME SignedOutInv PROVE requests \in SUBSET Requests /\ cookie \in Sessions /\ booting \in BOOLEAN
BY DEF SignedOutInv, TabInv, TabTypes, CookieTypes

LEMMA DropsBoot ==
  ASSUME BootStart, NEW r \in requests, r.kind # "complete",
         \/ \E ok \in BOOLEAN : StatusAnswered(r, ok)
         \/ ResumeSucceeds(r) \/ AuthorizeFails(r) \/ RequestAnswered(r) \/ RegisterOtpSent(r) \/ RestoreSucceeds(r)
  PROVE  BootInv'
<1>1. page # "callback" /\ page # "away" /\ NoCode(requests)
  BY RequestPage DEF BootStart
<1>2. requests' = requests \ {r} /\ page' = page /\ NoCode(requests')
  BY <1>1 DEF StatusAnswered, ResumeSucceeds, AuthorizeFails, RequestAnswered, RegisterOtpSent, RestoreSucceeds, NoCode
<1>3. CASE booting' = FALSE
  BY <1>1, <1>2, <1>3, SamePageBoot DEF BootStart
<1>4. CASE booting' = booting /\ r.kind # "status" /\ (r.kind = "restore" => ~r.mounted) /\ r.kind # "signout"
  <2>1. booting /\ page = "entry" => Waits({"status"}, requests \ {r})
    BY <1>4, DroppedBoot DEF BootStart, BootInv, BootWaits
  <2>2. booting /\ page = "console" => Waits({"restore", "signout"}, requests \ {r})
    BY <1>4, DroppedBoot DEF BootStart, BootInv, BootWaits
  <2> QED
    BY <1>1, <1>2, <1>4, <2>1, <2>2, SamePageBoot DEF BootStart
<1>5. (booting' = FALSE) \/ (booting' = booting /\ r.kind # "status" /\ (r.kind = "restore" => ~r.mounted)
        /\ r.kind # "signout")
  BY DEF StatusAnswered, ResumeSucceeds, AuthorizeFails, RequestAnswered, RegisterOtpSent, RestoreSucceeds
<1> QED
  BY <1>3, <1>4, <1>5

\* A request that is tried again is awaited again.
LEMMA RetriesBoot ==
  ASSUME BootStart, NEW r \in requests, r.kind # "complete", r.left > 1,
         requests' = (requests \ {r}) \cup {[r EXCEPT !.left = @ - 1, !.session = cookie]},
         UNCHANGED <<page, booting>>
  PROVE  BootInv'
<1> DEFINE q == [r EXCEPT !.left = @ - 1, !.session = cookie]
<1>1. page # "callback" /\ page # "away" /\ NoCode(requests)
  BY RequestPage DEF BootStart
<1>2. q.kind = r.kind /\ q.mounted = r.mounted
  BY RetryType, RequestsType DEF BootStart
<1>3. requests' = (requests \ {r}) \cup {q}
  OBVIOUS
<1> HIDE DEF q
<1>4. NoCode(requests')
  BY <1>1, <1>2, <1>3 DEF NoCode
<1>5. \A kinds : Waits(kinds, requests) => Waits(kinds, requests')
  BY <1>2, <1>3 DEF Waits
<1> QED
  BY <1>1, <1>4, <1>5, SamePageBoot DEF BootStart, BootInv, BootWaits

LEMMA ResumeBoot ==
  ASSUME BootStart, NEW r \in requests, NEW refused \in BOOLEAN, NEW again \in BOOLEAN,
         ResumeAnswered(r, refused, again)
  PROVE  BootInv'
<1>1. r.kind = "resume"
  BY DEF ResumeAnswered
<1>2. CASE again
  BY <1>1, <1>2, RetriesBoot DEF ResumeAnswered
<1>3. CASE ~again
  <2>1. MarkerCleared((requests \ {r}) \cup {})
    BY <1>3, Zenon DEF ResumeAnswered
  <2>2. NoCode({})
    BY DEF NoCode
  <2> QED
    BY <1>1, <2>1, <2>2, RequestsType, ClearingBoot DEF BootStart
<1> QED
  BY <1>2, <1>3

LEMMA ClearsBoot ==
  ASSUME BootStart, NEW r \in requests,
         \/ FormFails(r) \/ SessionRefused(r) \/ PasswordChanged(r)
         \/ \E ok \in BOOLEAN : SignoutAnswered(r, ok)
  PROVE  BootInv'
<1>1. r.kind \notin {"complete", "status"} /\ MarkerCleared(requests \ {r})
  BY DEF FormFails, SessionRefused, PasswordChanged, SignoutAnswered, Forms
<1>2. MarkerCleared((requests \ {r}) \cup {}) /\ NoCode({})
  <2>1. (requests \ {r}) \cup {} = requests \ {r}
    OBVIOUS
  <2> QED
    BY <1>1, <2>1 DEF NoCode
<1> QED
  BY <1>1, <1>2, RequestsType, ClearingBoot DEF BootStart

LEMMA RestoreFailsBoot ==
  ASSUME BootStart, NEW r \in requests, NEW refused \in BOOLEAN, RestoreFails(r, refused), CookieTypes'
  PROVE  BootInv'
<1> DEFINE q == [Request("signout", cookie') EXCEPT !.mounted = FALSE]
<1>1. q \in Requests /\ q.kind = "signout"
  BY RequestType, KindsType DEF CookieTypes
<1>2. r.kind = "restore" /\ MarkerCleared((requests \ {r}) \cup {q})
  BY DEF RestoreFails
<1> HIDE DEF q
<1>3. {q} \in SUBSET Requests /\ NoCode({q})
  BY <1>1 DEF NoCode
<1> QED
  BY <1>2, <1>3, RequestsType, ClearingBoot DEF BootStart

LEMMA FormSucceedsBoot == ASSUME BootStart, NEW r \in requests, FormSucceeds(r) PROVE BootInv'
<1>1. r.kind \in Forms /\ r.kind \notin {"complete", "status", "restore", "signout"}
  BY DEF FormSucceeds, Forms
<1>2. page # "callback" /\ page # "away" /\ NoCode(requests)
  BY <1>1, RequestPage DEF BootStart
<1>3. requests \ {r} \in SUBSET Requests /\ NoCode(requests \ {r})
  BY <1>2, RequestsType DEF NoCode, BootStart
<1>4. CASE r.mounted
  BY <1>3, <1>4, UnmountedNoCode, ToConsoleBoot DEF FormSucceeds
<1>5. CASE ~r.mounted
  <2>1. requests' = requests \ {r} /\ UNCHANGED <<page, booting>>
    BY <1>5 DEF FormSucceeds
  <2>2. /\ booting /\ page = "entry" => Waits({"status"}, requests \ {r})
        /\ booting /\ page = "console" => Waits({"restore", "signout"}, requests \ {r})
    BY <1>5, DroppedBoot DEF BootStart, BootInv, BootWaits
  <2> QED
    BY <1>2, <1>3, <2>1, <2>2, SamePageBoot DEF BootStart
<1> QED
  BY <1>4, <1>5

LEMMA AuthorizedBoot == ASSUME NEW r, Authorized(r) PROVE BootInv'
BY DEF Authorized, BootInv, CodesFromCallback, BootWaits, NoCode

LEMMA CodeAnsweredBoot ==
  ASSUME BootStart, NEW r \in requests, InviteRequired(r) \/ CompleteFails(r)
  PROVE  BootInv'
<1>1. page = "callback"
  BY DEF InviteRequired, CompleteFails, BootStart, BootInv, CodesFromCallback, NoCode
<1>2. requests' = {} /\ UNCHANGED <<page, booting>>
  BY DEF InviteRequired, CompleteFails
<1> QED
  BY <1>1, <1>2 DEF BootStart, BootInv, CodesFromCallback, BootWaits

LEMMA OpenCallbackBoot ==
  ASSUME ~booting, booting' = booting, NEW n, OpenCallback(n)
  PROVE  BootInv'
<1>1. page' = "callback"
  BY DEF OpenCallback
<1>2. requests' = {} \/ requests' = {[Request("complete", 0) EXCEPT !.code = n]}
  BY DEF OpenCallback
<1>3. [Request("complete", 0) EXCEPT !.code = n].kind = "complete"
  BY DEF Request
<1> QED
  BY <1>1, <1>2, <1>3 DEF BootInv, CodesFromCallback, BootWaits

LEMMA CallbackBoot ==
  ASSUME BootStart, CallbackReload \/ CallbackError \/ (\E n \in Codes : CallbackLoad(n)) \/ SubmitInvite
  PROVE  BootInv'
<1>1. page \in {"away", "callback"} /\ ~booting /\ booting' = booting
  BY DEF CallbackReload, CallbackError, CallbackLoad, SubmitInvite, BootStart, BootInv, BootWaits
<1>2. CASE CallbackReload \/ \E n \in Codes : CallbackLoad(n)
  BY <1>1, <1>2, OpenCallbackBoot DEF CallbackReload, CallbackLoad
<1>3. CASE CallbackError
  BY <1>1, <1>3 DEF CallbackError, BootInv, CodesFromCallback, BootWaits
<1>4. CASE SubmitInvite
  <2>1. Request("complete", 0).kind = "complete"
    BY DEF Request
  <2> QED
    BY <1>1, <1>4, <2>1 DEF SubmitInvite, BootInv, CodesFromCallback, BootWaits
<1> QED
  BY <1>2, <1>3, <1>4

\* The clicks on the entry page and in the console, which are not while booting.
LEMMA ClicksBoot ==
  ASSUME BootStart,
         \/ \E form \in Forms \cup {"otp"} : Submit(Request(form, 0))
         \/ LinuxDoAuth
         \/ \E kind \in {"request", "password"} : ConsoleRequest(kind)
  PROVE  BootInv'
<1>1. page \in {"entry", "console"} /\ ~booting /\ UNCHANGED <<page, booting>>
  BY DEF Submit, LinuxDoAuth, ConsoleRequest, Entry, LinuxDoOffered, RegisterForm, LoginForm, InConsole
<1>2. PICK kind \in Forms \cup {"otp", "authorize", "request", "password"}, c \in {0, cookie} :
        requests' = requests \cup {Request(kind, c)}
  BY DEF Submit, LinuxDoAuth, ConsoleRequest
<1>3. Request(kind, c).kind = kind /\ kind # "complete"
  BY DEF Request, Forms
<1>4. NoCode(requests')
  BY <1>1, <1>2, <1>3 DEF BootStart, BootInv, CodesFromCallback, NoCode
<1> QED
  BY <1>1, <1>4, SamePageBoot DEF BootStart

LEMMA LeaveConsoleBoot == ASSUME BootStart, LeaveConsole PROVE BootInv'
<1> DEFINE q == Request("signout", cookie)
<1>1. q \in Requests /\ q.kind = "signout"
  BY RequestType, KindsType, RequestsType DEF BootStart
<1>2. page = "console" /\ MarkerCleared(requests \cup {q})
  BY DEF LeaveConsole, InConsole
<1> HIDE DEF q
<1>3. requests \cup {q} \in SUBSET Requests /\ NoCode(requests \cup {q})
  BY <1>1, <1>2, RequestsType DEF BootStart, BootInv, CodesFromCallback, NoCode
<1> QED
  BY <1>2, <1>3, ClearedBoot, GrownBoot DEF BootStart

LEMMA BootStep ==
  ASSUME BootStart, CookieTypes', [SessionNext]_sessionVars
  PROVE  BootInv'
<1>1. ASSUME NEW r \in requests, Answer(r) PROVE BootInv'
  <2>1. CASE \/ \E ok \in BOOLEAN : StatusAnswered(r, ok)
             \/ ResumeSucceeds(r) \/ AuthorizeFails(r) \/ RequestAnswered(r) \/ RegisterOtpSent(r) \/ RestoreSucceeds(r)
    <3>1. r.kind # "complete"
      BY <2>1 DEF StatusAnswered, ResumeSucceeds, AuthorizeFails, RequestAnswered, RegisterOtpSent, RestoreSucceeds
    <3> QED
      BY <2>1, <3>1, DropsBoot
  <2>2. CASE \E refused, again \in BOOLEAN : ResumeAnswered(r, refused, again)
    BY <2>2, ResumeBoot
  <2>3. CASE \/ FormFails(r) \/ SessionRefused(r) \/ PasswordChanged(r)
             \/ \E ok \in BOOLEAN : SignoutAnswered(r, ok)
    BY <2>3, ClearsBoot
  <2>4. CASE FormSucceeds(r) \/ Authorized(r) \/ InviteRequired(r) \/ CompleteFails(r)
    BY <2>4, FormSucceedsBoot, AuthorizedBoot, CodeAnsweredBoot
  <2>5. CASE CompleteSucceeds(r)
    BY <2>5, HomeLoadedBoot DEF CompleteSucceeds
  <2>6. CASE RestoreRetried(r)
    BY <2>6, RetriesBoot DEF RestoreRetried
  <2>7. CASE \E refused \in BOOLEAN : RestoreFails(r, refused)
    BY <2>7, RestoreFailsBoot
  <2> QED
    BY <1>1, <2>1, <2>2, <2>3, <2>4, <2>5, <2>6, <2>7 DEF Answer
<1>2. CASE PageLoad
  <2>1. marker \in BOOLEAN
    BY DEF BootStart, SignedOutInv, TabInv, TabTypes
  <2> QED
    BY <1>2, <2>1, HomeLoadedBoot DEF PageLoad
<1>3. CASE Clicks
  BY <1>2, <1>3, FormClicks, ClicksBoot, CallbackBoot, LeaveConsoleBoot DEF Clicks
<1>4. CASE (\E n \in Codes : CallbackLoad(n)) \/ CallbackError
  BY <1>4, CallbackBoot
<1>5. CASE SessionsEnd \/ OtherTab \/ UNCHANGED sessionVars
  BY <1>5 DEF SessionsEnd, OtherTab, sessionVars, tabVars, BootStart, BootInv, CodesFromCallback, BootWaits
<1> QED
  BY <1>1, <1>3, <1>4, <1>5 DEF SessionNext

----------------------------------------------------------------------------
(* Theorems                                                                *)

SessionInv == SignedOutInv /\ OAuthInv

OutIsBoolean == out \in BOOLEAN

LEMMA OutType == OutIsBoolean /\ [SessionNext]_sessionVars => OutIsBoolean'
<1> SUFFICES ASSUME out \in BOOLEAN, [SessionNext]_sessionVars PROVE out' \in BOOLEAN
  BY DEF OutIsBoolean
<1>1. ASSUME NEW r \in requests, Answer(r) PROVE out' \in {out, FALSE}
  BY <1>1 DEF Answer, StatusAnswered, SignoutAnswered, ResumeSucceeds, ResumeAnswered, FormSucceeds,
     FormFails, Authorized, AuthorizeFails, CompleteSucceeds, InviteRequired, CompleteFails,
     RestoreSucceeds, RestoreRetried, RestoreFails, RequestAnswered, RegisterOtpSent, SessionRefused, PasswordChanged
<1>2. CASE PageLoad
  BY <1>2 DEF PageLoad
<1>3. CASE LeaveConsole
  BY <1>3 DEF LeaveConsole
<1>4. ASSUME ~PageLoad, ~LeaveConsole, Clicks PROVE out' = out
  BY <1>4, FormClicks DEF Clicks, Submit, LinuxDoAuth, SubmitInvite, ConsoleRequest, CallbackReload
<1>5. ASSUME (\E n \in Codes : CallbackLoad(n)) \/ CallbackError \/ SessionsEnd \/ OtherTab
              \/ UNCHANGED sessionVars
      PROVE  out' = out
  BY <1>5 DEF CallbackLoad, CallbackError, SessionsEnd, OtherTab, sessionVars
<1> QED
  BY <1>1, <1>2, <1>3, <1>4, <1>5 DEF SessionNext

LEMMA SessionInvariant == SessionSpec => []SessionInv
<1>1. SessionInit => SessionInv
  BY SignedOutInit, OAuthInit DEF SessionInv
<1>2. SessionInv /\ [SessionNext]_sessionVars => SessionInv'
  <2> SUFFICES ASSUME SessionInv, [SessionNext]_sessionVars PROVE SessionInv'
    OBVIOUS
  <2>1. url \in {0} \cup Codes
    BY DEF SessionInv, OAuthInv, OAuthTypes, Codes
  <2> QED
    BY <2>1, SignedOutStep, OAuthStep DEF SessionInv
<1> QED
  BY <1>1, <1>2, PTL DEF SessionSpec

\* The variables of the session hold what they are declared to.
THEOREM SessionTypes == SessionSpec => []SessionTypeOK
<1>1. SessionInv /\ OutIsBoolean => SessionTypeOK
  BY DEF OutIsBoolean, SessionInv, SignedOutInv, TabInv, TabTypes, CookieTypes, OAuthInv, OAuthTypes, SessionTypeOK
<1>2. SessionInit => OutIsBoolean
  BY DEF SessionInit, OutIsBoolean
<1> QED
  BY <1>1, <1>2, OutType, SessionInvariant, PTL DEF SessionSpec

\* No answer that was under way at a sign-out brings the console back.
THEOREM SigningOutLasts == SessionSpec => []SignedOutStaysOut
<1>1. SessionInv => SignedOutStaysOut
  BY DEF SessionInv, SignedOutInv
<1> QED
  BY <1>1, SessionInvariant, PTL

\* However often the callback page is opened, a code goes to the backend once.
THEOREM CodesGoOnce == SessionSpec => []CodesAreSentOnce
<1>1. SessionInv => CodesAreSentOnce
  BY DEF SessionInv, OAuthInv
<1> QED
  BY <1>1, SessionInvariant, PTL

\* A loading screen waits for an answer that ends it, whatever came in between.
THEOREM BootsEnd == SessionSpec => []BootIsAnswered
<1>1. SessionInit => BootInv
  <2>1. Request("status", 0).kind = "status" /\ Request("status", 0).mounted = TRUE
    BY DEF Request
  <2> QED
    BY <2>1 DEF SessionInit, BootInv, CodesFromCallback, BootWaits, Waits, NoCode
<1>2. BootInv /\ SessionInv /\ SessionInv' /\ [SessionNext]_sessionVars => BootInv'
  BY BootStep DEF BootStart, SessionInv, SignedOutInv
<1>3. BootInv /\ SessionInv => BootIsAnswered
  BY DEF BootInv, BootWaits, Waits, BootIsAnswered, SessionInv, SignedOutInv, TabInv, TabTypes
<1> QED
  BY <1>1, <1>2, <1>3, SessionInvariant, PTL DEF SessionSpec
=============================================================================

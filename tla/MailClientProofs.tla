-------------------------- MODULE MailClientProofs --------------------------
(***************************************************************************)
(* Proofs about MailClient: its types, that the event stream is the        *)
(* current mailbox's, that nothing shown as under way is abandoned, and    *)
(* that the page waits for one answer at a time, asked with its token.     *)
(*                                                                         *)
(* All rest on where things can be: a timer or a call of the stream only  *)
(* beside the inbox, a token only with a mailbox.  What the operators on   *)
(* calls keep of them is stated once, by the kinds of the calls.           *)
(***************************************************************************)
EXTENDS MailClient, TLAPS

\* What a set of calls shows to those who wait.
Has(cs, k)     == \E c \in cs : c.kind = k
HasLive(cs, k) == \E c \in cs : c.kind = k /\ c.live
Waiting(cs)    == \E c \in cs : c.stage = "waiting"
ListCalls(cs)  == \E c \in cs : FromInbox(c) \/ FromStream(c)

\* There is a token exactly when there is a mailbox.
TokenIfMailbox == cur = None <=> tok = None

\* The inbox and the stream have calls, and the stream its timer, only while
\* the inbox is on display; the same for the message.
StreamNeedsList ==
  /\ timer => ListUp
  /\ ListCalls(calls) => ListUp
DetailNeedsMessage ==
  /\ Has(calls, "detail") => DetailUp
  /\ detail # "none" => DetailUp

ClientInv ==
  /\ TypeOK
  /\ TokenIfMailbox /\ StreamNeedsList /\ DetailNeedsMessage
  /\ StreamFollowsMailbox /\ NothingIsAbandoned

\* A call changed into one of the same maker.
SameMaker(c, d) == d.kind = c.kind /\ d.live = c.live

\* ds has whatever somebody waits for in cs, and nothing for those who do not.
Keeps(cs, ds) ==
  /\ Has(cs, "initial") => Has(ds, "initial")
  /\ Has(cs, "detail") <=> Has(ds, "detail")
  /\ HasLive(cs, "recovering") => HasLive(ds, "recovering")
  /\ HasLive(cs, "reading") => HasLive(ds, "reading")
  /\ ListCalls(ds) => ListCalls(cs)

----------------------------------------------------------------------------
(* Calls                                                                   *)

LEMMA NewTokenType ==
  ASSUME period \in Nat, NEW a \in Mailboxes
  PROVE  NewToken(a) \in Tokens
BY DEF NewToken, Tokens

LEMMA CallType ==
  ASSUME NEW k \in Kinds, NEW t \in Tokens
  PROVE  /\ Call(k, t) \in Calls
         /\ Call(k, t).kind = k
         /\ Call(k, t).live = (k # "orphan")
         /\ Call(k, t).stage = "sent"
BY MailCallsAssumption DEF Call, Calls

LEMMA DownloadType ==
  ASSUME NEW t \in Tokens
  PROVE  /\ DownloadCall(t) \in Calls
         /\ DownloadCall(t).kind = "orphan" /\ DownloadCall(t).stage = "sent"
<1> DEFINE c == Call("orphan", t)
<1>1. c \in Calls /\ c.kind = "orphan" /\ c.stage = "sent"
  BY CallType DEF Kinds
<1>2. DownloadCall(t) = [c EXCEPT !.left = Retries]
  BY DEF DownloadCall
<1> HIDE DEF c
<1> QED
  BY <1>1, <1>2, MailCallsAssumption DEF Calls

LEMMA AskedAgainType ==
  ASSUME NEW c \in Calls
  PROVE  /\ AskedAgain(c) \in Calls
         /\ AskedAgain(c).kind = "reading" /\ AskedAgain(c).stage = "sent"
         /\ AskedAgain(c).live = FALSE
<1> DEFINE d == Call("reading", c.first)
<1>1. d \in Calls /\ d.kind = "reading" /\ d.stage = "sent"
  BY CallType DEF Kinds, Calls
<1>2. AskedAgain(c) = [d EXCEPT !.live = FALSE]
  BY DEF AskedAgain
<1> HIDE DEF d
<1> QED
  BY <1>1, <1>2 DEF Calls

LEMMA SentAgainType ==
  ASSUME NEW c \in Calls, NEW t \in Tokens
  PROVE  /\ SentAgain(c, t) \in Calls
         /\ SameMaker(c, SentAgain(c, t))
         /\ SentAgain(c, t).stage = "sent"
<1> DEFINE d == SentAgain(c, t)
<1>1. d = [c EXCEPT !.token = t, !.stage = "sent", !.sent = c.sent + 1]
  BY DEF SentAgain
<1>2. c.sent + 1 \in Nat
  BY DEF Calls
<1>3. d \in Calls
  BY <1>1, <1>2 DEF Calls
<1>4. d.kind = c.kind /\ d.stage = "sent"
  BY <1>1 DEF Calls
<1>5. d.live = c.live
  BY <1>1 DEF Calls
<1> QED
  BY <1>3, <1>4, <1>5 DEF SameMaker

\* A call that is given to nobody.
LEMMA OrphanType ==
  ASSUME NEW c \in Calls
  PROVE  /\ [c EXCEPT !.kind = "orphan", !.live = FALSE] \in Calls
         /\ [c EXCEPT !.kind = "orphan", !.live = FALSE].kind = "orphan"
         /\ [c EXCEPT !.kind = "orphan", !.live = FALSE].live = FALSE
         /\ [c EXCEPT !.kind = "orphan", !.live = FALSE].stage = c.stage
BY DEF Calls, Kinds

LEMMA StaleType ==
  ASSUME NEW c \in Calls
  PROVE  /\ [c EXCEPT !.live = FALSE] \in Calls
         /\ [c EXCEPT !.live = FALSE].kind = c.kind
         /\ [c EXCEPT !.live = FALSE].live = FALSE
         /\ [c EXCEPT !.live = FALSE].stage = c.stage
BY DEF Calls

LEMMA OrphanedKinds ==
  ASSUME NEW cs \in SUBSET Calls, NEW dropped \in SUBSET cs
  PROVE  /\ Orphaned(cs, dropped) \in SUBSET Calls
         /\ \A c \in cs \ dropped : c \in Orphaned(cs, dropped)
         /\ \A d \in Orphaned(cs, dropped) : d \in cs \ dropped \/ d.kind = "orphan"
         /\ Waiting(Orphaned(cs, dropped)) => Waiting(cs)
<1> DEFINE lost(c) == [c EXCEPT !.kind = "orphan", !.live = FALSE]
<1>1. \A c \in cs : lost(c) \in Calls /\ lost(c).kind = "orphan" /\ lost(c).stage = c.stage
  BY OrphanType
<1>2. \A d \in Orphaned(cs, dropped) :
        \/ d \in cs \ dropped
        \/ \E c \in dropped : d = lost(c)
  BY DEF Orphaned
<1>3. \A c \in cs \ dropped : c \in Orphaned(cs, dropped)
  BY DEF Orphaned
<1> HIDE DEF lost
<1> QED
  BY <1>1, <1>2, <1>3 DEF Waiting

LEMMA SupersededKinds ==
  ASSUME NEW cs \in SUBSET Calls, NEW same \in BOOLEAN
  PROVE  /\ Superseded(cs, same) \in SUBSET Calls
         /\ Has(cs, "detail") <=> Has(Superseded(cs, same), "detail")
         /\ ListCalls(Superseded(cs, same)) => same /\ ListCalls(cs)
         /\ Waiting(Superseded(cs, same)) => Waiting(cs)
<1> DEFINE out == {c \in cs : FromInbox(c) \/ (FromStream(c) /\ ~same)}
           os == Orphaned(cs, out)
           stal(c) == [c EXCEPT !.live = FALSE]
           ss == Superseded(cs, same)
<1>1. out \in SUBSET cs
  OBVIOUS
<1>2. /\ os \in SUBSET Calls
      /\ \A c \in cs \ out : c \in os
      /\ \A d \in os : d \in cs \ out \/ d.kind = "orphan"
      /\ Waiting(os) => Waiting(cs)
  BY <1>1, OrphanedKinds
<1>3. /\ \A c \in os : stal(c) \in Calls /\ stal(c).kind = c.kind /\ stal(c).stage = c.stage
  BY <1>2, StaleType
<1>4. \A d \in ss : d \in os \/ \E c \in os : d = stal(c)
  BY DEF Superseded
<1>5. \A c \in os : c \in ss \/ (FromStream(c) /\ stal(c) \in ss)
  BY DEF Superseded
<1>6. \A c \in cs : c.kind = "detail" => c \in cs \ out
  BY DEF FromInbox, FromStream
<1>7. \A d \in os : FromInbox(d) \/ FromStream(d) => d \in cs /\ same
  BY <1>2 DEF FromInbox, FromStream
<1> HIDE DEF out, os, stal, ss
<1>8. ss \in SUBSET Calls
  BY <1>2, <1>3, <1>4
<1>9. Has(cs, "detail") <=> Has(ss, "detail")
  <2>1. ASSUME NEW c \in cs, c.kind = "detail" PROVE c \in ss
    BY <2>1, <1>2, <1>5, <1>6 DEF FromStream
  <2>2. ASSUME NEW d \in ss, d.kind = "detail" PROVE Has(cs, "detail")
    BY <2>2, <1>2, <1>3, <1>4 DEF Has
  <2> QED
    BY <2>1, <2>2 DEF Has
<1>10. ListCalls(ss) => same /\ ListCalls(cs)
  <2> SUFFICES ASSUME NEW d \in ss, FromInbox(d) \/ FromStream(d) PROVE same /\ ListCalls(cs)
    BY DEF ListCalls
  <2>1. \E c \in os : FromInbox(c) \/ FromStream(c)
    BY <1>3, <1>4 DEF FromInbox, FromStream
  <2> QED
    BY <2>1, <1>7 DEF ListCalls
<1>11. Waiting(ss) => Waiting(cs)
  BY <1>2, <1>3, <1>4 DEF Waiting
<1> QED
  BY <1>8, <1>9, <1>10, <1>11 DEF ss

\* The calls of those who made them, each with another token or stage.
LEMMA RemadeKinds ==
  ASSUME NEW cs \in SUBSET Calls, NEW ds \in SUBSET Calls,
         \A c \in cs : \E d \in ds : SameMaker(c, d),
         \A d \in ds : \E c \in cs : SameMaker(c, d)
  PROVE  Keeps(cs, ds)
<1>1. \A k \in Kinds : Has(cs, k) <=> Has(ds, k)
  BY DEF Has, SameMaker
<1>2. \A k \in Kinds : HasLive(cs, k) => HasLive(ds, k)
  BY DEF HasLive, SameMaker
<1>3. ListCalls(ds) => ListCalls(cs)
  BY DEF ListCalls, SameMaker, FromInbox, FromStream
<1> QED
  BY <1>1, <1>2, <1>3 DEF Keeps, Kinds

LEMMA ResumedKinds ==
  ASSUME NEW cs \in SUBSET Calls, NEW t \in Tokens
  PROVE  /\ Resumed(cs, t) \in SUBSET Calls
         /\ ~Waiting(Resumed(cs, t))
         /\ Keeps(cs, Resumed(cs, t))
<1>1. \A c \in cs : SentAgain(c, t) \in Calls /\ SameMaker(c, SentAgain(c, t))
                    /\ SentAgain(c, t).stage = "sent"
  BY SentAgainType
<1>2. \A c \in cs : SameMaker(c, c)
  BY DEF SameMaker
<1>3. \A d \in Resumed(cs, t) : \E c \in cs :
        d = IF c.stage = "waiting" THEN SentAgain(c, t) ELSE c
  BY DEF Resumed
<1>4. \A c \in cs : (IF c.stage = "waiting" THEN SentAgain(c, t) ELSE c) \in Resumed(cs, t)
  BY DEF Resumed
<1>5. Resumed(cs, t) \in SUBSET Calls
  BY <1>1, <1>3
<1>6. ~Waiting(Resumed(cs, t))
  BY <1>1, <1>3 DEF Waiting
<1>7. \A c \in cs : \E d \in Resumed(cs, t) : SameMaker(c, d)
  BY <1>1, <1>2, <1>4
<1>8. \A d \in Resumed(cs, t) : \E c \in cs : SameMaker(c, d)
  BY <1>1, <1>2, <1>3
<1> QED
  BY <1>5, <1>6, <1>7, <1>8, RemadeKinds

\* One call that its function goes on with.
LEMMA ReplacedKinds ==
  ASSUME calls \in SUBSET Calls, NEW c \in calls, NEW d \in Calls, SameMaker(c, d)
  PROVE  /\ Replaced(c, d) \in SUBSET Calls
         /\ Keeps(calls, Replaced(c, d))
         /\ Waiting(Replaced(c, d)) => Waiting(calls) \/ d.stage = "waiting"
<1>1. Replaced(c, d) \in SUBSET Calls
  BY DEF Replaced
<1>2. \A x \in calls : \E y \in Replaced(c, d) : SameMaker(x, y)
  BY DEF Replaced, SameMaker
<1>3. \A y \in Replaced(c, d) : \E x \in calls : SameMaker(x, y)
  BY DEF Replaced, SameMaker
<1> QED
  BY <1>1, <1>2, <1>3, RemadeKinds DEF Replaced, Waiting

----------------------------------------------------------------------------
(* Rendering                                                               *)

\* What a render makes of cs: gone says that the inbox is left or set up anew,
\* read that the message is.
Rendered(cs, gone, same, read) ==
  LET kept == IF gone THEN Superseded(cs, same) ELSE cs
  IN IF read THEN Orphaned(kept, {k \in kept : k.kind = "detail"}) ELSE kept

LEMMA RenderedCalls ==
  ASSUME NEW cs \in SUBSET Calls, NEW gone \in BOOLEAN, NEW same \in BOOLEAN,
         NEW read \in BOOLEAN, NEW out, out = Rendered(cs, gone, same, read)
  PROVE  /\ out \in SUBSET Calls
         /\ Waiting(out) => Waiting(cs)
         /\ ListCalls(out) => ListCalls(cs) /\ (gone => same)
         /\ read => ~Has(out, "detail")
         /\ ~read => (Has(cs, "detail") <=> Has(out, "detail"))
         /\ ~gone => /\ Has(cs, "initial") => Has(out, "initial")
                     /\ HasLive(cs, "recovering") => HasLive(out, "recovering")
                     /\ HasLive(cs, "reading") => HasLive(out, "reading")
<1> DEFINE kept == IF gone THEN Superseded(cs, same) ELSE cs
           details == {k \in kept : k.kind = "detail"}
           os == Orphaned(kept, details)
<1>1. /\ kept \in SUBSET Calls
      /\ Waiting(kept) => Waiting(cs)
      /\ ListCalls(kept) => ListCalls(cs) /\ (gone => same)
      /\ Has(cs, "detail") <=> Has(kept, "detail")
      /\ ~gone => kept = cs
  BY SupersededKinds
<1>2. out = IF read THEN os ELSE kept
  BY DEF Rendered
<1> HIDE DEF kept
<1>3. /\ os \in SUBSET Calls
      /\ \A c \in kept : c.kind # "detail" => c \in os
      /\ \A d \in os : (d \in kept /\ d.kind # "detail") \/ d.kind = "orphan"
      /\ Waiting(os) => Waiting(kept)
  BY <1>1, OrphanedKinds
<1> HIDE DEF os, details
<1>4. ~Has(os, "detail")
  BY <1>3 DEF Has
<1>5. ListCalls(os) => ListCalls(kept)
  BY <1>3 DEF ListCalls, FromInbox, FromStream
<1>6. /\ Has(kept, "initial") => Has(os, "initial")
      /\ HasLive(kept, "recovering") => HasLive(os, "recovering")
      /\ HasLive(kept, "reading") => HasLive(os, "reading")
  BY <1>3 DEF Has, HasLive
<1> QED
  BY <1>1, <1>2, <1>3, <1>4, <1>5, <1>6

\* cs differs from the calls by nothing somebody waits for, and fresh if the
\* mailbox or the token does.
Renderable(cs, p, s, c, t, fresh) ==
  /\ cs \in SUBSET Calls /\ Keeps(calls, cs) /\ (Waiting(cs) => refreshing' # None)
  /\ p \in {"closed", "mailboxes", "elsewhere"} /\ s \in BOOLEAN
  /\ c \in Mailboxes \cup {None} /\ t \in Tokens \cup {None}
  /\ c = None <=> t = None
  /\ c # None /\ (c # cur \/ t # tok) => fresh
  /\ period' \in Nat /\ refreshing' \in Mailboxes \cup {None} /\ asked' \subseteq Mailboxes

\* A render keeps the invariant, whatever the view, mailbox and token.
LEMMA RenderKeeps ==
  ASSUME ClientInv, NEW cs, NEW p, NEW s, NEW c, NEW t, NEW fresh,
         Renderable(cs, p, s, c, t, fresh), Render(cs, p, s, c, t, fresh)
  PROVE  ClientInv'
<1> USE DEF Renderable
<1> DEFINE list   == p = "mailboxes" /\ c # None /\ ~s
           single == p = "mailboxes" /\ c # None /\ s
           rerun  == list /\ (fresh \/ ~ListUp)
           reload == single /\ (t # tok \/ ~DetailUp)
           kept   == IF rerun \/ ~list THEN Superseded(cs, list /\ ListUp) ELSE cs
           read   == IF reload \/ ~single
                     THEN Orphaned(kept, {k \in kept : k.kind = "detail"}) ELSE kept
           loads  == IF rerun THEN {Call("initial", t)} ELSE {}
           reads  == IF reload THEN {Call("detail", t)} ELSE {}
<1>a. /\ read \in SUBSET Calls
      /\ Waiting(read) => Waiting(cs)
      /\ ListCalls(read) => ListCalls(cs) /\ (rerun \/ ~list => list /\ ListUp)
      /\ reload \/ ~single => ~Has(read, "detail")
      /\ ~(reload \/ ~single) => (Has(cs, "detail") <=> Has(read, "detail"))
      /\ ~(rerun \/ ~list) => /\ Has(cs, "initial") => Has(read, "initial")
                              /\ HasLive(cs, "recovering") => HasLive(read, "recovering")
                              /\ HasLive(cs, "reading") => HasLive(read, "reading")
  <2> DEFINE gone == rerun \/ ~list
             same == list /\ ListUp
             anew == reload \/ ~single
  <2>1. gone \in BOOLEAN /\ same \in BOOLEAN /\ anew \in BOOLEAN
    OBVIOUS
  <2>2. read = Rendered(cs, gone, same, anew)
    BY DEF Rendered
  <2> HIDE DEF gone, same, anew, read
  <2>3. /\ read \in SUBSET Calls
        /\ Waiting(read) => Waiting(cs)
        /\ ListCalls(read) => ListCalls(cs) /\ (gone => same)
        /\ anew => ~Has(read, "detail")
        /\ ~anew => (Has(cs, "detail") <=> Has(read, "detail"))
        /\ ~gone => /\ Has(cs, "initial") => Has(read, "initial")
                    /\ HasLive(cs, "recovering") => HasLive(read, "recovering")
                    /\ HasLive(cs, "reading") => HasLive(read, "reading")
    BY <2>1, <2>2, RenderedCalls
  <2> QED
    BY <2>3 DEF gone, same, anew
<1>b. calls' = read \cup loads \cup reads
  BY DEF Render
<1>c. page' = p /\ selected' = s /\ cur' = c /\ tok' = t
  BY DEF Render
<1>d. ListUp' <=> list
  BY <1>c DEF ListUp
<1>e. DetailUp' <=> single
  BY <1>c DEF DetailUp
<1>f. /\ initial' = (list /\ (rerun \/ initial))
      /\ manual'  = (list /\ ListUp /\ manual)
      /\ stale'   = (list /\ ListUp /\ c = cur /\ stale)
  BY DEF Render
<1>g. /\ shown'   = IF list /\ ListUp THEN shown ELSE None
      /\ detail'  = IF reload THEN "loading" ELSE IF single THEN detail ELSE "none"
  BY DEF Render
<1>i. IF rerun THEN ConnectStream(c, t) ELSE IF ~list THEN StopChecking ELSE UNCHANGED streamVars
  BY DEF Render
<1>j. c # None => t \in Tokens
  OBVIOUS
<1>k. list => c # None
  OBVIOUS
<1>l. single => c # None
  OBVIOUS
<1>m. /\ rerun => Call("initial", t) \in Calls /\ Call("initial", t).kind = "initial"
                  /\ Call("initial", t).stage = "sent"
      /\ reload => Call("detail", t) \in Calls /\ Call("detail", t).kind = "detail"
                  /\ Call("detail", t).stage = "sent"
  BY <1>j, CallType DEF Kinds
<1>n. rerun => list
  OBVIOUS
<1>o. reload => single
  OBVIOUS
<1>p. ~(list /\ single)
  OBVIOUS
<1>q. list /\ ~rerun => ListUp /\ c = cur /\ t = tok
  OBVIOUS
<1>r. single /\ ~reload => DetailUp /\ t = tok
  OBVIOUS
<1> HIDE DEF list, single, rerun, reload, kept, read
<1>1. CallsTypeOK'
  <2>1. calls' \in SUBSET Calls
    BY <1>a, <1>b, <1>m
  <2> QED
    BY <2>1, <1>c DEF CallsTypeOK
<1>2. (initial \in BOOLEAN /\ manual \in BOOLEAN /\ stale \in BOOLEAN)'
  BY <1>f
<1>3. TypeOK'
  <2>1. (page \in {"closed", "mailboxes", "elsewhere"} /\ selected \in BOOLEAN)'
    BY <1>c
  <2>2. (shown \in Mailboxes \cup {None} /\ detail \in {"none", "loading", "shown", "failed"})'
    BY <1>g DEF ClientInv, TypeOK
  <2>3. (conn \in Connections /\ watched \in (Mailboxes \X Tokens) \cup {None})'
    BY <1>i, <1>j, <1>k, <1>n DEF ClientInv, TypeOK, ConnectStream, StopChecking, streamVars, Connections
  <2>4. (watchdog \in BOOLEAN /\ timer \in BOOLEAN)'
    BY <1>i DEF ClientInv, TypeOK, ConnectStream, StopChecking, streamVars
  <2> QED
    BY <1>1, <1>2, <2>1, <2>2, <2>3, <2>4 DEF TypeOK
<1>4. TokenIfMailbox'
  BY <1>c DEF TokenIfMailbox
<1>5. StreamNeedsList'
  <2>1. timer' => list
    BY <1>i, <1>n DEF StopChecking
  <2>2. ListCalls(calls') => list
    <3>1. ListCalls(read) => list
      BY <1>a
    <3>2. ListCalls(reads) => FALSE
      BY <1>m DEF ListCalls, FromInbox, FromStream
    <3> QED
      BY <1>b, <1>n, <3>1, <3>2 DEF ListCalls
  <2> QED
    BY <2>1, <2>2, <1>d DEF StreamNeedsList
<1>6. DetailNeedsMessage'
  <2>1. Has(calls', "detail") => single
    BY <1>a, <1>b, <1>m, <1>o DEF Has
  <2> QED
    BY <2>1, <1>e, <1>g, <1>o DEF DetailNeedsMessage
<1>7. StreamFollowsMailbox'
  BY <1>c, <1>d, <1>i, <1>n, <1>q
     DEF ClientInv, StreamFollowsMailbox, ConnectStream, StopChecking, streamVars
<1>8. NothingIsAbandoned'
  <2>0. NothingIsAbandoned /\ Keeps(calls, cs)
    BY DEF ClientInv
  <2>1. initial' => Has(calls', "initial")
    <3>1. CASE rerun
      BY <3>1, <1>b, <1>m DEF Has
    <3>2. CASE ~rerun
      BY <3>2, <2>0, <1>a, <1>b, <1>f DEF Has, NothingIsAbandoned, Keeps
    <3> QED
      BY <3>1, <3>2
  <2>2. detail' = "loading" => Has(calls', "detail")
    <3>1. CASE reload
      BY <3>1, <1>b, <1>m DEF Has
    <3>2. CASE ~reload
      BY <3>2, <2>0, <1>a, <1>b, <1>g DEF Has, NothingIsAbandoned, Keeps
    <3> QED
      BY <3>1, <3>2
  <2>3. (ListUp /\ conn = "none" => timer)'
    BY <2>0, <1>d, <1>i, <1>q DEF NothingIsAbandoned, ConnectStream, streamVars
  <2>4. /\ conn' = "broken" => HasLive(calls', "recovering")
        /\ conn' = "busy" => HasLive(calls', "reading")
    <3>1. CASE list /\ ~rerun
      BY <3>1, <2>0, <1>a, <1>b, <1>i DEF HasLive, NothingIsAbandoned, Keeps, streamVars
    <3>2. CASE ~(list /\ ~rerun)
      BY <3>2, <1>i DEF ConnectStream, StopChecking
    <3> QED
      BY <3>1, <3>2
  <2>5. Waiting(calls') => refreshing' # None
    BY <1>a, <1>b, <1>m DEF Waiting
  <2> QED
    BY <2>1, <2>2, <2>3, <2>4, <2>5 DEF NothingIsAbandoned, Has, HasLive, Waiting
<1> QED
  BY <1>3, <1>4, <1>5, <1>6, <1>7, <1>8 DEF ClientInv

----------------------------------------------------------------------------
(* Steps without a render of another view                                  *)

ViewUnchanged == UNCHANGED <<page, selected, cur, tok>>

\* The parts of the invariant, while view, mailbox and token stay.
LEMMA SameViewKeeps ==
  ASSUME ClientInv, ViewUnchanged,
         period' \in Nat, refreshing' \in Mailboxes \cup {None}, asked' \subseteq Mailboxes,
         calls' \in SUBSET Calls, Waiting(calls') => refreshing' # None,
         shown' \in Mailboxes \cup {None},
         initial' \in BOOLEAN, manual' \in BOOLEAN, stale' \in BOOLEAN,
         detail' \in {"none", "loading", "shown", "failed"},
         conn' \in Connections, watched' \in (Mailboxes \X Tokens) \cup {None},
         watchdog' \in BOOLEAN, timer' \in BOOLEAN,
         ListCalls(calls') => ListUp, timer' => ListUp,
         Has(calls', "detail") => DetailUp, detail' # "none" => DetailUp,
         initial' => Has(calls', "initial"),
         detail' = "loading" => Has(calls', "detail"),
         conn' # "none" => ListUp /\ watched' = <<cur, tok>>,
         ListUp /\ conn' = "none" => timer',
         conn' = "broken" => HasLive(calls', "recovering"),
         conn' = "busy" => HasLive(calls', "reading")
  PROVE  ClientInv'
<1>1. (ListUp' <=> ListUp) /\ (DetailUp' <=> DetailUp)
  BY DEF ViewUnchanged, ListUp, DetailUp
<1>2. CallsTypeOK'
  BY DEF ClientInv, TypeOK, ViewUnchanged, CallsTypeOK
<1>3. (page \in {"closed", "mailboxes", "elsewhere"} /\ selected \in BOOLEAN)'
  BY DEF ClientInv, TypeOK, ViewUnchanged
<1>4. TypeOK'
  BY <1>2, <1>3 DEF TypeOK
<1>5. (TokenIfMailbox /\ StreamNeedsList /\ DetailNeedsMessage /\ StreamFollowsMailbox)'
  BY <1>1 DEF ClientInv, ViewUnchanged, TokenIfMailbox, StreamNeedsList, DetailNeedsMessage,
     StreamFollowsMailbox
<1>6. NothingIsAbandoned'
  BY <1>1 DEF NothingIsAbandoned, Has, HasLive, Waiting
<1> QED
  BY <1>4, <1>5, <1>6 DEF ClientInv

\* What the invariant says of a state, for steps that leave the part alone.
LEMMA TypeFacts ==
  ASSUME ClientInv
  PROVE  /\ period \in Nat /\ refreshing \in Mailboxes \cup {None} /\ asked \subseteq Mailboxes
         /\ cur \in Mailboxes \cup {None} /\ tok \in Tokens \cup {None}
         /\ calls \in SUBSET Calls
         /\ shown \in Mailboxes \cup {None}
         /\ detail \in {"none", "loading", "shown", "failed"}
         /\ page \in {"closed", "mailboxes", "elsewhere"}
         /\ conn \in Connections /\ watched \in (Mailboxes \X Tokens) \cup {None}
BY DEF ClientInv, TypeOK, CallsTypeOK

LEMMA FlagFacts ==
  ASSUME ClientInv
  PROVE  /\ initial \in BOOLEAN /\ manual \in BOOLEAN /\ stale \in BOOLEAN
         /\ watchdog \in BOOLEAN /\ timer \in BOOLEAN /\ selected \in BOOLEAN
BY DEF ClientInv, TypeOK

LEMMA WaitFacts ==
  ASSUME ClientInv
  PROVE  /\ ListCalls(calls) => ListUp
         /\ timer => ListUp
         /\ Has(calls, "detail") => DetailUp
         /\ detail # "none" => DetailUp
         /\ initial => Has(calls, "initial")
         /\ detail = "loading" => Has(calls, "detail")
         /\ conn # "none" => ListUp /\ watched = <<cur, tok>>
         /\ ListUp /\ conn = "none" => timer
         /\ conn = "broken" => HasLive(calls, "recovering")
         /\ conn = "busy" => HasLive(calls, "reading")
         /\ Waiting(calls) => refreshing # None
         /\ ListUp \/ DetailUp => tok \in Tokens /\ cur \in Mailboxes
BY DEF ClientInv, TypeOK, CallsTypeOK, StreamNeedsList, DetailNeedsMessage, StreamFollowsMailbox,
   NothingIsAbandoned, TokenIfMailbox, Has, HasLive, Waiting, ListUp, DetailUp

\* Nothing but calls that somebody still waits for, tokens and periods.
LEMMA QuietKeeps ==
  ASSUME ClientInv, ViewUnchanged, UNCHANGED <<inboxVars, detail, streamVars>>,
         period' \in Nat, refreshing' \in Mailboxes \cup {None}, asked' \subseteq Mailboxes,
         calls' \in SUBSET Calls, Keeps(calls, calls'),
         Waiting(calls') => refreshing' # None
  PROVE  ClientInv'
<1>1. /\ shown' = shown /\ initial' = initial /\ manual' = manual /\ stale' = stale
      /\ detail' = detail /\ conn' = conn /\ watched' = watched
      /\ watchdog' = watchdog /\ timer' = timer
  BY DEF inboxVars, streamVars
<1>2. /\ Has(calls, "initial") => Has(calls', "initial")
      /\ Has(calls, "detail") <=> Has(calls', "detail")
      /\ HasLive(calls, "recovering") => HasLive(calls', "recovering")
      /\ HasLive(calls, "reading") => HasLive(calls', "reading")
      /\ ListCalls(calls') => ListCalls(calls)
  BY DEF Keeps
<1> QED
  BY <1>1, <1>2, TypeFacts, FlagFacts, WaitFacts, SameViewKeeps

\* What Settle leaves of the calls.
LEMMA SettledCalls ==
  ASSUME tok \in Tokens, NEW cs \in SUBSET Calls, NEW show, NEW load, NEW man, NEW key,
         {load, man, key} \subseteq BOOLEAN, load => Has(cs, "initial"),
         Settle(cs, show, load, man, key)
  PROVE  /\ calls' \in SUBSET Calls
         /\ Waiting(calls') => Waiting(cs)
         /\ shown' = show
         /\ initial' \in BOOLEAN /\ manual' \in BOOLEAN /\ stale' \in BOOLEAN
         /\ initial' => Has(calls', "initial")
         /\ Has(cs, "detail") <=> Has(calls', "detail")
         /\ HasLive(cs, "recovering") => HasLive(calls', "recovering")
         /\ HasLive(cs, "reading") => HasLive(calls', "reading")
<1> DEFINE inbox == {c \in cs : FromInbox(c)}
           os == Orphaned(cs, inbox)
           again == Call("manual", tok)
<1>1. /\ again \in Calls /\ again.kind = "manual" /\ again.stage = "sent"
  BY CallType DEF Kinds
<1>2. /\ os \in SUBSET Calls
      /\ \A c \in cs \ inbox : c \in os
      /\ \A d \in os : d \in cs \ inbox \/ d.kind = "orphan"
      /\ Waiting(os) => Waiting(cs)
  BY OrphanedKinds
<1>3. \A c \in cs : c.kind \in {"detail", "recovering", "reading"} => c \in cs \ inbox
  BY DEF FromInbox
<1>4. initial' = load /\ shown' = show
  BY DEF Settle
<1>5. manual' \in BOOLEAN /\ stale' \in BOOLEAN
  BY DEF Settle
<1>6. CASE key /\ ~load
  <2>1. calls' = os \cup {again}
    BY <1>6 DEF Settle
  <2> HIDE DEF os, inbox, again
  <2>2. calls' \in SUBSET Calls
    BY <2>1, <1>1, <1>2
  <2>3. Waiting(calls') => Waiting(cs)
    BY <2>1, <1>1, <1>2 DEF Waiting
  <2>4. Has(cs, "detail") <=> Has(calls', "detail")
    BY <2>1, <1>1, <1>2, <1>3 DEF Has
  <2>5. /\ HasLive(cs, "recovering") => HasLive(calls', "recovering")
        /\ HasLive(cs, "reading") => HasLive(calls', "reading")
    BY <2>1, <1>2, <1>3 DEF HasLive
  <2> QED
    BY <1>4, <1>5, <1>6, <2>2, <2>3, <2>4, <2>5
<1>7. CASE ~(key /\ ~load)
  <2>1. calls' = cs
    BY <1>7 DEF Settle
  <2> QED
    BY <1>4, <1>5, <2>1
<1> QED
  BY <1>6, <1>7

\* The inbox settles, and message and stream go on.
Settleable(cs, show, load, man, key) ==
  /\ cs \in SUBSET Calls /\ show \in Mailboxes \cup {None}
  /\ load \in BOOLEAN /\ man \in BOOLEAN /\ key \in BOOLEAN
  /\ load => Has(cs, "initial")
  /\ Has(cs, "detail") <=> Has(calls, "detail")
  /\ Waiting(cs) => Waiting(calls)

StreamCallsKept(cs) ==
  /\ HasLive(calls, "recovering") => HasLive(cs, "recovering")
  /\ HasLive(calls, "reading") => HasLive(cs, "reading")

LEMMA InboxKeeps ==
  ASSUME ClientInv, ViewUnchanged, ListUp,
         NEW cs, NEW show, NEW load, NEW man, NEW key,
         Settleable(cs, show, load, man, key), StreamCallsKept(cs),
         Settle(cs, show, load, man, key),
         UNCHANGED <<period, refreshing, asked, detail, streamVars>>
  PROVE  ClientInv'
<1> USE DEF Settleable, StreamCallsKept
<1>1. /\ detail' = detail /\ conn' = conn /\ watched' = watched
      /\ watchdog' = watchdog /\ timer' = timer
      /\ period' = period /\ refreshing' = refreshing /\ asked' = asked
  BY DEF streamVars
<1>2. tok \in Tokens
  BY WaitFacts
<1>3. /\ calls' \in SUBSET Calls
      /\ Waiting(calls') => Waiting(cs)
      /\ shown' = show
      /\ initial' \in BOOLEAN /\ manual' \in BOOLEAN /\ stale' \in BOOLEAN
      /\ initial' => Has(calls', "initial")
      /\ Has(cs, "detail") <=> Has(calls', "detail")
      /\ HasLive(cs, "recovering") => HasLive(calls', "recovering")
      /\ HasLive(cs, "reading") => HasLive(calls', "reading")
  BY <1>2, SettledCalls
<1> QED
  BY <1>1, <1>3, TypeFacts, FlagFacts, WaitFacts, SameViewKeeps

----------------------------------------------------------------------------
(* The actions                                                             *)

LEMMA InvInit == Init => ClientInv
<1> SUFFICES ASSUME Init PROVE ClientInv
  OBVIOUS
<1>1. TypeOK
  BY DEF Init, CallsInit, TypeOK, CallsTypeOK, Connections
<1>2. TokenIfMailbox /\ StreamNeedsList /\ DetailNeedsMessage
  BY DEF Init, CallsInit, TokenIfMailbox, StreamNeedsList, DetailNeedsMessage, ListCalls, Has
<1>3. StreamFollowsMailbox /\ NothingIsAbandoned
  BY DEF Init, CallsInit, StreamFollowsMailbox, NothingIsAbandoned, ListUp
<1> QED
  BY <1>1, <1>2, <1>3 DEF ClientInv

\* Calls nobody waits for come and go.
LEMMA UnwantedCalls ==
  ASSUME NEW cs \in SUBSET Calls, NEW c \in Calls, c.kind \in {"orphan", "delete"}
  PROVE  Keeps(cs, cs \ {c}) /\ Keeps(cs, cs \cup {c}) /\ Keeps(cs, cs)
BY DEF Keeps, Has, HasLive, ListCalls, FromInbox, FromStream

LEMMA OrphanedDeletes ==
  ASSUME NEW cs \in SUBSET Calls
  PROVE  LET os == Orphaned(cs, {c \in cs : c.kind = "delete"})
         IN os \in SUBSET Calls /\ Keeps(cs, os) /\ (Waiting(os) => Waiting(cs))
<1> DEFINE deletes == {c \in cs : c.kind = "delete"}
           os == Orphaned(cs, deletes)
<1>1. /\ os \in SUBSET Calls
      /\ \A c \in cs \ deletes : c \in os
      /\ \A d \in os : d \in cs \ deletes \/ d.kind = "orphan"
      /\ Waiting(os) => Waiting(cs)
  BY OrphanedKinds
<1>2. \A c \in cs : c.kind # "delete" => c \in os
  BY <1>1
<1>3. \A d \in os : d \in cs \/ d.kind = "orphan"
  BY <1>1
<1> HIDE DEF os, deletes
<1>4. Keeps(cs, os)
  BY <1>2, <1>3 DEF Keeps, Has, HasLive, ListCalls, FromInbox, FromStream
<1> QED
  BY <1>1, <1>4 DEF os, deletes

LEMMA SameCalls == ASSUME NEW cs \in SUBSET Calls PROVE Keeps(cs, cs)
BY DEF Keeps

\* ActivateMailbox and its failure, an expiry: nothing anybody waits for.
LEMMA AskingKeeps ==
  ASSUME ClientInv,
         \/ \E a \in Mailboxes : ActivateMailbox(a) \/ ActivationFails(a)
         \/ TimePasses /\ UNCHANGED <<page, selected, asked, inboxVars, detail, streamVars>>
  PROVE  ClientInv'
<1>1. ViewUnchanged /\ UNCHANGED <<inboxVars, detail, streamVars>> /\ calls' = calls /\ refreshing' = refreshing
  BY DEF ActivateMailbox, ActivationFails, TimePasses, ViewUnchanged, callVars
<1>2. period' \in Nat /\ asked' \subseteq Mailboxes
  BY TypeFacts DEF ActivateMailbox, ActivationFails, TimePasses, callVars
<1>3. Keeps(calls, calls)
  BY TypeFacts, SameCalls
<1> QED
  BY <1>1, <1>2, <1>3, TypeFacts, WaitFacts, QuietKeeps

LEMMA ActivatedKeeps ==
  ASSUME ClientInv, NEW a \in Mailboxes, MailboxActivated(a)
  PROVE  ClientInv'
<1>1. /\ Render(calls, page, FALSE, a, NewToken(a), TRUE)
      /\ period' = period /\ refreshing' = refreshing /\ asked' \subseteq Mailboxes
  BY TypeFacts DEF MailboxActivated
<1>2. NewToken(a) \in Tokens
  BY TypeFacts, NewTokenType
<1>3. a # None /\ NewToken(a) # None
  BY <1>2, MailCallsAssumption DEF Tokens
<1>4. Keeps(calls, calls)
  BY TypeFacts, SameCalls
<1>5. Renderable(calls, page, FALSE, a, NewToken(a), TRUE)
  BY <1>1, <1>2, <1>3, <1>4, TypeFacts, WaitFacts DEF Renderable
<1> QED
  BY <1>1, <1>5, RenderKeeps

\* The list of mailboxes, sign-in and sign-out, views and the selection.
LEMMA ViewsKeep ==
  ASSUME ClientInv,
         \/ \E list, next \in SUBSET Mailboxes, drop \in BOOLEAN : MailboxesSynced(list, next, drop)
         \/ SignOut \/ SessionLost \/ SignIn
         \/ \E p \in {"mailboxes", "elsewhere"} : SelectView(p)
         \/ SelectMessage \/ CloseMessage
  PROVE  ClientInv'
<1> DEFINE os == Orphaned(calls, {c \in calls : c.kind = "delete"})
<1>1. /\ os \in SUBSET Calls /\ Keeps(calls, os) /\ (Waiting(os) => Waiting(calls))
      /\ Keeps(calls, calls)
  BY TypeFacts, SameCalls, OrphanedDeletes
<1> HIDE DEF os
<1>2. TokenIfMailbox /\ selected \in BOOLEAN
  BY FlagFacts DEF ClientInv
<1>3. ASSUME NEW list \in SUBSET Mailboxes, NEW next \in SUBSET Mailboxes, NEW drop \in BOOLEAN,
             MailboxesSynced(list, next, drop)
      PROVE  ClientInv'
  <2> DEFINE c == IF cur \in list THEN cur ELSE None
             t == IF c = None THEN None ELSE tok
             s == selected /\ ~drop
             fresh == c # None
  <2>1. /\ Render(calls, page, s, c, t, fresh)
        /\ period' = period /\ refreshing' = refreshing /\ asked' \subseteq Mailboxes
    BY <1>3, TypeFacts DEF MailboxesSynced
  <2>2. s \in BOOLEAN /\ fresh \in BOOLEAN
    BY <1>2
  <2>3. /\ c \in Mailboxes \cup {None} /\ t \in Tokens \cup {None}
        /\ c = None <=> t = None
        /\ c # None /\ (c # cur \/ t # tok) => fresh
    BY <1>2, TypeFacts DEF TokenIfMailbox
  <2> HIDE DEF c, t, s, fresh
  <2>4. Renderable(calls, page, s, c, t, fresh)
    BY <2>1, <2>2, <2>3, <1>1, TypeFacts, WaitFacts DEF Renderable
  <2> QED
    BY <2>1, <2>4, RenderKeeps
<1>4. CASE SignOut
  <2>1. /\ Render(os, "closed", FALSE, None, None, TRUE)
        /\ period' = period /\ refreshing' = refreshing /\ asked' = asked
    BY <1>4 DEF SignOut, os
  <2>2. Renderable(os, "closed", FALSE, None, None, TRUE)
    BY <2>1, <1>1, TypeFacts, WaitFacts DEF Renderable
  <2> QED
    BY <2>1, <2>2, RenderKeeps
<1>5. CASE SessionLost
  <2>1. /\ Render(os, "closed", FALSE, cur, tok, FALSE)
        /\ period' = period /\ refreshing' = refreshing /\ asked' = asked
    BY <1>5 DEF SessionLost, os
  <2>2. Renderable(os, "closed", FALSE, cur, tok, FALSE)
    BY <2>1, <1>1, <1>2, TypeFacts, WaitFacts DEF Renderable, TokenIfMailbox
  <2> QED
    BY <2>1, <2>2, RenderKeeps
<1>6. ASSUME NEW p \in {"mailboxes", "elsewhere"}, NEW s, s \in BOOLEAN, NEW fresh,
             Render(calls, p, s, cur, tok, fresh), UNCHANGED <<period, refreshing, asked>>
      PROVE  ClientInv'
  <2>1. Renderable(calls, p, s, cur, tok, fresh)
    BY <1>1, <1>2, <1>6, TypeFacts, WaitFacts DEF Renderable, TokenIfMailbox
  <2> QED
    BY <1>6, <2>1, RenderKeeps
<1>7. CASE SignIn
  BY <1>6, <1>7 DEF SignIn
<1>8. ASSUME NEW p \in {"mailboxes", "elsewhere"}, SelectView(p) PROVE ClientInv'
  BY <1>2, <1>6, <1>8 DEF SelectView
<1>9. CASE SelectMessage \/ CloseMessage
  <2>1. page = "mailboxes" /\ UNCHANGED <<period, refreshing, asked>>
    BY <1>9 DEF SelectMessage, CloseMessage, ListUp, DetailUp
  <2>2. Render(calls, page, TRUE, cur, tok, FALSE) \/ Render(calls, page, FALSE, cur, tok, FALSE)
    BY <1>9 DEF SelectMessage, CloseMessage
  <2> QED
    BY <2>1, <2>2, <1>6
<1> QED
  BY <1>3, <1>4, <1>5, <1>7, <1>8, <1>9

LEMMA RefreshKeeps == ASSUME ClientInv, RefreshSteps PROVE ClientInv'
<1>1. CASE TokenRefreshed
  <2> DEFINE t == NewToken(refreshing)
             rs == Resumed(calls, t)
  <2>1. refreshing \in Mailboxes /\ refreshing' = None /\ period' = period /\ asked' = asked
    BY <1>1, TypeFacts DEF TokenRefreshed
  <2>2. t \in Tokens
    BY <2>1, TypeFacts, NewTokenType
  <2>3. rs \in SUBSET Calls /\ ~Waiting(rs) /\ Keeps(calls, rs)
    BY <2>2, TypeFacts, ResumedKinds
  <2>4. CASE cur = None
    <3>1. calls' = rs /\ ViewUnchanged /\ UNCHANGED <<inboxVars, detail, streamVars>>
      BY <1>1, <2>4 DEF TokenRefreshed, ViewUnchanged
    <3> HIDE DEF t, rs
    <3> QED
      BY <3>1, <2>1, <2>3, TypeFacts, QuietKeeps
  <2>5. CASE cur # None
    <3>1. Render(rs, page, selected, cur, t, TRUE)
      BY <1>1, <2>5 DEF TokenRefreshed
    <3> HIDE DEF t, rs
    <3>2. t # None /\ selected \in BOOLEAN
      BY <2>2, MailCallsAssumption, FlagFacts DEF Tokens
    <3>3. Renderable(rs, page, selected, cur, t, TRUE)
      BY <3>2, <2>1, <2>2, <2>3, <2>5, TypeFacts DEF Renderable
    <3> QED
      BY <3>1, <3>3, RenderKeeps
  <2> QED
    BY <2>4, <2>5
<1>2. CASE RefreshFails /\ UNCHANGED <<page, selected, asked, inboxVars, detail, streamVars>>
  <2> DEFINE denied(c) == IF c.stage = "waiting" THEN [c EXCEPT !.stage = "denied"] ELSE c
  <2>1. /\ calls' = {denied(c) : c \in calls}
        /\ ViewUnchanged /\ UNCHANGED <<inboxVars, detail, streamVars>>
        /\ period' = period /\ refreshing' = None /\ asked' = asked
    BY <1>2 DEF RefreshFails, ViewUnchanged
  <2>2. ASSUME NEW c \in Calls
        PROVE  denied(c) \in Calls /\ denied(c).stage # "waiting" /\ denied(c).kind = c.kind
    BY DEF Calls
  <2>3. ASSUME NEW c \in Calls PROVE denied(c).live = c.live
    BY DEF Calls
  <2> HIDE DEF denied
  <2>4. calls' \in SUBSET Calls /\ ~Waiting(calls')
    BY <2>1, <2>2, TypeFacts DEF Waiting
  <2>5. Keeps(calls, calls')
    <3>1. \A c \in calls : \E d \in calls' : SameMaker(c, d)
      BY <2>1, <2>2, <2>3, TypeFacts DEF SameMaker
    <3>2. \A d \in calls' : \E c \in calls : SameMaker(c, d)
      BY <2>1, <2>2, <2>3, TypeFacts DEF SameMaker
    <3> QED
      BY <3>1, <3>2, <2>4, TypeFacts, RemadeKinds
  <2> QED
    BY <2>1, <2>4, <2>5, TypeFacts, QuietKeeps
<1> QED
  BY <1>1, <1>2 DEF RefreshSteps

\* The refresh button, the guard of the first load, and the inbox's answers.
LEMMA InboxStepsKeep ==
  ASSUME ClientInv,
         \/ ManualRefresh \/ InitialLoadGuard
         \/ \E c \in calls, ok \in BOOLEAN : InboxFetched(c, ok)
  PROVE  ClientInv'
<1>0. calls \in SUBSET Calls /\ StreamCallsKept(calls)
  BY TypeFacts DEF StreamCallsKept
<1>1. CASE ManualRefresh
  <2>1. /\ Settle(calls, shown, FALSE, FALSE, TRUE) /\ ListUp /\ ViewUnchanged
        /\ UNCHANGED <<period, refreshing, asked, detail, streamVars>>
    BY <1>1 DEF ManualRefresh, ViewUnchanged
  <2>2. Settleable(calls, shown, FALSE, FALSE, TRUE)
    BY TypeFacts DEF Settleable
  <2> QED
    BY <1>0, <2>1, <2>2, InboxKeeps
<1>2. CASE InitialLoadGuard
  <2>1. /\ Settle(calls, shown, FALSE, manual, stale) /\ ViewUnchanged
        /\ UNCHANGED <<period, refreshing, asked, detail, streamVars>>
    BY <1>2 DEF InitialLoadGuard, ViewUnchanged
  <2>2. Settleable(calls, shown, FALSE, manual, stale)
    BY TypeFacts, FlagFacts DEF Settleable
  <2>3. ListUp
    BY <1>2, WaitFacts DEF InitialLoadGuard, ListCalls, FromInbox
  <2> QED
    BY <1>0, <2>1, <2>2, <2>3, InboxKeeps
<1>3. ASSUME NEW c \in calls, NEW ok \in BOOLEAN, InboxFetched(c, ok) PROVE ClientInv'
  <2> DEFINE cs   == calls \ {c}
             show == IF ok THEN c.token.of ELSE IF c.kind = "initial" THEN None ELSE shown
             load == initial /\ c.kind # "initial"
             man  == manual /\ c.kind # "manual"
  <2>1. /\ Settle(cs, show, load, man, stale) /\ ViewUnchanged /\ FromInbox(c)
        /\ UNCHANGED <<period, refreshing, asked, detail, streamVars>>
    BY <1>3 DEF InboxFetched, ViewUnchanged
  <2>2. ListUp
    BY <2>1, WaitFacts DEF ListCalls
  <2>3. show \in Mailboxes \cup {None}
    BY TypeFacts DEF Calls, Tokens
  <2>4. load \in BOOLEAN /\ man \in BOOLEAN /\ stale \in BOOLEAN
    BY FlagFacts
  <2>5. cs \in SUBSET Calls /\ (load => Has(cs, "initial"))
    BY <1>0, WaitFacts DEF Has
  <2>6. (Has(cs, "detail") <=> Has(calls, "detail")) /\ StreamCallsKept(cs)
    BY <2>1 DEF Has, HasLive, FromInbox, StreamCallsKept
  <2>7. Waiting(cs) => Waiting(calls)
    BY DEF Waiting
  <2> HIDE DEF cs, show, load, man
  <2>8. Settleable(cs, show, load, man, stale)
    BY <2>3, <2>4, <2>5, <2>6, <2>7 DEF Settleable
  <2> QED
    BY <2>1, <2>2, <2>6, <2>8, InboxKeeps
<1> QED
  BY <1>1, <1>2, <1>3

\* The stream opens, beats, goes silent or is cut off.
LEMMA StreamQuietKeeps ==
  ASSUME ClientInv, StreamOpens \/ Heartbeat \/ StreamStalls \/ WatchdogFires
  PROVE  ClientInv'
<1> USE DEF StreamOpens, Heartbeat, StreamStalls, WatchdogFires
<1>1. /\ ViewUnchanged /\ UNCHANGED <<period, refreshing, asked, calls, shown, initial, manual, stale, detail>>
      /\ watched' = watched
  BY DEF ViewUnchanged, callVars, inboxVars
<1>2. conn # "none" /\ conn' \in {"open", "stalled", "late", "cut"} /\ conn' \in Connections
  BY DEF Connections, Handles
<1>3. watchdog' \in BOOLEAN /\ timer' = timer
  BY FlagFacts
<1> QED
  BY <1>1, <1>2, <1>3, TypeFacts, FlagFacts, WaitFacts, SameViewKeeps

\* A call that the stream has just made.
LEMMA StreamCall ==
  ASSUME ClientInv, ListUp, NEW k \in {"reading", "recovering"},
         calls' = calls \cup {Call(k, tok)}
  PROVE  /\ calls' \in SUBSET Calls
         /\ Waiting(calls') => Waiting(calls)
         /\ HasLive(calls', k)
         /\ Has(calls, "initial") => Has(calls', "initial")
         /\ Has(calls, "detail") <=> Has(calls', "detail")
<1>1. /\ Call(k, tok) \in Calls /\ Call(k, tok).kind = k /\ Call(k, tok).stage = "sent"
      /\ Call(k, tok).live = (k # "orphan")
  BY WaitFacts, CallType DEF Kinds
<1>2. Call(k, tok).live
  BY <1>1
<1> QED
  BY <1>1, <1>2, TypeFacts DEF Has, HasLive, Waiting

LEMMA StreamBreaksKeep ==
  ASSUME ClientInv, MessageEvent \/ StreamFails
  PROVE  ClientInv'
<1>1. /\ ViewUnchanged /\ UNCHANGED <<period, refreshing, asked, shown, initial, manual, stale, detail>>
      /\ watched' = watched /\ conn # "none"
  BY DEF MessageEvent, Handles, StreamFails, ViewUnchanged, inboxVars
<1>2. ListUp
  BY <1>1, WaitFacts
<1>3. watchdog' \in BOOLEAN
  BY DEF MessageEvent, StreamFails
<1>4. CASE MessageEvent
  <2>1. timer' = timer
    BY <1>4 DEF MessageEvent
  <2>2. CASE Checking(calls)
    BY <1>1, <1>2, <1>3, <1>4, <2>1, <2>2, TypeFacts, FlagFacts, WaitFacts, SameViewKeeps DEF MessageEvent
  <2>3. CASE ~Checking(calls)
    <3>1. conn' \in {"busy", "late"} /\ calls' = calls \cup {Call("reading", tok)}
      BY <1>4, <2>3 DEF MessageEvent
    <3>2. conn' \in Connections
      BY <3>1 DEF Connections
    <3> QED
      BY <1>1, <1>2, <1>3, <2>1, <3>1, <3>2, StreamCall, TypeFacts, FlagFacts, WaitFacts, SameViewKeeps
  <2> QED
    BY <2>2, <2>3
<1>5. CASE StreamFails
  <2>1. CASE Checking(calls)
    <3>1. conn' = "none" /\ timer' = TRUE /\ calls' = calls
      BY <1>5, <2>1 DEF StreamFails, ScheduleReconnect
    <3>2. conn' \in Connections
      BY <3>1 DEF Connections
    <3> QED
      BY <1>1, <1>2, <1>3, <3>1, <3>2, TypeFacts, FlagFacts, WaitFacts, SameViewKeeps
  <2>2. CASE ~Checking(calls)
    <3>1. conn' = "broken" /\ timer' = timer /\ calls' = calls \cup {Call("recovering", tok)}
      BY <1>5, <2>2 DEF StreamFails
    <3>2. conn' \in Connections
      BY <3>1 DEF Connections
    <3> QED
      BY <1>1, <1>2, <1>3, <3>1, <3>2, StreamCall, TypeFacts, FlagFacts, WaitFacts, SameViewKeeps
  <2> QED
    BY <2>1, <2>2
<1> QED
  BY <1>4, <1>5

LEMMA ReconnectKeeps == ASSUME ClientInv, Reconnect PROVE ClientInv'
<1> DEFINE stal(c) == [c EXCEPT !.live = FALSE]
<1>1. /\ ViewUnchanged /\ UNCHANGED <<period, refreshing, asked, shown, initial, manual, stale, detail>>
      /\ conn' = "connecting" /\ watched' = <<cur, tok>> /\ watchdog' = FALSE /\ timer' = FALSE
      /\ calls' = {IF FromStream(c) THEN stal(c) ELSE c : c \in calls}
      /\ ListUp
  BY WaitFacts DEF Reconnect, ConnectStream, ViewUnchanged, inboxVars
<1>2. \A c \in calls : stal(c) \in Calls /\ stal(c).kind = c.kind /\ stal(c).stage = c.stage
  BY TypeFacts, StaleType
<1> HIDE DEF stal
<1>3. calls' \in SUBSET Calls /\ (Waiting(calls') => Waiting(calls))
  BY <1>1, <1>2, TypeFacts DEF Waiting
<1>4. /\ Has(calls, "initial") => Has(calls', "initial")
      /\ Has(calls, "detail") <=> Has(calls', "detail")
  BY <1>1, <1>2 DEF Has
<1>5. conn' \in Connections /\ watched' \in (Mailboxes \X Tokens) \cup {None}
  BY <1>1, WaitFacts DEF Connections
<1> QED
  BY <1>1, <1>3, <1>4, <1>5, TypeFacts, FlagFacts, WaitFacts, SameViewKeeps

\* A refresh for the stream returns, to a connection that is still the newest
\* or to one that is not.
LEMMA MessagesRefreshedKeeps ==
  ASSUME ClientInv, NEW c \in calls, NEW ok \in BOOLEAN, NEW more \in BOOLEAN,
         MessagesRefreshed(c, ok, more)
  PROVE  ClientInv'
<1> DEFINE again == AskedAgain(c)
           cs == (calls \ {c}) \cup (IF more THEN {again} ELSE {})
<1>1. /\ ViewUnchanged /\ UNCHANGED <<period, refreshing, asked, detail, watched>> /\ FromStream(c)
  BY DEF MessagesRefreshed, ViewUnchanged
<1>2. ListUp /\ tok \in Tokens
  BY <1>1, WaitFacts DEF ListCalls
<1>0. /\ again \in Calls /\ again.kind = "reading" /\ again.stage = "sent"
      /\ more => c.kind = "reading" /\ ~c.live
  BY TypeFacts, AskedAgainType DEF MessagesRefreshed
<1> HIDE DEF again
<1>3. c.token.of \in Mailboxes /\ cs \in SUBSET Calls
  BY <1>0, TypeFacts DEF Calls, Tokens
<1>4. /\ Has(calls, "detail") <=> Has(cs, "detail")
      /\ Has(calls, "initial") => Has(cs, "initial")
      /\ Waiting(cs) => Waiting(calls)
  BY <1>0, <1>1 DEF Has, Waiting, FromStream
<1>5. /\ c.kind # "recovering" => (HasLive(calls, "recovering") => HasLive(cs, "recovering"))
      /\ c.kind # "reading" => (HasLive(calls, "reading") => HasLive(cs, "reading"))
      /\ ~c.live => (HasLive(calls, "recovering") => HasLive(cs, "recovering"))
      /\ ~c.live => (HasLive(calls, "reading") => HasLive(cs, "reading"))
  BY DEF HasLive
<1>6. \/ Settle(cs, c.token.of, FALSE, FALSE, stale)
      \/ Settle(cs, shown, initial, manual, stale)
  BY DEF MessagesRefreshed, again
<1> HIDE DEF cs
<1> DEFINE settled ==
             /\ calls' \in SUBSET Calls
             /\ Waiting(calls') => Waiting(cs)
             /\ shown' \in Mailboxes \cup {None}
             /\ initial' \in BOOLEAN /\ manual' \in BOOLEAN /\ stale' \in BOOLEAN
             /\ initial' => Has(calls', "initial")
             /\ Has(cs, "detail") <=> Has(calls', "detail")
             /\ HasLive(cs, "recovering") => HasLive(calls', "recovering")
             /\ HasLive(cs, "reading") => HasLive(calls', "reading")
<1>7. settled
  <2>1. initial \in BOOLEAN /\ manual \in BOOLEAN /\ stale \in BOOLEAN
    BY FlagFacts
  <2>2. shown \in Mailboxes \cup {None} /\ (initial => Has(cs, "initial"))
    BY <1>4, TypeFacts, WaitFacts
  <2>3. ASSUME NEW load, NEW man, {load, man, stale} \subseteq BOOLEAN, ~load,
               Settle(cs, c.token.of, load, man, stale)
        PROVE  settled
    BY <1>2, <1>3, <2>3, SettledCalls
  <2>5. {FALSE, FALSE, stale} \subseteq BOOLEAN
    BY <2>1
  <2>4. CASE Settle(cs, shown, initial, manual, stale)
    BY <1>2, <1>3, <2>1, <2>2, <2>4, SettledCalls
  <2> HIDE DEF settled
  <2> QED
    BY <1>6, <2>3, <2>4, <2>5, Zenon
<1>8. CASE c.kind = "recovering"
  <2>1. timer' = TRUE /\ conn' = (IF c.live THEN "none" ELSE conn) /\ watchdog' = watchdog
    BY <1>8 DEF MessagesRefreshed, ScheduleReconnect
  <2>2. conn' \in Connections
    BY <2>1, TypeFacts DEF Connections
  <2>3. /\ conn' = "broken" => HasLive(calls', "recovering")
        /\ conn' = "busy" => HasLive(calls', "reading")
        /\ conn' # "none" => conn # "none"
    BY <1>5, <1>7, <1>8, <2>1, WaitFacts
  <2> QED
    BY <1>1, <1>2, <1>4, <1>7, <2>1, <2>2, <2>3, TypeFacts, FlagFacts, WaitFacts, SameViewKeeps
<1>9. CASE c.kind = "reading" /\ c.live
  <2>1. conn' = (IF conn = "busy" THEN "open" ELSE conn) /\ timer' = timer /\ watchdog' = watchdog
    BY <1>9 DEF MessagesRefreshed
  <2>2. conn' \in Connections
    BY <2>1, TypeFacts DEF Connections
  <2>3. /\ conn' = "broken" => HasLive(calls', "recovering")
        /\ conn' # "busy"
        /\ conn' # "none" <=> conn # "none"
    BY <1>5, <1>7, <1>9, <2>1, WaitFacts
  <2> QED
    BY <1>1, <1>2, <1>4, <1>7, <2>1, <2>2, <2>3, TypeFacts, FlagFacts, WaitFacts, SameViewKeeps
<1>10. CASE c.kind = "reading" /\ ~c.live
  <2>1. conn' = conn /\ timer' = timer /\ watchdog' = more
    BY <1>10 DEF MessagesRefreshed
  <2>2. /\ conn' = "broken" => HasLive(calls', "recovering")
        /\ conn' = "busy" => HasLive(calls', "reading")
    BY <1>5, <1>7, <1>10, <2>1, WaitFacts
  <2> QED
    BY <1>1, <1>2, <1>4, <1>7, <2>1, <2>2, TypeFacts, FlagFacts, WaitFacts, SameViewKeeps
<1> QED
  BY <1>1, <1>8, <1>9, <1>10 DEF FromStream

LEMMA DetailFetchedKeeps ==
  ASSUME ClientInv, NEW c \in calls, NEW ok \in BOOLEAN, NEW seen \in BOOLEAN,
         DetailFetched(c, ok, seen)
  PROVE  ClientInv'
<1> DEFINE mark == Call("orphan", tok)
<1>1. /\ ViewUnchanged /\ c.kind = "detail"
      /\ UNCHANGED <<period, refreshing, asked, shown, initial, manual, stale>>
      /\ UNCHANGED <<conn, watched, watchdog, timer>>
      /\ detail' \in {"shown", "failed"}
      /\ calls' = calls \ {c} \/ calls' = (calls \ {c}) \cup {mark}
  BY DEF DetailFetched, MarkAsRead, ViewUnchanged, inboxVars, streamVars
<1>2. DetailUp
  BY <1>1, WaitFacts DEF Has
<1>3. mark \in Calls /\ mark.kind = "orphan" /\ mark.stage = "sent"
  BY <1>2, WaitFacts, CallType DEF Kinds
<1> HIDE DEF mark
<1>4. calls' \in SUBSET Calls /\ (Waiting(calls') => Waiting(calls))
  BY <1>1, <1>3, TypeFacts DEF Waiting
<1>5. /\ Has(calls, "initial") => Has(calls', "initial")
      /\ HasLive(calls, "recovering") => HasLive(calls', "recovering")
      /\ HasLive(calls, "reading") => HasLive(calls', "reading")
  BY <1>1 DEF Has, HasLive
<1>6. ListCalls(calls') => ListCalls(calls)
  BY <1>1, <1>3 DEF ListCalls, FromInbox, FromStream
<1> QED
  BY <1>1, <1>2, <1>4, <1>5, <1>6, TypeFacts, FlagFacts, WaitFacts, SameViewKeeps

LEMMA DeleteKeeps == ASSUME ClientInv, DeleteMessage PROVE ClientInv'
<1>1. /\ ViewUnchanged /\ UNCHANGED <<inboxVars, detail, streamVars>>
      /\ UNCHANGED <<period, refreshing, asked>>
      /\ detail = "shown" /\ calls' = calls \cup {Call("delete", tok)}
  BY DEF DeleteMessage, ViewUnchanged
<1>2. /\ Call("delete", tok) \in Calls /\ Call("delete", tok).kind = "delete"
      /\ Call("delete", tok).stage = "sent"
  BY <1>1, WaitFacts, CallType DEF Kinds
<1>3. calls' \in SUBSET Calls /\ Keeps(calls, calls')
  BY <1>1, <1>2, TypeFacts, UnwantedCalls
<1>4. Waiting(calls') => Waiting(calls)
  BY <1>1, <1>2 DEF Waiting
<1> QED
  BY <1>1, <1>3, <1>4, TypeFacts, WaitFacts, QuietKeeps

LEMMA DownloadKeeps == ASSUME ClientInv, Download PROVE ClientInv'
<1>1. /\ ViewUnchanged /\ UNCHANGED <<inboxVars, detail, streamVars>>
      /\ UNCHANGED <<period, refreshing, asked>>
      /\ detail = "shown" /\ calls' = calls \cup {DownloadCall(tok)}
  BY DEF Download, ViewUnchanged
<1>2. /\ DownloadCall(tok) \in Calls /\ DownloadCall(tok).kind = "orphan"
      /\ DownloadCall(tok).stage = "sent"
  BY <1>1, WaitFacts, DownloadType
<1>3. calls' \in SUBSET Calls /\ Keeps(calls, calls')
  BY <1>1, <1>2, TypeFacts, UnwantedCalls
<1>4. Waiting(calls') => Waiting(calls)
  BY <1>1, <1>2 DEF Waiting
<1> QED
  BY <1>1, <1>3, <1>4, TypeFacts, WaitFacts, QuietKeeps

\* A deletion is answered, or a call nobody waits for is.
LEMMA DeletedKeeps ==
  ASSUME ClientInv, NEW c \in calls, NEW ok \in BOOLEAN, MessageDeleted(c, ok) \/ NobodyWaits(c)
  PROVE  ClientInv'
<1> DEFINE cs == calls \ {c}
<1>1. c.kind \in {"delete", "orphan"} /\ UNCHANGED <<period, refreshing, asked>>
  BY DEF MessageDeleted, NobodyWaits
<1>2. cs \in SUBSET Calls /\ Keeps(calls, cs) /\ (Waiting(cs) => Waiting(calls))
  BY <1>1, TypeFacts, UnwantedCalls DEF Waiting
<1> HIDE DEF cs
<1>3. CASE Render(cs, page, FALSE, cur, tok, FALSE)
  <2>1. Renderable(cs, page, FALSE, cur, tok, FALSE)
    BY <1>1, <1>2, TypeFacts, WaitFacts DEF Renderable, ClientInv, TokenIfMailbox
  <2> QED
    BY <1>3, <2>1, RenderKeeps
<1>4. CASE /\ ListUp /\ Settle(cs, shown, initial, manual, TRUE)
           /\ UNCHANGED <<cur, tok, page, selected, detail, streamVars>>
  <2>1. initial \in BOOLEAN /\ manual \in BOOLEAN /\ TRUE \in BOOLEAN
    BY FlagFacts
  <2>2. Settleable(cs, shown, initial, manual, TRUE) /\ StreamCallsKept(cs)
    BY <1>2, <2>1, TypeFacts, WaitFacts DEF Settleable, StreamCallsKept, Keeps
  <2>3. ViewUnchanged
    BY <1>4 DEF ViewUnchanged
  <2> QED
    BY <1>1, <1>4, <2>2, <2>3, InboxKeeps
<1>5. CASE calls' = cs /\ UNCHANGED <<cur, tok, page, selected, inboxVars, detail, streamVars>>
  BY <1>1, <1>2, <1>5, TypeFacts, WaitFacts, QuietKeeps DEF ViewUnchanged
<1>6. CASE /\ calls' = cs /\ detail = "shown" /\ detail' = "failed"
           /\ UNCHANGED <<cur, tok, page, selected, inboxVars, streamVars>>
  <2>1. /\ ViewUnchanged /\ shown' = shown /\ initial' = initial /\ manual' = manual
        /\ stale' = stale /\ conn' = conn /\ watched' = watched /\ watchdog' = watchdog
        /\ timer' = timer
    BY <1>6 DEF ViewUnchanged, inboxVars, streamVars
  <2>2. /\ Has(calls, "initial") => Has(calls', "initial")
        /\ Has(calls, "detail") <=> Has(calls', "detail")
        /\ HasLive(calls, "recovering") => HasLive(calls', "recovering")
        /\ HasLive(calls, "reading") => HasLive(calls', "reading")
        /\ ListCalls(calls') => ListCalls(calls)
    BY <1>2, <1>6 DEF Keeps
  <2> QED
    BY <1>1, <1>2, <1>6, <2>1, <2>2, TypeFacts, FlagFacts, WaitFacts, SameViewKeeps
<1> QED
  BY <1>3, <1>4, <1>5, <1>6 DEF MessageDeleted, NobodyWaits, cs

\* A call goes on with another token, another attempt or another stage.
LEMMA CallGoesOnKeeps ==
  ASSUME ClientInv, NEW c \in calls,
         WaitsForToken(c) \/ Denied(c) \/ FallsBack(c) \/ Retried(c),
         UNCHANGED <<page, selected, asked, inboxVars, detail, streamVars>>
  PROVE  ClientInv'
<1>1. ViewUnchanged /\ period' = period
  BY DEF WaitsForToken, Denied, FallsBack, Retried, ViewUnchanged
<1>2. c \in Calls
  BY TypeFacts
<1>3. ASSUME NEW d \in Calls, SameMaker(c, d), calls' = Replaced(c, d),
             refreshing' \in Mailboxes \cup {None},
             Waiting(calls) \/ d.stage = "waiting" => refreshing' # None
      PROVE  ClientInv'
  BY <1>1, <1>3, TypeFacts, ReplacedKinds, QuietKeeps
<1>4. CASE WaitsForToken(c)
  <2> DEFINE d == [c EXCEPT !.stage = "waiting"]
  <2>1. d \in Calls /\ d.kind = c.kind
    BY <1>2 DEF Calls
  <2>2. d.live = c.live
    BY <1>2 DEF Calls
  <2>3. calls' = Replaced(c, d) /\ refreshing' \in Mailboxes /\ refreshing' # None
    BY <1>4, TypeFacts DEF WaitsForToken
  <2> HIDE DEF d
  <2> QED
    BY <1>3, <2>1, <2>2, <2>3 DEF SameMaker
<1>5. CASE Denied(c)
  <2> DEFINE d == [c EXCEPT !.stage = "denied"]
  <2>1. d \in Calls /\ d.kind = c.kind /\ d.stage = "denied"
    BY <1>2 DEF Calls
  <2>2. d.live = c.live
    BY <1>2 DEF Calls
  <2>3. calls' = Replaced(c, d) /\ refreshing' = refreshing
    BY <1>5 DEF Denied
  <2> HIDE DEF d
  <2> QED
    BY <1>3, <2>1, <2>2, <2>3, TypeFacts, WaitFacts DEF SameMaker
<1>6. CASE FallsBack(c)
  <2> DEFINE e == SentAgain(c, tok)
             d == [e EXCEPT !.first = tok, !.sent = 3]
  <2>1. tok \in Tokens
    BY <1>6, TypeFacts DEF FallsBack, OtherToken, ClientInv, TokenIfMailbox
  <2>2. e \in Calls /\ SameMaker(c, e) /\ e.stage = "sent"
    BY <1>2, <2>1, SentAgainType
  <2>3. calls' = Replaced(c, d) /\ refreshing' = refreshing
    BY <1>6 DEF FallsBack
  <2> HIDE DEF e
  <2>4. d \in Calls /\ d.kind = e.kind /\ d.stage = "sent"
    BY <2>1, <2>2 DEF Calls
  <2>5. d.live = e.live
    BY <2>2 DEF Calls
  <2> HIDE DEF d
  <2> QED
    BY <1>3, <2>2, <2>3, <2>4, <2>5, TypeFacts, WaitFacts DEF SameMaker
<1>7. CASE Retried(c)
  <2> DEFINE d == [c EXCEPT !.token = c.first, !.sent = 1, !.left = c.left - 1]
  <2>1. c.left - 1 \in Nat /\ c.stage = "sent"
    BY <1>2, <1>7 DEF Calls, Retried, Answered
  <2>2. d \in Calls /\ d.kind = c.kind /\ d.stage = "sent"
    BY <1>2, <2>1 DEF Calls
  <2>3. d.live = c.live
    BY <1>2 DEF Calls
  <2>4. calls' = Replaced(c, d) /\ refreshing' = refreshing
    BY <1>7 DEF Retried
  <2> HIDE DEF d
  <2> QED
    BY <1>3, <2>2, <2>3, <2>4, TypeFacts, WaitFacts DEF SameMaker
<1> QED
  BY <1>4, <1>5, <1>6, <1>7

----------------------------------------------------------------------------
(* Theorems                                                                *)

LEMMA InvStep == ClientInv /\ [Next]_vars => ClientInv'
<1> SUFFICES ASSUME ClientInv, [Next]_vars PROVE ClientInv'
  OBVIOUS
<1>1. CASE UserSteps
  BY <1>1, AskingKeeps, ViewsKeep, InboxStepsKeep, DeleteKeeps, DownloadKeeps DEF UserSteps
<1>2. ASSUME NEW a \in Mailboxes, MailboxActivated(a) \/ ActivationFails(a) PROVE ClientInv'
  BY <1>2, ActivatedKeeps, AskingKeeps
<1>3. ASSUME NEW c \in calls, CallStep(c) PROVE ClientInv'
  <2>1. ASSUME NEW ok \in BOOLEAN, Return(c, ok) PROVE ClientInv'
    BY <2>1, InboxStepsKeep, MessagesRefreshedKeeps, DetailFetchedKeeps, DeletedKeeps DEF Return
  <2> QED
    BY <1>3, <2>1, CallGoesOnKeeps DEF CallStep
<1>4. CASE RefreshSteps
  BY <1>4, RefreshKeeps
<1>5. CASE StreamSteps
  BY <1>5, StreamQuietKeeps, StreamBreaksKeep, ReconnectKeeps DEF StreamSteps
<1>6. CASE InitialLoadGuard
  BY <1>6, InboxStepsKeep
<1>7. CASE TimePasses /\ UNCHANGED <<page, selected, asked, inboxVars, detail, streamVars>>
  BY <1>7, AskingKeeps
<1>8. CASE UNCHANGED vars
  <2>1. ViewUnchanged /\ UNCHANGED <<inboxVars, detail, streamVars>> /\ calls' = calls
        /\ refreshing' = refreshing /\ period' = period /\ asked' = asked
    BY <1>8 DEF vars, callVars, ViewUnchanged
  <2> QED
    BY <2>1, TypeFacts, WaitFacts, SameCalls, QuietKeeps
<1> QED
  BY <1>1, <1>2, <1>3, <1>4, <1>5, <1>6, <1>7, <1>8 DEF Next

LEMMA Invariant == Spec => []ClientInv
BY InvInit, InvStep, PTL DEF Spec

\* The mailbox client's variables hold what they are declared to, whatever
\* calls, refreshes and renders meet.
THEOREM ClientTypes == Spec => []TypeOK
<1>1. ClientInv => TypeOK
  BY DEF ClientInv
<1> QED
  BY <1>1, Invariant, PTL

\* The event stream is the current mailbox's, opened with its current token,
\* for any number of mailboxes, connections and calls.
THEOREM StreamFollows == Spec => []StreamFollowsMailbox
<1>1. ClientInv => StreamFollowsMailbox
  BY DEF ClientInv
<1> QED
  BY <1>1, Invariant, PTL

\* What is shown as under way is: loads have a request, a broken connection its
\* recovery or its timer, and no call waits for a refresh that is over.
THEOREM NothingAbandoned == Spec => []NothingIsAbandoned
<1>1. ClientInv => NothingIsAbandoned
  BY DEF ClientInv
<1> QED
  BY <1>1, Invariant, PTL

----------------------------------------------------------------------------
(* The answers the page waits for                                          *)

AnswersInv == OneAnswerEach(calls) /\ AskedWith(calls, tok)

\* Calls changed one by one, and given to nobody at most.
LEMMA ImageOfOneEach ==
  ASSUME NEW cs \in SUBSET Calls, NEW f \in [Calls -> Calls], OneAnswerEach(cs),
         \A c \in cs : f[c].kind \in {c.kind, "orphan"}
  PROVE  OneAnswerEach({f[c] : c \in cs})
<1> DEFINE ds == {f[c] : c \in cs}
<1>1. \A d \in ds : \E c \in cs : d = f[c] /\ d.kind \in {c.kind, "orphan"}
  OBVIOUS
<1> HIDE DEF ds
<1>2. ASSUME NEW c \in ds, NEW d \in ds, FromInbox(c), FromInbox(d) PROVE c = d
  BY <1>1, <1>2 DEF OneAnswerEach, Single, FromInbox
<1>3. ASSUME NEW c \in ds, NEW d \in ds, FromStream(c), FromStream(d) PROVE c = d
  BY <1>1, <1>3 DEF OneAnswerEach, Single, FromStream
<1>4. ASSUME NEW c \in ds, NEW d \in ds, c.kind = "detail", d.kind = "detail" PROVE c = d
  BY <1>1, <1>4 DEF OneAnswerEach, Single
<1>5. OneAnswerEach(ds)
  BY <1>2, <1>3, <1>4 DEF OneAnswerEach, Single
<1> QED
  BY <1>5 DEF ds

\* Fewer calls, or one more for a part that waits for none.
LEMMA FewerAnswers ==
  ASSUME NEW cs, OneAnswerEach(cs), NEW ds \in SUBSET cs
  PROVE  OneAnswerEach(ds)
BY DEF OneAnswerEach, Single

LEMMA OneMoreAnswer ==
  ASSUME NEW cs, OneAnswerEach(cs), NEW d,
         FromInbox(d) => \A c \in cs : ~FromInbox(c),
         FromStream(d) => \A c \in cs : ~FromStream(c),
         d.kind = "detail" => \A c \in cs : c.kind # "detail"
  PROVE  OneAnswerEach(cs \cup {d})
BY DEF OneAnswerEach, Single

LEMMA OrphanedAnswers ==
  ASSUME NEW cs \in SUBSET Calls, NEW dropped, OneAnswerEach(cs)
  PROVE  OneAnswerEach(Orphaned(cs, dropped))
<1> DEFINE f == [c \in Calls |-> IF c \in dropped
                                 THEN [c EXCEPT !.kind = "orphan", !.live = FALSE] ELSE c]
<1>1. f \in [Calls -> Calls] /\ \A c \in cs : f[c].kind \in {c.kind, "orphan"}
  BY OrphanType
<1>2. Orphaned(cs, dropped) = {f[c] : c \in cs}
  BY DEF Orphaned
<1> HIDE DEF f
<1> QED
  BY <1>1, <1>2, ImageOfOneEach

\* An inbox that is set up anew wants none of the answers on their way.
LEMMA SupersededAnswers ==
  ASSUME NEW cs \in SUBSET Calls, NEW same \in BOOLEAN, OneAnswerEach(cs)
  PROVE  /\ OneAnswerEach(Superseded(cs, same))
         /\ \A d \in Superseded(cs, same) :
              /\ ~FromInbox(d) /\ (FromStream(d) => d.live = FALSE)
              /\ d.kind = "detail" => d \in cs
<1> DEFINE out == {c \in cs : FromInbox(c) \/ (FromStream(c) /\ ~same)}
           os == Orphaned(cs, out)
           f == [c \in Calls |-> IF FromStream(c) /\ same THEN [c EXCEPT !.live = FALSE] ELSE c]
<1>1. /\ os \in SUBSET Calls
      /\ \A d \in os : d \in cs \ out \/ d.kind = "orphan"
      /\ OneAnswerEach(os)
  BY OrphanedKinds, OrphanedAnswers
<1>2. /\ f \in [Calls -> Calls]
      /\ \A c \in Calls : f[c].kind = c.kind /\ (FromStream(c) /\ same => f[c].live = FALSE)
      /\ \A c \in Calls : ~FromStream(c) => f[c] = c
  BY StaleType
<1>3. Superseded(cs, same) = {f[c] : c \in os}
  BY <1>1 DEF Superseded
<1>4. \A d \in os : ~FromInbox(d) /\ (FromStream(d) => same) /\ (d.kind = "detail" => d \in cs)
  BY <1>1 DEF FromInbox, FromStream
<1> HIDE DEF f, os, out
<1>5. OneAnswerEach(Superseded(cs, same))
  BY <1>1, <1>2, <1>3, ImageOfOneEach
<1>6. ASSUME NEW d \in Superseded(cs, same)
      PROVE  /\ ~FromInbox(d) /\ (FromStream(d) => d.live = FALSE)
             /\ d.kind = "detail" => d \in cs
  <2>1. PICK c \in os : d = f[c]
    BY <1>3
  <2>2. d.kind = c.kind /\ c \in Calls
    BY <1>1, <1>2, <2>1
  <2> QED
    BY <1>2, <1>4, <2>1, <2>2 DEF FromInbox, FromStream
<1> QED
  BY <1>5, <1>6

LEMMA ResumedAnswers ==
  ASSUME NEW cs \in SUBSET Calls, NEW t \in Tokens, NEW u, OneAnswerEach(cs), AskedWith(cs, u)
  PROVE  /\ OneAnswerEach(Resumed(cs, t))
         /\ \A d \in Resumed(cs, t) : Wanted(d) => d.first = u /\ d.token \in {u, t}
<1> DEFINE f == [c \in Calls |-> IF c.stage = "waiting" THEN SentAgain(c, t) ELSE c]
<1>1. \A c \in Calls : SentAgain(c, t) \in Calls /\ SameMaker(c, SentAgain(c, t))
  BY SentAgainType
<1>2. \A c \in Calls : SentAgain(c, t).first = c.first /\ SentAgain(c, t).token = t
  BY DEF SentAgain, Calls
<1>3. /\ f \in [Calls -> Calls]
      /\ \A c \in Calls : SameMaker(c, f[c]) /\ f[c].first = c.first /\ f[c].token \in {c.token, t}
  BY <1>1, <1>2 DEF SameMaker
<1>4. Resumed(cs, t) = {f[c] : c \in cs}
  BY DEF Resumed
<1> HIDE DEF f
<1>5. OneAnswerEach(Resumed(cs, t))
  BY <1>3, <1>4, ImageOfOneEach DEF SameMaker
<1>6. \A d \in Resumed(cs, t) : Wanted(d) => d.first = u /\ d.token \in {u, t}
  BY <1>3, <1>4 DEF SameMaker, AskedWith, Wanted, FromInbox, FromStream
<1> QED
  BY <1>5, <1>6

\* A call goes on for the same maker, with the tokens it had.
LEMMA ReplacedAnswers ==
  ASSUME calls \in SUBSET Calls, AnswersInv, tok' = tok, NEW c \in calls, NEW d \in Calls,
         SameMaker(c, d), Wanted(d) => d.first = tok /\ d.token = tok,
         calls' = Replaced(c, d)
  PROVE  AnswersInv'
<1> DEFINE f == [x \in Calls |-> IF x = c THEN d ELSE x]
<1>1. f \in [Calls -> Calls] /\ \A x \in Calls : f[x].kind = x.kind
  BY DEF SameMaker
<1>2. calls' = {f[x] : x \in calls}
  BY DEF Replaced
<1> HIDE DEF f
<1>3. OneAnswerEach(calls')
  BY <1>1, <1>2, ImageOfOneEach DEF AnswersInv
<1>4. AskedWith(calls', tok')
  BY DEF AnswersInv, AskedWith, Replaced
<1> QED
  BY <1>3, <1>4 DEF AnswersInv

LEMMA CallTokens ==
  ASSUME NEW k \in Kinds, NEW t
  PROVE  Call(k, t).kind = k /\ Call(k, t).first = t /\ Call(k, t).token = t
BY DEF Call

\* What a render leaves wanted was asked with the token it renders.
LEMMA RenderAnswers ==
  ASSUME NEW cs \in SUBSET Calls, NEW p, NEW s, NEW c, NEW t, NEW fresh,
         c # None /\ t # tok => fresh, Render(cs, p, s, c, t, fresh),
         OneAnswerEach(cs), \A k \in cs : Wanted(k) => k.first = tok /\ k.token \in {tok, t}
  PROVE  AnswersInv'
<1> DEFINE list   == p = "mailboxes" /\ c # None /\ ~s
           single == p = "mailboxes" /\ c # None /\ s
           rerun  == list /\ (fresh \/ ~ListUp)
           reload == single /\ (t # tok \/ ~DetailUp)
           gone   == rerun \/ ~list
           kept   == IF gone THEN Superseded(cs, list /\ ListUp) ELSE cs
           anew   == reload \/ ~single
           out    == {k \in kept : k.kind = "detail"}
           read   == IF anew THEN Orphaned(kept, out) ELSE kept
           loads  == IF rerun THEN {Call("initial", t)} ELSE {}
           reads  == IF reload THEN {Call("detail", t)} ELSE {}
<1>1. calls' = (read \cup loads) \cup reads /\ tok' = t
  BY DEF Render
<1>2. cs \in SUBSET Calls /\ (list /\ ~rerun => t = tok)
  OBVIOUS
<1>3. single /\ ~reload => t = tok
  OBVIOUS
<1>4. (rerun => list) /\ (reload => single) /\ ~(list /\ single)
  OBVIOUS
<1>5. /\ kept \in SUBSET Calls /\ OneAnswerEach(kept)
      /\ gone => \A d \in kept : ~FromInbox(d) /\ (FromStream(d) => d.live = FALSE)
      /\ ~gone => kept = cs
      /\ \A d \in kept : d.kind = "detail" => d \in cs
  <2>1. CASE gone
    <3>1. (list /\ ListUp) \in BOOLEAN
      OBVIOUS
    <3>2. kept = Superseded(cs, list /\ ListUp)
      BY <2>1
    <3> QED
      BY <1>2, <2>1, <3>1, <3>2, SupersededKinds, SupersededAnswers
  <2>2. CASE ~gone
    BY <1>2, <2>2
  <2> QED
    BY <2>1, <2>2
<1>6. /\ read \in SUBSET Calls /\ OneAnswerEach(read)
      /\ \A d \in read : d.kind = "orphan" \/ (d \in kept /\ (anew => d.kind # "detail"))
  <2>1. CASE anew
    <3>1. out \in SUBSET kept
      OBVIOUS
    <3>2. read = Orphaned(kept, out)
      BY <2>1
    <3> QED
      BY <1>5, <2>1, <3>1, <3>2, OrphanedKinds, OrphanedAnswers
  <2>2. CASE ~anew
    BY <1>5, <2>2
  <2> QED
    BY <2>1, <2>2
<1>7. \A d \in read : Wanted(d) => d.first = t /\ d.token = t
  <2> SUFFICES ASSUME NEW d \in read, Wanted(d) PROVE d.first = t /\ d.token = t
    OBVIOUS
  <2>1. d \in kept /\ (anew => d.kind # "detail")
    BY <1>6 DEF Wanted, FromInbox, FromStream
  <2>2. d \in cs /\ t = tok
    <3>1. CASE d.kind = "detail"
      BY <1>3, <1>5, <2>1, <3>1
    <3>2. CASE d.kind # "detail"
      BY <1>2, <1>5, <2>1, <3>2 DEF Wanted
    <3> QED
      BY <3>1, <3>2
  <2> QED
    BY <2>2
<1>8. /\ Call("initial", t).kind = "initial" /\ Call("detail", t).kind = "detail"
      /\ Call("initial", t).first = t /\ Call("initial", t).token = t
      /\ Call("detail", t).first = t /\ Call("detail", t).token = t
  BY CallTokens DEF Kinds
<1>9. \A d \in read : (rerun => ~FromInbox(d)) /\ (reload => d.kind # "detail")
  BY <1>5, <1>6 DEF FromInbox
<1> HIDE DEF list, single, rerun, reload, kept, read
<1>10. OneAnswerEach(read \cup loads)
  <2>1. CASE rerun
    BY <1>6, <1>8, <1>9, <2>1, OneMoreAnswer DEF FromInbox, FromStream
  <2>2. CASE ~rerun
    BY <1>6, <2>2
  <2> QED
    BY <2>1, <2>2
<1>11. OneAnswerEach(calls')
  <2>1. CASE reload
    <3>1. \A d \in read \cup loads : d.kind # "detail"
      BY <1>8, <1>9, <2>1
    <3> QED
      BY <1>1, <1>8, <1>10, <2>1, <3>1, OneMoreAnswer DEF FromInbox, FromStream
  <2>2. CASE ~reload
    BY <1>1, <1>10, <2>2
  <2> QED
    BY <2>1, <2>2
<1>12. AskedWith(calls', tok')
  BY <1>1, <1>7, <1>8 DEF AskedWith
<1> QED
  BY <1>11, <1>12 DEF AnswersInv

\* The calls there were, some of them given to nobody.
LEMMA RenderSame ==
  ASSUME ClientInv, AnswersInv, NEW dropped \in SUBSET calls,
         NEW cs \in {calls, calls \ dropped, Orphaned(calls, dropped)},
         NEW p, NEW s, NEW c, NEW t, NEW fresh,
         c # None /\ t # tok => fresh, Render(cs, p, s, c, t, fresh)
  PROVE  AnswersInv'
<1>1. calls \in SUBSET Calls /\ OneAnswerEach(calls) /\ AskedWith(calls, tok)
  BY TypeFacts DEF AnswersInv
<1>2. cs \in SUBSET Calls /\ OneAnswerEach(cs)
  BY <1>1, OrphanedKinds, OrphanedAnswers, FewerAnswers
<1>3. \A k \in Orphaned(calls, dropped) : k \in calls \/ k.kind = "orphan"
  BY <1>1, OrphanedKinds
<1>4. \A k \in cs : Wanted(k) => k.first = tok /\ k.token \in {tok, t}
  BY <1>1, <1>3 DEF AskedWith, Wanted, FromInbox, FromStream
<1> QED
  BY <1>2, <1>4, RenderAnswers

\* A settled inbox may ask again, and then wants no other answer.
LEMMA SettledAnswers ==
  ASSUME NEW cs \in SUBSET Calls, OneAnswerEach(cs), AskedWith(cs, tok), tok' = tok,
         NEW show, NEW load, NEW man, NEW key, Settle(cs, show, load, man, key)
  PROVE  AnswersInv'
<1> DEFINE inbox == {c \in cs : FromInbox(c)}
           os == Orphaned(cs, inbox)
           again == Call("manual", tok)
<1>1. OneAnswerEach(cs) /\ AskedWith(cs, tok) /\ cs \in SUBSET Calls
  OBVIOUS
<1>2. calls' = os \cup {again} \/ calls' = cs
  BY DEF Settle
<1>3. /\ OneAnswerEach(os)
      /\ \A d \in os : d \in cs \ inbox \/ d.kind = "orphan"
  BY <1>1, OrphanedKinds, OrphanedAnswers
<1>4. again.kind = "manual" /\ again.first = tok /\ again.token = tok
  BY CallTokens DEF Kinds
<1> HIDE DEF os, again
<1>5. \A d \in os : ~FromInbox(d) /\ (Wanted(d) => d.first = tok /\ d.token = tok)
  BY <1>1, <1>3 DEF AskedWith, Wanted, FromInbox, FromStream
<1>6. CASE calls' = os \cup {again}
  <2>1. OneAnswerEach(calls')
    BY <1>3, <1>4, <1>5, <1>6, OneMoreAnswer DEF FromStream
  <2>2. AskedWith(calls', tok')
    BY <1>4, <1>5, <1>6 DEF AskedWith
  <2> QED
    BY <2>1, <2>2 DEF AnswersInv
<1> QED
  BY <1>1, <1>2, <1>6 DEF AnswersInv

LEMMA SettleAnswers ==
  ASSUME ClientInv, AnswersInv, NEW cs \in SUBSET calls, tok' = tok,
         NEW show, NEW load, NEW man, NEW key, Settle(cs, show, load, man, key)
  PROVE  AnswersInv'
<1>1. OneAnswerEach(cs) /\ AskedWith(cs, tok) /\ cs \in SUBSET Calls
  BY TypeFacts, FewerAnswers DEF AnswersInv, AskedWith
<1> QED
  BY <1>1, SettledAnswers

\* Answers that are given, or asked for by nobody, and the same token.
LEMMA FewerStillAsked ==
  ASSUME AnswersInv, calls' \in SUBSET calls, tok' = tok
  PROVE  AnswersInv'
BY FewerAnswers DEF AnswersInv, AskedWith

LEMMA OneMoreAsked ==
  ASSUME AnswersInv, NEW cs \in SUBSET calls, NEW k \in Kinds,
         calls' = cs \cup {Call(k, tok)}, tok' = tok,
         k \notin {"initial", "manual"},
         k \in {"reading", "recovering"} => ~Checking(cs),
         k # "detail"
  PROVE  AnswersInv'
<1>1. OneAnswerEach(cs) /\ AskedWith(cs, tok)
  BY FewerAnswers DEF AnswersInv, AskedWith
<1>2. Call(k, tok).kind = k /\ Call(k, tok).first = tok /\ Call(k, tok).token = tok
  BY CallTokens
<1>3. OneAnswerEach(calls')
  BY <1>1, <1>2, OneMoreAnswer DEF FromInbox, FromStream, Checking
<1> QED
  BY <1>1, <1>2, <1>3 DEF AnswersInv, AskedWith

----------------------------------------------------------------------------
LEMMA AnswersInit == Init => AnswersInv
BY DEF Init, CallsInit, AnswersInv, OneAnswerEach, Single, AskedWith

LEMMA UserAnswers == ASSUME ClientInv, AnswersInv, UserSteps PROVE AnswersInv'
<1> DEFINE deletes == {c \in calls : c.kind = "delete"}
<1>1. CASE \E a \in Mailboxes : ActivateMailbox(a)
  BY <1>1, FewerStillAsked DEF ActivateMailbox, callVars
<1>2. ASSUME NEW list \in SUBSET Mailboxes, NEW next \in SUBSET Mailboxes, NEW drop \in BOOLEAN,
             MailboxesSynced(list, next, drop)
      PROVE  AnswersInv'
  <2> DEFINE c == IF cur \in list THEN cur ELSE None
             t == IF c = None THEN None ELSE tok
             fresh == c # None
  <2>1. Render(calls, page, selected /\ ~drop, c, t, fresh)
    BY <1>2 DEF MailboxesSynced
  <2>2. c # None /\ t # tok => fresh
    OBVIOUS
  <2> HIDE DEF c, t, fresh
  <2> QED
    BY <2>1, <2>2, RenderSame
<1>3. CASE SignOut
  <2>1. Render(Orphaned(calls, deletes), "closed", FALSE, None, None, TRUE)
    BY <1>3 DEF SignOut
  <2> QED
    BY <2>1, RenderSame
<1>4. CASE SessionLost
  <2>1. Render(Orphaned(calls, deletes), "closed", FALSE, cur, tok, FALSE)
    BY <1>4 DEF SessionLost
  <2> QED
    BY <2>1, RenderSame
<1>5. ASSUME NEW p, NEW s, NEW fresh, Render(calls, p, s, cur, tok, fresh) PROVE AnswersInv'
  BY <1>5, RenderSame
<1>6. CASE SignIn \/ SelectMessage \/ CloseMessage
  BY <1>5, <1>6 DEF SignIn, SelectMessage, CloseMessage
<1>7. CASE \E p \in {"mailboxes", "elsewhere"} : SelectView(p)
  BY <1>5, <1>7 DEF SelectView
<1>8. CASE ManualRefresh
  BY <1>8, SettleAnswers DEF ManualRefresh
<1>9. CASE DeleteMessage
  BY <1>9, OneMoreAsked DEF DeleteMessage, Kinds
<1>10. CASE Download
  <2> DEFINE d == DownloadCall(tok)
  <2>1. d.kind = "orphan"
    BY <1>10, WaitFacts, DownloadType DEF Download
  <2>2. OneAnswerEach(calls) /\ AskedWith(calls, tok)
    BY DEF AnswersInv
  <2>3. calls' = calls \cup {d} /\ tok' = tok
    BY <1>10 DEF Download
  <2> HIDE DEF d
  <2>4. OneAnswerEach(calls')
    BY <2>1, <2>2, <2>3, OneMoreAnswer DEF FromInbox, FromStream
  <2>5. AskedWith(calls', tok')
    BY <2>1, <2>2, <2>3 DEF AskedWith, Wanted, FromInbox, FromStream
  <2> QED
    BY <2>4, <2>5 DEF AnswersInv
<1> QED
  BY <1>1, <1>2, <1>3, <1>4, <1>6, <1>7, <1>8, <1>9, <1>10 DEF UserSteps

LEMMA ActivationAnswers ==
  ASSUME ClientInv, AnswersInv, NEW a \in Mailboxes, MailboxActivated(a) \/ ActivationFails(a)
  PROVE  AnswersInv'
<1>1. CASE MailboxActivated(a)
  BY <1>1, RenderSame DEF MailboxActivated
<1>2. CASE ActivationFails(a)
  BY <1>2, FewerStillAsked DEF ActivationFails, callVars
<1> QED
  BY <1>1, <1>2

\* A call goes on: one that is wanted has the current token already, so that it
\* has no other to fall back on.
LEMMA GoesOnAnswers ==
  ASSUME ClientInv, AnswersInv, NEW c \in calls,
         WaitsForToken(c) \/ Denied(c) \/ FallsBack(c) \/ Retried(c)
  PROVE  AnswersInv'
<1>1. c \in Calls /\ calls \in SUBSET Calls
  BY TypeFacts
<1>2. Wanted(c) => c.first = tok /\ c.token = tok
  BY DEF AnswersInv, AskedWith
<1>3. tok' = tok
  BY DEF WaitsForToken, Denied, FallsBack, Retried
<1>4. ASSUME NEW stage \in {"waiting", "denied"}, calls' = Replaced(c, [c EXCEPT !.stage = stage])
      PROVE  AnswersInv'
  <2> DEFINE d == [c EXCEPT !.stage = stage]
  <2>1. d \in Calls /\ d.kind = c.kind /\ d.first = c.first /\ d.token = c.token
    BY <1>1 DEF Calls
  <2>2. d.live = c.live
    BY <1>1 DEF Calls
  <2>3. calls' = Replaced(c, d)
    BY <1>4
  <2> HIDE DEF d
  <2>4. Wanted(d) => d.first = tok /\ d.token = tok
    BY <1>2, <2>1, <2>2 DEF Wanted, FromInbox, FromStream
  <2> QED
    BY <1>1, <1>3, <2>1, <2>2, <2>3, <2>4, ReplacedAnswers DEF SameMaker
<1>5. CASE WaitsForToken(c) \/ Denied(c)
  BY <1>4, <1>5 DEF WaitsForToken, Denied
<1>6. CASE FallsBack(c)
  <2> DEFINE e == SentAgain(c, tok)
             d == [e EXCEPT !.first = tok, !.sent = 3]
  <2>1. tok \in Tokens /\ ~Wanted(c)
    BY <1>2, <1>6, TypeFacts DEF FallsBack, OtherToken, ClientInv, TokenIfMailbox
  <2>2. e \in Calls /\ SameMaker(c, e)
    BY <1>1, <2>1, SentAgainType
  <2>3. calls' = Replaced(c, d)
    BY <1>6 DEF FallsBack
  <2> HIDE DEF e
  <2>4. d \in Calls /\ d.kind = e.kind
    BY <2>1, <2>2 DEF Calls
  <2>5. d.live = e.live
    BY <2>2 DEF Calls
  <2> HIDE DEF d
  <2>6. SameMaker(c, d) /\ ~Wanted(d)
    BY <2>1, <2>2, <2>4, <2>5 DEF SameMaker, Wanted, FromInbox, FromStream
  <2> QED
    BY <1>1, <1>3, <2>3, <2>4, <2>6, ReplacedAnswers
<1>7. CASE Retried(c)
  <2> DEFINE d == [c EXCEPT !.token = c.first, !.sent = 1, !.left = c.left - 1]
  <2>1. c.left - 1 \in Nat
    BY <1>1, <1>7 DEF Calls, Retried
  <2>2. d \in Calls /\ d.kind = c.kind /\ d.first = c.first /\ d.token = c.first
    BY <1>1, <2>1 DEF Calls
  <2>3. d.live = c.live
    BY <1>1 DEF Calls
  <2>4. calls' = Replaced(c, d)
    BY <1>7 DEF Retried
  <2> HIDE DEF d
  <2>5. Wanted(d) => d.first = tok /\ d.token = tok
    BY <1>2, <2>2, <2>3 DEF Wanted, FromInbox, FromStream
  <2> QED
    BY <1>1, <1>3, <2>2, <2>3, <2>4, <2>5, ReplacedAnswers DEF SameMaker
<1> QED
  BY <1>5, <1>6, <1>7

\* An answer reaches whoever waits for it.
LEMMA ReturnAnswers ==
  ASSUME ClientInv, AnswersInv, NEW c \in calls, NEW ok \in BOOLEAN, Return(c, ok)
  PROVE  AnswersInv'
<1>1. calls \ {c} \in SUBSET calls
  OBVIOUS
<1>2. CASE InboxFetched(c, ok)
  BY <1>1, <1>2, SettleAnswers DEF InboxFetched
<1>3. ASSUME NEW more \in BOOLEAN, MessagesRefreshed(c, ok, more) PROVE AnswersInv'
  <2> DEFINE d == AskedAgain(c)
             cs == (calls \ {c}) \cup (IF more THEN {d} ELSE {})
  <2>1. d \in Calls /\ d.kind = "reading" /\ d.live = FALSE
    BY TypeFacts, AskedAgainType
  <2>2. \/ Settle(cs, c.token.of, FALSE, FALSE, stale)
        \/ Settle(cs, shown, initial, manual, stale)
    BY <1>3 DEF MessagesRefreshed
  <2>3. FromStream(c) /\ tok' = tok
    BY <1>3 DEF MessagesRefreshed
  <2> HIDE DEF d
  <2>4. OneAnswerEach(calls \ {c}) /\ AskedWith(calls \ {c}, tok)
    BY <1>1, FewerAnswers DEF AnswersInv, AskedWith
  <2>5. \A x \in calls \ {c} : ~FromStream(x)
    BY <2>3 DEF AnswersInv, OneAnswerEach, Single
  <2>6. OneAnswerEach((calls \ {c}) \cup {d})
    BY <2>1, <2>4, <2>5, OneMoreAnswer DEF FromInbox
  <2>7. AskedWith((calls \ {c}) \cup {d}, tok)
    BY <2>1, <2>4 DEF AskedWith, Wanted, FromInbox
  <2>8. cs \in SUBSET Calls /\ OneAnswerEach(cs) /\ AskedWith(cs, tok)
    BY <2>1, <2>4, <2>6, <2>7, TypeFacts
  <2> HIDE DEF cs
  <2> QED
    BY <2>2, <2>3, <2>8, SettledAnswers
<1>4. ASSUME NEW seen \in BOOLEAN, DetailFetched(c, ok, seen) PROVE AnswersInv'
  <2>1. tok' = tok /\ (calls' = calls \ {c} \/ calls' = (calls \ {c}) \cup {Call("orphan", tok)})
    BY <1>4 DEF DetailFetched, MarkAsRead
  <2> QED
    BY <1>1, <2>1, FewerStillAsked, OneMoreAsked DEF Kinds
<1>5. CASE MessageDeleted(c, ok)
  <2>1. CASE Render(calls \ {c}, page, FALSE, cur, tok, FALSE)
    <3>1. {c} \in SUBSET calls
      OBVIOUS
    <3> QED
      BY <2>1, <3>1, RenderSame
  <2>2. CASE Settle(calls \ {c}, shown, initial, manual, TRUE) /\ tok' = tok
    BY <1>1, <2>2, SettleAnswers
  <2>3. CASE calls' = calls \ {c} /\ tok' = tok
    BY <1>1, <2>3, FewerStillAsked
  <2> QED
    BY <1>5, <2>1, <2>2, <2>3 DEF MessageDeleted
<1>6. CASE NobodyWaits(c)
  BY <1>1, <1>6, FewerStillAsked DEF NobodyWaits
<1> QED
  BY <1>2, <1>3, <1>4, <1>5, <1>6 DEF Return

LEMMA RefreshAnswers == ASSUME ClientInv, AnswersInv, RefreshSteps PROVE AnswersInv'
<1>0. calls \in SUBSET Calls /\ OneAnswerEach(calls) /\ AskedWith(calls, tok)
  BY TypeFacts DEF AnswersInv
<1>1. CASE TokenRefreshed
  <2> DEFINE t == NewToken(refreshing)
             rs == Resumed(calls, t)
  <2>1. t \in Tokens
    BY <1>1, TypeFacts, NewTokenType DEF TokenRefreshed
  <2>2. /\ rs \in SUBSET Calls /\ OneAnswerEach(rs)
        /\ \A d \in rs : Wanted(d) => d.first = tok /\ d.token \in {tok, t}
    BY <1>0, <2>1, ResumedKinds, ResumedAnswers
  <2>3. CASE cur = None
    <3>1. calls' = rs /\ tok' = tok
      BY <1>1, <2>3 DEF TokenRefreshed
    <3>2. \A c \in calls : ~Wanted(c)
      BY <2>3, WaitFacts DEF ListCalls, Has, Wanted, ListUp, DetailUp
    <3>3. Keeps(calls, rs)
      BY <1>0, <2>1, ResumedKinds
    <3> HIDE DEF t, rs
    <3>4. ~ListCalls(calls) /\ ~Has(calls, "detail")
      BY <2>3, WaitFacts DEF ListUp, DetailUp
    <3>5. \A d \in rs : ~Wanted(d)
      BY <3>3, <3>4 DEF Keeps, Has, ListCalls, Wanted
    <3> QED
      BY <2>2, <3>1, <3>5 DEF AnswersInv, AskedWith
  <2>4. CASE cur # None
    <3>1. Render(rs, page, selected, cur, t, TRUE)
      BY <1>1, <2>4 DEF TokenRefreshed
    <3> HIDE DEF t, rs
    <3> QED
      BY <2>2, <3>1, RenderAnswers
  <2> QED
    BY <2>3, <2>4
<1>2. CASE RefreshFails
  <2> DEFINE f == [c \in Calls |-> IF c.stage = "waiting" THEN [c EXCEPT !.stage = "denied"] ELSE c]
  <2>1. calls' = {f[c] : c \in calls} /\ tok' = tok
    BY <1>0, <1>2 DEF RefreshFails
  <2>2. /\ f \in [Calls -> Calls]
        /\ \A c \in Calls : f[c].kind = c.kind /\ f[c].first = c.first /\ f[c].token = c.token
    BY DEF Calls
  <2>3. \A c \in Calls : f[c].live = c.live
    BY DEF Calls
  <2> HIDE DEF f
  <2>4. OneAnswerEach(calls')
    BY <1>0, <2>1, <2>2, ImageOfOneEach
  <2>5. AskedWith(calls', tok')
    BY <1>0, <2>1, <2>2, <2>3 DEF AskedWith, Wanted, FromInbox, FromStream
  <2> QED
    BY <2>4, <2>5 DEF AnswersInv
<1> QED
  BY <1>1, <1>2 DEF RefreshSteps

\* The stream asks only if no refresh for it is under way, whoever awaits it.
LEMMA StreamAnswers == ASSUME ClientInv, AnswersInv, StreamSteps PROVE AnswersInv'
<1>0. calls \in SUBSET Calls /\ OneAnswerEach(calls) /\ AskedWith(calls, tok)
  BY TypeFacts DEF AnswersInv
<1>1. CASE StreamOpens \/ Heartbeat \/ StreamStalls \/ WatchdogFires
  BY <1>1, FewerStillAsked DEF StreamOpens, Heartbeat, StreamStalls, WatchdogFires, callVars
<1>2. CASE MessageEvent
  BY <1>2, FewerStillAsked, OneMoreAsked DEF MessageEvent, Kinds
<1>3. CASE StreamFails
  BY <1>3, FewerStillAsked, OneMoreAsked DEF StreamFails, Kinds
<1>4. CASE Reconnect
  <2> DEFINE f == [c \in Calls |-> IF FromStream(c) THEN [c EXCEPT !.live = FALSE] ELSE c]
  <2>1. calls' = {f[c] : c \in calls} /\ tok' = tok
    BY <1>0, <1>4 DEF Reconnect
  <2>2. /\ f \in [Calls -> Calls]
        /\ \A c \in Calls : f[c].kind = c.kind /\ (FromStream(c) => f[c].live = FALSE)
        /\ \A c \in Calls : ~FromStream(c) => f[c] = c
    BY StaleType
  <2> HIDE DEF f
  <2>3. OneAnswerEach(calls')
    BY <1>0, <2>1, <2>2, ImageOfOneEach
  <2>4. AskedWith(calls', tok')
    BY <1>0, <2>1, <2>2 DEF AskedWith, Wanted, FromInbox, FromStream
  <2> QED
    BY <2>3, <2>4 DEF AnswersInv
<1> QED
  BY <1>1, <1>2, <1>3, <1>4 DEF StreamSteps

LEMMA AnswersStep == ClientInv /\ AnswersInv /\ [Next]_vars => AnswersInv'
<1> SUFFICES ASSUME ClientInv, AnswersInv, [Next]_vars PROVE AnswersInv'
  OBVIOUS
<1>1. ASSUME NEW c \in calls, CallStep(c) PROVE AnswersInv'
  BY <1>1, ReturnAnswers, GoesOnAnswers DEF CallStep
<1>2. CASE InitialLoadGuard
  BY <1>2, SettleAnswers DEF InitialLoadGuard
<1>3. CASE TimePasses \/ UNCHANGED vars
  BY <1>3, FewerStillAsked DEF TimePasses, vars, callVars
<1> QED
  BY <1>1, <1>2, <1>3, UserAnswers, ActivationAnswers, RefreshAnswers, StreamAnswers DEF Next

\* The page waits for the current mailbox alone: the stream, and one answer for
\* each part of the page, asked with the token on display, whatever was
\* superseded, refreshed or replaced on the way.
THEOREM DisplayFollows == Spec => []DisplayFollowsMailbox
<1>1. ClientInv /\ AnswersInv => DisplayFollowsMailbox
  BY DEF ClientInv, AnswersInv, DisplayFollowsMailbox
<1> QED
  BY <1>1, Invariant, AnswersInit, AnswersStep, PTL DEF Spec

\* The messages on display change hands only by an answer that carried the
\* current token, or by the refresh of a connection that was replaced.
THEOREM ListsCurrent == Spec => ListsByTokenOrOldStream
<1> DEFINE P == shown' \notin {shown, None} =>
                  \/ cur # None /\ shown' = tok.of
                  \/ \E c \in calls : FromStream(c) /\ ~c.live /\ shown' = c.token.of
<1>1. ASSUME ClientInv, AnswersInv, [Next]_vars PROVE P
  <2>1. ASSUME NEW cs, NEW p, NEW s, NEW c, NEW t, NEW fresh, Render(cs, p, s, c, t, fresh) PROVE P
    BY <2>1 DEF Render
  <2>2. ASSUME UNCHANGED inboxVars PROVE P
    BY <2>2 DEF inboxVars
  <2>3. ASSUME NEW cs, NEW load, NEW man, NEW key, Settle(cs, shown, load, man, key) PROVE P
    BY <2>3 DEF Settle
  <2>4. ASSUME NEW c \in calls, NEW cs, NEW load, NEW man, NEW key,
               FromInbox(c) \/ FromStream(c), Settle(cs, c.token.of, load, man, key)
        PROVE  P
    <3>1. shown' = c.token.of
      BY <2>4 DEF Settle
    <3>2. ListUp
      BY <2>4, <1>1, WaitFacts DEF ListCalls
    <3>3. CASE Wanted(c)
      BY <1>1, <3>1, <3>2, <3>3 DEF AnswersInv, AskedWith, ListUp
    <3>4. CASE ~Wanted(c)
      BY <2>4, <3>1, <3>4 DEF Wanted
    <3> QED
      BY <3>3, <3>4
  <2>5. CASE UserSteps
    BY <2>1, <2>2, <2>3, <2>5
       DEF UserSteps, ActivateMailbox, MailboxesSynced, SignOut, SessionLost, SignIn, SelectView,
           ManualRefresh, SelectMessage, CloseMessage, DeleteMessage, Download
  <2>6. CASE \E a \in Mailboxes : MailboxActivated(a) \/ ActivationFails(a)
    BY <2>1, <2>2, <2>6 DEF MailboxActivated, ActivationFails
  <2>7. ASSUME NEW c \in calls, NEW ok \in BOOLEAN, InboxFetched(c, ok) PROVE P
    <3>1. CASE ok
      BY <2>4, <2>7, <3>1 DEF InboxFetched
    <3>2. CASE ~ok
      BY <2>7, <3>2 DEF InboxFetched, Settle
    <3> QED
      BY <3>1, <3>2
  <2>8. ASSUME NEW c \in calls, NEW ok \in BOOLEAN, NEW more \in BOOLEAN,
               MessagesRefreshed(c, ok, more)
        PROVE  P
    BY <2>3, <2>4, <2>8 DEF MessagesRefreshed
  <2>9. ASSUME NEW c \in calls, CallStep(c) PROVE P
    BY <2>1, <2>2, <2>3, <2>7, <2>8, <2>9
       DEF CallStep, Return, DetailFetched, MessageDeleted, NobodyWaits
  <2>10. CASE RefreshSteps
    BY <2>1, <2>2, <2>10 DEF RefreshSteps, TokenRefreshed
  <2>11. CASE StreamSteps
    BY <2>2, <2>11 DEF StreamSteps, StreamOpens, Heartbeat, MessageEvent, StreamStalls,
                       WatchdogFires, StreamFails, Reconnect
  <2>12. CASE InitialLoadGuard
    BY <2>3, <2>12 DEF InitialLoadGuard
  <2>13. CASE TimePasses /\ UNCHANGED <<page, selected, asked, inboxVars, detail, streamVars>>
    BY <2>2, <2>13
  <2>14. CASE UNCHANGED vars
    BY <2>2, <2>14 DEF vars
  <2> QED
    BY <1>1, <2>5, <2>6, <2>9, <2>10, <2>11, <2>12, <2>13, <2>14 DEF Next
<1>2. ClientInv /\ AnswersInv /\ [Next]_vars => [P]_vars
  BY <1>1
<1>3. Spec => [][P]_vars
  BY <1>2, Invariant, AnswersInit, AnswersStep, PTL DEF Spec
<1> QED
  BY <1>3 DEF ListsByTokenOrOldStream

\* The token held for a mailbox becomes another's only by the late answer to a
\* refresh asked for that other one: no switch, sign-in, load or retry mixes them.
THEOREM TokensMixedLate == Spec => MixedByLateRefresh
<1> DEFINE P == cur' # None /\ tok'.of # cur' /\ (cur # None => tok.of = cur) =>
                  /\ refreshing \notin {None, cur} /\ refreshing' = None
                  /\ cur' = cur /\ tok'.of = refreshing
<1>1. ASSUME ClientInv, [Next]_vars PROVE P
  <2>1. ASSUME cur' = cur, tok' = tok PROVE P
    BY <2>1
  <2>2. ASSUME NEW cs, NEW p, NEW s, NEW fresh, Render(cs, p, s, cur, tok, fresh) PROVE P
    BY <2>1, <2>2 DEF Render
  <2>3. ASSUME NEW cs, NEW p, NEW s, NEW t, NEW fresh, Render(cs, p, s, None, t, fresh) PROVE P
    BY <2>3 DEF Render
  <2>4. CASE UserSteps
    <3>1. ASSUME NEW list \in SUBSET Mailboxes, NEW next \in SUBSET Mailboxes, NEW drop \in BOOLEAN,
                 MailboxesSynced(list, next, drop)
          PROVE  P
      <4>1. CASE cur \in list /\ cur # None
        BY <2>2, <3>1, <4>1 DEF MailboxesSynced
      <4>2. CASE ~(cur \in list /\ cur # None)
        BY <3>1, <4>2 DEF MailboxesSynced, Render
      <4> QED
        BY <4>1, <4>2
    <3>2. CASE SignOut
      BY <2>3, <3>2 DEF SignOut
    <3>3. CASE SessionLost \/ SignIn \/ SelectMessage \/ CloseMessage
      BY <2>2, <3>3 DEF SessionLost, SignIn, SelectMessage, CloseMessage
    <3>4. CASE \E p \in {"mailboxes", "elsewhere"} : SelectView(p)
      BY <2>2, <3>4 DEF SelectView
    <3>5. CASE ManualRefresh \/ DeleteMessage \/ Download \/ \E a \in Mailboxes : ActivateMailbox(a)
      BY <2>1, <3>5 DEF ManualRefresh, DeleteMessage, Download, ActivateMailbox, callVars
    <3> QED
      BY <2>4, <3>1, <3>2, <3>3, <3>4, <3>5 DEF UserSteps
  <2>5. ASSUME NEW a \in Mailboxes, MailboxActivated(a) \/ ActivationFails(a) PROVE P
    <3>1. CASE MailboxActivated(a)
      BY <3>1 DEF MailboxActivated, Render, NewToken
    <3>2. CASE ActivationFails(a)
      BY <2>1, <3>2 DEF ActivationFails, callVars
    <3> QED
      BY <2>5, <3>1, <3>2
  <2>6. ASSUME NEW c \in calls, CallStep(c) PROVE P
    <3>1. ASSUME NEW ok \in BOOLEAN, Return(c, ok) PROVE P
      BY <2>1, <2>2, <3>1 DEF Return, InboxFetched, MessagesRefreshed, DetailFetched, MessageDeleted,
                              NobodyWaits
    <3> QED
      BY <2>1, <2>6, <3>1 DEF CallStep, WaitsForToken, Denied, FallsBack, Retried
  <2>7. CASE TokenRefreshed
    <3>1. CASE cur = None
      BY <2>1, <2>7, <3>1 DEF TokenRefreshed
    <3>2. CASE cur # None
      <4>1. cur' = cur /\ tok' = NewToken(refreshing) /\ refreshing # None /\ refreshing' = None
        BY <2>7, <3>2 DEF TokenRefreshed, Render
      <4> QED
        BY <4>1 DEF NewToken
    <3> QED
      BY <3>1, <3>2
  <2>8. CASE RefreshFails \/ TimePasses \/ UNCHANGED vars
    BY <2>1, <2>8 DEF RefreshFails, TimePasses, vars, callVars
  <2>9. CASE StreamSteps
    BY <2>1, <2>9 DEF StreamSteps, StreamOpens, Heartbeat, MessageEvent, StreamStalls,
                      WatchdogFires, StreamFails, Reconnect, callVars
  <2>10. CASE InitialLoadGuard
    BY <2>1, <2>10 DEF InitialLoadGuard
  <2> QED
    BY <1>1, <2>4, <2>5, <2>6, <2>7, <2>8, <2>9, <2>10 DEF Next, RefreshSteps
<1>2. ClientInv /\ [Next]_vars => [P]_vars
  BY <1>1
<1>3. Spec => [][P]_vars
  BY <1>2, Invariant, PTL DEF Spec
<1> QED
  BY <1>3 DEF MixedByLateRefresh
=============================================================================

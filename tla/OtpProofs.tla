----------------------------- MODULE OtpProofs -----------------------------
(***************************************************************************)
(* Proofs about Otp: its types, that a code admits once, that the table of *)
(* one-time codes implements OneTimeCode, what that is worth, and that no  *)
(* request about one address takes the code of another.                    *)
(***************************************************************************)
EXTENDS Otp, TLAPS

\* The row lock is what makes this inductive: what a verification has selected
\* is still in the row when it decides.
RowsLocked ==
  \A r \in Requests : request[r].at = "chosen" =>
    /\ lock[request[r].email] = r
    /\ code[request[r].email] = request[r].seen
    /\ failed[request[r].email] = request[r].count

\* The row counts the wrong guesses of its code, which no other row has.
RowsCount ==
  /\ \A e \in Emails : code[e] # None =>
       /\ code[e] \in issued
       /\ failed[e] = misses[code[e]]
       /\ admitted[code[e]] = 0
  /\ \A e, x \in Emails : code[e] # None /\ code[e] = code[x] => e = x

\* A code not issued yet has no history.
NothingBeforeIssue == \A c \in Codes \ issued : misses[c] = 0 /\ admitted[c] = 0

OtpInv ==
  /\ TypeOK
  /\ RowsLocked
  /\ RowsCount
  /\ NothingBeforeIssue
  /\ CodesAdmitOnce

LEMMA InvInit == Init => OtpInv
BY OtpAssumption
   DEF Init, OtpInv, TypeOK, RowsLocked, RowsCount, NothingBeforeIssue, CodesAdmitOnce, Idle

\* What a request must hold to be where it says it is.
LEMMA RequestFields ==
  ASSUME TypeOK, NEW r \in Requests
  PROVE  /\ request[r].at = "mailing" => request[r] \in Mailing
         /\ request[r].at \in {"deleting", "selecting"} => request[r] \in Asked
         /\ request[r].at = "chosen" => request[r] \in Chosen
<1>1. request[r] \in {Idle} \cup Mailing \cup Asked \cup Chosen
  BY DEF TypeOK
<1> QED
  BY <1>1 DEF Idle, Mailing, Asked, Chosen

\* Deleting rows adds none.
LEMMA WithoutType ==
  ASSUME TypeOK, NEW gone
  PROVE  /\ Without(gone) \in [Emails -> Codes \cup {None}]
         /\ \A e \in Emails : Without(gone)[e] # None =>
              e \notin gone /\ Without(gone)[e] = code[e] /\ failed[e] < Attempts
BY DEF Without, TypeOK

LEMMA TypeStep == TypeOK /\ [Next]_vars => TypeOK'
<1> SUFFICES ASSUME TypeOK, [Next]_vars PROVE TypeOK'
  OBVIOUS
<1> USE OtpAssumption
<1>1. ASSUME NEW r \in Requests, NEW e \in Emails, NEW c \in Codes, NEW t \in 0 .. now,
             Issue(r, e, c, t)
      PROVE  TypeOK'
  <2>1. [at |-> "mailing", email |-> e, guess |-> c] \in Mailing
    BY DEF Mailing
  <2> QED
    BY <1>1, <2>1 DEF Issue, TypeOK
<1>2. ASSUME NEW r \in Requests, MailSent(r) PROVE TypeOK'
  BY <1>2 DEF MailSent, TypeOK, rowVars, promised
<1>3. ASSUME NEW r \in Requests, MailFails(r) PROVE TypeOK'
  <2>1. request[r] \in Mailing
    BY <1>3, RequestFields DEF MailFails
  <2>2. [at |-> "deleting", who |-> "mailer", email |-> request[r].email,
         guess |-> request[r].guess, time |-> now] \in Asked
    BY <2>1 DEF Mailing, Asked, TypeOK
  <2> QED
    BY <1>3, <2>2 DEF MailFails, TypeOK, rowVars, promised
<1>4. ASSUME NEW r \in Requests, NEW e \in Emails, NEW g \in Codes \cup {None}, Ask(r, e, g)
      PROVE  TypeOK'
  <2>1. [at |-> "deleting", who |-> "user", email |-> e, guess |-> g, time |-> now] \in Asked
    BY DEF Asked, TypeOK
  <2> QED
    BY <1>4, <2>1 DEF Ask, TypeOK, rowVars, promised
<1>5. ASSUME NEW r \in Requests, Choose(r) PROVE TypeOK'
  <2>1. request[r] \in Asked
    BY <1>5, RequestFields DEF Choose
  <2>2. [at |-> "chosen", who |-> request[r].who, email |-> request[r].email,
         guess |-> request[r].guess, seen |-> code[request[r].email],
         count |-> failed[request[r].email]] \in Chosen
    BY <1>5, <2>1 DEF Choose, Asked, Chosen, TypeOK
  <2> QED
    BY <1>5, <2>1, <2>2 DEF Choose, SelectForUpdate, Asked, TypeOK, rowVars, promised
<1>6. ASSUME NEW r \in Requests, NEW heard \in BOOLEAN, Match(r, heard) PROVE TypeOK'
  <2>1. request[r] \in Chosen
    BY <1>6, RequestFields DEF Match
  <2>2. admitted' \in [Codes -> Nat]
    BY <1>6, <2>1 DEF Match, Chosen, TypeOK
  <2> QED
    BY <1>6, <2>1, <2>2, WithoutType DEF Match, Unlocked, Chosen, TypeOK
<1>7. ASSUME NEW r \in Requests, Mismatch(r) PROVE TypeOK'
  <2>1. request[r] \in Chosen
    BY <1>7, RequestFields DEF Mismatch
  <2>2. misses' \in [Codes -> Nat]
    BY <1>7, <2>1 DEF Mismatch, Chosen, TypeOK
  <2>3. failed' \in [Emails -> Nat] /\ code' \in [Emails -> Codes \cup {None}]
    BY <1>7, <2>1, WithoutType DEF Mismatch, Chosen, TypeOK
  <2>4. \A e \in Emails : code'[e] # None => failed'[e] < Attempts
    BY <1>7, <2>1 DEF Mismatch, Without, Exhausted, Chosen, TypeOK
  <2> QED
    BY <1>7, <2>1, <2>2, <2>3, <2>4 DEF Mismatch, Unlocked, TypeOK
<1>8. ASSUME NEW r \in Requests, Drop(r) PROVE TypeOK'
  BY <1>8 DEF Drop, Unlocked, TypeOK, rowVars, promised
<1>9. CASE TimePasses
  BY <1>9 DEF TimePasses, TypeOK, rowVars, promised
<1>10. CASE UNCHANGED vars
  BY <1>10 DEF vars, TypeOK, rowVars, promised
<1>11. ASSUME NEW r \in Requests, NEW x \in Emails, Delete(r, x) PROVE TypeOK'
  BY <1>11 DEF Delete, TypeOK, rowVars, promised
<1>12. ASSUME NEW r \in Requests, Deleted(r) PROVE TypeOK'
  <2>1. request[r] \in Asked
    BY <1>12, RequestFields DEF Deleted
  <2>2. [request[r] EXCEPT !.at = "selecting"] \in Asked
    BY <2>1 DEF Asked
  <2> QED
    BY <1>12, <2>2 DEF Deleted, TypeOK, rowVars, promised
<1>13. ASSUME NEW r \in Requests, Refuse(r) PROVE TypeOK'
  BY <1>13, WithoutType DEF Refuse, Unlocked, TypeOK, promised
<1> QED
  BY <1>11, <1>12, <1>13, <1>1, <1>2, <1>3, <1>4, <1>5, <1>6, <1>7, <1>8, <1>9, <1>10 DEF Next

\* Every reachable state of the table and its requests is well typed, and no
\* row holds a code whose attempts are used up.
THEOREM TypeCorrect == Spec => []TypeOK
<1>1. Init => TypeOK
  BY InvInit DEF OtpInv
<1> QED
  BY <1>1, TypeStep, PTL DEF Spec

----------------------------------------------------------------------------
(* A code admits once                                                      *)

\* The parts of the invariant other than the types.
Parts == RowsLocked /\ RowsCount /\ NothingBeforeIssue /\ CodesAdmitOnce

\* Steps that change neither rows nor history nor locks of those who keep a row.
LEMMA QuietStep ==
  ASSUME OtpInv, NEW r \in Requests, UNCHANGED <<rowVars, promised>>,
         request' = [request EXCEPT ![r] = request'[r]], request'[r].at # "chosen",
         \A e \in Emails : lock[e] # r => lock'[e] = lock[e]
  PROVE  Parts'
<1>1. RowsLocked'
  <2> SUFFICES ASSUME NEW q \in Requests, request'[q].at = "chosen"
               PROVE  /\ lock'[request'[q].email] = q
                      /\ code'[request'[q].email] = request'[q].seen
                      /\ failed'[request'[q].email] = request'[q].count
    BY DEF RowsLocked
  <2>1. q # r /\ request'[q] = request[q]
    BY DEF OtpInv, TypeOK
  <2>2. request[q] \in Chosen
    BY <2>1, RequestFields DEF OtpInv
  <2>3. request[q].email \in Emails
    BY <2>2 DEF Chosen
  <2> QED
    BY <2>1, <2>3 DEF OtpInv, RowsLocked, rowVars
<1> QED
  BY <1>1 DEF OtpInv, Parts, RowsCount, NothingBeforeIssue, CodesAdmitOnce, rowVars, promised

LEMMA IssueKeeps ==
  ASSUME OtpInv, NEW r \in Requests, NEW e \in Emails, NEW c \in Codes, NEW t \in 0 .. now,
         Issue(r, e, c, t)
  PROVE  Parts'
<1> USE OtpAssumption
<1>1. RowsLocked'
  <2> SUFFICES ASSUME NEW q \in Requests, request'[q].at = "chosen"
               PROVE  /\ lock'[request'[q].email] = q
                      /\ code'[request'[q].email] = request'[q].seen
                      /\ failed'[request'[q].email] = request'[q].count
    BY DEF RowsLocked
  <2>1. q # r /\ request'[q] = request[q]
    BY DEF OtpInv, TypeOK, Issue
  <2>2. request[q].email \in Emails
    BY <2>1, RequestFields DEF OtpInv, Chosen
  <2>3. lock[request[q].email] = q
    BY <2>1 DEF OtpInv, RowsLocked
  <2>4. request[q].email # e
    BY <2>3 DEF Issue
  <2> QED
    BY <2>1, <2>2, <2>4 DEF OtpInv, TypeOK, RowsLocked, Issue
<1>2. RowsCount'
  BY DEF OtpInv, TypeOK, RowsCount, NothingBeforeIssue, Issue
<1>3. NothingBeforeIssue' /\ CodesAdmitOnce'
  BY DEF OtpInv, TypeOK, NothingBeforeIssue, CodesAdmitOnce, Issue
<1> QED
  BY <1>1, <1>2, <1>3 DEF Parts

\* Steps that only lock a row which nobody holds.
LEMMA LockKeeps ==
  ASSUME OtpInv, NEW r \in Requests, NEW e \in Emails, lock[e] = None,
         lock' = [lock EXCEPT ![e] = r], UNCHANGED <<rowVars, promised>>,
         request' = [request EXCEPT ![r] = request'[r]],
         request'[r].at = "chosen" => /\ request'[r].email = e
                                      /\ request'[r].seen = code[e]
                                      /\ request'[r].count = failed[e]
  PROVE  Parts'
<1>1. RowsLocked'
  <2> SUFFICES ASSUME NEW q \in Requests, request'[q].at = "chosen"
               PROVE  /\ lock'[request'[q].email] = q
                      /\ code'[request'[q].email] = request'[q].seen
                      /\ failed'[request'[q].email] = request'[q].count
    BY DEF RowsLocked
  <2>1. CASE q = r
    BY <2>1 DEF OtpInv, TypeOK, rowVars
  <2>2. CASE q # r
    <3>1. request'[q] = request[q]
      BY <2>2 DEF OtpInv, TypeOK
    <3>2. request[q].email \in Emails
      BY <3>1, RequestFields DEF OtpInv, Chosen
    <3>3. lock[request[q].email] = q
      BY <3>1 DEF OtpInv, RowsLocked
    <3>4. lock'[request[q].email] = q
      BY <3>2, <3>3, OtpAssumption DEF OtpInv, TypeOK
    <3> QED
      BY <3>1, <3>4 DEF OtpInv, RowsLocked, rowVars
  <2> QED
    BY <2>1, <2>2
<1> QED
  BY <1>1 DEF OtpInv, Parts, RowsCount, NothingBeforeIssue, CodesAdmitOnce, rowVars, promised

\* The decision of a verification falls on the row it has locked.
LEMMA DecidesOnItsRow ==
  ASSUME OtpInv, NEW r \in Requests, request[r].at = "chosen"
  PROVE  /\ request[r] \in Chosen
         /\ request[r].email \in Emails
         /\ request[r].seen \in Codes
         /\ request[r].seen # None
         /\ lock[request[r].email] = r
         /\ code[request[r].email] = request[r].seen
         /\ failed[request[r].email] = request[r].count
         /\ misses[request[r].seen] = request[r].count
         /\ admitted[request[r].seen] = 0
         /\ request[r].seen \in issued
         /\ request[r].count < Attempts
BY RequestFields, OtpAssumption DEF OtpInv, TypeOK, RowsLocked, RowsCount, Chosen

\* A transaction that ends leaves the rows that others have locked alone.
LEMMA OthersUntouched ==
  ASSUME OtpInv, NEW r \in Requests, request' = [request EXCEPT ![r] = Idle],
         lock' = Unlocked(r),
         \A x \in Emails : lock[x] \notin {r, None} => code'[x] = code[x] /\ failed'[x] = failed[x]
  PROVE  RowsLocked'
<1> SUFFICES ASSUME NEW q \in Requests, request'[q].at = "chosen"
             PROVE  /\ lock'[request'[q].email] = q
                    /\ code'[request'[q].email] = request'[q].seen
                    /\ failed'[request'[q].email] = request'[q].count
  BY DEF RowsLocked
<1>1. q # r /\ request'[q] = request[q]
  BY DEF OtpInv, TypeOK, Idle
<1>2. request[q].email \in Emails /\ lock[request[q].email] = q
  BY <1>1, DecidesOnItsRow
<1>3. lock[request[q].email] \notin {r, None}
  BY <1>1, <1>2, OtpAssumption
<1>4. lock'[request[q].email] = q
  BY <1>1, <1>2 DEF Unlocked
<1> QED
  BY <1>1, <1>2, <1>3, <1>4 DEF OtpInv, RowsLocked

LEMMA RefuseKeeps ==
  ASSUME OtpInv, NEW r \in Requests, Refuse(r)
  PROVE  Parts'
<1> DEFINE gone == Held(r) \cup {request[r].email}
<1>1. /\ code' \in [Emails -> Codes \cup {None}]
      /\ \A x \in Emails : code'[x] # None => code'[x] = code[x]
  BY WithoutType DEF Refuse, OtpInv
<1>2. \A x \in Emails : lock[x] \notin {r, None} => code'[x] = code[x]
  BY DEF Refuse, Without, Held
<1>3. RowsLocked'
  BY <1>2, OthersUntouched DEF Refuse
<1>4. RowsCount'
  BY <1>1 DEF OtpInv, RowsCount, Refuse, promised
<1> QED
  BY <1>3, <1>4 DEF OtpInv, Parts, NothingBeforeIssue, CodesAdmitOnce, Refuse, promised

LEMMA MatchKeeps ==
  ASSUME OtpInv, NEW r \in Requests, NEW heard \in BOOLEAN, Match(r, heard)
  PROVE  Parts'
<1> USE OtpAssumption
<1> DEFINE e == request[r].email
           c == request[r].seen
<1>1. /\ e \in Emails /\ c \in Codes /\ c \in issued /\ c # None
      /\ code[e] = c /\ admitted[c] = 0 /\ lock[e] = r
  BY DecidesOnItsRow DEF Match
<1>2. \A x \in Emails : lock[x] \notin {r, None} => code'[x] = code[x]
  BY <1>1 DEF Match, Without, Held
<1>3. RowsLocked'
  BY <1>2, OthersUntouched DEF Match
<1>4. \A x \in Codes : x # c => admitted'[x] = admitted[x]
  BY <1>1 DEF Match, OtpInv, TypeOK
<1>5. admitted'[c] <= 1
  BY <1>1 DEF Match, OtpInv, TypeOK
<1>6. /\ code' \in [Emails -> Codes \cup {None}]
      /\ \A x \in Emails : code'[x] # None => x # e /\ code'[x] = code[x]
  BY WithoutType DEF Match, OtpInv
<1>7. \A x \in Emails : code'[x] # None => code[x] # c
  BY <1>1, <1>6 DEF OtpInv, RowsCount
<1>8. RowsCount'
  <2>1. ASSUME NEW x \in Emails, code'[x] # None
        PROVE  /\ code'[x] \in issued'
               /\ failed'[x] = misses'[code'[x]]
               /\ admitted'[code'[x]] = 0
    <3>1. code'[x] = code[x] /\ code[x] # None /\ code[x] # c /\ code[x] \in Codes
      BY <1>6, <1>7, <2>1
    <3>2. code[x] \in issued /\ failed[x] = misses[code[x]] /\ admitted[code[x]] = 0
      BY <3>1 DEF OtpInv, RowsCount
    <3>3. admitted'[code[x]] = admitted[code[x]]
      BY <1>4, <3>1
    <3> QED
      BY <3>1, <3>2, <3>3 DEF Match
  <2> QED
    BY <1>6, <2>1 DEF OtpInv, RowsCount
<1>9. NothingBeforeIssue' /\ CodesAdmitOnce'
  BY <1>1, <1>4, <1>5 DEF OtpInv, NothingBeforeIssue, CodesAdmitOnce, Match
<1> QED
  BY <1>3, <1>8, <1>9 DEF Parts

LEMMA MismatchKeeps ==
  ASSUME OtpInv, NEW r \in Requests, Mismatch(r)
  PROVE  Parts'
<1> USE OtpAssumption
<1> DEFINE e == request[r].email
           c == request[r].seen
           n == request[r].count + 1
<1>1. /\ e \in Emails /\ c \in Codes /\ c \in issued /\ c # None
      /\ code[e] = c /\ misses[c] = request[r].count /\ lock[e] = r
      /\ request[r].count < Attempts /\ request[r].count \in Nat
  BY DecidesOnItsRow DEF Mismatch, Chosen
<1>2. \A x \in Emails : x # e => failed'[x] = failed[x]
  BY DEF Mismatch, OtpInv, TypeOK
<1>3. \A x \in Emails : lock[x] \notin {r, None} => code'[x] = code[x] /\ failed'[x] = failed[x]
  BY <1>1, <1>2 DEF Mismatch, Without, Held
<1>4. RowsLocked'
  BY <1>3, OthersUntouched DEF Mismatch
<1>5. /\ \A x \in Codes : x # c => misses'[x] = misses[x]
      /\ misses'[c] = n
  BY <1>1 DEF Mismatch, OtpInv, TypeOK
<1>6. /\ code' \in [Emails -> Codes \cup {None}]
      /\ \A x \in Emails : code'[x] # None => code'[x] = code[x]
  BY WithoutType DEF Mismatch, OtpInv
<1>7. code'[e] # None => failed'[e] = n
  BY <1>1 DEF Mismatch, Without, OtpInv, TypeOK
<1>8. \A x \in Emails : x # e /\ code[x] # None => code[x] # c
  BY <1>1 DEF OtpInv, RowsCount
<1>9. RowsCount'
  <2>1. ASSUME NEW x \in Emails, code'[x] # None
        PROVE  /\ code'[x] \in issued'
               /\ failed'[x] = misses'[code'[x]]
               /\ admitted'[code'[x]] = 0
    <3>1. code'[x] = code[x] /\ code[x] # None /\ code[x] \in Codes
      BY <1>6, <2>1
    <3>2. code[x] \in issued /\ failed[x] = misses[code[x]] /\ admitted[code[x]] = 0
      BY <3>1 DEF OtpInv, RowsCount
    <3>3. failed'[x] = misses'[code[x]]
      <4>1. CASE x = e
        BY <1>1, <1>5, <1>7, <2>1, <4>1
      <4>2. CASE x # e
        BY <1>2, <1>5, <1>8, <3>1, <3>2, <4>2
      <4> QED
        BY <4>1, <4>2
    <3> QED
      BY <3>1, <3>2, <3>3 DEF Mismatch
  <2> QED
    BY <1>6, <2>1 DEF OtpInv, RowsCount
<1>10. NothingBeforeIssue' /\ CodesAdmitOnce'
  BY <1>1, <1>5 DEF OtpInv, NothingBeforeIssue, CodesAdmitOnce, Mismatch
<1> QED
  BY <1>4, <1>9, <1>10 DEF Parts

LEMMA InvStep == OtpInv /\ [Next]_vars => OtpInv'
<1> SUFFICES ASSUME OtpInv, [Next]_vars PROVE OtpInv'
  OBVIOUS
<1>1. TypeOK'
  BY TypeStep DEF OtpInv
<1>2. ASSUME NEW r \in Requests, MailSent(r) PROVE Parts'
  BY <1>2, QuietStep DEF MailSent, Idle, OtpInv, TypeOK
<1>3. ASSUME NEW r \in Requests, MailFails(r) PROVE Parts'
  BY <1>3, QuietStep DEF MailFails, OtpInv, TypeOK
<1>4. ASSUME NEW r \in Requests, NEW e \in Emails, NEW g \in Codes \cup {None}, Ask(r, e, g)
      PROVE  Parts'
  BY <1>4, QuietStep DEF Ask, OtpInv, TypeOK
<1>5. ASSUME NEW r \in Requests, Deleted(r) PROVE Parts'
  <2>1. request[r] \in Asked
    BY <1>5, RequestFields DEF Deleted, OtpInv
  <2>2. request'[r].at = "selecting" /\ request' = [request EXCEPT ![r] = request'[r]]
    BY <1>5, <2>1 DEF Deleted, Asked, OtpInv, TypeOK
  <2> QED
    BY <1>5, <2>2, QuietStep DEF Deleted
<1>6. ASSUME NEW r \in Requests, Drop(r) PROVE Parts'
  BY <1>6, QuietStep DEF Drop, Unlocked, Idle, OtpInv, TypeOK
<1>7. ASSUME NEW r \in Requests, NEW x \in Emails, Delete(r, x) PROVE Parts'
  <2>1. request' = [request EXCEPT ![r] = request'[r]] /\ request'[r].at # "chosen"
    BY <1>7 DEF Delete, OtpInv, TypeOK
  <2> QED
    BY <1>7, <2>1, LockKeeps DEF Delete
<1>8. ASSUME NEW r \in Requests, Choose(r) PROVE Parts'
  <2>1. request[r].email \in Emails
    BY <1>8, RequestFields DEF Choose, Asked, OtpInv
  <2>2. /\ request' = [request EXCEPT ![r] = request'[r]]
        /\ request'[r].email = request[r].email
        /\ request'[r].seen = code[request[r].email]
        /\ request'[r].count = failed[request[r].email]
    BY <1>8 DEF Choose, OtpInv, TypeOK
  <2> QED
    BY <1>8, <2>1, <2>2, LockKeeps DEF Choose, SelectForUpdate
<1>9. ASSUME TimePasses \/ UNCHANGED vars PROVE Parts'
  BY <1>9 DEF TimePasses, vars, OtpInv, Parts, RowsLocked, RowsCount, NothingBeforeIssue,
              CodesAdmitOnce, rowVars, promised
<1>10. Parts'
  BY <1>2, <1>3, <1>4, <1>5, <1>6, <1>7, <1>8, <1>9, IssueKeeps, RefuseKeeps, MatchKeeps,
     MismatchKeeps DEF Next
<1> QED
  BY <1>1, <1>10 DEF OtpInv, Parts

LEMMA OtpCorrect == Spec => []OtpInv
  BY InvInit, InvStep, PTL DEF Spec

\* No two of the requests that race for a code are admitted by it, and a code
\* never answers more wrong guesses than it may.
THEOREM AdmitsOnce == Spec => []CodesAdmitOnce
<1>1. OtpInv => CodesAdmitOnce
  BY DEF OtpInv
<1> QED
  BY <1>1, OtpCorrect, PTL

----------------------------------------------------------------------------
(* The table implements the promise                                        *)

\* Every step of the table is one of the promise, or none.
LEMMA StepIsPromised == OtpInv /\ [Next]_vars => [Promise!Next]_Promise!promiseVars
<1> SUFFICES ASSUME OtpInv, [Next]_vars
             PROVE  Promise!Next \/ UNCHANGED Promise!promiseVars
  OBVIOUS
<1> USE OtpAssumption
<1>1. ASSUME NEW r \in Requests, NEW e \in Emails, NEW c \in Codes, NEW t \in 0 .. now,
             Issue(r, e, c, t)
      PROVE  Promise!Replace(e, c)
  BY <1>1 DEF Issue, Promise!Replace
<1>2. ASSUME NEW r \in Requests,
             \/ MailSent(r) \/ MailFails(r) \/ Deleted(r) \/ Choose(r) \/ Drop(r)
             \/ \E x \in Emails : Delete(r, x)
             \/ \E e \in Emails, g \in Codes \cup {None} : Ask(r, e, g)
      PROVE  UNCHANGED Promise!promiseVars
  BY <1>2 DEF MailSent, MailFails, Deleted, Choose, Drop, Delete, Ask, rowVars, promised,
              Promise!promiseVars
<1>3. ASSUME NEW r \in Requests, Refuse(r)
      PROVE  \E es \in SUBSET Emails : Promise!GiveUp(es)
  <2> DEFINE es == Held(r) \cup {request[r].email}
  <2>1. request[r].email \in Emails
    BY <1>3, RequestFields DEF Refuse, Asked, OtpInv
  <2>2. es \in SUBSET Emails
    BY <2>1 DEF Held
  <2>3. Promise!GiveUp(es)
    BY <1>3 DEF Refuse, Without, promised, Promise!GiveUp
  <2> QED
    BY <2>2, <2>3
<1>4. ASSUME NEW r \in Requests, NEW heard \in BOOLEAN, Match(r, heard)
      PROVE  Promise!Next
  <2> DEFINE e == request[r].email
             es == Held(r)
  <2>1. e \in Emails /\ code[e] = request[r].seen /\ request[r].seen # None
    BY <1>4, DecidesOnItsRow DEF Match
  <2>2. es \in SUBSET Emails /\ es \cup {e} \in SUBSET Emails
    BY <2>1 DEF Held
  <2>3. code' = [x \in Emails |-> IF x \in es \cup {e} THEN None ELSE code[x]]
    BY <1>4 DEF Match, Without
  <2>4. Promise!Admit(e, es) \/ Promise!GiveUp(es \cup {e})
    BY <1>4, <2>1, <2>3 DEF Match, Promise!Admit, Promise!GiveUp
  <2> QED
    BY <2>1, <2>2, <2>4 DEF Promise!Next
<1>5. ASSUME NEW r \in Requests, Mismatch(r) PROVE Promise!Next
  <2> DEFINE e == request[r].email
             n == misses[code[e]] + 1
             es == Held(r) \ {e}
  <2>1. /\ e \in Emails /\ code[e] = request[r].seen /\ code[e] # None
        /\ n = request[r].count + 1
    BY <1>5, DecidesOnItsRow DEF Mismatch
  <2>2. es \in SUBSET Emails
    BY DEF Held
  <2>3. misses' = [misses EXCEPT ![code[e]] = n]
    BY <1>5, <2>1 DEF Mismatch, OtpInv, TypeOK
  <2>4. code' = [x \in Emails |->
                   IF x \in es \/ (x = e /\ n >= Attempts) THEN None ELSE code[x]]
    BY <1>5, <2>1 DEF Mismatch, Without, Exhausted
  <2>5. Promise!Miss(e, es)
    BY <1>5, <2>1, <2>3, <2>4 DEF Mismatch, Promise!Miss
  <2> QED
    BY <2>1, <2>2, <2>5 DEF Promise!Next
<1>6. CASE TimePasses \/ UNCHANGED vars
  BY <1>6 DEF TimePasses, vars, rowVars, promised, Promise!promiseVars
<1> QED
  BY <1>1, <1>2, <1>3, <1>4, <1>5, <1>6 DEF Next, Promise!Next

\* The table of one-time codes, its locks and the mailer keep the promise of
\* OneTimeCode for any number of addresses, codes and requests.
THEOREM ImplementsPromise == Spec => KeepsPromise
<1>1. Init => Promise!Init
  BY DEF Init, Promise!Init
<1> QED
  BY <1>1, OtpCorrect, StepIsPromised, PTL DEF Spec, KeepsPromise, Promise!Spec

-----------------------------------------------------------------------------
(* The rows a verification holds                                           *)

\* A row is held by a verification in progress, which has chosen it or deletes it
\* as expired; and a verification began at a time that has passed.
HeldRows ==
  /\ \A e \in Emails, r \in Requests : lock[e] = r =>
       \/ request[r].at = "chosen" /\ request[r].email = e
       \/ expires[e] <= now
  /\ \A r \in Requests : request[r].at \in {"deleting", "selecting"} => request[r].time \in 0 .. now

\* It stays true when no row is rewritten, the clock does not go back, and requests
\* that keep their rows stay what they are.
LEMMA HeldKept ==
  ASSUME TypeOK, HeldRows, now' \in Nat, now <= now', expires' = expires,
         \A e \in Emails, r \in Requests : lock'[e] = r =>
            \/ lock[e] = r /\ (request[r].at # "chosen" \/ request'[r] = request[r])
            \/ request'[r].at = "chosen" /\ request'[r].email = e
            \/ expires[e] <= now,
         \A r \in Requests : request'[r].at \in {"deleting", "selecting"} =>
            \/ request'[r].time \in 0 .. now
            \/ request[r].at \in {"deleting", "selecting"} /\ request'[r].time = request[r].time
  PROVE  HeldRows'
<1>1. \A e \in Emails : expires[e] <= now => expires'[e] <= now'
  BY DEF TypeOK
<1>2. ASSUME NEW e \in Emails, NEW r \in Requests, lock'[e] = r
      PROVE  (request'[r].at = "chosen" /\ request'[r].email = e) \/ expires'[e] <= now'
  BY <1>1, <1>2 DEF HeldRows
<1>3. ASSUME NEW r \in Requests, request'[r].at \in {"deleting", "selecting"}
      PROVE  request'[r].time \in 0 .. now'
  <2>1. request'[r].time \in 0 .. now
    BY <1>3 DEF HeldRows
  <2>2. QED BY <2>1 DEF TypeOK
<1>4. QED BY <1>2, <1>3 DEF HeldRows

LEMMA HeldStep == OtpInv /\ HeldRows /\ [Next]_vars => HeldRows'
<1> SUFFICES ASSUME OtpInv, HeldRows, [Next]_vars PROVE HeldRows'
  OBVIOUS
<1>0. TypeOK /\ now \in Nat /\ None \notin Requests
  BY OtpAssumption DEF OtpInv, TypeOK
<1>1. ASSUME NEW r \in Requests, NEW e \in Emails, NEW c \in Codes, NEW t \in 0 .. now,
             Issue(r, e, c, t)
      PROVE  HeldRows'
  <2>1. /\ lock[e] = None /\ lock' = lock /\ now' = now
        /\ \A x \in Emails : x # e => expires'[x] = expires[x]
        /\ request'[r].at = "mailing" /\ request[r].at = "idle"
        /\ \A s \in Requests : s # r => request'[s] = request[s]
    BY <1>0, <1>1 DEF Issue, TypeOK
  <2>2. QED BY <1>0, <2>1 DEF HeldRows
<1>2. ASSUME NEW r \in Requests, MailSent(r) \/ MailFails(r) \/ \E e \in Emails, g \in Codes \cup {None} : Ask(r, e, g)
      PROVE  HeldRows'
  <2>1. /\ now' = now /\ expires' = expires /\ lock' = lock
        /\ request[r].at # "chosen"
        /\ request'[r].at \in {"deleting", "selecting"} => request'[r].time = now
        /\ \A s \in Requests : s # r => request'[s] = request[s]
    BY <1>0, <1>2 DEF MailSent, MailFails, Ask, rowVars, Idle, TypeOK
  <2>2. QED BY <1>0, <2>1, HeldKept
<1>3. ASSUME NEW r \in Requests, NEW x \in Emails, Delete(r, x) PROVE HeldRows'
  <2>1. /\ now' = now /\ expires' = expires /\ request' = request
        /\ \A e \in Emails : e # x => lock'[e] = lock[e]
        /\ lock'[x] = r /\ expires[x] <= request[r].time
        /\ request[r].at = "deleting"
    BY <1>0, <1>3 DEF Delete, Expired, rowVars, TypeOK
  <2>2. expires[x] <= now
    BY <1>0, <2>1 DEF HeldRows, TypeOK
  <2>3. QED BY <1>0, <2>1, <2>2 DEF HeldRows
<1>4. ASSUME NEW r \in Requests, Deleted(r) PROVE HeldRows'
  <2>1. /\ now' = now /\ expires' = expires /\ lock' = lock
        /\ request[r].at = "deleting" /\ request'[r].at = "selecting"
        /\ request'[r].time = request[r].time
        /\ \A s \in Requests : s # r => request'[s] = request[s]
    <3>1. request[r] \in Asked
      BY <1>0, <1>4, RequestFields DEF Deleted
    <3>2. QED BY <1>0, <1>4, <3>1 DEF Deleted, Asked, rowVars, TypeOK
  <2>2. QED BY <1>0, <2>1, HeldKept
<1>5. ASSUME NEW r \in Requests, Choose(r) PROVE HeldRows'
  <2>1. /\ now' = now /\ expires' = expires
        /\ request[r].at = "selecting" /\ request'[r].at = "chosen"
        /\ request'[r].email = request[r].email
        /\ \A e \in Emails : e # request[r].email => lock'[e] = lock[e]
        /\ \A e \in Emails : e = request[r].email => lock'[e] = r
        /\ \A s \in Requests : s # r => request'[s] = request[s]
    BY <1>0, <1>5 DEF Choose, SelectForUpdate, rowVars, TypeOK
  <2>2. QED BY <1>0, <2>1, HeldKept
<1>6. ASSUME NEW r \in Requests,
             Refuse(r) \/ (\E heard \in BOOLEAN : Match(r, heard)) \/ Mismatch(r) \/ Drop(r)
      PROVE  HeldRows'
  <2>1. /\ now' = now /\ expires' = expires
        /\ lock' = Unlocked(r) /\ request' = [request EXCEPT ![r] = Idle]
    BY <1>6 DEF Refuse, Match, Mismatch, Drop, rowVars
  <2>2. /\ \A e \in Emails, s \in Requests : lock'[e] = s => lock[e] = s /\ s # r
        /\ request'[r].at = "idle"
        /\ \A s \in Requests : s # r => request'[s] = request[s]
    BY <1>0, <2>1 DEF Unlocked, Idle, TypeOK
  <2>3. QED BY <1>0, <2>1, <2>2, HeldKept
<1>7. CASE TimePasses \/ UNCHANGED vars
  <2>1. UNCHANGED <<expires, lock, request>> /\ now' \in Nat /\ now <= now'
    BY <1>0, <1>7 DEF TimePasses, vars, rowVars
  <2>2. QED BY <1>0, <2>1, HeldKept
<1>8. QED BY <1>1, <1>2, <1>3, <1>4, <1>5, <1>6, <1>7 DEF Next

-----------------------------------------------------------------------------
(* What takes a code away                                                  *)

\* The property's body: why the row of an address may change.
StaysStep ==
  \A e \in Emails : code[e] # None /\ code'[e] # code[e] =>
    \/ expires[e] <= now
    \/ resend[e] <= now /\ code'[e] \in Codes \ issued
    \/ \E r \in Requests :
         /\ request[r].at = "chosen" /\ request[r].email = e
         /\ request[r].guess = code[e] \/ Exhausted(misses[code[e]] + 1)

LEMMA StaysKept == OtpInv /\ HeldRows /\ [Next]_vars => StaysStep
<1> SUFFICES ASSUME OtpInv, HeldRows, [Next]_vars PROVE StaysStep
  OBVIOUS
<1>0. TypeOK /\ now \in Nat /\ None \notin Requests
  BY OtpAssumption DEF OtpInv, TypeOK
<1>1. ASSUME NEW r \in Requests, NEW e \in Emails, NEW c \in Codes, NEW t \in 0 .. now,
             Issue(r, e, c, t)
      PROVE  StaysStep
  <2>1. /\ c \notin issued
        /\ code[e] # None => expires[e] <= t \/ resend[e] <= t
        /\ \A x \in Emails : code'[x] = IF x = e THEN c ELSE code[x]
    BY <1>0, <1>1 DEF Issue, Replaceable, TypeOK
  <2>2. code[e] # None => expires[e] <= now \/ resend[e] <= now
    BY <1>0, <2>1 DEF TypeOK
  <2>3. QED BY <2>1, <2>2 DEF StaysStep
<1>2. ASSUME NEW r \in Requests, Refuse(r) PROVE StaysStep
  <2>1. /\ request[r].at = "selecting"
        /\ \/ code[request[r].email] = None
           \/ lock[request[r].email] = r
           \/ expires[request[r].email] <= request[r].time
        /\ \A e \in Emails : code'[e] # code[e] => lock[e] = r \/ e = request[r].email
    BY <1>2 DEF Refuse, Without, Held, OtpInv, TypeOK
  <2>2. \A e \in Emails : lock[e] = r => expires[e] <= now
    BY <2>1 DEF HeldRows
  <2>3. request[r].email \in Emails
    BY <1>0, <2>1, RequestFields DEF Asked
  <2>4. expires[request[r].email] <= request[r].time => expires[request[r].email] <= now
    BY <1>0, <2>1, <2>3 DEF HeldRows, TypeOK
  <2>5. QED BY <2>1, <2>2, <2>3, <2>4 DEF StaysStep
<1>3. ASSUME NEW r \in Requests, NEW heard \in BOOLEAN, Match(r, heard) PROVE StaysStep
  <2>1. /\ request[r].at = "chosen" /\ request[r].guess = request[r].seen
        /\ \A e \in Emails : code'[e] # code[e] => lock[e] = r \/ e = request[r].email
    BY <1>3 DEF Match, Without, Held, OtpInv, TypeOK
  <2>2. code[request[r].email] = request[r].seen
    BY <2>1 DEF OtpInv, RowsLocked
  <2>3. \A e \in Emails : lock[e] = r => e = request[r].email \/ expires[e] <= now
    BY DEF HeldRows
  <2>4. QED BY <2>1, <2>2, <2>3 DEF StaysStep
<1>4. ASSUME NEW r \in Requests, Mismatch(r) PROVE StaysStep
  <2> DEFINE e == request[r].email
             n == request[r].count + 1
  <2>1. /\ request[r].at = "chosen"
        /\ code' = Without(IF Exhausted(n) THEN Held(r) \cup {e} ELSE Held(r) \ {e})
    BY <1>4 DEF Mismatch
  <2>2. \A x \in Emails : code'[x] # code[x] => (x = e /\ Exhausted(n)) \/ (x # e /\ lock[x] = r)
    BY <2>1 DEF Without, Held, OtpInv, TypeOK
  <2>3. e \in Emails /\ code[e] \in Codes
    BY <1>0, <2>1, RequestFields DEF Chosen, OtpInv, RowsLocked
  <2>4. request[r].count = misses[code[e]]
    BY <2>1, <2>3, OtpAssumption DEF OtpInv, RowsLocked, RowsCount
  <2>5. \A x \in Emails : x # e /\ lock[x] = r => expires[x] <= now
    BY DEF HeldRows
  <2>6. QED BY <2>1, <2>2, <2>4, <2>5 DEF StaysStep
<1>5. ASSUME code' = code PROVE StaysStep
  BY <1>5 DEF StaysStep
<1>6. ASSUME NEW r \in Requests,
             \/ MailSent(r) \/ MailFails(r) \/ Deleted(r) \/ Choose(r) \/ Drop(r)
             \/ \E e \in Emails, g \in Codes \cup {None} : Ask(r, e, g)
             \/ \E x \in Emails : Delete(r, x)
      PROVE  code' = code
  BY <1>6 DEF MailSent, MailFails, Deleted, Choose, Drop, Ask, Delete, rowVars
<1>7. ASSUME TimePasses \/ UNCHANGED vars PROVE code' = code
  BY <1>7 DEF TimePasses, vars, rowVars
<1>8. QED BY <1>1, <1>2, <1>3, <1>4, <1>5, <1>6, <1>7 DEF Next

\* A valid code is taken away by its cooldown, the right guess or the last wrong one,
\* never by what goes on about another address, for any number of either.
THEOREM CodesAreKept == Spec => CodesStay
<1>1. Init => HeldRows
  BY OtpAssumption DEF Init, HeldRows, Idle
<1>2. Spec => [](OtpInv /\ HeldRows)
  BY <1>1, InvInit, InvStep, HeldStep, PTL DEF Spec
<1>3. QED BY <1>2, StaysKept, PTL DEF Spec, CodesStay, StaysStep

-----------------------------------------------------------------------------
(* What the promise is worth: the following holds of every behaviour that  *)
(* module OneTimeCode allows, so of every implementation of it.  The       *)
(* proofs use nothing of Otp but its assumption on the constants.          *)

PromiseTypes ==
  /\ issued \subseteq Codes
  /\ code \in [Emails -> Codes \cup {None}]
  /\ misses \in [Codes -> Nat]
  /\ admitted \in [Codes -> Nat]

\* A code in force was issued, to one address, has admitted nobody and has a guess
\* left; one that is not in force admitted one request at most.
CodesInForce ==
  /\ \A e \in Emails : code[e] # None =>
       code[e] \in issued /\ admitted[code[e]] = 0 /\ misses[code[e]] < Attempts
  /\ \A e, f \in Emails : code[e] = code[f] /\ code[e] # None => e = f
  /\ \A c \in Codes : c \notin issued => admitted[c] = 0 /\ misses[c] = 0

PromiseSafe == PromiseTypes /\ CodesInForce /\ CodesAdmitOnce

\* A code that is no longer in force never is again, and neither admits anybody
\* nor answers a guess any more.
SpentForGood ==
  \A c \in issued : (\A e \in Emails : code[e] # c) =>
    /\ \A e \in Emails : code'[e] # c
    /\ admitted'[c] = admitted[c] /\ misses'[c] = misses[c]

LEMMA PromiseKeepsSafe ==
  ASSUME PromiseSafe, [Promise!Next]_(Promise!promiseVars)
  PROVE  PromiseSafe' /\ SpentForGood
<1> USE OtpAssumption
<1>0. /\ \A e \in Emails : code[e] \in Codes \cup {None}
      /\ \A c \in Codes : c # None /\ misses[c] \in Nat /\ admitted[c] \in Nat
  BY DEF PromiseSafe, PromiseTypes
<1>1. ASSUME NEW e \in Emails, NEW c \in Codes, Promise!Replace(e, c)
      PROVE  PromiseSafe' /\ SpentForGood
  <2>1. /\ c \notin issued /\ issued' = issued \cup {c}
        /\ misses' = misses /\ admitted' = admitted
        /\ code' = [code EXCEPT ![e] = c]
    BY <1>1 DEF Promise!Replace
  <2>2. PromiseTypes'
    BY <2>1 DEF PromiseSafe, PromiseTypes
  <2>3. \A f \in Emails : code'[f] = IF f = e THEN c ELSE code[f]
    BY <2>1 DEF PromiseSafe, PromiseTypes
  <2>4. \A f \in Emails : code[f] # c
    BY <1>0, <2>1 DEF PromiseSafe, CodesInForce
  <2>5. CodesInForce'
    BY <1>0, <2>1, <2>3, <2>4 DEF PromiseSafe, CodesInForce
  <2>6. CodesAdmitOnce' /\ SpentForGood
    BY <1>0, <2>1, <2>3 DEF PromiseSafe, PromiseTypes, CodesAdmitOnce, SpentForGood
  <2>7. QED BY <2>2, <2>5, <2>6 DEF PromiseSafe
<1>2. ASSUME NEW e \in Emails, NEW es \in SUBSET Emails, Promise!Admit(e, es)
      PROVE  PromiseSafe' /\ SpentForGood
  <2> DEFINE c == code[e]
  <2>1. /\ c \in Codes /\ issued' = issued /\ misses' = misses
        /\ admitted' = [admitted EXCEPT ![c] = @ + 1]
        /\ code' = [x \in Emails |-> IF x \in es \cup {e} THEN None ELSE code[x]]
    BY <1>0, <1>2 DEF Promise!Admit
  <2>2. c \in issued /\ admitted[c] = 0 /\ \A f \in Emails : code[f] = c => f = e
    BY <1>0, <2>1 DEF PromiseSafe, CodesInForce
  <2> HIDE DEF c
  <2>3. PromiseTypes'
    BY <1>0, <2>1 DEF PromiseSafe, PromiseTypes
  <2>4. /\ \A f \in Emails : code'[f] = IF f \in es \cup {e} THEN None ELSE code[f]
        /\ \A d \in Codes : admitted'[d] = IF d = c THEN 1 ELSE admitted[d]
    BY <2>1, <2>2 DEF PromiseSafe, PromiseTypes
  <2>5. \A f \in Emails : code'[f] # None => code'[f] = code[f] /\ code[f] # c
    BY <2>2, <2>4
  <2>6. CodesInForce'
    BY <1>0, <2>1, <2>2, <2>4, <2>5 DEF PromiseSafe, CodesInForce
  <2>7. CodesAdmitOnce'
    BY <2>1, <2>4 DEF PromiseSafe, CodesAdmitOnce
  <2>8. ASSUME NEW d \in issued, \A f \in Emails : code[f] # d
        PROVE  \A f \in Emails : code'[f] # d
    BY <1>0, <2>5, <2>8 DEF PromiseSafe, PromiseTypes
  <2>9. SpentForGood
    BY <2>1, <2>4, <2>8 DEF SpentForGood, c, PromiseSafe, PromiseTypes
  <2>10. QED BY <2>3, <2>6, <2>7, <2>9 DEF PromiseSafe
<1>3. ASSUME NEW e \in Emails, NEW es \in SUBSET Emails, Promise!Miss(e, es)
      PROVE  PromiseSafe' /\ SpentForGood
  <2> DEFINE c == code[e]
             n == misses[c] + 1
  <2>1. /\ c \in Codes /\ issued' = issued /\ admitted' = admitted
        /\ misses' = [misses EXCEPT ![c] = n]
        /\ code' = [x \in Emails |->
                     IF x \in es \/ (x = e /\ n >= Attempts) THEN None ELSE code[x]]
    BY <1>0, <1>3 DEF Promise!Miss
  <2>2. /\ c \in issued /\ misses[c] < Attempts /\ admitted[c] = 0
        /\ \A f \in Emails : code[f] = c => f = e
    BY <1>0, <2>1 DEF PromiseSafe, CodesInForce
  <2>3. n \in Nat /\ n <= Attempts
    BY <1>0, <2>1, <2>2
  <2> HIDE DEF c, n
  <2>4. PromiseTypes'
    BY <1>0, <2>1, <2>3 DEF PromiseSafe, PromiseTypes
  <2>5. /\ \A f \in Emails : code'[f] # None =>
             code'[f] = code[f] /\ (code[f] = c => n < Attempts)
        /\ \A d \in Codes : misses'[d] = IF d = c THEN n ELSE misses[d]
    BY <2>1, <2>2, <2>3 DEF PromiseSafe, PromiseTypes
  <2>6. CodesInForce'
    BY <1>0, <2>1, <2>2, <2>5 DEF PromiseSafe, CodesInForce
  <2>7. CodesAdmitOnce'
    BY <2>1, <2>3, <2>5 DEF PromiseSafe, CodesAdmitOnce
  <2>8. SpentForGood
    BY <1>0, <2>1, <2>5 DEF SpentForGood, c, PromiseSafe, PromiseTypes
  <2>9. QED BY <2>4, <2>6, <2>7, <2>8 DEF PromiseSafe
<1>4. ASSUME NEW es \in SUBSET Emails, Promise!GiveUp(es) PROVE PromiseSafe' /\ SpentForGood
  BY <1>0, <1>4 DEF Promise!GiveUp, PromiseSafe, PromiseTypes, CodesInForce, CodesAdmitOnce,
                    SpentForGood
<1>5. CASE UNCHANGED Promise!promiseVars
  BY <1>5 DEF Promise!promiseVars, PromiseSafe, PromiseTypes, CodesInForce, CodesAdmitOnce,
              SpentForGood
<1>6. QED BY <1>1, <1>2, <1>3, <1>4, <1>5 DEF Promise!Next

\* Whatever implements OneTimeCode lets a code admit one request and answer no more
\* wrong guesses than allowed, gives no code to two addresses, and never puts one
\* back in force.
THEOREM OneTimeCodeIsSafe ==
  Promise!Spec =>
    []CodesInForce /\ []CodesAdmitOnce /\ [][SpentForGood]_(Promise!promiseVars)
<1>1. Promise!Init => PromiseSafe
  BY OtpAssumption
     DEF Promise!Init, PromiseSafe, PromiseTypes, CodesInForce, CodesAdmitOnce
<1>2. PromiseSafe /\ [Promise!Next]_(Promise!promiseVars) => PromiseSafe' /\ SpentForGood
  BY PromiseKeepsSafe
<1>3. PromiseSafe => CodesInForce /\ CodesAdmitOnce
  BY DEF PromiseSafe
<1>4. QED BY <1>1, <1>2, <1>3, PTL DEF Promise!Spec

\* So does the table of codes, under any races between guesses, resends,
\* failing mails and lost connections.
THEOREM SpentCodesStaySpent ==
  Spec => []CodesInForce /\ []CodesAdmitOnce /\ [][SpentForGood]_(Promise!promiseVars)
BY ImplementsPromise, OneTimeCodeIsSafe DEF KeepsPromise
=============================================================================

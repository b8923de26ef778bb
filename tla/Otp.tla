-------------------------------- MODULE Otp --------------------------------
(***************************************************************************)
(* One-time codes by mail (otp.rs, send_email_otp and verify_email_otp of  *)
(* routes/admin.rs) in the table otp_codes.  A verification is one         *)
(* transaction: it deletes the expired rows of every address, one after    *)
(* the other, selects its own row FOR UPDATE, hashes the guess, and then   *)
(* decides.  What it deletes is undone when it is rolled back; what it has *)
(* deleted or selected nobody else touches before it ends.  A code is      *)
(* stored before it is mailed, and a mail that fails consumes it by the    *)
(* same verification.                                                      *)
(*                                                                         *)
(* generate_code draws six digits; that two draws are equal is left out.   *)
(***************************************************************************)
EXTENDS Naturals

CONSTANTS
  Emails,     \* normalized addresses
  Codes,      \* codes that may be generated
  Requests,   \* requests that may be under way
  Attempts,   \* MAX_VERIFICATION_ATTEMPTS
  Ttl,        \* ttl_seconds.max(60)
  Cooldown,   \* cooldown_seconds
  MaxTime,    \* bound of the clock
  None

ASSUME OtpAssumption ==
  /\ Attempts \in Nat \ {0}
  /\ Ttl \in Nat \ {0} /\ Cooldown \in Nat /\ MaxTime \in Nat
  /\ None \notin Codes \cup Requests

VARIABLES
  now,        \* Utc::now() and NOW(), taken as one clock
  code,       \* code_hash of each address's row; None when there is no row
  expires,    \* expires_at
  resend,     \* resend_allowed_at
  failed,     \* failed_attempts
  lock,       \* the request whose transaction holds the row's lock
  request,    \* where each request is
  issued,     \* codes generated and stored
  misses,     \* history: wrong guesses answered to a code
  admitted    \* history: requests admitted by a code

rowVars == <<code, expires, resend, failed>>
promised == <<issued, misses, admitted>>
vars == <<now, rowVars, lock, request, promised>>

\* mailing: the code is stored, its mail under way.  The others are statements
\* of verify_postgres_code: deleting expired rows, selecting, and chosen, when it
\* has the row, as seen and count.  who tells a user's guess from the mailer's.
Idle == [at |-> "idle"]
Mailing == [at : {"mailing"}, email : Emails, guess : Codes]
Asked == [at : {"deleting", "selecting"}, who : {"user", "mailer"}, email : Emails,
          guess : Codes \cup {None}, time : Nat]
Chosen == [at : {"chosen"}, who : {"user", "mailer"}, email : Emails,
           guess : Codes \cup {None}, seen : Codes, count : Nat]

TypeOK ==
  /\ now \in Nat
  /\ code \in [Emails -> Codes \cup {None}]
  /\ expires \in [Emails -> Nat]
  /\ resend \in [Emails -> Nat]
  /\ failed \in [Emails -> Nat]
  /\ \A e \in Emails : code[e] # None => failed[e] < Attempts
  /\ lock \in [Emails -> Requests \cup {None}]
  /\ request \in [Requests -> {Idle} \cup Mailing \cup Asked \cup Chosen]
  /\ issued \subseteq Codes
  /\ misses \in [Codes -> Nat]
  /\ admitted \in [Codes -> Nat]

Init ==
  /\ now = 0
  /\ code = [e \in Emails |-> None]
  /\ expires = [e \in Emails |-> 0]
  /\ resend = [e \in Emails |-> 0]
  /\ failed = [e \in Emails |-> 0]
  /\ lock = [e \in Emails |-> None]
  /\ request = [r \in Requests |-> Idle]
  /\ issued = {}
  /\ misses = [c \in Codes |-> 0]
  /\ admitted = [c \in Codes |-> 0]

----------------------------------------------------------------------------
(* Sending                                                                 *)

\* A row may be written over when its code or its cooldown has expired.
Replaceable(e, t) == code[e] = None \/ expires[e] <= t \/ resend[e] <= t

\* issue_postgres_code: one INSERT ... ON CONFLICT DO UPDATE ... WHERE, which
\* waits for a row that a verification holds.  Its time t was read before it
\* waited, and before the code was hashed.
Issue(r, e, c, t) ==
  /\ request[r].at = "idle"
  /\ c \notin issued
  /\ lock[e] = None
  /\ Replaceable(e, t)
  /\ code' = [code EXCEPT ![e] = c]
  /\ expires' = [expires EXCEPT ![e] = t + Ttl]
  /\ resend' = [resend EXCEPT ![e] = t + Cooldown]
  /\ failed' = [failed EXCEPT ![e] = 0]
  /\ issued' = issued \cup {c}
  /\ request' = [request EXCEPT ![r] = [at |-> "mailing", email |-> e, guess |-> c]]
  /\ UNCHANGED <<now, lock, misses, admitted>>

MailSent(r) ==
  /\ request[r].at = "mailing"
  /\ request' = [request EXCEPT ![r] = Idle]
  /\ UNCHANGED <<now, rowVars, lock, promised>>

\* The mail fails, maybe after it was delivered: the code is to be consumed.
MailFails(r) ==
  /\ request[r].at = "mailing"
  /\ request' = [request EXCEPT ![r] =
       [at |-> "deleting", who |-> "mailer", email |-> @.email, guess |-> @.guess, time |-> now]]
  /\ UNCHANGED <<now, rowVars, lock, promised>>

----------------------------------------------------------------------------
(* Verifying                                                               *)

\* verify_email_otp with some guess; the transaction's time is taken.
Ask(r, e, g) ==
  /\ request[r].at = "idle"
  /\ request' = [request EXCEPT ![r] =
       [at |-> "deleting", who |-> "user", email |-> e, guess |-> g, time |-> now]]
  /\ UNCHANGED <<now, rowVars, lock, promised>>

Held(r) == {e \in Emails : lock[e] = r}

Unlocked(r) == [e \in Emails |-> IF lock[e] = r THEN None ELSE lock[e]]

\* The table when the rows of these addresses are gone.
Without(gone) == [e \in Emails |-> IF e \in gone THEN None ELSE code[e]]

\* Seeded bug: WHERE resend_allowed_at <= NOW().
ExpiredOrCooled(t) == {e \in Emails : code[e] # None /\ resend[e] <= t}

Expired(t) == {e \in Emails : code[e] # None /\ expires[e] <= t}

\* DELETE ... WHERE expires_at <= NOW() comes to a row, and waits while others
\* hold it.
Delete(r, x) ==
  /\ request[r].at = "deleting"
  /\ x \in Expired(request[r].time)
  /\ lock[x] = None
  /\ lock' = [lock EXCEPT ![x] = r]
  /\ UNCHANGED <<now, rowVars, request, promised>>

Deleted(r) ==
  /\ request[r].at = "deleting"
  /\ Expired(request[r].time) \subseteq Held(r)
  /\ request' = [request EXCEPT ![r].at = "selecting"]
  /\ UNCHANGED <<now, rowVars, lock, promised>>

\* The row is not there, or no longer for this transaction; or it is a new one
\* whose code has expired as well, and is deleted.
Refuse(r) ==
  LET q == request[r] IN
  /\ q.at = "selecting"
  /\ lock[q.email] \in {None, r}
  /\ \/ code[q.email] = None
     \/ lock[q.email] = r
     \/ expires[q.email] <= q.time
  /\ code' = Without(Held(r) \cup {q.email})
  /\ lock' = Unlocked(r)
  /\ request' = [request EXCEPT ![r] = Idle]
  /\ UNCHANGED <<now, expires, resend, failed, promised>>

\* Seeded bug: SELECT without FOR UPDATE.
SelectOnly(r, e) == UNCHANGED lock

SelectForUpdate(r, e) == lock' = [lock EXCEPT ![e] = r]

Choose(r) ==
  LET q == request[r] IN
  /\ q.at = "selecting"
  /\ lock[q.email] = None
  /\ code[q.email] # None
  /\ q.time < expires[q.email]
  /\ SelectForUpdate(r, q.email)
  /\ request' = [request EXCEPT ![r] =
       [at |-> "chosen", who |-> q.who, email |-> q.email, guess |-> q.guess,
        seen |-> code[q.email], count |-> failed[q.email]]]
  /\ UNCHANGED <<now, rowVars, promised>>

\* The guess is right: the row is deleted and the transaction committed.  Of a
\* user's request the answer may still be lost; the mailer's admits nobody.
Match(r, heard) ==
  LET q == request[r] IN
  /\ q.at = "chosen"
  /\ q.guess = q.seen
  /\ code' = Without(Held(r) \cup {q.email})
  /\ admitted' = IF q.who = "user" /\ heard
                 THEN [admitted EXCEPT ![q.seen] = @ + 1] ELSE admitted
  /\ lock' = Unlocked(r)
  /\ request' = [request EXCEPT ![r] = Idle]
  /\ UNCHANGED <<now, expires, resend, failed, issued, misses>>

\* Seeded bug: one attempt too many.
ExhaustedLate(n) == n > Attempts

Exhausted(n) == n >= Attempts

\* The guess is wrong: the attempt is counted, the last one deletes the row.
Mismatch(r) ==
  LET q == request[r]
      n == q.count + 1
  IN
  /\ q.at = "chosen"
  /\ q.guess # q.seen
  /\ code' = Without(IF Exhausted(n) THEN Held(r) \cup {q.email} ELSE Held(r) \ {q.email})
  /\ failed' = IF Exhausted(n) THEN failed ELSE [failed EXCEPT ![q.email] = n]
  /\ misses' = [misses EXCEPT ![q.seen] = @ + 1]
  /\ lock' = Unlocked(r)
  /\ request' = [request EXCEPT ![r] = Idle]
  /\ UNCHANGED <<now, expires, resend, issued, admitted>>

----------------------------------------------------------------------------

\* The client goes away, a statement fails (the database ends one of two
\* transactions that wait for each other) or the process ends: the transaction
\* is rolled back: what it deleted is back, and unlocked.
Drop(r) ==
  /\ request[r].at # "idle"
  /\ request' = [request EXCEPT ![r] = Idle]
  /\ lock' = Unlocked(r)
  /\ UNCHANGED <<now, rowVars, promised>>

TimePasses ==
  /\ now < MaxTime
  /\ now' = now + 1
  /\ UNCHANGED <<rowVars, lock, request, promised>>

Next ==
  \/ \E r \in Requests :
       \/ \E e \in Emails, c \in Codes, t \in 0 .. now : Issue(r, e, c, t)
       \/ MailSent(r)
       \/ MailFails(r)
       \/ \E e \in Emails, g \in Codes \cup {None} : Ask(r, e, g)
       \/ \E x \in Emails : Delete(r, x)
       \/ Deleted(r)
       \/ Refuse(r)
       \/ Choose(r)
       \/ \E heard \in BOOLEAN : Match(r, heard)
       \/ Mismatch(r)
       \/ Drop(r)
  \/ TimePasses

Spec == Init /\ [][Next]_vars

----------------------------------------------------------------------------
(* Properties                                                              *)

\* A code admits one request at most, whichever requests raced for it, and is
\* at an end after as many wrong guesses as MAX_VERIFICATION_ATTEMPTS says.
CodesAdmitOnce == \A c \in Codes : admitted[c] <= 1 /\ misses[c] <= Attempts

\* A code still valid is only lost for a reason of its own address: a new one sent
\* after the cooldown, the right guess, or the last wrong one.  That every
\* verification deletes the expired rows of all addresses, long before it
\* commits, takes no code away that was sent in between.
CodesStay ==
  [][\A e \in Emails : code[e] # None /\ code'[e] # code[e] =>
       \/ expires[e] <= now
       \/ resend[e] <= now /\ code'[e] \in Codes \ issued
       \/ \E r \in Requests :
            /\ request[r].at = "chosen" /\ request[r].email = e
            /\ request[r].guess = code[e] \/ Exhausted(misses[code[e]] + 1)]_vars

Promise == INSTANCE OneTimeCode WITH inForce <- code

\* However guesses, resends, failing mails and lost connections interleave, a
\* code in the table behaves as one-time codes promise: it admits once, the
\* wrong guesses it survives are counted one by one, and a code that was
\* replaced, used or given up is never in force again.
KeepsPromise == Promise!Spec
=============================================================================

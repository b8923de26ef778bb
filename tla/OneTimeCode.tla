---------------------------- MODULE OneTimeCode ----------------------------
(***************************************************************************)
(* What one-time codes promise, whatever the store and its callers do: of  *)
(* the codes sent to an address the last one may be in force; it admits    *)
(* one request, or is given up after Attempts wrong guesses, or before.    *)
(***************************************************************************)
EXTENDS Naturals

CONSTANTS Emails, Codes, Attempts, None

VARIABLES
  issued,     \* codes that were ever in force
  inForce,    \* the code in force of each address
  misses,     \* wrong guesses answered while a code was in force
  admitted    \* requests admitted by a code

promiseVars == <<issued, inForce, misses, admitted>>

Init ==
  /\ issued = {}
  /\ inForce = [e \in Emails |-> None]
  /\ misses = [c \in Codes |-> 0]
  /\ admitted = [c \in Codes |-> 0]

\* A code takes effect, and the one before it loses it.
Replace(e, c) ==
  /\ c \notin issued
  /\ issued' = issued \cup {c}
  /\ inForce' = [inForce EXCEPT ![e] = c]
  /\ UNCHANGED <<misses, admitted>>

\* A request is admitted, and uses the code up; the codes of es expire with it.
Admit(e, es) ==
  /\ inForce[e] # None
  /\ admitted' = [admitted EXCEPT ![inForce[e]] = @ + 1]
  /\ inForce' = [x \in Emails |-> IF x \in es \cup {e} THEN None ELSE inForce[x]]
  /\ UNCHANGED <<issued, misses>>

\* A wrong guess is answered; the last one allowed ends the code.
Miss(e, es) ==
  LET n == misses[inForce[e]] + 1 IN
  /\ inForce[e] # None
  /\ misses' = [misses EXCEPT ![inForce[e]] = n]
  /\ inForce' = [x \in Emails |->
       IF x \in es \/ (x = e /\ n >= Attempts) THEN None ELSE inForce[x]]
  /\ UNCHANGED <<issued, admitted>>

\* Codes expire, or are consumed without admitting anybody.
GiveUp(es) ==
  /\ inForce' = [x \in Emails |-> IF x \in es THEN None ELSE inForce[x]]
  /\ UNCHANGED <<issued, misses, admitted>>

Next ==
  \/ \E e \in Emails, c \in Codes : Replace(e, c)
  \/ \E e \in Emails, es \in SUBSET Emails : Admit(e, es) \/ Miss(e, es)
  \/ \E es \in SUBSET Emails : GiveUp(es)

Spec == Init /\ [][Next]_promiseVars
=============================================================================

------------------------------ MODULE Registry ------------------------------
(***************************************************************************)
(* What managed domains promise, however verifications, deletions, the     *)
(* cleanup and restarts race: a name stands for one registration at a      *)
(* time, and a registration that is gone never returns; it is usable while *)
(* DNS has vouched for that registration, not for an earlier one of the    *)
(* name, or the operator lists it; what the operator listed stays usable;  *)
(* and mailboxes are opened under names that were proven or listed.        *)
(***************************************************************************)

CONSTANTS
  DomainIds,   \* registrations
  NameOf,      \* the name each is for
  AccountIds,  \* mailboxes
  Under        \* the name each mailbox's address lies under

VARIABLES
  known,       \* registrations there ever were
  standing,    \* those there are
  usable,      \* those mailboxes may be opened under
  listed,      \* those the operator has listed
  vouched,     \* those DNS has vouched for
  opened       \* mailboxes there ever were

promiseVars == <<known, standing, usable, listed, vouched, opened>>

Init ==
  /\ known = {} /\ standing = {} /\ usable = {}
  /\ listed = {} /\ vouched = {} /\ opened = {}

\* New registrations of names that stand for none, one for each name.
Enter(new) ==
  /\ new \cap known = {}
  /\ \A d \in new, e \in standing \cup new : NameOf[d] = NameOf[e] => d = e
  /\ known' = known \cup new

Register(d) ==
  /\ Enter({d})
  /\ standing' = standing \cup {d}
  /\ UNCHANGED <<usable, listed, vouched, opened>>

Vouch(d) ==
  /\ d \in known
  /\ vouched' = vouched \cup {d}
  /\ UNCHANGED <<known, standing, usable, listed, opened>>

Verify(d) ==
  /\ d \in standing \cap vouched
  /\ usable' = usable \cup {d}
  /\ UNCHANGED <<known, standing, listed, vouched, opened>>

\* A later verification fails.
Doubt(d) ==
  /\ d \in usable \ listed
  /\ usable' = usable \ {d}
  /\ UNCHANGED <<known, standing, listed, vouched, opened>>

Remove(ds) ==
  /\ ds \subseteq standing \ listed
  /\ standing' = standing \ ds
  /\ usable' = usable \ ds
  /\ UNCHANGED <<known, listed, vouched, opened>>

\* The operator lists names: registrations that stand are taken over.
List(old, new) ==
  /\ old \subseteq standing
  /\ Enter(new)
  /\ standing' = standing \cup new
  /\ usable' = usable \cup old \cup new
  /\ listed' = listed \cup old \cup new
  /\ UNCHANGED <<vouched, opened>>

Open(a) ==
  /\ \E d \in vouched \cup listed : NameOf[d] = Under[a]
  /\ opened' = opened \cup {a}
  /\ UNCHANGED <<known, standing, usable, listed, vouched>>

Next ==
  \/ \E d \in DomainIds : Register(d) \/ Vouch(d) \/ Verify(d) \/ Doubt(d)
  \/ \E ds \in SUBSET DomainIds : Remove(ds)
  \/ \E old, new \in SUBSET DomainIds : List(old, new)
  \/ \E a \in AccountIds : Open(a)

Spec == Init /\ [][Next]_promiseVars
=============================================================================

--------------------------- MODULE ConsoleProofs ---------------------------
(***************************************************************************)
(* Proofs about Console: its types, that revocations last, that an         *)
(* administrator remains, and that invite codes are bounded.               *)
(***************************************************************************)
EXTENDS Console, FiniteSetTheorems, TLAPS

----------------------------------------------------------------------------
(* Types                                                                   *)

\* A document stays one whichever fields an operation sets.
LEMMA WithUserTyped ==
  ASSUME NEW m \in Documents, NEW u \in Users, NEW role \in Roles,
         NEW ks \in SUBSET Keys, NEW code \in Codes \cup {None}, stamp \in Nat
  PROVE  WithUser(m, u, role, ks, code) \in Documents
BY DEF WithUser, Documents

LEMMA PasswordTyped ==
  ASSUME NEW m \in Documents, NEW u \in Users, NEW v \in Nat
  PROVE  WithPassword(m, u, v) \in Documents
BY DEF WithPassword, Documents

LEMMA RecoveredTyped ==
  ASSUME NEW m \in Documents, NEW u \in Users, NEW k \in Keys, NEW v \in Nat
  PROVE  Recovered(m, u, k, v) \in Documents
BY DEF Recovered, Documents

LEMMA WithoutTyped ==
  ASSUME NEW m \in Documents, NEW u \in Users
  PROVE  Without(m, u) \in Documents
BY DEF Without, Documents, Roles

LEMMA ConsumedTyped ==
  ASSUME NEW m \in Documents, NEW c \in Codes
  PROVE  Consumed(m, c) \in Documents
BY DEF Consumed, Documents

LEMMA FieldsTyped ==
  ASSUME NEW m \in Documents
  PROVE  /\ \A u \in Users, ks \in SUBSET Keys : [m EXCEPT !.keys[u] = ks] \in Documents
         /\ \A u \in Users, role \in Roles, off \in SUBSET Users :
              [m EXCEPT !.role[u] = role, !.off = off] \in Documents
         /\ \A cs \in SUBSET Codes : [m EXCEPT !.codes = cs] \in Documents
         /\ \A bs \in SUBSET Codes : [m EXCEPT !.barred = bs] \in Documents
         /\ \A cs, bs \in SUBSET Codes : [m EXCEPT !.codes = cs, !.barred = bs] \in Documents
         /\ \A s \in Settings : [m EXCEPT !.setting = s] \in Documents
BY DEF Documents

\* The first document has nobody, or the one administrator of an earlier version.
LEMMA FirstDocument ==
  ASSUME Init
  PROVE  /\ Empty \in Documents /\ saved = mem /\ stamp = 0
         /\ \/ mem = Empty /\ born = {} /\ minted = {}
            \/ \E u \in Users, ks \in SUBSET Keys :
                 mem = WithUser(Empty, u, "admin", ks, None) /\ born = {u} /\ minted = ks
<1>1. Empty \in Documents
  BY ConsoleAssumption DEF Empty, Documents, Roles
<1> QED
  BY <1>1 DEF Init, Migrated

LEMMA TypeInit == Init => TypeOK
<1> SUFFICES ASSUME Init PROVE TypeOK
  OBVIOUS
<1>1. mem \in Documents /\ born \subseteq Users /\ minted \subseteq Keys
  <2>1. CASE mem = Empty /\ born = {} /\ minted = {}
    BY <2>1, FirstDocument
  <2>2. ASSUME NEW u \in Users, NEW ks \in SUBSET Keys,
               mem = WithUser(Empty, u, "admin", ks, None) /\ born = {u} /\ minted = ks
        PROVE  mem \in Documents /\ born \subseteq Users /\ minted \subseteq Keys
    BY <2>2, FirstDocument, WithUserTyped DEF Roles
  <2> QED
    BY <2>1, <2>2, FirstDocument
<1> QED
  BY <1>1, FirstDocument DEF Init, TypeOK

\* A committed document is a document in memory and on record.
LEMMA CommitTyped ==
  ASSUME NEW m \in Documents, NEW o \in Outcomes, saved \in Documents, Commit(m, o)
  PROVE  mem' \in Documents /\ saved' \in Documents
BY DEF Commit

LEMMA TypeStep == TypeOK /\ [Next]_vars => TypeOK'
<1> SUFFICES ASSUME TypeOK, [Next]_vars PROVE TypeOK'
  OBVIOUS
<1> USE DEF TypeOK, secretVars, clientVars, historyVars, Rights
<1>1. CASE AnonymousRequests
  <2>1. ASSUME NEW u \in Users, NEW k \in Keys, NEW o \in Outcomes, Setup(u, k, o)
        PROVE TypeOK'
    <3>1. WithUser(mem, u, "admin", {k}, None) \in Documents
      BY WithUserTyped DEF Roles
    <3>2. mem' \in Documents /\ saved' \in Documents
      BY <2>1, <3>1, CommitTyped DEF Setup
    <3> QED
      BY <2>1, <3>2 DEF Setup, Fresh, Mint, Grant
  <2>2. ASSUME NEW u \in Users, NEW o \in Outcomes, Login(u, o)
        PROVE TypeOK'
    <3>1. mem' \in Documents /\ saved' \in Documents
      BY <2>2, CommitTyped DEF Login
    <3>2. mem.version[u] \in Nat
      BY DEF Documents
    <3> QED
      BY <2>2, <3>1, <3>2 DEF Login, Grant
  <2>3. ASSUME NEW u \in Users, NEW c \in Codes \cup {None}, NEW o \in Outcomes, Join(u, c, o)
        PROVE TypeOK'
    <3>1. WithUser(mem, u, "user", {}, None) \in Documents
      BY WithUserTyped DEF Roles
    <3>2. c \in Codes => WithUser(Consumed(mem, c), u, "user", {}, c) \in Documents
      BY WithUserTyped, ConsumedTyped DEF Roles
    <3>3. mem' \in Documents /\ saved' \in Documents
      BY <2>3, <3>1, <3>2, CommitTyped DEF Join
    <3> QED
      BY <2>3, <3>3 DEF Join, Fresh, Grant
  <2>4. ASSUME NEW c \in Codes, JoinFails(c)
        PROVE TypeOK'
    BY <2>4, ConsumedTyped DEF JoinFails
  <2>5. ASSUME NEW u \in Users, NEW k \in Keys, NEW v \in Stamps, NEW o \in Outcomes,
               Recover(u, k, v, o)
        PROVE TypeOK'
    <3>1. v \in Nat
      BY <2>5 DEF Recover, PasswordSet
    <3>2. mem' \in Documents /\ saved' \in Documents
      BY <2>5, <3>1, RecoveredTyped, CommitTyped DEF Recover
    <3>3. mem.keys[u] \subseteq Keys
      BY DEF Documents
    <3> QED
      BY <2>5, <3>1, <3>2, <3>3 DEF Recover, PasswordSet, Mint, Revoke, Bury, Grant
  <2>6. ASSUME NEW g \in granting, IssueSession(g) \/ DropGrant(g)
        PROVE TypeOK'
    <3>1. mem.version[g] \in Nat
      BY DEF Documents
    <3> QED
      BY <2>6, <3>1 DEF IssueSession, DropGrant, Tokens
  <2> QED
    BY <1>1, <2>1, <2>2, <2>3, <2>4, <2>5, <2>6 DEF AnonymousRequests, Register,
                                                    LinuxDoComplete, LinuxDoLogin,
                                                    LinuxDoJoin
<1>2. CASE UserRequests
  <2>1. ASSUME NEW u \in Users, NEW r \in Rights, PassAccessCheck(u, r) \/ DropRequest(u, r)
        PROVE TypeOK'
    BY <2>1 DEF PassAccessCheck, DropRequest, Spend
  <2>2. ASSUME NEW u \in Users, NEW o \in Outcomes, UpdateCloudflare(u, o)
        PROVE TypeOK'
    BY <2>2, CommitTyped DEF UpdateCloudflare, Spend
  <2>3. ASSUME NEW u \in Users, NEW v \in Stamps, NEW o \in Outcomes, ChangePassword(u, v, o)
        PROVE TypeOK'
    <3>1. v \in Nat
      BY <2>3 DEF ChangePassword, PasswordSet
    <3>2. mem' \in Documents /\ saved' \in Documents
      BY <2>3, <3>1, PasswordTyped, CommitTyped DEF ChangePassword
    <3> QED
      BY <2>3, <3>1, <3>2 DEF ChangePassword, PasswordSet, Spend, Revoke
  <2>4. ASSUME NEW u \in Users, NEW k \in Keys, NEW o \in Outcomes,
               CreateKey(u, k, o) \/ DeleteKey(u, k, o)
        PROVE TypeOK'
    <3> DEFINE more == mem.keys[u] \cup {k}
               less == mem.keys[u] \ {k}
    <3>1. more \in SUBSET Keys /\ less \in SUBSET Keys
      BY DEF Documents
    <3> HIDE DEF more, less
    <3>2. /\ [mem EXCEPT !.keys[u] = more] \in Documents
          /\ [mem EXCEPT !.keys[u] = less] \in Documents
      BY <3>1, FieldsTyped
    <3>3. /\ [mem EXCEPT !.keys[u] = @ \cup {k}] = [mem EXCEPT !.keys[u] = more]
          /\ [mem EXCEPT !.keys[u] = @ \ {k}] = [mem EXCEPT !.keys[u] = less]
      BY DEF more, less, Documents
    <3>4. mem' \in Documents /\ saved' \in Documents
      BY <2>4, <3>2, <3>3, CommitTyped DEF CreateKey, DeleteKey, WithKey, WithoutKey
    <3> QED
      BY <2>4, <3>4 DEF CreateKey, DeleteKey, Spend, Mint, Bury, WithKey, WithoutKey
  <2> QED
    BY <1>2, <2>1, <2>2, <2>3, <2>4 DEF UserRequests, RegenerateKey
<1>3. CASE AdminRequests
  <2> SUFFICES ASSUME NEW a \in Users, NEW o \in Outcomes,
                      \/ \E u \in Users, r \in {"user", "admin"} :
                           \/ CreateUser(a, u, r, o)
                           \/ \E off \in BOOLEAN : UpdateUser(a, u, r, off, o)
                      \/ \E u \in Users, v \in Stamps : ResetPassword(a, u, v, o)
                      \/ \E u \in Users : DeleteUser(a, u, o)
                      \/ \E c \in Codes :
                           \/ CreateInvite(a, c, o)
                           \/ \E off \in BOOLEAN : UpdateInvite(a, c, off, o)
                           \/ DeleteInvite(a, c, o)
                      \/ \E s \in SettingsChoices :
                           UpdateSettings(a, s, o) \/ SettingsHalfApplied(a, s)
               PROVE  TypeOK'
    BY <1>3 DEF AdminRequests
  <2>1. ASSUME NEW u \in Users, NEW r \in {"user", "admin"}, CreateUser(a, u, r, o)
        PROVE TypeOK'
    <3>1. mem' \in Documents /\ saved' \in Documents
      BY <2>1, WithUserTyped, CommitTyped DEF CreateUser, Roles
    <3> QED
      BY <2>1, <3>1 DEF CreateUser, Fresh, Spend
  <2>2. ASSUME NEW u \in Users, NEW r \in {"user", "admin"}, NEW off \in BOOLEAN,
               UpdateUser(a, u, r, off, o)
        PROVE TypeOK'
    <3> DEFINE next == IF off THEN mem.off \cup {u} ELSE mem.off \ {u}
    <3>1. next \in SUBSET Users
      BY DEF Documents
    <3>2. [mem EXCEPT !.role[u] = r, !.off = next] \in Documents
      BY <3>1, FieldsTyped DEF Roles
    <3>3. mem' \in Documents /\ saved' \in Documents
      BY <2>2, <3>2, CommitTyped DEF UpdateUser, Documents, Updated
    <3> QED
      BY <2>2, <3>3 DEF UpdateUser, Spend, Updated
  <2>3. ASSUME NEW u \in Users, NEW v \in Stamps, ResetPassword(a, u, v, o)
        PROVE TypeOK'
    <3>1. v \in Nat
      BY <2>3 DEF ResetPassword, PasswordSet
    <3>2. mem' \in Documents /\ saved' \in Documents
      BY <2>3, <3>1, PasswordTyped, CommitTyped DEF ResetPassword
    <3> QED
      BY <2>3, <3>1, <3>2 DEF ResetPassword, PasswordSet, Spend, Revoke
  <2>4. ASSUME NEW u \in Users, DeleteUser(a, u, o)
        PROVE TypeOK'
    <3>1. mem' \in Documents /\ saved' \in Documents
      BY <2>4, WithoutTyped, CommitTyped DEF DeleteUser
    <3>2. mem.keys[u] \subseteq Keys
      BY DEF Documents
    <3> QED
      BY <2>4, <3>1, <3>2, ConsoleAssumption DEF DeleteUser, Spend, Revoke, Bury
  <2>5. ASSUME NEW c \in Codes, NEW off \in BOOLEAN,
               CreateInvite(a, c, o) \/ UpdateInvite(a, c, off, o) \/ DeleteInvite(a, c, o)
        PROVE TypeOK'
    <3> DEFINE more == mem.codes \cup {c}
               less == mem.codes \ {c}
               open == mem.barred \ {c}
               next == IF off THEN mem.barred \cup {c} ELSE open
    <3>1. more \in SUBSET Codes /\ less \in SUBSET Codes
      BY DEF Documents
    <3>2. open \in SUBSET Codes /\ next \in SUBSET Codes
      BY DEF Documents
    <3>3. /\ [mem EXCEPT !.codes = more] \in Documents
          /\ [mem EXCEPT !.barred = next] \in Documents
          /\ [mem EXCEPT !.codes = less, !.barred = open] \in Documents
      <4> HIDE DEF more, less, open, next
      <4> QED
        BY <3>1, <3>2, FieldsTyped
    <3>4. CASE CreateInvite(a, c, o)
      <4>1. mem' \in Documents /\ saved' \in Documents
        BY <3>4, <3>3, CommitTyped DEF CreateInvite, Documents, WithCode
      <4> QED
        BY <3>4, <4>1 DEF CreateInvite, Spend, WithCode
    <3>5. CASE UpdateInvite(a, c, off, o)
      <4>1. mem' \in Documents /\ saved' \in Documents
        BY <3>5, <3>3, CommitTyped DEF UpdateInvite, Documents, WithCodeBarred
      <4> QED
        BY <3>5, <4>1 DEF UpdateInvite, Spend, WithCodeBarred
    <3>6. CASE DeleteInvite(a, c, o)
      <4>1. mem' \in Documents /\ saved' \in Documents
        BY <3>6, <3>3, CommitTyped DEF DeleteInvite, Documents, WithoutCode
      <4> QED
        BY <3>6, <4>1 DEF DeleteInvite, Spend, WithoutCode
    <3> QED
      BY <2>5, <3>4, <3>5, <3>6
  <2>6. ASSUME NEW s \in SettingsChoices, UpdateSettings(a, s, o) \/ SettingsHalfApplied(a, s)
        PROVE TypeOK'
    <3>1. s \in Settings
      BY ConsoleAssumption
    <3>a. [mem EXCEPT !.setting = s] \in Documents
      BY <3>1 DEF Documents, Settings
    <3>b. [mem EXCEPT !.setting.open = s.open, !.setting.invite = s.invite] \in Documents
      BY <3>1 DEF Documents, Settings
    <3>2. [mem EXCEPT !.setting = s] \in Documents /\ HalfApplied(s) \subseteq Documents
      BY <3>a, <3>b DEF HalfApplied, WithSettings
    <3>3. mem' \in Documents /\ saved' \in Documents
      BY <2>6, <3>2, CommitTyped DEF UpdateSettings, SettingsHalfApplied, WithSettings
    <3> QED
      BY <2>6, <3>3 DEF UpdateSettings, SettingsHalfApplied, Spend, WithSettings
  <2> QED
    BY <2>1, <2>2, <2>3, <2>4, <2>5, <2>6
<1>4. CASE Restarts
  <2>1. CASE Restart
    BY <2>1 DEF Restart, Load
  <2>2. ASSUME NEW u \in Users, NEW k \in Keys, RestartBootstrap(u, k)
        PROVE TypeOK'
    <3>1. saved' \in Documents
      BY <2>2, WithUserTyped DEF RestartBootstrap, Roles
    <3> QED
      BY <2>2, <3>1 DEF RestartBootstrap, Load, Fresh, Mint
  <2>3. ASSUME NEW u \in Users, NEW v \in Stamps, RestartForced(u, v)
        PROVE TypeOK'
    <3>1. v \in Nat
      BY <2>3 DEF RestartForced, PasswordSet
    <3>2. WithPassword(saved, u, v) \in Documents
      BY <3>1, PasswordTyped
    <3>3. saved' \in Documents
      BY <2>3, <3>2 DEF RestartForced, Documents, Roles
    <3> QED
      BY <2>3, <3>1, <3>3 DEF RestartForced, PasswordSet, Load
  <2> QED
    BY <1>4, <2>1, <2>2, <2>3 DEF Restarts
<1>5. CASE UNCHANGED vars
  BY <1>5 DEF vars
<1> QED
  BY <1>1, <1>2, <1>3, <1>4, <1>5 DEF Next

\* Every reachable state has the types its declaration says: what each
\* operation stores is a document, whether the save succeeds or not.
THEOREM TypeCorrect == Spec => []TypeOK
BY TypeInit, TypeStep, PTL DEF Spec

----------------------------------------------------------------------------
(* An administrator remains                                                *)

\* A document that has users has an administrator, and a change of one that
\* has an administrator leaves one.
Governed(m) == Members(m) # {} => Admins(m) # {}
Orderly(m, next) == Governed(next) /\ (Admins(m) # {} => Admins(next) # {})

\* Memory has an administrator whenever the record has, and whenever somebody
\* is past an access check; and only ids given out are in use.
AdminInv ==
  /\ Governed(mem) /\ Governed(saved)
  /\ Members(mem) \subseteq born /\ Members(saved) \subseteq born
  /\ Admins(saved) # {} => Admins(mem) # {}
  /\ cleared # {} => Admins(mem) # {}

\* Operations that leave the roles alone, that give a user a role, and that
\* remove a user.
LEMMA RolesKept ==
  ASSUME NEW m, NEW next, next.role = m.role, Governed(m)
  PROVE  Orderly(m, next) /\ Members(next) = Members(m)
BY DEF Orderly, Governed, Members, Admins

LEMMA RoleSet ==
  ASSUME NEW m \in Documents, NEW next \in Documents, NEW u \in Users,
         NEW r \in {"user", "admin"},
         next.role = [m.role EXCEPT ![u] = r],
         r = "admin" \/ (Admins(m) # {} /\ ~SoleAdmin(m, u))
  PROVE  Orderly(m, next) /\ Members(next) \subseteq Members(m) \cup {u}
<1>1. m.role \in [Users -> Roles]
  BY DEF Documents
<1>2. Admins(next) # {}
  <2>1. CASE r = "admin"
    <3>1. u \in Admins(next)
      BY <1>1, <2>1 DEF Admins
    <3> QED
      BY <3>1
  <2>2. CASE Admins(m) # {} /\ ~SoleAdmin(m, u)
    <3>1. PICK w \in Admins(m) : w # u
      BY <2>2 DEF SoleAdmin
    <3>2. w \in Admins(next)
      BY <3>1, <1>1 DEF Admins
    <3> QED
      BY <3>2
  <2> QED
    BY <2>1, <2>2
<1>3. Members(next) \subseteq Members(m) \cup {u}
  BY <1>1 DEF Members
<1> QED
  BY <1>2, <1>3 DEF Orderly, Governed

LEMMA RoleRemoved ==
  ASSUME NEW m \in Documents, NEW next, NEW u \in Users,
         next.role = [m.role EXCEPT ![u] = "none"],
         Admins(m) # {}, ~SoleAdmin(m, u)
  PROVE  Orderly(m, next) /\ Members(next) \subseteq Members(m)
<1>1. m.role \in [Users -> Roles]
  BY DEF Documents
<1>2. PICK w \in Admins(m) : w # u
  BY DEF SoleAdmin
<1>3. w \in Admins(next)
  BY <1>2, <1>1 DEF Admins
<1>4. Members(next) \subseteq Members(m)
  BY <1>1 DEF Members
<1> QED
  BY <1>3, <1>4 DEF Orderly, Governed

\* The roles in the documents the operations make.
LEMMA WithUserRoles ==
  ASSUME NEW m \in Documents, NEW u \in Users, NEW r, NEW ks, NEW c
  PROVE  WithUser(m, u, r, ks, c).role = [m.role EXCEPT ![u] = r]
BY DEF Documents, WithUser

LEMMA PasswordRoles ==
  ASSUME NEW m \in Documents, NEW u \in Users, NEW v
  PROVE  WithPassword(m, u, v).role = m.role
BY DEF Documents, WithPassword

LEMMA RecoveredRoles ==
  ASSUME NEW m \in Documents, NEW u \in Users, NEW k, NEW v
  PROVE  Recovered(m, u, k, v).role = m.role
BY DEF Documents, Recovered

LEMMA WithoutRoles ==
  ASSUME NEW m \in Documents, NEW u \in Users
  PROVE  Without(m, u).role = [m.role EXCEPT ![u] = "none"]
BY DEF Documents, Without

LEMMA ConsumedRoles ==
  ASSUME NEW m \in Documents, NEW c
  PROVE  Consumed(m, c).role = m.role
BY DEF Documents, Consumed

\* Every step changes the document in memory, and perhaps records it, or loads
\* the record.
OrderlyStep ==
  /\ Members(mem') \subseteq born' /\ Members(saved') \subseteq born'
  /\ \/ /\ Orderly(mem, mem')
        /\ saved' \in {saved, mem'}
        /\ cleared' # {} => Admins(mem) # {}
     \/ /\ Orderly(saved, saved')
        /\ mem' = saved'
        /\ cleared' = {}

LEMMA StepIsOrderly == TypeOK /\ AdminInv /\ [Next]_vars => OrderlyStep
<1> SUFFICES ASSUME TypeOK, AdminInv, [Next]_vars PROVE OrderlyStep
  OBVIOUS
<1> USE DEF secretVars, clientVars, historyVars
<1>0. mem \in Documents /\ saved \in Documents /\ stamp \in Nat
  BY DEF TypeOK
<1>g. Governed(mem) /\ Governed(saved)
  BY DEF AdminInv
<1>b. Members(mem) \subseteq born /\ Members(saved) \subseteq born
  BY DEF AdminInv
<1>a. Members(mem) # {} \/ cleared # {} => Admins(mem) # {}
  BY DEF AdminInv, Governed
\* An operation that commits d.
<1>c. ASSUME NEW d, NEW o \in Outcomes, Commit(d, o), Orderly(mem, d),
             Members(d) \subseteq born', born \subseteq born',
             cleared' # {} => cleared # {} \/ Members(mem) # {}
      PROVE  OrderlyStep
  <2>1. mem' = d /\ saved' \in {saved, d}
    BY <1>c DEF Commit
  <2>2. Members(mem') \subseteq born'
    BY <2>1, <1>c
  <2>3. Members(saved') \subseteq born'
    BY <2>1, <1>c, <1>b
  <2> QED
    BY <2>1, <2>2, <2>3, <1>c, <1>a DEF OrderlyStep
\* One that leaves the roles, and the ids given out, as they are.
<1>k. ASSUME NEW d, NEW o \in Outcomes, Commit(d, o), d.role = mem.role, born' = born,
             cleared' # {} => cleared # {} \/ Members(mem) # {}
      PROVE  OrderlyStep
  <2>1. Orderly(mem, d) /\ Members(d) = Members(mem)
    BY <1>k, <1>g, RolesKept
  <2> QED
    BY <2>1, <1>k, <1>c, <1>b
\* One that leaves both documents as they are.
<1>u. ASSUME UNCHANGED <<mem, saved, born>>,
             cleared' # {} => cleared # {} \/ Members(mem) # {}
      PROVE  OrderlyStep
  <2>1. Orderly(mem, mem)
    BY <1>g, RolesKept
  <2> QED
    BY <2>1, <1>u, <1>a, <1>b DEF OrderlyStep
<1>1. CASE AnonymousRequests
  <2>1. ASSUME NEW u \in Users, NEW k \in Keys, NEW o \in Outcomes, Setup(u, k, o)
        PROVE OrderlyStep
    <3> DEFINE d == WithUser(mem, u, "admin", {k}, None)
    <3>1. d.role = [mem.role EXCEPT ![u] = "admin"]
      BY <1>0, WithUserRoles
    <3>a. d \in Documents
      BY <1>0, WithUserTyped DEF Roles
    <3>2. Orderly(mem, d) /\ Members(d) \subseteq Members(mem) \cup {u}
      <4> HIDE DEF d
      <4> QED
        BY <3>1, <3>a, <1>0, RoleSet
    <3>3. Commit(d, o) /\ born' = born \cup {u} /\ cleared' = cleared
      BY <2>1 DEF Setup, Fresh
    <3> HIDE DEF d
    <3> QED
      BY <3>2, <3>3, <1>c, <1>b
  <2>2. ASSUME NEW u \in Users, NEW o \in Outcomes, Login(u, o)
        PROVE OrderlyStep
    BY <2>2, <1>k DEF Login
  <2>3. ASSUME NEW u \in Users, NEW c \in Codes \cup {None}, NEW o \in Outcomes, Join(u, c, o)
        PROVE OrderlyStep
    <3>1. Admins(mem) # {} /\ u \notin born
      BY <2>3, <1>a DEF Join, BootstrapRequired, Fresh
    <3>2. ~SoleAdmin(mem, u)
      BY <3>1, <1>b DEF SoleAdmin, Members, Admins
    <3>3. born' = born \cup {u} /\ cleared' = cleared
      BY <2>3 DEF Join, Fresh
    <3>4. ASSUME NEW d \in Documents, Commit(d, o), d.role = [mem.role EXCEPT ![u] = "user"]
          PROVE  OrderlyStep
      <4>1. Orderly(mem, d) /\ Members(d) \subseteq Members(mem) \cup {u}
        BY <3>1, <3>2, <3>4, <1>0, RoleSet
      <4> QED
        BY <4>1, <3>3, <3>4, <1>c, <1>b
    <3>5. CASE Commit(WithUser(mem, u, "user", {}, None), o)
      <4>1. WithUser(mem, u, "user", {}, None) \in Documents
        BY <1>0, WithUserTyped DEF Roles
      <4>2. WithUser(mem, u, "user", {}, None).role = [mem.role EXCEPT ![u] = "user"]
        BY <1>0, WithUserRoles
      <4> QED
        BY <3>4, <3>5, <4>1, <4>2
    <3>6. CASE c \in Codes /\ Commit(WithUser(Consumed(mem, c), u, "user", {}, c), o)
      <4>1. Consumed(mem, c) \in Documents /\ Consumed(mem, c).role = mem.role
        BY <3>6, <1>0, ConsumedTyped, ConsumedRoles
      <4>2. WithUser(Consumed(mem, c), u, "user", {}, c) \in Documents
        BY <4>1, <1>0, WithUserTyped DEF Roles
      <4>3. WithUser(Consumed(mem, c), u, "user", {}, c).role
              = [Consumed(mem, c).role EXCEPT ![u] = "user"]
        BY <4>1, WithUserRoles
      <4> QED
        BY <3>4, <3>6, <4>1, <4>2, <4>3
    <3> QED
      BY <2>3, <3>5, <3>6 DEF Join
  <2>4. ASSUME NEW c \in Codes, JoinFails(c)
        PROVE OrderlyStep
    <3>2. Consumed(mem, c).role = mem.role
      BY <1>0, ConsumedRoles
    <3> QED
      BY <2>4, <3>2, <1>k DEF JoinFails, Commit, Outcomes
  <2>5. ASSUME NEW u \in Users, NEW k \in Keys, NEW v \in Stamps, NEW o \in Outcomes,
               Recover(u, k, v, o)
        PROVE OrderlyStep
    <3>1. Recovered(mem, u, k, v).role = mem.role
      BY <1>0, RecoveredRoles
    <3> QED
      BY <2>5, <3>1, <1>k DEF Recover
  <2>6. ASSUME NEW g \in granting, IssueSession(g) \/ DropGrant(g)
        PROVE OrderlyStep
    BY <2>6, <1>u DEF IssueSession, DropGrant
  <2> QED
    BY <1>1, <2>1, <2>2, <2>3, <2>4, <2>5, <2>6 DEF AnonymousRequests, Register,
                                                    LinuxDoComplete, LinuxDoLogin,
                                                    LinuxDoJoin
<1>2. CASE UserRequests
  <2>1. ASSUME NEW u \in Users, NEW r \in Rights, PassAccessCheck(u, r) \/ DropRequest(u, r)
        PROVE OrderlyStep
    <3>1. CASE PassAccessCheck(u, r)
      <4>1. u \in Members(mem)
        BY <3>1 DEF PassAccessCheck, AcceptsSession, AcceptsKey
      <4> QED
        BY <3>1, <4>1, <1>u DEF PassAccessCheck
    <3>2. CASE DropRequest(u, r)
      BY <3>2, <1>u DEF DropRequest, Spend
    <3> QED
      BY <2>1, <3>1, <3>2
  <2>2. ASSUME NEW u \in Users, NEW o \in Outcomes, UpdateCloudflare(u, o)
        PROVE OrderlyStep
    BY <2>2, <1>k DEF UpdateCloudflare, Spend
  <2>3. ASSUME NEW u \in Users, NEW v \in Stamps, NEW o \in Outcomes, ChangePassword(u, v, o)
        PROVE OrderlyStep
    <3>1. WithPassword(mem, u, v).role = mem.role
      BY <1>0, PasswordRoles
    <3> QED
      BY <2>3, <3>1, <1>k DEF ChangePassword, Spend
  <2>4. ASSUME NEW u \in Users, NEW k \in Keys, NEW o \in Outcomes,
               CreateKey(u, k, o) \/ DeleteKey(u, k, o)
        PROVE OrderlyStep
    <3>1. /\ [mem EXCEPT !.keys[u] = @ \cup {k}].role = mem.role
          /\ [mem EXCEPT !.keys[u] = @ \ {k}].role = mem.role
      BY <1>0 DEF Documents
    <3> QED
      BY <2>4, <3>1, <1>k DEF CreateKey, DeleteKey, Spend, WithKey, WithoutKey
  <2> QED
    BY <1>2, <2>1, <2>2, <2>3, <2>4 DEF UserRequests, RegenerateKey
<1>3. CASE AdminRequests
  <2> SUFFICES ASSUME NEW a \in Users, NEW o \in Outcomes,
                      \/ \E u \in Users, r \in {"user", "admin"} :
                           \/ CreateUser(a, u, r, o)
                           \/ \E off \in BOOLEAN : UpdateUser(a, u, r, off, o)
                      \/ \E u \in Users, v \in Stamps : ResetPassword(a, u, v, o)
                      \/ \E u \in Users : DeleteUser(a, u, o)
                      \/ \E c \in Codes :
                           \/ CreateInvite(a, c, o)
                           \/ \E off \in BOOLEAN : UpdateInvite(a, c, off, o)
                           \/ DeleteInvite(a, c, o)
                      \/ \E s \in SettingsChoices :
                           UpdateSettings(a, s, o) \/ SettingsHalfApplied(a, s)
               PROVE  OrderlyStep
    BY <1>3 DEF AdminRequests
  <2>1. ASSUME NEW u \in Users, NEW r \in {"user", "admin"}, CreateUser(a, u, r, o)
        PROVE OrderlyStep
    <3> DEFINE d == WithUser(mem, u, r, {}, None)
    <3>1. d.role = [mem.role EXCEPT ![u] = r]
      BY <1>0, WithUserRoles
    <3>a. d \in Documents
      BY <1>0, WithUserTyped DEF Roles
    <3>2. Admins(mem) # {} /\ u \notin born
      BY <2>1, <1>a DEF CreateUser, Spend, Fresh
    <3>3. ~SoleAdmin(mem, u)
      BY <3>2, <1>b DEF SoleAdmin, Members, Admins
    <3>4. Orderly(mem, d) /\ Members(d) \subseteq Members(mem) \cup {u}
      <4> HIDE DEF d
      <4> QED
        BY <3>1, <3>a, <3>2, <3>3, <1>0, RoleSet
    <3>5. /\ Commit(d, o) /\ born' = born \cup {u}
          /\ cleared # {}
      BY <2>1 DEF CreateUser, Fresh, Spend
    <3> HIDE DEF d
    <3> QED
      BY <3>4, <3>5, <1>c, <1>b
  <2>2. ASSUME NEW u \in Users, NEW r \in {"user", "admin"}, NEW off \in BOOLEAN,
               UpdateUser(a, u, r, off, o)
        PROVE OrderlyStep
    <3> DEFINE next == IF off THEN mem.off \cup {u} ELSE mem.off \ {u}
               d == [mem EXCEPT !.role[u] = r, !.off = next]
    <3>1. next \in SUBSET Users
      BY <1>0 DEF Documents
    <3>2. d \in Documents
      <4> HIDE DEF next
      <4> QED
        BY <3>1, <1>0, FieldsTyped DEF Roles
    <3>3. d.role = [mem.role EXCEPT ![u] = r]
      BY <1>0 DEF Documents
    <3>4. /\ Commit(d, o) /\ born' = born /\ cleared # {} /\ u \in Members(mem)
          /\ SoleAdmin(mem, u) => r = "admin"
      BY <2>2, <1>0 DEF UpdateUser, Spend, Documents, Updated
    <3> HIDE DEF d
    <3>5. Orderly(mem, d) /\ Members(d) \subseteq Members(mem) \cup {u}
      BY <3>2, <3>3, <3>4, <1>0, <1>a, RoleSet
    <3> QED
      BY <3>4, <3>5, <1>c, <1>b
  <2>3. ASSUME NEW u \in Users, NEW v \in Stamps, ResetPassword(a, u, v, o)
        PROVE OrderlyStep
    <3>1. WithPassword(mem, u, v).role = mem.role
      BY <1>0, PasswordRoles
    <3> QED
      BY <2>3, <3>1, <1>k DEF ResetPassword, Spend
  <2>4. ASSUME NEW u \in Users, DeleteUser(a, u, o)
        PROVE OrderlyStep
    <3>1. Without(mem, u).role = [mem.role EXCEPT ![u] = "none"]
      BY <1>0, WithoutRoles
    <3>2. /\ Commit(Without(mem, u), o) /\ born' = born /\ cleared # {}
          /\ ~SoleAdmin(mem, u)
      BY <2>4 DEF DeleteUser, Spend
    <3>3. Orderly(mem, Without(mem, u)) /\ Members(Without(mem, u)) \subseteq Members(mem)
      BY <3>1, <3>2, <1>0, <1>a, RoleRemoved
    <3> QED
      BY <3>2, <3>3, <1>c, <1>b
  <2>5. ASSUME NEW c \in Codes, NEW off \in BOOLEAN,
               CreateInvite(a, c, o) \/ UpdateInvite(a, c, off, o) \/ DeleteInvite(a, c, o)
        PROVE OrderlyStep
    <3>1. PICK d : Commit(d, o) /\ d.role = mem.role
      <4>1. CASE CreateInvite(a, c, o)
        BY <4>1, <1>0 DEF CreateInvite, Documents, WithCode
      <4>2. CASE UpdateInvite(a, c, off, o)
        BY <4>2, <1>0 DEF UpdateInvite, Documents, WithCodeBarred
      <4>3. CASE DeleteInvite(a, c, o)
        <5> DEFINE d == [mem EXCEPT !.codes = @ \ {c}, !.barred = @ \ {c}]
        <5>1. d.role = mem.role
          BY <1>0 DEF Documents
        <5>2. Commit(d, o)
          BY <4>3 DEF DeleteInvite, WithoutCode
        <5> QED
          BY <5>1, <5>2
      <4> QED
        BY <2>5, <4>1, <4>2, <4>3
    <3>2. born' = born /\ cleared # {}
      BY <2>5 DEF CreateInvite, UpdateInvite, DeleteInvite, Spend, WithCode,
                  WithCodeBarred, WithoutCode
    <3> QED
      BY <3>1, <3>2, <1>k
  <2>6. ASSUME NEW s \in SettingsChoices, UpdateSettings(a, s, o) \/ SettingsHalfApplied(a, s)
        PROVE OrderlyStep
    <3>1. CASE UpdateSettings(a, s, o)
      <4>1. [mem EXCEPT !.setting = s].role = mem.role
        BY <1>0 DEF Documents
      <4> QED
        BY <3>1, <4>1, <1>k DEF UpdateSettings, Spend, WithSettings
    <3>2. CASE SettingsHalfApplied(a, s)
      <4>1. PICK d \in HalfApplied(s) : Commit(d, "failed")
        BY <3>2 DEF SettingsHalfApplied, Commit, HalfApplied, WithSettings
      <4>2. d.role = mem.role
        BY <1>0 DEF Documents, HalfApplied, WithSettings
      <4> QED
        BY <3>2, <4>1, <4>2, <1>k DEF SettingsHalfApplied, Spend, Outcomes
    <3> QED
      BY <2>6, <3>1, <3>2
  <2> QED
    BY <2>1, <2>2, <2>3, <2>4, <2>5, <2>6
<1>4. CASE Restarts
  <2>1. CASE Restart
    <3>1. Orderly(saved, saved)
      BY <1>g, RolesKept
    <3> QED
      BY <2>1, <3>1, <1>b DEF Restart, Load, OrderlyStep
  <2>2. ASSUME NEW u \in Users, NEW k \in Keys, RestartBootstrap(u, k)
        PROVE OrderlyStep
    <3>1. /\ saved' = WithUser(saved, u, "admin", {k}, None)
          /\ mem' = saved' /\ cleared' = {} /\ born' = born \cup {u}
      BY <2>2 DEF RestartBootstrap, Load, Fresh
    <3>a. saved'.role = [saved.role EXCEPT ![u] = "admin"]
      BY <3>1, <1>0, WithUserRoles
    <3>2. saved' \in Documents
      BY <3>1, <1>0, WithUserTyped DEF Roles
    <3>3. Orderly(saved, saved') /\ Members(saved') \subseteq Members(saved) \cup {u}
      BY <3>2, <3>a, <1>0, RoleSet
    <3> QED
      BY <3>1, <3>3, <1>b DEF OrderlyStep
  <2>3. ASSUME NEW u \in Users, NEW v \in Stamps, RestartForced(u, v)
        PROVE OrderlyStep
    <3>1. /\ saved' = [WithPassword(saved, u, v) EXCEPT !.role[u] = "admin", !.off = @ \ {u}]
          /\ mem' = saved' /\ cleared' = {} /\ born' = born /\ u \in Members(saved)
          /\ v \in Nat
      BY <2>3, <1>0 DEF RestartForced, Load, PasswordSet
    <3>a. WithPassword(saved, u, v) \in Documents
      BY <3>1, <1>0, PasswordTyped
    <3>2. WithPassword(saved, u, v).role = saved.role
      BY <1>0, PasswordRoles
    <3>3. saved'.role = [saved.role EXCEPT ![u] = "admin"] /\ saved' \in Documents
      BY <3>1, <3>2, <3>a DEF Documents, Roles
    <3>4. Orderly(saved, saved') /\ Members(saved') \subseteq Members(saved) \cup {u}
      BY <3>3, <1>0, RoleSet
    <3> QED
      BY <3>1, <3>4, <1>b DEF OrderlyStep
  <2> QED
    BY <1>4, <2>1, <2>2, <2>3 DEF Restarts
<1>5. CASE UNCHANGED vars
  BY <1>5, <1>u DEF vars
<1> QED
  BY <1>1, <1>2, <1>3, <1>4, <1>5 DEF Next

LEMMA AdminInit == Init => AdminInv
<1> SUFFICES ASSUME Init PROVE AdminInv
  OBVIOUS
<1>1. CASE mem = Empty /\ born = {}
  BY <1>1, FirstDocument DEF Init, AdminInv, Governed, Empty, Members, Admins
<1>2. ASSUME NEW u \in Users, NEW ks \in SUBSET Keys,
             mem = WithUser(Empty, u, "admin", ks, None) /\ born = {u}
      PROVE  AdminInv
  <2>1. mem.role = [Empty.role EXCEPT ![u] = "admin"]
    BY <1>2, FirstDocument DEF WithUser, Documents
  <2>2. Members(mem) = {u} /\ Admins(mem) = {u}
    BY <2>1 DEF Empty, Members, Admins
  <2> QED
    BY <1>2, <2>2, FirstDocument DEF Init, AdminInv, Governed
<1> QED
  BY <1>1, <1>2, FirstDocument

LEMMA AdminStep == AdminInv /\ OrderlyStep => AdminInv'
<1> SUFFICES ASSUME AdminInv, OrderlyStep PROVE AdminInv'
  OBVIOUS
<1>1. CASE Orderly(mem, mem') /\ saved' \in {saved, mem'} /\ (cleared' # {} => Admins(mem) # {})
  <2>1. Admins(mem) # {} => Admins(mem') # {}
    BY <1>1 DEF Orderly
  <2> QED
    BY <1>1, <2>1 DEF AdminInv, OrderlyStep, Orderly, Governed, Members, Admins
<1>2. CASE Orderly(saved, saved') /\ mem' = saved' /\ cleared' = {}
  BY <1>2 DEF AdminInv, OrderlyStep, Orderly, Governed, Members, Admins
<1> QED
  BY <1>1, <1>2 DEF OrderlyStep

LEMMA AdminInvariant == Spec => []AdminInv
BY TypeCorrect, TypeInit, TypeStep, AdminInit, AdminStep, StepIsOrderly, PTL DEF Spec

\* Once an administrator is on record, memory and record keep one: nobody can
\* be made the first administrator again (update_user, delete_user, setup).
THEOREM AdministratorRemains == Spec => AnAdministratorRemains
<1>1. AdminInv /\ OrderlyStep
        => (Admins(saved) # {} => Admins(saved') # {} /\ Admins(mem') # {})
  BY DEF AdminInv, OrderlyStep, Orderly
<1>2. TypeOK /\ AdminInv /\ [Next]_vars
        => [Admins(saved) # {} => Admins(saved') # {} /\ Admins(mem') # {}]_vars
  BY <1>1, StepIsOrderly
<1> QED
  BY <1>2, TypeCorrect, AdminInvariant, PTL DEF Spec, AnAdministratorRemains

----------------------------------------------------------------------------
(* Revocations last                                                        *)

\* No removed key is in a document, every key in one was generated, and no key
\* has two holders; the sessions in force are no older than the floor.
KeysHold(m, generated, removed) ==
  /\ \A u \in Users : m.keys[u] \subseteq generated \ removed
  /\ \A u, w \in Users : u # w => m.keys[u] \cap m.keys[w] = {}

VersionsHold(m, low, now) ==
  \A u \in Members(m) : low[u] <= m.version[u] /\ m.version[u] <= now

SecretsInv ==
  /\ KeysHold(mem, minted, dead) /\ KeysHold(saved, minted, dead)
  /\ VersionsHold(mem, floor, stamp) /\ VersionsHold(saved, floor, stamp)
  /\ \A u \in Users \ born : floor[u] = 0
  /\ dead \subseteq minted

\* A change of one user's keys: those it gains are fresh, and only those it
\* loses count as removed.
OnlyKeysOf(u, m, next) == \A w \in Users \ {u} : next.keys[w] = m.keys[w]

LEMMA KeysChange ==
  ASSUME NEW m, NEW next, NEW u \in Users,
         NEW generated, NEW removed, NEW more, NEW gone,
         KeysHold(m, generated, removed), removed \subseteq generated,
         OnlyKeysOf(u, m, next),
         next.keys[u] \cap generated \subseteq m.keys[u],
         generated \subseteq more, next.keys[u] \subseteq more,
         gone \subseteq removed \cup (m.keys[u] \ next.keys[u])
  PROVE  KeysHold(next, more, gone)
<1>2. \A w \in Users : w # u => next.keys[w] = m.keys[w]
  BY DEF OnlyKeysOf
<1>3. ASSUME NEW w \in Users
      PROVE  next.keys[w] \subseteq more \ gone
  <2>1. m.keys[w] \subseteq generated \ removed /\ m.keys[u] \subseteq generated \ removed
    BY DEF KeysHold
  <2>2. CASE w = u
    BY <2>1, <2>2
  <2>3. CASE w # u
    <3>1. m.keys[w] \cap m.keys[u] = {}
      BY <2>3 DEF KeysHold
    <3> QED
      BY <2>1, <2>3, <3>1, <1>2
  <2> QED
    BY <2>2, <2>3
<1>4. ASSUME NEW w \in Users, NEW x \in Users, w # x
      PROVE  next.keys[w] \cap next.keys[x] = {}
  <2>1. /\ m.keys[w] \cap m.keys[x] = {}
        /\ m.keys[w] \subseteq generated /\ m.keys[x] \subseteq generated
    BY <1>4 DEF KeysHold
  <2> QED
    BY <2>1, <1>4, <1>2
<1> QED
  BY <1>3, <1>4 DEF KeysHold

\* The keys of one user are set.
LEMMA KeysSet ==
  ASSUME NEW m \in Documents, NEW next, NEW u \in Users, NEW ks,
         next.keys = [m.keys EXCEPT ![u] = ks]
  PROVE  OnlyKeysOf(u, m, next) /\ next.keys[u] = ks
BY DEF OnlyKeysOf, Documents

LEMMA KeysKept ==
  ASSUME NEW m, NEW next, NEW generated, NEW removed, NEW more,
         KeysHold(m, generated, removed), next.keys = m.keys, generated \subseteq more
  PROVE  KeysHold(next, more, removed)
BY DEF KeysHold

\* A change of one user's session version, or the user's removal.
LEMMA VersionsChange ==
  ASSUME NEW m \in Documents, NEW next, NEW u \in Users, NEW v \in Nat,
         NEW low \in [Users -> Nat], NEW newLow \in [Users -> Nat],
         NEW now \in Nat, NEW later \in Nat,
         VersionsHold(m, low, now), now <= later,
         Members(next) \subseteq Members(m) \cup {u},
         next.version = [m.version EXCEPT ![u] = v],
         u \in Members(next) => newLow[u] <= v /\ v <= later,
         \A w \in Users : w # u => newLow[w] = low[w]
  PROVE  VersionsHold(next, newLow, later)
<1> SUFFICES ASSUME NEW w \in Members(next)
             PROVE  newLow[w] <= next.version[w] /\ next.version[w] <= later
  BY DEF VersionsHold
<1>1. w \in Users /\ m.version \in [Users -> Nat]
  BY DEF Members, Documents
<1>2. CASE w = u
  BY <1>1, <1>2
<1>3. CASE w # u
  <2>1. low[w] <= m.version[w] /\ m.version[w] <= now
    BY <1>3 DEF VersionsHold
  <2>2. next.version[w] = m.version[w] /\ newLow[w] = low[w]
    BY <1>1, <1>3
  <2>3. m.version[w] \in Nat /\ low[w] \in Nat
    BY <1>1
  <2> QED
    BY <2>1, <2>2, <2>3
<1> QED
  BY <1>2, <1>3

LEMMA VersionsKept ==
  ASSUME NEW m \in Documents, NEW next, NEW low \in [Users -> Nat],
         NEW now \in Nat, NEW later \in Nat,
         VersionsHold(m, low, now), now <= later,
         Members(next) \subseteq Members(m), next.version = m.version
  PROVE  VersionsHold(next, low, later)
<1> SUFFICES ASSUME NEW w \in Members(next)
             PROVE  low[w] <= next.version[w] /\ next.version[w] <= later
  BY DEF VersionsHold
<1>1. w \in Users /\ m.version \in [Users -> Nat]
  BY DEF Members, Documents
<1>2. low[w] <= m.version[w] /\ m.version[w] <= now
  BY DEF VersionsHold
<1>3. m.version[w] \in Nat /\ low[w] \in Nat
  BY <1>1
<1> QED
  BY <1>2, <1>3

\* The keys and versions in the documents the operations make.
LEMMA WithUserSecrets ==
  ASSUME NEW m \in Documents, NEW u \in Users, NEW r, NEW ks, NEW c
  PROVE  /\ WithUser(m, u, r, ks, c).keys = [m.keys EXCEPT ![u] = ks]
         /\ WithUser(m, u, r, ks, c).version = [m.version EXCEPT ![u] = stamp]
BY DEF Documents, WithUser

LEMMA PasswordSecrets ==
  ASSUME NEW m \in Documents, NEW u \in Users, NEW v
  PROVE  /\ WithPassword(m, u, v).keys = m.keys
         /\ WithPassword(m, u, v).version = [m.version EXCEPT ![u] = v]
BY DEF Documents, WithPassword

LEMMA RecoveredSecrets ==
  ASSUME NEW m \in Documents, NEW u \in Users, NEW k, NEW v
  PROVE  /\ Recovered(m, u, k, v).keys = [m.keys EXCEPT ![u] = {k}]
         /\ Recovered(m, u, k, v).version = [m.version EXCEPT ![u] = v]
BY DEF Documents, Recovered

LEMMA WithoutSecrets ==
  ASSUME NEW m \in Documents, NEW u \in Users
  PROVE  /\ Without(m, u).keys = [m.keys EXCEPT ![u] = {}]
         /\ Without(m, u).version = m.version
BY DEF Documents, Without

LEMMA ConsumedSecrets ==
  ASSUME NEW m \in Documents, NEW c
  PROVE  Consumed(m, c).keys = m.keys /\ Consumed(m, c).version = m.version
BY DEF Documents, Consumed

LEMMA SecretsInit == Init => SecretsInv
<1> SUFFICES ASSUME Init PROVE SecretsInv
  OBVIOUS
<1>1. CASE mem = Empty /\ minted = {}
  BY <1>1, FirstDocument DEF Init, SecretsInv, KeysHold, VersionsHold, Empty, Members
<1>2. ASSUME NEW u \in Users, NEW ks \in SUBSET Keys,
             mem = WithUser(Empty, u, "admin", ks, None) /\ minted = ks
      PROVE  SecretsInv
  <2>1. mem.keys = [Empty.keys EXCEPT ![u] = ks] /\ mem.version = [Empty.version EXCEPT ![u] = 0]
    BY <1>2, FirstDocument DEF WithUser, Documents
  <2>2. KeysHold(mem, minted, dead)
    BY <1>2, <2>1 DEF Init, KeysHold, Empty
  <2>3. VersionsHold(mem, floor, stamp)
    BY <2>1, FirstDocument DEF Init, VersionsHold, Empty, Members
  <2> QED
    BY <2>2, <2>3, FirstDocument DEF Init, SecretsInv
<1> QED
  BY <1>1, <1>2, FirstDocument

LEMMA SecretsStep == TypeOK /\ AdminInv /\ SecretsInv /\ [Next]_vars => SecretsInv'
<1> SUFFICES ASSUME TypeOK, AdminInv, SecretsInv, [Next]_vars PROVE SecretsInv'
  OBVIOUS
<1> USE DEF secretVars, clientVars, historyVars
<1>0. /\ mem \in Documents /\ saved \in Documents /\ stamp \in Nat
      /\ minted \subseteq Keys /\ floor \in [Users -> Nat]
  BY DEF TypeOK
<1>b. Members(mem) \subseteq born /\ Members(saved) \subseteq born
  BY DEF AdminInv
<1>s. /\ KeysHold(mem, minted, dead) /\ KeysHold(saved, minted, dead)
      /\ VersionsHold(mem, floor, stamp) /\ VersionsHold(saved, floor, stamp)
      /\ \A u \in Users \ born : floor[u] = 0
      /\ dead \subseteq minted
  BY DEF SecretsInv
\* An operation that commits d, and revokes only what a saved d revokes.
<1>c. ASSUME NEW d, NEW o \in Outcomes, Commit(d, o),
             KeysHold(d, minted', dead'), VersionsHold(d, floor', stamp'),
             minted \subseteq minted',
             stamp' \in Nat, stamp <= stamp',
             o = "saved" \/ (floor' = floor /\ dead' = dead),
             \A u \in Users \ born' : floor'[u] = 0,
             dead' \subseteq minted'
      PROVE  SecretsInv'
  <2>1. KeysHold(saved', minted', dead') /\ VersionsHold(saved', floor', stamp')
    <3>1. CASE o = "failed"
      <4>1. saved' = saved /\ floor' = floor /\ dead' = dead
        BY <3>1, <1>c DEF Commit
      <4>2. KeysHold(saved, minted', dead)
        BY <1>s, <1>c, KeysKept
      <4>3. VersionsHold(saved, floor, stamp')
        BY <1>s, <1>0, <1>c, VersionsKept
      <4> QED
        BY <4>1, <4>2, <4>3, <1>c
    <3>2. CASE o # "failed"
      BY <3>2, <1>c DEF Commit
    <3> QED
      BY <3>1, <3>2
  <2>2. mem' = d
    BY <1>c DEF Commit
  <2> QED
    BY <2>1, <2>2, <1>c DEF SecretsInv, KeysHold, VersionsHold, Members
\* One that leaves keys and versions alone, and lets nobody in.
<1>k. ASSUME NEW d, NEW o \in Outcomes, Commit(d, o),
             d.keys = mem.keys, d.version = mem.version, Members(d) \subseteq Members(mem),
             UNCHANGED <<stamp, minted, born, historyVars>>
      PROVE  SecretsInv'
  <2>1. KeysHold(d, minted, dead)
    BY <1>k, <1>s, KeysKept
  <2>2. VersionsHold(d, floor, stamp)
    BY <1>k, <1>s, <1>0, VersionsKept
  <2> QED
    BY <2>1, <2>2, <1>k, <1>s, <1>0, <1>c
\* One that leaves both documents as they are.
<1>u. ASSUME UNCHANGED <<mem, saved, stamp, minted, born, historyVars>>
      PROVE  SecretsInv'
  BY <1>u, <1>s DEF SecretsInv, KeysHold, VersionsHold, Members
\* One that lets a user in whose id was not in use.
<1>n. ASSUME NEW m \in Documents, KeysHold(m, minted, dead), VersionsHold(m, floor, stamp),
             NEW u \in Users, u \notin born, NEW r, NEW ks \in SUBSET Keys, NEW c,
             NEW more, ks \cap minted = {}, minted \subseteq more, ks \subseteq more
      PROVE  /\ KeysHold(WithUser(m, u, r, ks, c), more, dead)
             /\ VersionsHold(WithUser(m, u, r, ks, c), floor, stamp)
  <2> DEFINE d == WithUser(m, u, r, ks, c)
  <2>1. d.keys = [m.keys EXCEPT ![u] = ks] /\ d.version = [m.version EXCEPT ![u] = stamp]
    BY <1>n, WithUserSecrets
  <2>2. d.role = [m.role EXCEPT ![u] = r] /\ m.role \in [Users -> Roles]
    BY <1>n, WithUserRoles DEF Documents
  <2> HIDE DEF d
  <2>3. Members(d) \subseteq Members(m) \cup {u}
    BY <2>2 DEF Members
  <2>4. KeysHold(d, more, dead)
    <3>1. OnlyKeysOf(u, m, d) /\ d.keys[u] = ks
      BY <2>1, <1>n, KeysSet
    <3>2. /\ d.keys[u] \cap minted \subseteq m.keys[u]
          /\ d.keys[u] \subseteq more
          /\ dead \subseteq dead \cup (m.keys[u] \ d.keys[u])
      BY <3>1, <1>n
    <3> QED
      BY <3>1, <3>2, <1>n, <1>s, KeysChange
  <2>5. floor[u] = 0
    BY <1>n, <1>s
  <2>6. VersionsHold(d, floor, stamp)
    <3>1. stamp <= stamp /\ floor[u] <= stamp
      BY <2>5, <1>0
    <3>2. \A w \in Users : w # u => floor[w] = floor[w]
      OBVIOUS
    <3> QED
      BY <3>1, <3>2, <2>1, <2>3, <1>n, <1>0, VersionsChange
  <2> QED
    BY <2>4, <2>6 DEF d
\* One that sets a user's password, now.
<1>p. ASSUME NEW m \in Documents, VersionsHold(m, floor, stamp),
             NEW u \in Users, u \in Members(m), NEW v, PasswordSet(v),
             NEW d, Members(d) \subseteq Members(m), d.version = [m.version EXCEPT ![u] = v],
             floor' = floor \/ floor' = [floor EXCEPT ![u] = v]
      PROVE  VersionsHold(d, floor', stamp') /\ stamp' \in Nat /\ stamp <= stamp'
  <2>1. v = stamp + 1 /\ stamp' = v /\ v \in Nat
    BY <1>p, <1>0 DEF PasswordSet
  <2>2. m.version[u] \in Nat /\ floor[u] \in Nat
    BY <1>p, <1>0 DEF Documents
  <2>3. floor[u] <= m.version[u] /\ m.version[u] <= stamp
    BY <1>p DEF VersionsHold
  <2>4. floor[u] <= v
    BY <2>1, <2>2, <2>3, <1>0
  <2>5. floor' \in [Users -> Nat] /\ floor'[u] <= v /\ \A w \in Users : w # u => floor'[w] = floor[w]
    BY <2>1, <2>4, <1>p, <1>0
  <2>6. VersionsHold(d, floor', v)
    <3>1. stamp <= v /\ v <= v
      BY <2>1, <1>0
    <3>2. Members(d) \subseteq Members(m) \cup {u}
      BY <1>p
    <3> QED
      BY <3>1, <3>2, <2>1, <2>5, <1>p, <1>0, VersionsChange
  <2> QED
    BY <2>1, <2>6, <1>0
\* Those not given out yet are not touched by a revocation.
<1>z. ASSUME NEW u \in Users, u \in born, born \subseteq born', NEW v,
             floor' = floor \/ floor' = [floor EXCEPT ![u] = v]
      PROVE  \A w \in Users \ born' : floor'[w] = 0
  BY <1>z, <1>s, <1>0
<1>1. CASE AnonymousRequests
  <2>1. ASSUME NEW u \in Users, NEW k \in Keys, NEW o \in Outcomes, Setup(u, k, o)
        PROVE SecretsInv'
    <3>1. /\ Commit(WithUser(mem, u, "admin", {k}, None), o)
          /\ u \notin born /\ born' = born \cup {u}
          /\ k \notin minted /\ minted' = minted \cup {k}
          /\ stamp' = stamp /\ floor' = floor /\ dead' = dead
      BY <2>1 DEF Setup, Fresh, Mint
    <3>2. /\ KeysHold(WithUser(mem, u, "admin", {k}, None), minted \cup {k}, dead)
          /\ VersionsHold(WithUser(mem, u, "admin", {k}, None), floor, stamp)
      BY <3>1, <1>0, <1>s, <1>n
    <3>3. \A w \in Users \ born' : floor'[w] = 0
      BY <3>1, <1>s
    <3> QED
      BY <3>1, <3>2, <3>3, <1>0, <1>s, <1>c
  <2>2. ASSUME NEW u \in Users, NEW o \in Outcomes, Login(u, o)
        PROVE SecretsInv'
    BY <2>2, <1>k DEF Login
  <2>3. ASSUME NEW u \in Users, NEW c \in Codes \cup {None}, NEW o \in Outcomes, Join(u, c, o)
        PROVE SecretsInv'
    <3>1. /\ u \notin born /\ born' = born \cup {u} /\ minted' = minted
          /\ stamp' = stamp /\ floor' = floor /\ dead' = dead
      BY <2>3 DEF Join, Fresh
    <3>2. \A w \in Users \ born' : floor'[w] = 0
      BY <3>1, <1>s
    <3>3. ASSUME NEW m \in Documents, m.keys = mem.keys, m.version = mem.version, m.role = mem.role,
                 NEW x, Commit(WithUser(m, u, "user", {}, x), o)
          PROVE  SecretsInv'
      <4>1. KeysHold(m, minted, dead) /\ VersionsHold(m, floor, stamp)
        BY <3>3, <1>s DEF KeysHold, VersionsHold, Members
      <4>2. /\ KeysHold(WithUser(m, u, "user", {}, x), minted, dead)
            /\ VersionsHold(WithUser(m, u, "user", {}, x), floor, stamp)
        BY <4>1, <3>1, <1>n
      <4> QED
        BY <4>2, <3>1, <3>2, <3>3, <1>0, <1>s, <1>c
    <3>4. CASE Commit(WithUser(mem, u, "user", {}, None), o)
      BY <3>3, <3>4, <1>0
    <3>5. CASE c \in Codes /\ Commit(WithUser(Consumed(mem, c), u, "user", {}, c), o)
      <4>1. Consumed(mem, c) \in Documents
        BY <3>5, <1>0, ConsumedTyped
      <4>2. Consumed(mem, c).keys = mem.keys /\ Consumed(mem, c).version = mem.version
        BY <1>0, ConsumedSecrets
      <4>3. Consumed(mem, c).role = mem.role
        BY <1>0, ConsumedRoles
      <4> QED
        BY <4>1, <4>2, <4>3, <3>3, <3>5
    <3> QED
      BY <2>3, <3>4, <3>5 DEF Join
  <2>4. ASSUME NEW c \in Codes, JoinFails(c)
        PROVE SecretsInv'
    <3>1. Consumed(mem, c).keys = mem.keys /\ Consumed(mem, c).version = mem.version
      BY <1>0, ConsumedSecrets
    <3>2. Members(Consumed(mem, c)) = Members(mem)
      BY <1>0, ConsumedRoles DEF Members
    <3> QED
      BY <2>4, <3>1, <3>2, <1>k DEF JoinFails, Commit, Outcomes
  <2>5. ASSUME NEW u \in Users, NEW k \in Keys, NEW v \in Stamps, NEW o \in Outcomes,
               Recover(u, k, v, o)
        PROVE SecretsInv'
    <3> DEFINE d == Recovered(mem, u, k, v)
    <3>1. /\ Commit(d, o) /\ PasswordSet(v) /\ u \in Members(mem)
          /\ k \notin minted /\ minted' = minted \cup {k} /\ born' = born
          /\ floor' = floor \/ floor' = [floor EXCEPT ![u] = v]
          /\ dead' = dead \/ dead' = dead \cup mem.keys[u]
          /\ o = "saved" \/ (floor' = floor /\ dead' = dead)
      BY <2>5 DEF Recover, Mint, Revoke, Bury
    <3>2. /\ d.keys = [mem.keys EXCEPT ![u] = {k}]
          /\ d.version = [mem.version EXCEPT ![u] = v]
      BY <1>0, RecoveredSecrets
    <3>3. Members(d) \subseteq Members(mem)
      BY <1>0, RecoveredRoles DEF Members
    <3> HIDE DEF d
    <3>4. VersionsHold(d, floor', stamp') /\ stamp' \in Nat /\ stamp <= stamp'
      BY <3>1, <3>2, <3>3, <1>0, <1>s, <1>p
    <3>5. mem.keys[u] \subseteq minted
      BY <1>s DEF KeysHold
    <3>6. dead' \subseteq minted' /\ minted \subseteq minted'
      BY <3>1, <3>5, <1>s
    <3>7. KeysHold(d, minted', dead')
      <4>1. OnlyKeysOf(u, mem, d) /\ d.keys[u] = {k}
        BY <3>2, <1>0, KeysSet
      <4>2. /\ d.keys[u] \cap minted \subseteq mem.keys[u]
            /\ d.keys[u] \subseteq minted'
            /\ dead' \subseteq dead \cup (mem.keys[u] \ d.keys[u])
        BY <4>1, <3>1, <3>5
      <4> QED
        BY <4>1, <4>2, <3>6, <1>s, KeysChange
    <3>8. \A w \in Users \ born' : floor'[w] = 0
      BY <3>1, <1>b, <1>z
    <3> QED
      BY <3>1, <3>4, <3>6, <3>7, <3>8, <1>c
  <2>6. ASSUME NEW g \in granting, IssueSession(g) \/ DropGrant(g)
        PROVE SecretsInv'
    BY <2>6, <1>u DEF IssueSession, DropGrant
  <2> QED
    BY <1>1, <2>1, <2>2, <2>3, <2>4, <2>5, <2>6 DEF AnonymousRequests, Register,
                                                    LinuxDoComplete, LinuxDoLogin,
                                                    LinuxDoJoin
\* change_password and reset_user_password.
<1>w. ASSUME NEW u \in Users, NEW v \in Stamps, NEW o \in Outcomes,
             u \in Members(mem), PasswordSet(v), Commit(WithPassword(mem, u, v), o),
             Revoke(u, v, o), UNCHANGED <<born, minted, dead>>
      PROVE  SecretsInv'
  <2> DEFINE d == WithPassword(mem, u, v)
  <2>1. /\ floor' = floor \/ floor' = [floor EXCEPT ![u] = v]
        /\ o = "saved" \/ floor' = floor
    BY <1>w DEF Revoke
  <2>2. d.keys = mem.keys /\ d.version = [mem.version EXCEPT ![u] = v]
    BY <1>0, PasswordSecrets
  <2>3. Members(d) \subseteq Members(mem)
    BY <1>0, PasswordRoles DEF Members
  <2> HIDE DEF d
  <2>4. VersionsHold(d, floor', stamp') /\ stamp' \in Nat /\ stamp <= stamp'
    BY <2>1, <2>2, <2>3, <1>w, <1>0, <1>s, <1>p
  <2>5. KeysHold(d, minted, dead)
    BY <2>2, <1>s, KeysKept
  <2>6. minted' = minted /\ dead' = dead
    BY <1>w
  <2>7. \A w \in Users \ born' : floor'[w] = 0
    BY <2>1, <1>w, <1>b, <1>z
  <2>8. Commit(d, o)
    BY <1>w DEF d
  <2> QED
    BY <2>1, <2>4, <2>5, <2>6, <2>7, <2>8, <1>s, <1>c
<1>2. CASE UserRequests
  <2>1. ASSUME NEW u \in Users, NEW r \in Rights, PassAccessCheck(u, r) \/ DropRequest(u, r)
        PROVE SecretsInv'
    BY <2>1, <1>u DEF PassAccessCheck, DropRequest
  <2>2. ASSUME NEW u \in Users, NEW o \in Outcomes, UpdateCloudflare(u, o)
        PROVE SecretsInv'
    BY <2>2, <1>k DEF UpdateCloudflare
  <2>3. ASSUME NEW u \in Users, NEW v \in Stamps, NEW o \in Outcomes, ChangePassword(u, v, o)
        PROVE SecretsInv'
    BY <2>3, <1>w DEF ChangePassword
  <2>4. ASSUME NEW u \in Users, NEW k \in Keys, NEW o \in Outcomes,
               CreateKey(u, k, o) \/ DeleteKey(u, k, o)
        PROVE SecretsInv'
    <3> DEFINE more == mem.keys[u] \cup {k}
               less == mem.keys[u] \ {k}
    <3>2. CASE CreateKey(u, k, o)
      <4> DEFINE d == [mem EXCEPT !.keys[u] = @ \cup {k}]
      <4>1. /\ Commit(d, o) /\ k \notin minted /\ minted' = minted \cup {k}
            /\ born' = born /\ stamp' = stamp /\ floor' = floor /\ dead' = dead
        BY <3>2 DEF CreateKey, Mint, WithKey
      <4>2. d.keys = [mem.keys EXCEPT ![u] = more]
        BY <1>0 DEF Documents
      <4>3. d.version = mem.version /\ Members(d) \subseteq Members(mem)
        BY <1>0 DEF Documents, Members
      <4> HIDE DEF d
      <4>4. KeysHold(d, minted \cup {k}, dead)
        <5>1. OnlyKeysOf(u, mem, d) /\ d.keys[u] = more
          BY <4>2, <1>0, KeysSet
        <5>2. mem.keys[u] \subseteq minted
          BY <1>s DEF KeysHold
        <5>3. /\ d.keys[u] \cap minted \subseteq mem.keys[u]
              /\ minted \subseteq minted \cup {k} /\ d.keys[u] \subseteq minted \cup {k}
              /\ dead \subseteq dead \cup (mem.keys[u] \ d.keys[u])
          BY <5>1, <5>2, <4>1
        <5> QED
          BY <5>1, <5>3, <1>s, KeysChange
      <4>5. VersionsHold(d, floor, stamp)
        BY <4>3, <1>0, <1>s, VersionsKept
      <4> QED
        BY <4>1, <4>4, <4>5, <1>0, <1>s, <1>c
    <3>3. CASE DeleteKey(u, k, o)
      <4> DEFINE d == [mem EXCEPT !.keys[u] = @ \ {k}]
      <4>1. /\ Commit(d, o) /\ k \in mem.keys[u] /\ minted' = minted
            /\ born' = born /\ stamp' = stamp /\ floor' = floor
            /\ dead' = dead \/ dead' = dead \cup {k}
            /\ o = "saved" \/ dead' = dead
        BY <3>3 DEF DeleteKey, Bury, WithoutKey
      <4>2. d.keys = [mem.keys EXCEPT ![u] = less]
        BY <1>0 DEF Documents
      <4>3. d.version = mem.version /\ Members(d) \subseteq Members(mem)
        BY <1>0 DEF Documents, Members
      <4> HIDE DEF d
      <4>4. mem.keys[u] \subseteq minted
        BY <1>s DEF KeysHold
      <4>5. VersionsHold(d, floor, stamp)
        BY <4>3, <1>0, <1>s, VersionsKept
      <4>6. dead' \subseteq minted' /\ minted \subseteq minted'
        BY <4>1, <4>4, <1>s
      <4>7. KeysHold(d, minted', dead')
        <5>1. OnlyKeysOf(u, mem, d) /\ d.keys[u] = less
          BY <4>2, <1>0, KeysSet
        <5>2. /\ d.keys[u] \cap minted \subseteq mem.keys[u]
              /\ d.keys[u] \subseteq minted'
              /\ dead' \subseteq dead \cup (mem.keys[u] \ d.keys[u])
          BY <5>1, <4>1, <4>4
        <5> QED
          BY <5>1, <5>2, <4>6, <1>s, KeysChange
      <4> QED
        BY <4>1, <4>5, <4>6, <4>7, <1>0, <1>s, <1>c
    <3> QED
      BY <2>4, <3>2, <3>3
  <2> QED
    BY <1>2, <2>1, <2>2, <2>3, <2>4 DEF UserRequests, RegenerateKey
<1>3. CASE AdminRequests
  <2> SUFFICES ASSUME NEW a \in Users, NEW o \in Outcomes,
                      \/ \E u \in Users, r \in {"user", "admin"} :
                           \/ CreateUser(a, u, r, o)
                           \/ \E off \in BOOLEAN : UpdateUser(a, u, r, off, o)
                      \/ \E u \in Users, v \in Stamps : ResetPassword(a, u, v, o)
                      \/ \E u \in Users : DeleteUser(a, u, o)
                      \/ \E c \in Codes :
                           \/ CreateInvite(a, c, o)
                           \/ \E off \in BOOLEAN : UpdateInvite(a, c, off, o)
                           \/ DeleteInvite(a, c, o)
                      \/ \E s \in SettingsChoices :
                           UpdateSettings(a, s, o) \/ SettingsHalfApplied(a, s)
               PROVE  SecretsInv'
    BY <1>3 DEF AdminRequests
  <2>1. ASSUME NEW u \in Users, NEW r \in {"user", "admin"}, CreateUser(a, u, r, o)
        PROVE SecretsInv'
    <3>1. /\ Commit(WithUser(mem, u, r, {}, None), o)
          /\ u \notin born /\ born' = born \cup {u} /\ minted' = minted
          /\ stamp' = stamp /\ floor' = floor /\ dead' = dead
      BY <2>1 DEF CreateUser, Fresh
    <3>2. /\ KeysHold(WithUser(mem, u, r, {}, None), minted, dead)
          /\ VersionsHold(WithUser(mem, u, r, {}, None), floor, stamp)
      BY <3>1, <1>0, <1>s, <1>n
    <3>3. \A w \in Users \ born' : floor'[w] = 0
      BY <3>1, <1>s
    <3> QED
      BY <3>1, <3>2, <3>3, <1>0, <1>s, <1>c
  <2>2. ASSUME NEW u \in Users, NEW r \in {"user", "admin"}, NEW off \in BOOLEAN,
               UpdateUser(a, u, r, off, o)
        PROVE SecretsInv'
    <3> DEFINE next == IF off THEN mem.off \cup {u} ELSE mem.off \ {u}
               d == [mem EXCEPT !.role[u] = r, !.off = next]
    <3>1. d.keys = mem.keys /\ d.version = mem.version /\ d.role = [mem.role EXCEPT ![u] = r]
      BY <1>0 DEF Documents
    <3>2. /\ Commit(d, o) /\ u \in Members(mem)
          /\ UNCHANGED <<stamp, minted, born, historyVars>>
      BY <2>2, <1>0 DEF UpdateUser, Documents, Updated
    <3> HIDE DEF d
    <3>3. Members(d) \subseteq Members(mem)
      BY <3>1, <3>2, <1>0 DEF Members, Documents
    <3> QED
      BY <3>1, <3>2, <3>3, <1>k
  <2>3. ASSUME NEW u \in Users, NEW v \in Stamps, ResetPassword(a, u, v, o)
        PROVE SecretsInv'
    BY <2>3, <1>w DEF ResetPassword
  <2>4. ASSUME NEW u \in Users, DeleteUser(a, u, o)
        PROVE SecretsInv'
    <3> DEFINE d == Without(mem, u)
    <3>1. /\ Commit(d, o) /\ u \in Members(mem) /\ minted' = minted
          /\ born' = born /\ stamp' = stamp
          /\ floor' = floor \/ floor' = [floor EXCEPT ![u] = MaxStamp + 1]
          /\ dead' = dead \/ dead' = dead \cup mem.keys[u]
          /\ o = "saved" \/ (floor' = floor /\ dead' = dead)
      BY <2>4 DEF DeleteUser, Revoke, Bury
    <3>2. d.keys = [mem.keys EXCEPT ![u] = {}] /\ d.version = mem.version
      BY <1>0, WithoutSecrets
    <3>3. Members(d) \subseteq Members(mem) \ {u}
      <4>1. d.role = [mem.role EXCEPT ![u] = "none"] /\ mem.role \in [Users -> Roles]
        BY <1>0, WithoutRoles DEF Documents
      <4> HIDE DEF d
      <4> QED
        BY <4>1 DEF Members
    <3> HIDE DEF d
    <3>4. mem.keys[u] \subseteq minted
      BY <1>s DEF KeysHold
    <3>6. dead' \subseteq minted' /\ minted \subseteq minted'
      BY <3>1, <3>4, <1>s
    <3>7. KeysHold(d, minted', dead')
      <4>1. OnlyKeysOf(u, mem, d) /\ d.keys[u] = {}
        BY <3>2, <1>0, KeysSet
      <4>2. /\ d.keys[u] \cap minted \subseteq mem.keys[u]
            /\ d.keys[u] \subseteq minted'
            /\ dead' \subseteq dead \cup (mem.keys[u] \ d.keys[u])
        BY <4>1, <3>1
      <4> QED
        BY <4>1, <4>2, <3>6, <1>s, KeysChange
    <3>8. VersionsHold(d, floor', stamp')
      <4>1. VersionsHold(d, floor, stamp)
        BY <3>2, <3>3, <1>0, <1>s, VersionsKept
      <4>2. \A w \in Members(d) : floor'[w] = floor[w]
        BY <3>1, <3>3, <1>0 DEF Members
      <4> QED
        BY <4>1, <4>2, <3>1 DEF VersionsHold
    <3>9. \A w \in Users \ born' : floor'[w] = 0
      BY <3>1, <1>b, <1>z
    <3> QED
      BY <3>1, <3>6, <3>7, <3>8, <3>9, <1>0, <1>c
  <2>5. ASSUME NEW c \in Codes, NEW off \in BOOLEAN,
               CreateInvite(a, c, o) \/ UpdateInvite(a, c, off, o) \/ DeleteInvite(a, c, o)
        PROVE SecretsInv'
    <3>1. PICK d : Commit(d, o) /\ d.role = mem.role /\ d.keys = mem.keys /\ d.version = mem.version
      <4>1. CASE CreateInvite(a, c, o)
        <5> DEFINE d == [mem EXCEPT !.codes = @ \cup {c}]
        <5>1. d.role = mem.role /\ d.keys = mem.keys /\ d.version = mem.version
          BY <1>0 DEF Documents
        <5> QED
          BY <4>1, <5>1 DEF CreateInvite, WithCode
      <4>2. CASE UpdateInvite(a, c, off, o)
        <5> DEFINE d == [mem EXCEPT !.barred = IF off THEN @ \cup {c} ELSE @ \ {c}]
        <5>1. d.role = mem.role /\ d.keys = mem.keys /\ d.version = mem.version
          BY <1>0 DEF Documents
        <5> QED
          BY <4>2, <5>1 DEF UpdateInvite, WithCodeBarred
      <4>3. CASE DeleteInvite(a, c, o)
        <5> DEFINE d == [mem EXCEPT !.codes = @ \ {c}, !.barred = @ \ {c}]
        <5>1. d.role = mem.role /\ d.keys = mem.keys /\ d.version = mem.version
          BY <1>0 DEF Documents
        <5> QED
          BY <4>3, <5>1 DEF DeleteInvite, WithoutCode
      <4> QED
        BY <2>5, <4>1, <4>2, <4>3
    <3>2. UNCHANGED <<stamp, minted, born, historyVars>>
      BY <2>5 DEF CreateInvite, UpdateInvite, DeleteInvite, WithCode, WithCodeBarred,
                  WithoutCode
    <3>3. Members(d) = Members(mem)
      BY <3>1 DEF Members
    <3> QED
      BY <3>1, <3>2, <3>3, <1>k
  <2>6. ASSUME NEW s \in SettingsChoices, UpdateSettings(a, s, o) \/ SettingsHalfApplied(a, s)
        PROVE SecretsInv'
    <3>1. CASE UpdateSettings(a, s, o)
      <4> DEFINE d == [mem EXCEPT !.setting = s]
      <4>1. d.role = mem.role /\ d.keys = mem.keys /\ d.version = mem.version
        BY <1>0 DEF Documents
      <4>2. Commit(d, o) /\ UNCHANGED <<stamp, minted, born, historyVars>>
        BY <3>1 DEF UpdateSettings, WithSettings
      <4> HIDE DEF d
      <4>3. Members(d) = Members(mem)
        BY <4>1 DEF Members
      <4> QED
        BY <4>1, <4>2, <4>3, <1>k
    <3>2. CASE SettingsHalfApplied(a, s)
      <4>2. PICK d \in HalfApplied(s) :
              Commit(d, "failed") /\ UNCHANGED <<stamp, minted, born, historyVars>>
        BY <3>2 DEF SettingsHalfApplied, Commit, HalfApplied, WithSettings
      <4>1. d.role = mem.role /\ d.keys = mem.keys /\ d.version = mem.version
        BY <1>0 DEF Documents, HalfApplied, WithSettings
      <4>3. Members(d) = Members(mem)
        BY <4>1 DEF Members
      <4> QED
        BY <4>1, <4>2, <4>3, <1>k DEF Outcomes
    <3> QED
      BY <2>6, <3>1, <3>2
  <2> QED
    BY <2>1, <2>2, <2>3, <2>4, <2>5, <2>6
<1>4. CASE Restarts
  <2>1. CASE Restart
    BY <2>1, <1>s DEF Restart, Load, SecretsInv, KeysHold, VersionsHold, Members
  <2>2. ASSUME NEW u \in Users, NEW k \in Keys, RestartBootstrap(u, k)
        PROVE SecretsInv'
    <3>1. /\ saved' = WithUser(saved, u, "admin", {k}, None) /\ mem' = saved'
          /\ u \notin born /\ born' = born \cup {u}
          /\ k \notin minted /\ minted' = minted \cup {k}
          /\ stamp' = stamp /\ floor' = floor /\ dead' = dead
      BY <2>2 DEF RestartBootstrap, Load, Fresh, Mint
    <3>2. /\ KeysHold(WithUser(saved, u, "admin", {k}, None), minted \cup {k}, dead)
          /\ VersionsHold(WithUser(saved, u, "admin", {k}, None), floor, stamp)
      BY <3>1, <1>0, <1>s, <1>n
    <3>3. KeysHold(saved', minted', dead') /\ VersionsHold(saved', floor', stamp')
      BY <3>1, <3>2
    <3>4. \A w \in Users \ born' : floor'[w] = 0
      BY <3>1, <1>s
    <3> QED
      BY <3>1, <3>3, <3>4, <1>s DEF SecretsInv, KeysHold, VersionsHold, Members
  <2>3. ASSUME NEW u \in Users, NEW v \in Stamps, RestartForced(u, v)
        PROVE SecretsInv'
    <3> DEFINE p == WithPassword(saved, u, v)
    <3>1. /\ saved' = [p EXCEPT !.role[u] = "admin", !.off = @ \ {u}]
          /\ mem' = saved' /\ born' = born /\ u \in Members(saved)
          /\ PasswordSet(v) /\ floor' = [floor EXCEPT ![u] = v]
          /\ minted' = minted /\ dead' = dead
      BY <2>3 DEF RestartForced, Load
    <3>2. v \in Nat
      BY <3>1, <1>0 DEF PasswordSet
    <3>3. p \in Documents
      BY <3>2, <1>0, PasswordTyped
    <3>4. p.keys = saved.keys /\ p.version = [saved.version EXCEPT ![u] = v]
      BY <1>0, PasswordSecrets
    <3>5. p.role = saved.role
      BY <1>0, PasswordRoles
    <3> HIDE DEF p
    <3>6. /\ saved'.keys = p.keys /\ saved'.version = p.version
          /\ saved'.role = [p.role EXCEPT ![u] = "admin"]
      BY <3>1, <3>3 DEF Documents
    <3>7. Members(saved') \subseteq Members(saved)
      BY <3>5, <3>6, <3>1, <1>0 DEF Members, Documents
    <3>8. VersionsHold(saved', floor', stamp')
      BY <3>1, <3>4, <3>6, <3>7, <1>0, <1>s, <1>p
    <3>9. KeysHold(saved', minted, dead)
      BY <3>4, <3>6, <1>s DEF KeysHold
    <3>10. \A w \in Users \ born' : floor'[w] = 0
      BY <3>1, <1>b, <1>z
    <3> QED
      BY <3>1, <3>8, <3>9, <3>10, <1>s DEF SecretsInv, KeysHold, VersionsHold, Members
  <2> QED
    BY <1>4, <2>1, <2>2, <2>3 DEF Restarts
<1>5. CASE UNCHANGED vars
  BY <1>5, <1>u DEF vars
<1> QED
  BY <1>1, <1>2, <1>3, <1>4, <1>5 DEF Next

\* Sessions and keys stay revoked once their revocation was saved, whatever
\* saves fail and however often the process starts again (change_password,
\* reset_password_with_recovery, delete_user, delete_api_key).
THEOREM RevocationsLast == Spec => []RevokedStaysRevoked
<1>1. TypeOK /\ SecretsInv => RevokedStaysRevoked
  <2> SUFFICES ASSUME TypeOK, SecretsInv PROVE RevokedStaysRevoked
    OBVIOUS
  <2>1. ASSUME NEW t \in sessions, AcceptsSession(mem, t)
        PROVE  t.version >= floor[t.user]
    <3>1. t.user \in Members(mem) /\ t.user \in Users /\ t.version = mem.version[t.user]
      BY <2>1 DEF AcceptsSession, TypeOK, Tokens
    <3>2. floor[t.user] <= mem.version[t.user]
      BY <3>1 DEF SecretsInv, VersionsHold
    <3>3. floor[t.user] \in Nat /\ mem.version[t.user] \in Nat
      BY <3>1 DEF TypeOK, Documents
    <3> QED
      BY <3>1, <3>2, <3>3
  <2>2. \A u \in Users, k \in dead : ~AcceptsKey(mem, u, k)
    BY DEF SecretsInv, KeysHold, AcceptsKey
  <2> QED
    BY <2>1, <2>2 DEF RevokedStaysRevoked
<1> QED
  BY <1>1, TypeCorrect, AdminInvariant, SecretsInit, SecretsStep, PTL DEF Spec

----------------------------------------------------------------------------
(* Invites are bounded                                                     *)

LetIn(m, c) == {u \in Users : m.via[u] = c}

\* A document counts every user a code let in, and counts no more than it
\* allows; an id not given out was let in by none.
InvitesHold(m, given) ==
  /\ \A c \in Codes : Cardinality(LetIn(m, c)) <= m.uses[c] /\ m.uses[c] <= MaxUses[c]
  /\ \A u \in Users \ given : m.via[u] = None

InvitesInv == InvitesHold(mem, born) /\ InvitesHold(saved, born)

\* The set of those let in is finite, and its size a number.
LEMMA LetInFinite ==
  ASSUME NEW m, NEW c
  PROVE  IsFiniteSet(LetIn(m, c)) /\ Cardinality(LetIn(m, c)) \in Nat
<1>1. IsFiniteSet(LetIn(m, c))
  BY ConsoleAssumption, FS_Subset DEF LetIn
<1> QED
  BY <1>1, FS_CardinalityType

LEMMA InvitesKept ==
  ASSUME NEW m, NEW next, NEW given, NEW more, InvitesHold(m, given), given \subseteq more,
         next.via = m.via, next.uses = m.uses
  PROVE  InvitesHold(next, more)
BY DEF InvitesHold, LetIn

\* A new user comes in without a code.
LEMMA FreeJoin ==
  ASSUME NEW m \in Documents, NEW next, NEW given, NEW more, NEW u \in Users \ given,
         InvitesHold(m, given), given \subseteq more,
         next.via = [m.via EXCEPT ![u] = None], next.uses = m.uses
  PROVE  InvitesHold(next, more)
<1>1. m.via[u] = None /\ m.via \in [Users -> Codes \cup {None}]
  BY DEF InvitesHold, Documents
<1>2. next.via = m.via
  BY <1>1
<1> QED
  BY <1>2, InvitesKept

\* A use is counted that lets nobody in.
LEMMA LostUse ==
  ASSUME NEW m \in Documents, NEW c \in Codes, NEW given,
         InvitesHold(m, given), Available(m, c)
  PROVE  InvitesHold(Consumed(m, c), given)
<1> DEFINE d == Consumed(m, c)
<1>1. d.via = m.via /\ d.uses = [m.uses EXCEPT ![c] = @ + 1]
  BY DEF Consumed, Documents
<1>2. m.uses \in [Codes -> Nat] /\ m.uses[c] < MaxUses[c] /\ MaxUses[c] \in Nat
  BY ConsoleAssumption DEF Available, Documents
<1> HIDE DEF d
<1>3. ASSUME NEW b \in Codes
      PROVE  Cardinality(LetIn(d, b)) <= d.uses[b] /\ d.uses[b] <= MaxUses[b]
  <2>1. LetIn(d, b) = LetIn(m, b) /\ Cardinality(LetIn(m, b)) \in Nat
    BY <1>1, LetInFinite DEF LetIn
  <2>2. Cardinality(LetIn(m, b)) <= m.uses[b] /\ m.uses[b] <= MaxUses[b] /\ m.uses[b] \in Nat
    BY <1>2 DEF InvitesHold
  <2>3. d.uses[b] = IF b = c THEN m.uses[c] + 1 ELSE m.uses[b]
    BY <1>1, <1>2
  <2> QED
    BY <2>1, <2>2, <2>3, <1>2
<1>4. \A u \in Users \ given : d.via[u] = None
  BY <1>1 DEF InvitesHold
<1> QED
  BY <1>3, <1>4 DEF InvitesHold, d

\* A new user comes in by a code.
LEMMA InvitedJoin ==
  ASSUME NEW m \in Documents, NEW c \in Codes, NEW given, NEW u \in Users \ given,
         NEW next, InvitesHold(m, given), Available(m, c),
         next.via = [m.via EXCEPT ![u] = c],
         next.uses = [m.uses EXCEPT ![c] = m.uses[c] + 1]
  PROVE  InvitesHold(next, given \cup {u})
<1>1. /\ m.uses \in [Codes -> Nat] /\ m.uses[c] < MaxUses[c] /\ MaxUses[c] \in Nat
      /\ m.via \in [Users -> Codes \cup {None}]
  BY ConsoleAssumption DEF Available, Documents
<1>2. m.via[u] = None /\ None \notin Codes
  BY ConsoleAssumption DEF InvitesHold
<1>3. ASSUME NEW b \in Codes
      PROVE  Cardinality(LetIn(next, b)) <= next.uses[b] /\ next.uses[b] <= MaxUses[b]
  <2>1. /\ IsFiniteSet(LetIn(m, b)) /\ Cardinality(LetIn(m, b)) \in Nat
        /\ Cardinality(LetIn(m, b)) <= m.uses[b] /\ m.uses[b] <= MaxUses[b]
        /\ m.uses[b] \in Nat
    BY <1>1, LetInFinite DEF InvitesHold
  <2>2. CASE b = c
    <3>1. LetIn(next, b) = LetIn(m, b) \cup {u} /\ u \notin LetIn(m, b)
      BY <2>2, <1>1, <1>2 DEF LetIn
    <3>2. Cardinality(LetIn(next, b)) = Cardinality(LetIn(m, b)) + 1
      BY <2>1, <3>1, FS_AddElement
    <3>3. next.uses[b] = m.uses[b] + 1
      BY <2>2, <1>1
    <3> QED
      BY <2>1, <2>2, <3>2, <3>3, <1>1
  <2>3. CASE b # c
    <3>1. LetIn(next, b) = LetIn(m, b)
      BY <2>3, <1>1, <1>2 DEF LetIn
    <3>2. next.uses[b] = m.uses[b]
      BY <2>3, <1>1
    <3> QED
      BY <2>1, <3>1, <3>2
  <2> QED
    BY <2>2, <2>3
<1>4. \A w \in Users \ (given \cup {u}) : next.via[w] = None
  BY <1>1 DEF InvitesHold
<1> QED
  BY <1>3, <1>4 DEF InvitesHold

\* The invites in the documents the operations make.
LEMMA WithUserInvites ==
  ASSUME NEW m \in Documents, NEW u \in Users, NEW r, NEW ks, NEW c
  PROVE  /\ WithUser(m, u, r, ks, c).via = [m.via EXCEPT ![u] = c]
         /\ WithUser(m, u, r, ks, c).uses = m.uses
BY DEF Documents, WithUser

LEMMA OtherInvites ==
  ASSUME NEW m \in Documents, NEW u \in Users, NEW k, NEW v
  PROVE  /\ WithPassword(m, u, v).via = m.via /\ WithPassword(m, u, v).uses = m.uses
         /\ Recovered(m, u, k, v).via = m.via /\ Recovered(m, u, k, v).uses = m.uses
         /\ Without(m, u).via = m.via /\ Without(m, u).uses = m.uses
BY DEF Documents, WithPassword, Recovered, Without

LEMMA InvitesInit == Init => InvitesInv
<1> SUFFICES ASSUME Init PROVE InvitesHold(mem, born)
  BY FirstDocument DEF InvitesInv
<1>1. mem.uses = Empty.uses /\ \A u \in Users : mem.via[u] = None
  <2>1. CASE mem = Empty
    BY <2>1 DEF Empty
  <2>2. ASSUME NEW u \in Users, NEW ks \in SUBSET Keys,
               mem = WithUser(Empty, u, "admin", ks, None)
        PROVE  mem.uses = Empty.uses /\ \A w \in Users : mem.via[w] = None
    <3>1. mem.uses = Empty.uses /\ mem.via = [Empty.via EXCEPT ![u] = None]
      BY <2>2, FirstDocument, WithUserInvites
    <3>2. Empty.via = [w \in Users |-> None]
      BY DEF Empty
    <3> QED
      BY <3>1, <3>2
  <2> QED
    BY <2>1, <2>2, FirstDocument
<1>2. ASSUME NEW c \in Codes
      PROVE  Cardinality(LetIn(mem, c)) <= mem.uses[c] /\ mem.uses[c] <= MaxUses[c]
  <2>1. LetIn(mem, c) = {}
    BY <1>1, ConsoleAssumption DEF LetIn
  <2>2. mem.uses[c] = 0 /\ MaxUses[c] \in Nat
    BY <1>1, ConsoleAssumption DEF Empty
  <2> QED
    BY <2>1, <2>2, FS_EmptySet
<1> QED
  BY <1>1, <1>2 DEF InvitesHold

LEMMA InvitesStep == TypeOK /\ InvitesInv /\ [Next]_vars => InvitesInv'
<1> SUFFICES ASSUME TypeOK, InvitesInv, [Next]_vars PROVE InvitesInv'
  OBVIOUS
<1> USE DEF secretVars, clientVars, historyVars
<1>0. mem \in Documents /\ saved \in Documents
  BY DEF TypeOK
<1>i. InvitesHold(mem, born) /\ InvitesHold(saved, born)
  BY DEF InvitesInv
\* An operation that commits d.
<1>c. ASSUME NEW d, NEW o \in Outcomes, Commit(d, o), InvitesHold(d, born'),
             born \subseteq born'
      PROVE  InvitesInv'
  <2>1. InvitesHold(saved, born')
    BY <1>c, <1>i, InvitesKept
  <2>2. mem' = d /\ saved' \in {saved, d}
    BY <1>c DEF Commit
  <2>3. InvitesHold(mem', born') /\ InvitesHold(saved', born')
    BY <2>1, <2>2, <1>c
  <2> QED
    BY <2>3 DEF InvitesInv, InvitesHold, LetIn
\* One that leaves the invites alone.
<1>k. ASSUME NEW d, NEW o \in Outcomes, Commit(d, o), born' = born,
             d.via = mem.via, d.uses = mem.uses
      PROVE  InvitesInv'
  <2>1. InvitesHold(d, born)
    BY <1>k, <1>i, InvitesKept
  <2> QED
    BY <2>1, <1>k, <1>c
\* One that leaves both documents as they are.
<1>u. ASSUME UNCHANGED <<mem, saved, born>> PROVE InvitesInv'
  BY <1>u, <1>i DEF InvitesInv, InvitesHold, LetIn
\* One that lets a new user in without a code.
<1>n. ASSUME NEW u \in Users, u \notin born, born' = born \cup {u}, NEW r, NEW ks,
             NEW o \in Outcomes, Commit(WithUser(mem, u, r, ks, None), o)
      PROVE  InvitesInv'
  <2>1. /\ WithUser(mem, u, r, ks, None).via = [mem.via EXCEPT ![u] = None]
        /\ WithUser(mem, u, r, ks, None).uses = mem.uses
    BY <1>0, WithUserInvites
  <2>2. InvitesHold(WithUser(mem, u, r, ks, None), born')
    BY <2>1, <1>n, <1>0, <1>i, FreeJoin
  <2> QED
    BY <2>2, <1>n, <1>c
<1>1. CASE AnonymousRequests
  <2>1. ASSUME NEW u \in Users, NEW k \in Keys, NEW o \in Outcomes, Setup(u, k, o)
        PROVE InvitesInv'
    BY <2>1, <1>n DEF Setup, Fresh
  <2>2. ASSUME NEW u \in Users, NEW o \in Outcomes, Login(u, o)
        PROVE InvitesInv'
    BY <2>2, <1>k DEF Login
  <2>3. ASSUME NEW u \in Users, NEW c \in Codes \cup {None}, NEW o \in Outcomes, Join(u, c, o)
        PROVE InvitesInv'
    <3>1. u \in Users \ born /\ born' = born \cup {u}
      BY <2>3 DEF Join, Fresh
    <3>2. CASE Commit(WithUser(mem, u, "user", {}, None), o)
      BY <3>1, <3>2, <1>n
    <3>3. CASE /\ c \in Codes /\ Available(mem, c)
               /\ Commit(WithUser(Consumed(mem, c), u, "user", {}, c), o)
      <4> DEFINE d == WithUser(Consumed(mem, c), u, "user", {}, c)
      <4>1. Consumed(mem, c) \in Documents
        BY <3>3, <1>0, ConsumedTyped
      <4>2. /\ Consumed(mem, c).via = mem.via
            /\ Consumed(mem, c).uses = [mem.uses EXCEPT ![c] = mem.uses[c] + 1]
        BY <1>0 DEF Consumed, Documents
      <4>3. /\ d.via = [mem.via EXCEPT ![u] = c]
            /\ d.uses = [mem.uses EXCEPT ![c] = mem.uses[c] + 1]
        BY <4>1, <4>2, WithUserInvites
      <4>4. Commit(d, o)
        BY <3>3
      <4> HIDE DEF d
      <4>5. InvitesHold(d, born \cup {u})
        BY <4>3, <3>1, <3>3, <1>0, <1>i, InvitedJoin
      <4> QED
        BY <4>4, <4>5, <3>1, <1>c
    <3> QED
      BY <2>3, <3>2, <3>3 DEF Join
  <2>4. ASSUME NEW c \in Codes, JoinFails(c)
        PROVE InvitesInv'
    <3>1. Commit(Consumed(mem, c), "failed") /\ Available(mem, c) /\ born' = born
      BY <2>4 DEF JoinFails, Commit
    <3>2. InvitesHold(Consumed(mem, c), born)
      BY <3>1, <1>0, <1>i, LostUse
    <3> QED
      BY <3>1, <3>2, <1>c DEF Outcomes
  <2>5. ASSUME NEW u \in Users, NEW k \in Keys, NEW v \in Stamps, NEW o \in Outcomes,
               Recover(u, k, v, o)
        PROVE InvitesInv'
    BY <2>5, <1>0, <1>k, OtherInvites DEF Recover
  <2>6. ASSUME NEW g \in granting, IssueSession(g) \/ DropGrant(g)
        PROVE InvitesInv'
    BY <2>6, <1>u DEF IssueSession, DropGrant
  <2> QED
    BY <1>1, <2>1, <2>2, <2>3, <2>4, <2>5, <2>6 DEF AnonymousRequests, Register,
                                                    LinuxDoComplete, LinuxDoLogin,
                                                    LinuxDoJoin
<1>2. CASE UserRequests
  <2>1. ASSUME NEW u \in Users, NEW r \in Rights, PassAccessCheck(u, r) \/ DropRequest(u, r)
        PROVE InvitesInv'
    BY <2>1, <1>u DEF PassAccessCheck, DropRequest
  <2>2. ASSUME NEW u \in Users, NEW o \in Outcomes, UpdateCloudflare(u, o)
        PROVE InvitesInv'
    BY <2>2, <1>k DEF UpdateCloudflare
  <2>3. ASSUME NEW u \in Users, NEW v \in Stamps, NEW o \in Outcomes, ChangePassword(u, v, o)
        PROVE InvitesInv'
    BY <2>3, <1>0, <1>k, OtherInvites DEF ChangePassword
  <2>4. ASSUME NEW u \in Users, NEW k \in Keys, NEW o \in Outcomes,
               CreateKey(u, k, o) \/ DeleteKey(u, k, o)
        PROVE InvitesInv'
    <3>1. PICK ks : Commit([mem EXCEPT !.keys[u] = ks], o) /\ born' = born
      BY <2>4 DEF CreateKey, DeleteKey, WithKey, WithoutKey
    <3>2. /\ [mem EXCEPT !.keys[u] = ks].via = mem.via
          /\ [mem EXCEPT !.keys[u] = ks].uses = mem.uses
      BY <1>0 DEF Documents
    <3> QED
      BY <3>1, <3>2, <1>k
  <2> QED
    BY <1>2, <2>1, <2>2, <2>3, <2>4 DEF UserRequests, RegenerateKey
<1>3. CASE AdminRequests
  <2> SUFFICES ASSUME NEW a \in Users, NEW o \in Outcomes,
                      \/ \E u \in Users, r \in {"user", "admin"} :
                           \/ CreateUser(a, u, r, o)
                           \/ \E off \in BOOLEAN : UpdateUser(a, u, r, off, o)
                      \/ \E u \in Users, v \in Stamps : ResetPassword(a, u, v, o)
                      \/ \E u \in Users : DeleteUser(a, u, o)
                      \/ \E c \in Codes :
                           \/ CreateInvite(a, c, o)
                           \/ \E off \in BOOLEAN : UpdateInvite(a, c, off, o)
                           \/ DeleteInvite(a, c, o)
                      \/ \E s \in SettingsChoices :
                           UpdateSettings(a, s, o) \/ SettingsHalfApplied(a, s)
               PROVE  InvitesInv'
    BY <1>3 DEF AdminRequests
  <2>1. ASSUME NEW u \in Users, NEW r \in {"user", "admin"}, CreateUser(a, u, r, o)
        PROVE InvitesInv'
    BY <2>1, <1>n DEF CreateUser, Fresh
  <2>2. ASSUME NEW u \in Users, NEW r \in {"user", "admin"}, NEW off \in BOOLEAN,
               UpdateUser(a, u, r, off, o)
        PROVE InvitesInv'
    <3> DEFINE d == [mem EXCEPT !.role[u] = r, !.off = IF off THEN @ \cup {u} ELSE @ \ {u}]
    <3>1. d.via = mem.via /\ d.uses = mem.uses
      BY <1>0 DEF Documents
    <3> QED
      BY <2>2, <3>1, <1>k DEF UpdateUser, Updated
  <2>3. ASSUME NEW u \in Users, NEW v \in Stamps, ResetPassword(a, u, v, o)
        PROVE InvitesInv'
    BY <2>3, <1>0, <1>k, OtherInvites DEF ResetPassword
  <2>4. ASSUME NEW u \in Users, DeleteUser(a, u, o)
        PROVE InvitesInv'
    BY <2>4, <1>0, <1>k, OtherInvites DEF DeleteUser
  <2>5. ASSUME NEW c \in Codes, NEW off \in BOOLEAN,
               CreateInvite(a, c, o) \/ UpdateInvite(a, c, off, o) \/ DeleteInvite(a, c, o)
        PROVE InvitesInv'
    <3>1. CASE CreateInvite(a, c, o)
      <4> DEFINE d == [mem EXCEPT !.codes = @ \cup {c}]
      <4>1. d.via = mem.via /\ d.uses = mem.uses
        BY <1>0 DEF Documents
      <4> QED
        BY <3>1, <4>1, <1>k DEF CreateInvite, WithCode
    <3>2. CASE UpdateInvite(a, c, off, o)
      <4> DEFINE d == [mem EXCEPT !.barred = IF off THEN @ \cup {c} ELSE @ \ {c}]
      <4>1. d.via = mem.via /\ d.uses = mem.uses
        BY <1>0 DEF Documents
      <4> QED
        BY <3>2, <4>1, <1>k DEF UpdateInvite, WithCodeBarred
    <3>3. CASE DeleteInvite(a, c, o)
      <4> DEFINE d == [mem EXCEPT !.codes = @ \ {c}, !.barred = @ \ {c}]
      <4>1. d.via = mem.via /\ d.uses = mem.uses
        BY <1>0 DEF Documents
      <4> QED
        BY <3>3, <4>1, <1>k DEF DeleteInvite, WithoutCode
    <3> QED
      BY <2>5, <3>1, <3>2, <3>3
  <2>6. ASSUME NEW s \in SettingsChoices, UpdateSettings(a, s, o) \/ SettingsHalfApplied(a, s)
        PROVE InvitesInv'
    <3>1. CASE UpdateSettings(a, s, o)
      <4>1. /\ [mem EXCEPT !.setting = s].via = mem.via
            /\ [mem EXCEPT !.setting = s].uses = mem.uses
        BY <1>0 DEF Documents
      <4> QED
        BY <3>1, <4>1, <1>k DEF UpdateSettings, WithSettings
    <3>2. CASE SettingsHalfApplied(a, s)
      <4>2. PICK d \in HalfApplied(s) : Commit(d, "failed") /\ born' = born
        BY <3>2 DEF SettingsHalfApplied, Commit, HalfApplied, WithSettings
      <4>1. d.via = mem.via /\ d.uses = mem.uses
        BY <1>0 DEF Documents, HalfApplied, WithSettings
      <4> QED
        BY <4>1, <4>2, <1>k DEF Outcomes
    <3> QED
      BY <2>6, <3>1, <3>2
  <2> QED
    BY <2>1, <2>2, <2>3, <2>4, <2>5, <2>6
<1>4. CASE Restarts
  <2>1. CASE Restart
    BY <2>1, <1>i DEF Restart, Load, InvitesInv, InvitesHold, LetIn
  <2>2. ASSUME NEW u \in Users, NEW k \in Keys, RestartBootstrap(u, k)
        PROVE InvitesInv'
    <3>1. /\ saved' = WithUser(saved, u, "admin", {k}, None) /\ mem' = saved'
          /\ u \in Users \ born /\ born' = born \cup {u}
      BY <2>2 DEF RestartBootstrap, Load, Fresh
    <3>2. /\ WithUser(saved, u, "admin", {k}, None).via = [saved.via EXCEPT ![u] = None]
          /\ WithUser(saved, u, "admin", {k}, None).uses = saved.uses
      BY <1>0, WithUserInvites
    <3>3. InvitesHold(WithUser(saved, u, "admin", {k}, None), born')
      BY <3>1, <3>2, <1>0, <1>i, FreeJoin
    <3> QED
      BY <3>1, <3>3 DEF InvitesInv, InvitesHold, LetIn
  <2>3. ASSUME NEW u \in Users, NEW v \in Stamps, RestartForced(u, v)
        PROVE InvitesInv'
    <3> DEFINE p == WithPassword(saved, u, v)
    <3>1. /\ saved' = [p EXCEPT !.role[u] = "admin", !.off = @ \ {u}]
          /\ mem' = saved' /\ born' = born /\ v \in Nat
      BY <2>3 DEF RestartForced, Load, PasswordSet, TypeOK
    <3>2. p \in Documents
      BY <3>1, <1>0, PasswordTyped
    <3>3. p.via = saved.via /\ p.uses = saved.uses
      BY <1>0, OtherInvites
    <3> HIDE DEF p
    <3>4. saved'.via = p.via /\ saved'.uses = p.uses
      BY <3>1, <3>2 DEF Documents
    <3>5. InvitesHold(saved', born)
      BY <3>3, <3>4, <1>i, InvitesKept
    <3> QED
      BY <3>1, <3>5 DEF InvitesInv, InvitesHold, LetIn
  <2> QED
    BY <1>4, <2>1, <2>2, <2>3 DEF Restarts
<1>5. CASE UNCHANGED vars
  BY <1>5, <1>u DEF vars
<1> QED
  BY <1>1, <1>2, <1>3, <1>4, <1>5 DEF Next

\* No code ever lets in more users than it was made for: its use is counted in
\* the same document the user is put in (consume_invite_code_without_saving).
THEOREM InvitesBounded == Spec => []InvitesAreBounded
<1>1. TypeOK /\ InvitesInv => InvitesAreBounded
  <2> SUFFICES ASSUME TypeOK, InvitesInv, NEW m \in {mem, saved}, NEW c \in Codes
               PROVE  Cardinality(LetIn(m, c)) <= MaxUses[c]
    BY DEF InvitesAreBounded, LetIn
  <2>1. Cardinality(LetIn(m, c)) <= m.uses[c] /\ m.uses[c] <= MaxUses[c]
    BY DEF InvitesInv, InvitesHold
  <2>2. m.uses[c] \in Nat /\ MaxUses[c] \in Nat /\ Cardinality(LetIn(m, c)) \in Nat
    BY ConsoleAssumption, LetInFinite DEF TypeOK, Documents
  <2> QED
    BY <2>1, <2>2
<1> QED
  BY <1>1, TypeCorrect, InvitesInit, InvitesStep, PTL DEF Spec
=============================================================================

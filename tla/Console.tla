------------------------------ MODULE Console ------------------------------
(***************************************************************************)
(* Console users (admin_state.rs, routes/admin.rs): their roles, sessions, *)
(* access keys and invite codes.  The whole state is one document that is  *)
(* kept in memory behind a read-write lock.  Every operation changes the   *)
(* memory under the write lock and then writes the document to PostgreSQL; *)
(* when that fails the request answers an error and the memory keeps the   *)
(* change.  Access checks, operations and the issue of a session each take *)
(* the lock on their own, so that others come in between.                  *)
(*                                                                         *)
(* The session version of a user is the time the password was set, in      *)
(* milliseconds.  That it grows takes a clock that is not set back; a hash *)
(* takes longer than a millisecond.                                        *)
(***************************************************************************)
EXTENDS Naturals, FiniteSets

CONSTANTS
  Users,            \* ids that console users may be given
  Keys,             \* access keys that may be generated
  Codes,            \* ids of invite codes
  MaxUses,          \* the max_uses each code is created with
  SettingsChoices,  \* the settings administrators switch between
  FirstSettings,    \* PersistedSystemSettings::default()
  MaxStamp,         \* bound of the times a password is set
  MaxRequests,      \* bound of the requests under way
  MaxSessions,      \* bound of the session tokens issued
  None

Settings == [open : BOOLEAN, invite : BOOLEAN, keyLimit : Nat]

ASSUME ConsoleAssumption ==
  /\ MaxUses \in [Codes -> Nat \ {0}]
  /\ SettingsChoices \subseteq Settings
  /\ FirstSettings \in Settings
  /\ MaxStamp \in Nat /\ MaxRequests \in Nat /\ MaxSessions \in Nat
  /\ None \notin Codes
  /\ IsFiniteSet(Users)

VARIABLES
  mem,       \* AdminStateStore.persisted
  saved,     \* the row of admin_state_store
  stamp,     \* the clock, when a password was last set
  born,      \* user ids given out; Uuid::new_v4 never repeats one
  minted,    \* access keys generated
  granting,  \* users authenticated, whose session is still to be issued
  sessions,  \* session tokens issued; their expiry is left out
  cleared,   \* <<user, right>> of requests past their access check
  floor,     \* history: the session version before which all are revoked
  dead       \* history: keys whose removal was saved

secretVars  == <<stamp, born, minted>>
clientVars  == <<granting, sessions, cleared>>
historyVars == <<floor, dead>>
vars == <<mem, saved, secretVars, clientVars, historyVars>>

Roles == {"none", "user", "admin"}

\* PersistedAdminState.  via is no field of it: it remembers, beyond the
\* user's removal, which code let the user in.
Documents ==
  [role    : [Users -> Roles],
   off     : SUBSET Users,
   version : [Users -> Nat],
   keys    : [Users -> SUBSET Keys],
   codes   : SUBSET Codes,
   barred  : SUBSET Codes,
   uses    : [Codes -> Nat],
   setting : Settings,
   via     : [Users -> Codes \cup {None}]]

\* A session's token carries the version its user had when it was issued.
Tokens == [user : Users, version : Nat]

Rights == {"session", "access", "admin"}

\* Of save(): the row is written, it is not, or it is and the answer is lost.
Outcomes == {"saved", "failed", "lost"}

TypeOK ==
  /\ mem \in Documents
  /\ saved \in Documents
  /\ stamp \in Nat
  /\ born \subseteq Users
  /\ minted \subseteq Keys
  /\ granting \subseteq Users
  /\ sessions \subseteq Tokens
  /\ cleared \subseteq Users \X Rights
  /\ floor \in [Users -> Nat]
  /\ dead \subseteq Keys

Empty ==
  [role    |-> [u \in Users |-> "none"],
   off     |-> {},
   version |-> [u \in Users |-> 0],
   keys    |-> [u \in Users |-> {}],
   codes   |-> {},
   barred  |-> {},
   uses    |-> [c \in Codes |-> 0],
   setting |-> FirstSettings,
   via     |-> [u \in Users |-> None]]

----------------------------------------------------------------------------
(* The document                                                            *)

Members(m) == {u \in Users : m.role[u] # "none"}
Admins(m)  == {u \in Users : m.role[u] = "admin"}

BootstrapRequired(m) == Members(m) = {}

\* Seeded bug: users_total where admin_users_total is meant.
SoleMember(m, u) == Members(m) = {u}

\* An administrator, and admin_users_total is 1.
SoleAdmin(m, u) == Admins(m) = {u}

\* build_console_user, and the user bootstrap_first_admin pushes.
WithUser(m, u, role, keys, code) ==
  [m EXCEPT !.role[u] = role, !.version[u] = stamp, !.keys[u] = keys, !.via[u] = code]

WithPassword(m, u, v) == [m EXCEPT !.version[u] = v]

\* Seeded bug: the sessions are not revoked along with the keys.
RecoveredInSession(m, u, k, v) == [m EXCEPT !.keys[u] = {k}, !.off = @ \ {u}]

\* reset_password_with_recovery.
Recovered(m, u, k, v) ==
  [m EXCEPT !.version[u] = v, !.keys[u] = {k}, !.off = @ \ {u}]

\* Seeded bug: the user is marked, as rows of the store's tables are.
MarkedDeleted(m, u) ==
  [m EXCEPT !.role[u] = "deleted", !.off = @ \ {u}, !.keys[u] = {}]

Without(m, u) == [m EXCEPT !.role[u] = "none", !.off = @ \ {u}, !.keys[u] = {}]

\* create_api_key and delete_api_key.
WithKey(m, u, k) == [m EXCEPT !.keys[u] = @ \cup {k}]
WithoutKey(m, u, k) == [m EXCEPT !.keys[u] = @ \ {k}]

\* update_user.
Updated(m, u, role, off) ==
  [m EXCEPT !.role[u] = role, !.off = IF off THEN @ \cup {u} ELSE @ \ {u}]

\* create_invite_code, update_invite_code, delete_invite_code.
WithCode(m, c) == [m EXCEPT !.codes = @ \cup {c}]
WithCodeBarred(m, c, off) == [m EXCEPT !.barred = IF off THEN @ \cup {c} ELSE @ \ {c}]
WithoutCode(m, c) == [m EXCEPT !.codes = @ \ {c}, !.barred = @ \ {c}]

\* update_system_settings.
WithSettings(m, s) == [m EXCEPT !.setting = s]

\* Seeded bug: the route has validated the code already, before it took the
\* write lock.
AvailableUnlessBarred(m, c) == c \in m.codes \ m.barred

\* ensure_invite_code_available.
Available(m, c) == c \in m.codes \ m.barred /\ m.uses[c] < MaxUses[c]

\* consume_invite_code_without_saving.
Consumed(m, c) == [m EXCEPT !.uses[c] = @ + 1]

\* user_from_claims and authenticate_api_key.
AcceptsSession(m, t) ==
  /\ t.user \in Members(m) \ m.off
  /\ t.version = m.version[t.user]
AcceptsKey(m, u, k) == u \in Members(m) \ m.off /\ k \in m.keys[u]

\* migrate_legacy_single_admin_if_needed: the document of an earlier version has
\* one administrator, with a key or none, and no users.
Migrated(u, ks) == WithUser(Empty, u, "admin", ks, None)

Init ==
  /\ stamp = 0
  /\ \/ mem = Empty /\ born = {} /\ minted = {}
     \/ \E u \in Users, ks \in {{}} \cup {{k} : k \in Keys} :
          mem = Migrated(u, ks) /\ born = {u} /\ minted = ks
  /\ saved = mem
  /\ granting = {} /\ sessions = {} /\ cleared = {}
  /\ floor = [u \in Users |-> 0] /\ dead = {}

----------------------------------------------------------------------------
(* Saving                                                                  *)

\* The write lock is held until save() answers.
Commit(m, outcome) ==
  /\ mem' = m
  /\ saved' = IF outcome = "failed" THEN saved ELSE m

\* Some operation of u on a request that passed its access check.
Spend(u, right) == <<u, right>> \in cleared /\ cleared' = cleared \ {<<u, right>>}

\* The user's password has just been set: v is the time.
PasswordSet(v) == stamp < MaxStamp /\ v = stamp + 1 /\ stamp' = v

Revoke(u, v, outcome) ==
  floor' = IF outcome = "saved" THEN [floor EXCEPT ![u] = v] ELSE floor

Bury(ks, outcome) == dead' = IF outcome = "saved" THEN dead \cup ks ELSE dead

\* An answer other than an error goes on to open a session.
Grant(u, outcome) ==
  granting' = IF outcome = "saved" THEN granting \cup {u} ELSE granting

\* The bound on requests under way.
Room == Cardinality(granting) + Cardinality(cleared) < MaxRequests

Fresh(u) == u \notin born /\ born' = born \cup {u}
Mint(k) == k \notin minted /\ minted' = minted \cup {k}

----------------------------------------------------------------------------
(* Anonymous requests                                                      *)

\* setup.
Setup(u, k, outcome) ==
  /\ Room
  /\ BootstrapRequired(mem)
  /\ Fresh(u) /\ Mint(k)
  /\ Commit(WithUser(mem, u, "admin", {k}, None), outcome)
  /\ Grant(u, outcome)
  /\ UNCHANGED <<stamp, sessions, cleared, historyVars>>

\* What a login records of itself is left out, but the document is saved as it is.
Login(u, outcome) ==
  /\ Room
  /\ u \in Members(mem) \ mem.off
  /\ Commit(mem, outcome)
  /\ Grant(u, outcome)
  /\ UNCHANGED <<secretVars, sessions, cleared, historyVars>>

\* create_public_user: a new user, by an invite code where one is asked for.
Join(u, code, outcome) ==
  /\ Room
  /\ ~BootstrapRequired(mem)
  /\ Fresh(u)
  /\ \/ /\ ~mem.setting.invite
        /\ code = None
        /\ Commit(WithUser(mem, u, "user", {}, None), outcome)
     \/ /\ mem.setting.invite
        /\ code \in Codes
        /\ Available(mem, code)
        /\ Commit(WithUser(Consumed(mem, code), u, "user", {}, code), outcome)
  /\ Grant(u, outcome)
  /\ UNCHANGED <<stamp, minted, sessions, cleared, historyVars>>

Register(u, code, outcome) ==
  /\ mem.setting.open
  /\ Join(u, code, outcome)

\* authenticate_linux_do of a user who is linked already, and of a new one.
LinuxDoLogin(u, outcome) == Login(u, outcome)
LinuxDoJoin(u, code, outcome) == Join(u, code, outcome)

\* linux_do_complete looks at open before it asks linux.do who the user is: a
\* user may come in after registration was closed.  Without a code that is
\* available the user gets a token to come again with, and nothing is changed.
LinuxDoComplete(u, code, outcome) ==
  /\ ~BootstrapRequired(mem)
  /\ LinuxDoLogin(u, outcome) \/ LinuxDoJoin(u, code, outcome)

\* The password's hash fails after the code was consumed: nothing is saved.
JoinFails(code) ==
  /\ ~BootstrapRequired(mem)
  /\ mem.setting.invite
  /\ Available(mem, code)
  /\ mem' = Consumed(mem, code)
  /\ UNCHANGED <<saved, secretVars, clientVars, historyVars>>

\* recover, with the operator's token: an operation on users of either role.
Recover(u, k, v, outcome) ==
  /\ Room
  /\ u \in Members(mem)
  /\ PasswordSet(v) /\ Mint(k)
  /\ Commit(Recovered(mem, u, k, v), outcome)
  /\ Revoke(u, v, outcome)
  /\ Bury(mem.keys[u], outcome)
  /\ Grant(u, outcome)
  /\ UNCHANGED <<born, sessions, cleared>>

\* load_session_info and issue_session_token read the document again: the
\* token carries the version of that moment.
IssueSession(u) ==
  /\ u \in granting
  /\ Cardinality(sessions) < MaxSessions
  /\ granting' = granting \ {u}
  /\ u \in Members(mem)
  /\ sessions' = sessions \cup {[user |-> u, version |-> mem.version[u]]}
  /\ UNCHANGED <<mem, saved, secretVars, cleared, historyVars>>

\* The session cannot be issued: the user is gone, or the client.
DropGrant(u) ==
  /\ u \in granting
  /\ granting' = granting \ {u}
  /\ UNCHANGED <<mem, saved, secretVars, sessions, cleared, historyVars>>

----------------------------------------------------------------------------
(* Requests of console users                                               *)

\* require_console_session_user, require_console_access, require_admin_access.
PassAccessCheck(u, right) ==
  /\ Room
  /\ \/ \E t \in sessions : t.user = u /\ AcceptsSession(mem, t)
     \/ right # "session" /\ \E k \in Keys : AcceptsKey(mem, u, k)
  /\ right = "admin" => u \in Admins(mem)
  /\ <<u, right>> \notin cleared
  /\ cleared' = cleared \cup {<<u, right>>}
  /\ UNCHANGED <<mem, saved, secretVars, granting, sessions, historyVars>>

\* The operation refuses, only reads, or never comes.
DropRequest(u, right) ==
  /\ Spend(u, right)
  /\ UNCHANGED <<mem, saved, secretVars, granting, sessions, historyVars>>

\* update_cloudflare_settings: the user's own fields, left out here.
UpdateCloudflare(u, outcome) ==
  /\ Spend(u, "access")
  /\ u \in Members(mem)
  /\ Commit(mem, outcome)
  /\ UNCHANGED <<secretVars, granting, sessions, historyVars>>

ChangePassword(u, v, outcome) ==
  /\ Spend(u, "session")
  /\ u \in Members(mem)
  /\ PasswordSet(v)
  /\ Commit(WithPassword(mem, u, v), outcome)
  /\ Revoke(u, v, outcome)
  /\ UNCHANGED <<born, minted, granting, sessions, dead>>

CreateKey(u, k, outcome) ==
  /\ Spend(u, "session")
  /\ u \in Members(mem)
  /\ Cardinality(mem.keys[u]) < mem.setting.keyLimit
  /\ Mint(k)
  /\ Commit(WithKey(mem, u, k), outcome)
  /\ UNCHANGED <<stamp, born, granting, sessions, historyVars>>

\* regenerate_access_key adds a key too: the audit calls it a rotation, but the
\* keys that are there stay.
RegenerateKey(u, k, outcome) == CreateKey(u, k, outcome)

DeleteKey(u, k, outcome) ==
  /\ Spend(u, "session")
  /\ u \in Members(mem)
  /\ k \in mem.keys[u]
  /\ Commit(WithoutKey(mem, u, k), outcome)
  /\ Bury({k}, outcome)
  /\ UNCHANGED <<secretVars, granting, sessions, floor>>

----------------------------------------------------------------------------
(* Requests of administrators                                              *)

CreateUser(a, u, role, outcome) ==
  /\ Spend(a, "admin")
  /\ Fresh(u)
  /\ Commit(WithUser(mem, u, role, {}, None), outcome)
  /\ UNCHANGED <<stamp, minted, granting, sessions, historyVars>>

UpdateUser(a, u, role, off, outcome) ==
  /\ Spend(a, "admin")
  /\ u \in Members(mem)
  /\ SoleAdmin(mem, u) => role = "admin" /\ ~off
  /\ Commit(Updated(mem, u, role, off), outcome)
  /\ UNCHANGED <<secretVars, granting, sessions, historyVars>>

ResetPassword(a, u, v, outcome) ==
  /\ Spend(a, "admin")
  /\ u \in Members(mem)
  /\ PasswordSet(v)
  /\ Commit(WithPassword(mem, u, v), outcome)
  /\ Revoke(u, v, outcome)
  /\ UNCHANGED <<born, minted, granting, sessions, dead>>

\* The route counts the user's domains and mailboxes first and refuses when
\* there are any (DropRequest).
DeleteUser(a, u, outcome) ==
  /\ Spend(a, "admin")
  /\ u \in Members(mem)
  /\ ~SoleAdmin(mem, u)
  /\ Commit(Without(mem, u), outcome)
  /\ Revoke(u, MaxStamp + 1, outcome)
  /\ Bury(mem.keys[u], outcome)
  /\ UNCHANGED <<secretVars, granting, sessions>>

\* An id that no document shows stands for a new one.
CreateInvite(a, c, outcome) ==
  /\ Spend(a, "admin")
  /\ c \notin mem.codes \cup saved.codes
  /\ mem.uses[c] = 0 /\ saved.uses[c] = 0
  /\ Commit(WithCode(mem, c), outcome)
  /\ UNCHANGED <<secretVars, granting, sessions, historyVars>>

UpdateInvite(a, c, off, outcome) ==
  /\ Spend(a, "admin")
  /\ c \in mem.codes
  /\ Commit(WithCodeBarred(mem, c, off), outcome)
  /\ UNCHANGED <<secretVars, granting, sessions, historyVars>>

DeleteInvite(a, c, outcome) ==
  /\ Spend(a, "admin")
  /\ c \in mem.codes
  /\ Commit(WithoutCode(mem, c), outcome)
  /\ UNCHANGED <<secretVars, granting, sessions, historyVars>>

UpdateSettings(a, s, outcome) ==
  /\ Spend(a, "admin")
  /\ Commit(WithSettings(mem, s), outcome)
  /\ UNCHANGED <<secretVars, granting, sessions, historyVars>>

\* A later field is refused when the registration settings, or they and the
\* user limits, are already set: the notice comes last.
HalfApplied(s) == {[mem EXCEPT !.setting.open = s.open, !.setting.invite = s.invite],
                   WithSettings(mem, s)}

SettingsHalfApplied(a, s) ==
  /\ Spend(a, "admin")
  /\ mem' \in HalfApplied(s)
  /\ UNCHANGED <<saved, secretVars, granting, sessions, historyVars>>

----------------------------------------------------------------------------
(* The process                                                             *)

\* AdminStateStore::load.  Requests under way are lost.
Load(m) ==
  /\ mem' = m
  /\ granting' = {} /\ cleared' = {}
  /\ UNCHANGED sessions

Restart ==
  /\ Load(saved)
  /\ UNCHANGED <<saved, secretVars, historyVars>>

\* TMPMAIL_ADMIN_PASSWORD creates the first administrator; its key is thrown
\* away.  The process does not start unless this is saved.
RestartBootstrap(u, k) ==
  /\ BootstrapRequired(saved)
  /\ Fresh(u) /\ Mint(k)
  /\ saved' = WithUser(saved, u, "admin", {k}, None)
  /\ Load(saved')
  /\ UNCHANGED <<stamp, historyVars>>

\* Mode force: the user who is called admin gets that password, the role, and
\* is enabled.
RestartForced(u, v) ==
  /\ u \in Members(saved)
  /\ PasswordSet(v)
  /\ saved' = [WithPassword(saved, u, v) EXCEPT !.role[u] = "admin", !.off = @ \ {u}]
  /\ Load(saved')
  /\ floor' = [floor EXCEPT ![u] = v]
  /\ UNCHANGED <<born, minted, dead>>

----------------------------------------------------------------------------

Stamps == 0..MaxStamp

AnonymousRequests ==
  \/ \E u \in Users, k \in Keys, o \in Outcomes : Setup(u, k, o)
  \/ \E u \in Users, o \in Outcomes : Login(u, o)
  \/ \E u \in Users, c \in Codes \cup {None}, o \in Outcomes :
       Register(u, c, o) \/ LinuxDoComplete(u, c, o)
  \/ \E c \in Codes : JoinFails(c)
  \/ \E u \in Users, k \in Keys, v \in Stamps, o \in Outcomes : Recover(u, k, v, o)
  \/ \E u \in granting : IssueSession(u) \/ DropGrant(u)

UserRequests ==
  \/ \E u \in Users, r \in Rights : PassAccessCheck(u, r) \/ DropRequest(u, r)
  \/ \E u \in Users, o \in Outcomes : UpdateCloudflare(u, o)
  \/ \E u \in Users, v \in Stamps, o \in Outcomes : ChangePassword(u, v, o)
  \/ \E u \in Users, k \in Keys, o \in Outcomes :
       CreateKey(u, k, o) \/ RegenerateKey(u, k, o) \/ DeleteKey(u, k, o)

AdminRequests ==
  \E a \in Users, o \in Outcomes :
    \/ \E u \in Users, r \in {"user", "admin"} :
         \/ CreateUser(a, u, r, o)
         \/ \E off \in BOOLEAN : UpdateUser(a, u, r, off, o)
    \/ \E u \in Users, v \in Stamps : ResetPassword(a, u, v, o)
    \/ \E u \in Users : DeleteUser(a, u, o)
    \/ \E c \in Codes :
         \/ CreateInvite(a, c, o)
         \/ \E off \in BOOLEAN : UpdateInvite(a, c, off, o)
         \/ DeleteInvite(a, c, o)
    \/ \E s \in SettingsChoices : UpdateSettings(a, s, o) \/ SettingsHalfApplied(a, s)

Restarts ==
  \/ Restart
  \/ \E u \in Users, k \in Keys : RestartBootstrap(u, k)
  \/ \E u \in Users, v \in Stamps : RestartForced(u, v)

Next == AnonymousRequests \/ UserRequests \/ AdminRequests \/ Restarts

Spec == Init /\ [][Next]_vars

----------------------------------------------------------------------------
(* Properties                                                              *)

\* Once a password change, a recovery, or the removal of a user or a key was
\* saved, the sessions and keys it revoked are never accepted again: not after
\* failed saves, not after a restart that loads the document.
RevokedStaysRevoked ==
  /\ \A t \in sessions : AcceptsSession(mem, t) => t.version >= floor[t.user]
  /\ \A u \in Users, k \in dead : ~AcceptsKey(mem, u, k)

\* However its consumption, failed saves and restarts interleave, no more users
\* have come in by an invite code than its max_uses, those removed since
\* included.
InvitesAreBounded ==
  \A m \in {mem, saved}, c \in Codes :
    Cardinality({u \in Users : m.via[u] = c}) <= MaxUses[c]

\* Once there is an administrator on record, memory and record keep one: the
\* bootstrap that makes anybody the first administrator is never open again.
AnAdministratorRemains ==
  [][Admins(saved) # {} => Admins(saved') # {} /\ Admins(mem') # {}]_vars

\* "the last administrator cannot be disabled" (update_user).
LastAdministratorStaysEnabled ==
  [][Admins(saved) \ saved.off # {} => Admins(saved') \ saved'.off # {}]_vars
=============================================================================

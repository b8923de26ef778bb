----------------------------- MODULE DomainBatch -----------------------------
(***************************************************************************)
(* The dialog that adds a batch of domains (domain-management-page.tsx):   *)
(* the Cloudflare zones it loads when it opens, each load under a number   *)
(* that makes the answers of earlier ones stale, and the loop that creates *)
(* a domain and synchronizes its records, one after the other, whatever    *)
(* fails in between.                                                       *)
(*                                                                         *)
(* Which names the loop makes up is left out: the nth domain of a batch is *)
(* n.  The dialog is modal, so nothing else of the page is clicked; but    *)
(* what was clicked before may be answered, and change the Cloudflare      *)
(* settings.  What the batch does to the list of domains is in             *)
(* ConsoleLists.                                                           *)
(***************************************************************************)
EXTENDS Naturals, FiniteSets

CONSTANTS
  MaxBatch,    \* domains a batch may ask for (MAX_BATCH_MANAGED_DOMAINS)
  MaxOpenings, \* bound: times the dialog opens
  MaxLoads     \* bound: loads of zones in all

ASSUME DomainBatchAssumption == {MaxBatch, MaxOpenings, MaxLoads} \subseteq Nat \ {0}

VARIABLES
  modal,        \* isBatchDomainModalOpen
  openings,     \* times it was opened
  requestId,    \* batchCloudflareZoneRequestIdRef
  zoneLoads,    \* loads that have not returned
  loadsMade,    \* loads started so far
  zones,        \* the opening whose load the options come from, 0 for no options
  zonesLoading, \* cloudflareZonesLoading
  canBatch,     \* canBatchCreateManagedDomains: Cloudflare is on, with a token
  progress,     \* the running batch, none or one
  made,         \* its domains the backend has
  confirmed,    \* its domains the loop knows of
  outdated      \* history: a load of an earlier opening made the current one stale

batchVars == <<modal, openings, requestId, zoneLoads, loadsMade, zones, zonesLoading, canBatch,
               progress, made, confirmed, outdated>>
loopVars == <<progress, made, confirmed>>

Openings == 1 .. MaxOpenings

\* A load under id: started by the effect of an opening, which may be over by
\* now, or by the refresh button; first the settings are read, then the zones.
ZoneLoads == [id : Nat, opening : Openings, effect : BOOLEAN, stage : {"settings", "zones"}]

\* batchDomainProgress, and where the loop is with the domain after the
\* completed ones.
Progress == [total : 1 .. MaxBatch, completed : 0 .. MaxBatch, created : 0 .. MaxBatch,
             synced : 0 .. MaxBatch, failed : 0 .. MaxBatch, step : {"create", "sync"}]

BatchTypeOK ==
  /\ modal \in BOOLEAN /\ openings \in 0 .. MaxOpenings
  /\ requestId \in Nat /\ loadsMade \in 0 .. MaxLoads
  /\ zoneLoads \subseteq ZoneLoads
  /\ zones \in 0 .. MaxOpenings /\ zonesLoading \in BOOLEAN /\ outdated \in BOOLEAN
  /\ canBatch \in BOOLEAN
  /\ progress \subseteq Progress /\ Cardinality(progress) <= 1
  /\ made \subseteq 1 .. MaxBatch /\ confirmed \subseteq 1 .. MaxBatch

BatchInit ==
  /\ modal = FALSE /\ openings = 0
  /\ requestId = 0 /\ zoneLoads = {} /\ loadsMade = 0
  /\ zones = 0 /\ zonesLoading = FALSE /\ canBatch = FALSE
  /\ progress = {} /\ made = {} /\ confirmed = {}
  /\ outdated = FALSE

----------------------------------------------------------------------------
(* The dialog and its zones                                                *)

\* loadBatchCloudflareZones, up to its first await.
StartLoad(opening, effect) ==
  /\ loadsMade < MaxLoads
  /\ loadsMade' = loadsMade + 1
  /\ requestId' = requestId + 1
  /\ zonesLoading' = TRUE /\ outdated' = FALSE
  /\ zoneLoads' = zoneLoads \cup
       {[id |-> requestId + 1, opening |-> opening, effect |-> effect, stage |-> "settings"]}

\* handleOpenBatchDomainModal, and the effect of the open dialog.
OpenModal ==
  /\ ~modal /\ openings < MaxOpenings
  /\ modal' = TRUE /\ openings' = openings + 1
  /\ zones' = 0 /\ progress' = {}
  /\ StartLoad(openings + 1, TRUE)
  /\ UNCHANGED <<canBatch, made, confirmed>>

\* handleCloseBatchDomainModal
CloseModal ==
  /\ modal /\ progress = {}
  /\ modal' = FALSE
  /\ requestId' = requestId + 1
  /\ zonesLoading' = FALSE /\ outdated' = FALSE
  /\ UNCHANGED <<openings, zoneLoads, loadsMade, zones, canBatch, loopVars>>

\* The button is there while no zones are.
RefreshZones ==
  /\ modal /\ zones = 0 /\ canBatch /\ ~zonesLoading /\ progress = {}
  /\ StartLoad(openings, FALSE)
  /\ UNCHANGED <<modal, openings, zones, canBatch, loopVars>>

\* Settings saved or loaded elsewhere on the page are applied, or dropped with
\* the session.
CloudflareChanged ==
  /\ canBatch' = ~canBatch
  /\ UNCHANGED <<modal, openings, requestId, zoneLoads, loadsMade, zones, zonesLoading, outdated,
                 loopVars>>

Current(l) == l.id = requestId
Cancelled(l) == l.effect /\ ~(modal /\ l.opening = openings)

\* Load l is over.  The effect of an opening that is over makes the numbers of
\* everything that came after it stale too.
LoadOver(l) ==
  /\ zoneLoads' = zoneLoads \ {l}
  /\ requestId' = IF Cancelled(l) THEN requestId + 1 ELSE requestId
  /\ zonesLoading' = (zonesLoading /\ ~Current(l))
  /\ outdated' = (outdated \/ (Cancelled(l) /\ ~Current(l)))
  /\ UNCHANGED <<modal, openings, loadsMade, loopVars>>

\* The settings are read in time and applied; they hold a token, but may be off.
SettingsRead(l) ==
  /\ l.stage = "settings" /\ Current(l)
  /\ zoneLoads' = (zoneLoads \ {l}) \cup {[l EXCEPT !.stage = "zones"]}
  /\ canBatch' \in BOOLEAN
  /\ UNCHANGED <<modal, openings, requestId, loadsMade, zones, zonesLoading, outdated, loopVars>>

\* Seeded bug: the zones are shown without a look at the number.
ZonesReadUnchecked(l) ==
  /\ l.stage = "zones"
  /\ \/ zones' = l.opening
     \/ zones' = 0
  /\ LoadOver(l)
  /\ UNCHANGED canBatch

\* The zones are read, of which there may be none; a stale load drops them.
ZonesRead(l) ==
  /\ l.stage = "zones"
  /\ \/ Current(l) /\ zones' = l.opening
     \/ Current(l) /\ zones' = 0
     \/ ~Current(l) /\ UNCHANGED zones
  /\ LoadOver(l)
  /\ UNCHANGED canBatch

\* Seeded bug: a load that fails leaves its flag up.
LoadEndsLoading(l) ==
  /\ IF Current(l) THEN zones' = 0 ELSE UNCHANGED zones
  /\ zoneLoads' = zoneLoads \ {l}
  /\ requestId' = IF Cancelled(l) THEN requestId + 1 ELSE requestId
  /\ outdated' = (outdated \/ (Cancelled(l) /\ ~Current(l)))
  /\ UNCHANGED <<modal, openings, loadsMade, zonesLoading, canBatch, loopVars>>

\* A stale load ends with its settings; any ends with no token, a failure or a
\* timeout.
LoadEnds(l) ==
  /\ IF Current(l) THEN zones' = 0 ELSE UNCHANGED zones
  /\ \/ l.stage = "settings" /\ Current(l) /\ canBatch' = FALSE
     \/ UNCHANGED canBatch
  /\ LoadOver(l)

----------------------------------------------------------------------------
(* The batch                                                               *)

DialogUnchanged ==
  UNCHANGED <<modal, openings, requestId, zoneLoads, loadsMade, zones, zonesLoading, canBatch, outdated>>

\* handleCreateRandomDomainBatch, once its inputs are valid.
StartBatch(n) ==
  /\ modal /\ progress = {} /\ ~zonesLoading /\ zones # 0 /\ canBatch
  /\ progress' = {[total |-> n, completed |-> 0, created |-> 0, synced |-> 0,
                   failed |-> 0, step |-> "create"]}
  /\ made' = {} /\ confirmed' = {}
  /\ DialogUnchanged

Running(p) == progress = {p} /\ p.completed < p.total
Domain(p) == p.completed + 1   \* batchDomainCurrentIndex
Batch(p) == progress' = {p}
DomainCreated(p) ==
  /\ Running(p) /\ p.step = "create"
  /\ made' = made \cup {Domain(p)} /\ confirmed' = confirmed \cup {Domain(p)}
  /\ Batch([p EXCEPT !.created = @ + 1, !.step = "sync"])
  /\ DialogUnchanged

\* The call is refused; or its answer is lost, and the backend has the domain.
DomainFails(p) ==
  /\ Running(p) /\ p.step = "create"
  /\ made' \in {made, made \cup {Domain(p)}}
  /\ Batch([p EXCEPT !.failed = @ + 1, !.completed = @ + 1])
  /\ UNCHANGED confirmed
  /\ DialogUnchanged

\* Seeded bug: the domain is completed where it is synced and in the finally.
DomainSyncedTwice(p) ==
  /\ Running(p) /\ p.step = "sync"
  /\ Batch([p EXCEPT !.synced = @ + 1, !.completed = @ + 2, !.step = "create"])
  /\ UNCHANGED <<made, confirmed>>
  /\ DialogUnchanged

DomainSynced(p) ==
  /\ Running(p) /\ p.step = "sync"
  /\ Batch([p EXCEPT !.synced = @ + 1, !.completed = @ + 1, !.step = "create"])
  /\ UNCHANGED <<made, confirmed>>
  /\ DialogUnchanged

\* Seeded bug: the synchronization's failure reaches the catch of the loop.
SyncFailsTwice(p) ==
  /\ Running(p) /\ p.step = "sync"
  /\ Batch([p EXCEPT !.failed = @ + 1, !.completed = @ + 1, !.step = "create"])
  /\ UNCHANGED <<made, confirmed>>
  /\ DialogUnchanged

\* runCloudflareDomainSync keeps its failure to itself.
SyncFails(p) ==
  /\ Running(p) /\ p.step = "sync"
  /\ Batch([p EXCEPT !.completed = @ + 1, !.step = "create"])
  /\ UNCHANGED <<made, confirmed>>
  /\ DialogUnchanged

\* A batch that created nothing leaves the dialog open; what it created is on
\* the list of domains now.
EndBatch(p) ==
  /\ progress = {p} /\ p.completed = p.total
  /\ progress' = {}
  /\ modal' = (confirmed = {})
  /\ made' = {} /\ confirmed' = {}
  /\ UNCHANGED <<openings, requestId, zoneLoads, loadsMade, zones, zonesLoading, canBatch, outdated>>

BatchNext ==
  \/ OpenModal \/ CloseModal \/ RefreshZones \/ CloudflareChanged
  \/ \E l \in zoneLoads : SettingsRead(l) \/ ZonesRead(l) \/ LoadEnds(l)
  \/ \E n \in 1 .. MaxBatch : StartBatch(n)
  \/ \E p \in progress :
       DomainCreated(p) \/ DomainFails(p) \/ DomainSynced(p) \/ SyncFails(p) \/ EndBatch(p)

BatchSpec == BatchInit /\ [][BatchNext]_batchVars

----------------------------------------------------------------------------
(* Properties                                                              *)

\* The zones on offer were loaded since the dialog was opened, however late the
\* loads of earlier openings return.
ZonesOfThisOpening == modal /\ zones # 0 => zones = openings

\* The dialog waits for zones only while the load it waits for is under way,
\* unless a load of an earlier opening has returned since.
ZonesWillCome == zonesLoading /\ ~outdated => \E l \in zoneLoads : Current(l)

\* The counts on display add up at every step and are those of the backend: no
\* domain is counted twice, none that is there is missing from both counts.
BatchAddsUp ==
  \A p \in progress :
    /\ p.created = Cardinality(confirmed)
    /\ p.created + p.failed = p.completed + (IF p.step = "sync" THEN 1 ELSE 0)
    /\ p.synced <= p.created
    /\ confirmed \subseteq made /\ Cardinality(made) <= p.created + p.failed
=============================================================================

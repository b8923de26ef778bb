--------------------------- MODULE ConsoleSettings ---------------------------
(***************************************************************************)
(* The settings view of the console (domain-management-page.tsx): the      *)
(* draft the administrator edits, the saved settings it is compared with,  *)
(* saves that send the difference and then read the session again, the     *)
(* switch of the whole system that saves at once, the Cloudflare settings  *)
(* beside them, and the question asked before edits are left behind.       *)
(*                                                                         *)
(* A field is one key of the save payload.  The two Cloudflare switches    *)
(* count as one; its token is there or not.  Of the five sections, "core"  *)
(* stands for the four that edit the draft.  A console that goes, because   *)
(* of a sign-out, another locale or a session that cannot be restored, is  *)
(* followed by the next.  What a save does to the log on display, and what *)
(* the Cloudflare settings allow elsewhere, is in the modules of those.    *)
(***************************************************************************)
EXTENDS FiniteSets, Naturals

CONSTANTS
  Fields,           \* keys of the settings payload, one of them "systemEnabled"
  Values,           \* what a field may hold
  MaxSettingsCalls  \* bound: calls under way when a click adds one

ASSUME ConsoleSettingsAssumption ==
  /\ "systemEnabled" \in Fields
  /\ Values # {}
  /\ MaxSettingsCalls \in Nat

VARIABLES
  stored,   \* the backend's settings
  saved,    \* sessionInfo.systemSettings
  draft,    \* settingsDraft
  cfSaved, cfDraft, cfTyped,  \* saved and edited Cloudflare switches, a typed token
  cfLoaded, \* hasLoadedCloudflareSettingsRef
  calls,    \* saves, reloads and loads that have not returned
  leaving,  \* the question on display, with what its handler will discard to
  view, section,
  edited,   \* history: fields the administrator changed and has neither saved nor dropped
  reverted, \* history: fields that something else left different from saved
  cfEdited  \* history: the administrator changed a Cloudflare switch

settingsVars == <<stored, saved, draft, cfSaved, cfDraft, cfTyped, cfLoaded, calls, leaving,
                  view, section, edited, reverted, cfEdited>>
coreVars  == <<saved, draft, edited, reverted>>
cloudVars == <<cfSaved, cfDraft, cfTyped, cfEdited>>
placeVars == <<view, section>>

Settings == [Fields -> Values]
Changes  == UNION {[fs -> Values] : fs \in SUBSET Fields}

\* A core call sends its change (stage "patch"), reads the session ("get") and
\* is answered with it ("read"); prev is what a failed switch goes back to.
CoreCalls == [op : {"save", "toggle", "restore"}, stage : {"patch", "get", "read"},
              change : Changes, prev : SUBSET Values, snap : SUBSET Settings]
\* A load of the Cloudflare settings, a save with the switches it sends, or a
\* test of the token.
CloudCalls == [op : {"load", "cloudflare", "test"}, value : SUBSET Values]

SettingsTypeOK ==
  /\ {stored, saved, draft} \subseteq Settings
  /\ {cfSaved, cfDraft} \subseteq Values /\ cfTyped \in BOOLEAN /\ cfLoaded \in BOOLEAN
  /\ calls \subseteq CoreCalls \cup CloudCalls
  /\ leaving \subseteq [to : {"elsewhere", "section", "page"}, saved : Settings, cfSaved : Values]
  /\ view \in {"settings", "elsewhere"} /\ section \in {"core", "cloudflare"}
  /\ edited \subseteq Fields /\ reverted \subseteq Fields /\ cfEdited \in BOOLEAN

NoChange == [f \in {} |-> f]
CloudLoad == [op |-> "load", value |-> {}]
TokenTest == [op |-> "test", value |-> {}]
Restore  == [op |-> "restore", stage |-> "get", change |-> NoChange, prev |-> {}, snap |-> {}]

DefaultCloudflare == CHOOSE v \in Values : TRUE

\* A console is mounted with the session its bootstrap restored, or with the
\* one a sign-in handed to it, which the bootstrap is still reading again.
SettingsInit ==
  /\ stored \in Settings /\ saved = stored /\ draft = stored
  /\ cfSaved = DefaultCloudflare /\ cfDraft = DefaultCloudflare
  /\ cfTyped = FALSE /\ cfLoaded = FALSE
  /\ calls \in {{}, {Restore}} /\ leaving = {}
  /\ view = "elsewhere" /\ section = "core"
  /\ edited = {} /\ reverted = {} /\ cfEdited = FALSE

\* The next console.  A call its predecessor has under way is to it like a call
\* of another administrator.
NextConsole ==
  /\ saved' = stored /\ draft' = stored
  /\ cfSaved' = DefaultCloudflare /\ cfDraft' = DefaultCloudflare
  /\ cfTyped' = FALSE /\ cfLoaded' = FALSE
  /\ calls' \in {{}, {Restore}} /\ leaving' = {}
  /\ view' = "elsewhere" /\ section' = "core"
  /\ edited' = {} /\ reverted' = {} /\ cfEdited' = FALSE
  /\ UNCHANGED stored

Differing == {f \in Fields : draft[f] # saved[f]}
Unsaved   == Differing # {} \/ cfDraft # cfSaved \/ cfTyped   \* hasUnsavedChanges

UnderWayOf(op) == \E c \in calls : c.op = op

\* The question is modal.
Ready == leaving = {} /\ Cardinality(calls) < MaxSettingsCalls

----------------------------------------------------------------------------
(* Editing                                                                 *)

DraftChanged(f, v) ==
  /\ draft' = [draft EXCEPT ![f] = v]
  /\ edited' = IF v = saved[f] THEN edited \ {f} ELSE edited \cup {f}
  /\ reverted' = reverted \ {f}
  /\ UNCHANGED saved

CoreSection       == view = "settings" /\ section = "core" /\ leaving = {}
CloudflareSection == view = "settings" /\ section = "cloudflare" /\ leaving = {}

\* The inputs of the core, registration, limits and integrations sections.
Edit(f, v) ==
  /\ CoreSection
  /\ f # "systemEnabled" /\ v # draft[f]
  /\ DraftChanged(f, v)
  /\ UNCHANGED <<stored, cloudVars, cfLoaded, calls, leaving, placeVars>>

EditCloudflare(v) ==
  /\ CloudflareSection
  /\ \/ cfDraft' = v /\ v # cfDraft /\ cfEdited' = (v # cfSaved) /\ UNCHANGED cfTyped
     \/ cfTyped' = ~cfTyped /\ UNCHANGED <<cfDraft, cfEdited>>
  /\ UNCHANGED <<stored, coreVars, cfSaved, cfLoaded, calls, leaving, placeVars>>

----------------------------------------------------------------------------
(* Saving                                                                  *)

\* Seeded bug: the whole draft is sent.
WholeDraft == [f \in IF draft = saved THEN {} ELSE Fields |-> draft[f]]

\* buildSettingsSavePayload
SavePayload == [f \in Differing |-> draft[f]]

Patch(op, change, prev) ==
  [op |-> op, stage |-> "patch", change |-> change, prev |-> prev, snap |-> {}]

\* handleSaveSettings: the button is off without unsaved changes (of either
\* kind) and while a save is under way; an empty payload is not sent.
Save ==
  /\ CoreSection /\ Ready
  /\ Unsaved /\ ~UnderWayOf("save")
  /\ DOMAIN SavePayload # {}
  /\ calls' = calls \cup {Patch("save", SavePayload, {})}
  /\ UNCHANGED <<stored, coreVars, cloudVars, cfLoaded, leaving, placeVars>>

\* handleToggleSystemEnabled
ToggleSystemEnabled(v) ==
  /\ CoreSection /\ Ready
  /\ v # draft["systemEnabled"] /\ ~UnderWayOf("toggle")
  /\ DraftChanged("systemEnabled", v)
  /\ calls' = calls \cup {Patch("toggle", [f \in {"systemEnabled"} |-> v], {draft["systemEnabled"]})}
  /\ UNCHANGED <<stored, cloudVars, cfLoaded, leaving, placeVars>>

\* The backend stores the change, then reads its settings for the session.
NextStage(c, stage, snap) ==
  calls' = (calls \ {c})
             \cup {[c EXCEPT !.stage = stage, !.change = NoChange, !.snap = snap]}

PatchStored(c) ==
  /\ c.stage = "patch"
  /\ stored' = [f \in Fields |-> IF f \in DOMAIN c.change THEN c.change[f] ELSE stored[f]]
  /\ NextStage(c, "get", {})
  /\ UNCHANGED <<coreVars, cloudVars, cfLoaded, leaving, placeVars>>

SessionRead(c) ==
  /\ c.stage = "get"
  /\ NextStage(c, "read", {stored})
  /\ UNCHANGED <<stored, coreVars, cloudVars, cfLoaded, leaving, placeVars>>

\* applySavedSettings, applyAdminSession: what was typed meanwhile is replaced.
SessionApplied(c) ==
  /\ c.stage = "read"
  /\ calls' = calls \ {c}
  /\ \E s \in c.snap : saved' = s /\ draft' = s
  /\ edited' = {} /\ reverted' = {}
  /\ UNCHANGED <<stored, cloudVars, cfLoaded, leaving, placeVars>>

\* The call or the read after it fails, or its answer is lost.  The switch goes
\* back to what it was at the click.
SaveFails(c) ==
  /\ c.op \in {"save", "toggle"}
  /\ calls' = calls \ {c}
  /\ IF c.op = "save" THEN UNCHANGED coreVars
     ELSE /\ \E v \in c.prev : draft' = [draft EXCEPT !["systemEnabled"] = v]
          /\ edited' = edited \ {"systemEnabled"}
          /\ reverted' = IF c.prev = {saved["systemEnabled"]} THEN reverted \ {"systemEnabled"}
                         ELSE reverted \cup {"systemEnabled"}
          /\ UNCHANGED saved
  /\ UNCHANGED <<stored, cloudVars, cfLoaded, leaving, placeVars>>

\* The session cannot be restored, or any call finds it gone.
SessionEnds == calls # {} /\ NextConsole

\* handleSaveCloudflareSettings: both switches are sent, and the token if typed.
SaveCloudflare ==
  /\ CloudflareSection /\ Ready
  /\ ~UnderWayOf("cloudflare")
  /\ calls' = calls \cup {[op |-> "cloudflare", value |-> {cfDraft}]}
  /\ UNCHANGED <<stored, coreVars, cloudVars, cfLoaded, leaving, placeVars>>

\* handleTestCloudflareToken
TestToken ==
  /\ CloudflareSection /\ Ready
  /\ ~UnderWayOf("test")
  /\ calls' = calls \cup {TokenTest}
  /\ UNCHANGED <<stored, coreVars, cloudVars, cfLoaded, leaving, placeVars>>

\* The zones dialog of the domains view loads the settings as well.
LoadCloudflare ==
  /\ view = "elsewhere" /\ Ready /\ ~UnderWayOf("load")
  /\ calls' = calls \cup {CloudLoad}
  /\ UNCHANGED <<stored, coreVars, cloudVars, cfLoaded, leaving, placeVars>>

\* applyCloudflareSettings, with what was sent or what a load found.
CloudflareApplied(c, v) ==
  /\ c.op = "load" \/ v \in c.value
  /\ calls' = calls \ {c}
  /\ cfSaved' = v /\ cfDraft' = v /\ cfTyped' = FALSE /\ cfEdited' = FALSE
  /\ UNCHANGED <<stored, coreVars, cfLoaded, leaving, placeVars>>

\* A call fails, or tests the token, of which nothing is kept.
CloudflareFails(c) ==
  /\ calls' = calls \ {c}
  /\ UNCHANGED <<stored, coreVars, cloudVars, cfLoaded, leaving, placeVars>>

----------------------------------------------------------------------------
(* Leaving                                                                 *)

\* The effect that loads the Cloudflare settings runs once.
OpenSettings ==
  /\ view = "elsewhere" /\ Ready
  /\ view' = "settings" /\ cfLoaded' = TRUE
  /\ calls' = IF cfLoaded THEN calls ELSE calls \cup {CloudLoad}
  /\ UNCHANGED <<stored, coreVars, cloudVars, leaving, section>>

Go(to) ==
  /\ view' = IF to = "section" THEN view ELSE to
  /\ section' = IF to = "section" THEN CHOOSE s \in {"core", "cloudflare"} : s # section ELSE section

\* Seeded bug: no question while a save is under way.
MayLeaveWhileSaving == ~Unsaved \/ UnderWayOf("save")

\* confirmDiscardUnsavedChanges answers at once.
MayLeave == ~Unsaved

\* handleSelectView, handleSelectSettingsSection.
Leave(to) ==
  /\ view = "settings" /\ leaving = {} /\ MayLeave
  /\ Go(to)
  /\ UNCHANGED <<stored, coreVars, cloudVars, cfLoaded, calls, leaving>>

\* handleClearAdminSession and handleLocaleChange: asked in this view only.
LeavePage ==
  /\ leaving = {}
  /\ view = "settings" => MayLeave
  /\ NextConsole

\* requestConfirmation, by any of them.
Ask(to) ==
  /\ view = "settings" /\ leaving = {} /\ ~MayLeave
  /\ leaving' = {[to |-> to, saved |-> saved, cfSaved |-> cfSaved]}
  /\ UNCHANGED <<stored, coreVars, cloudVars, cfLoaded, calls, placeVars>>

\* discardUnsavedChanges, with the saved settings of the render that asked.
Discard(l) ==
  /\ draft' = l.saved /\ cfDraft' = l.cfSaved
  /\ edited' = {} /\ cfTyped' = FALSE /\ cfEdited' = FALSE
  /\ reverted' = {f \in Fields : l.saved[f] # saved[f]}
  /\ Go(l.to)
  /\ leaving' = {}
  /\ UNCHANGED <<stored, saved, cfSaved, cfLoaded, calls>>

Stay ==
  /\ leaving # {} /\ leaving' = {}
  /\ UNCHANGED <<stored, coreVars, cloudVars, cfLoaded, calls, placeVars>>

\* Another administrator saves settings.
OthersSave(f, v) ==
  /\ v # stored[f]
  /\ stored' = [stored EXCEPT ![f] = v]
  /\ UNCHANGED <<coreVars, cloudVars, cfLoaded, calls, leaving, placeVars>>

SettingsNext ==
  \/ \E f \in Fields, v \in Values : Edit(f, v) \/ OthersSave(f, v)
  \/ \E v \in Values :
       \/ EditCloudflare(v) \/ ToggleSystemEnabled(v)
       \/ \E c \in calls \cap CloudCalls : CloudflareApplied(c, v)
  \/ LoadCloudflare \/ OpenSettings
  \/ Save \/ SaveCloudflare \/ TestToken
  \/ \E c \in calls \cap CoreCalls :
       PatchStored(c) \/ SessionRead(c) \/ SessionApplied(c) \/ SaveFails(c)
  \/ \E c \in calls \cap CloudCalls : CloudflareFails(c)
  \/ \E to \in {"elsewhere", "section"} : Leave(to)
  \/ \E to \in {"elsewhere", "section", "page"} : Ask(to)
  \/ \E l \in leaving : IF l.to = "page" THEN NextConsole ELSE Discard(l)
  \/ Stay \/ LeavePage \/ SessionEnds

SettingsSpec == SettingsInit /\ [][SettingsNext]_settingsVars

----------------------------------------------------------------------------
(* Properties                                                              *)

\* A save sends no field but those its administrator changed, or an
\* out-of-date discard or a failed switch left different: what another
\* administrator stored in the rest stays, whatever this console last read.
SavesOnlyEdits ==
  [][\A c \in calls' \ calls : c.op = "save" /\ c.stage = "patch"
       => DOMAIN c.change \subseteq edited \cup reverted]_settingsVars

\* No other view is on display while there is an edit that is neither saved nor
\* dropped, whatever answers came in while the question was asked.  (The switch
\* of the whole system saves itself.)
NoHiddenEdits ==
  view = "elsewhere" => edited \subseteq {"systemEnabled"} /\ ~cfEdited /\ ~cfTyped
=============================================================================

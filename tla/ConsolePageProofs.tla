------------------------- MODULE ConsolePageProofs -------------------------
(***************************************************************************)
(* Proofs about the parts of the console page but its session, and of the  *)
(* page as a whole.                                                        *)
(*                                                                         *)
(* Settings: every field in which the draft differs from the saved         *)
(* settings was edited or reverted, and, but for the switch of the whole   *)
(* system, every edited field still differs.                               *)
(* Lists: each answer on its way leads from what came before it to what    *)
(* the backend had when it gave it, and the last one to what it has now.   *)
(* Batch: the current load of zones belongs to the opening on display, and *)
(* the domains made come before the one the loop is about.                 *)
(***************************************************************************)
EXTENDS ConsolePage, WebSessionProofs, FiniteSetTheorems, SequenceTheorems, TLAPS

----------------------------------------------------------------------------
(* The settings                                                            *)

DifferingIsRecorded == Differing \subseteq edited \cup reverted
EditsDiffer == edited \ {"systemEnabled"} \subseteq Differing
SwitchEdited == cfEdited => cfDraft # cfSaved

SettingsInv ==
  SettingsTypeOK /\ DifferingIsRecorded /\ EditsDiffer /\ SwitchEdited /\ NoHiddenEdits
LEMMA DefaultIsAValue == DefaultCloudflare \in Values
BY ConsoleSettingsAssumption DEF DefaultCloudflare

LEMMA RestoreIsACall == Restore \in CoreCalls /\ NoChange \in Changes
<1>1. NoChange \in [{} -> Values]
  BY DEF NoChange
<1>2. NoChange \in Changes
  BY <1>1 DEF Changes
<1> QED
  BY <1>2 DEF Restore, CoreCalls

LEMMA SettingsStart == SettingsInit => SettingsInv
<1> SUFFICES ASSUME SettingsInit PROVE SettingsInv
  OBVIOUS
<1>1. SettingsTypeOK
  BY DefaultIsAValue, RestoreIsACall DEF SettingsInit, SettingsTypeOK
<1>2. DifferingIsRecorded /\ EditsDiffer /\ SwitchEdited /\ NoHiddenEdits
  BY DEF SettingsInit, DifferingIsRecorded, EditsDiffer, SwitchEdited, NoHiddenEdits, Differing
<1> QED
  BY <1>1, <1>2 DEF SettingsInv

\* Of a fresh console, whose draft is what the backend has.
LEMMA NextConsoleKeeps == ASSUME SettingsInv, NextConsole PROVE SettingsInv'
<1>1. SettingsTypeOK'
  BY DefaultIsAValue, RestoreIsACall DEF SettingsInv, NextConsole, SettingsTypeOK
<1>2. (DifferingIsRecorded /\ EditsDiffer /\ SwitchEdited /\ NoHiddenEdits)'
  BY DEF NextConsole, DifferingIsRecorded, EditsDiffer, SwitchEdited, NoHiddenEdits, Differing
<1> QED
  BY <1>1, <1>2 DEF SettingsInv

\* One field of the draft changes and is recorded accordingly.
LEMMA DraftChangedKeeps ==
  ASSUME SettingsInv, NEW f \in Fields, NEW v \in Values, DraftChanged(f, v),
         view = "settings", view' = view, UNCHANGED cloudVars
  PROVE  /\ draft' \in Settings /\ edited' \subseteq Fields /\ reverted' \subseteq Fields
         /\ (DifferingIsRecorded /\ EditsDiffer /\ SwitchEdited /\ NoHiddenEdits)'
<1> USE DEF SettingsInv, SettingsTypeOK, DraftChanged
<1>1. draft' \in Settings /\ edited' \subseteq Fields /\ reverted' \subseteq Fields
  BY DEF Settings
<1>2. DifferingIsRecorded' /\ EditsDiffer'
  BY DEF DifferingIsRecorded, EditsDiffer, Differing, Settings
<1>3. SwitchEdited' /\ NoHiddenEdits'
  BY DEF SwitchEdited, NoHiddenEdits, cloudVars
<1> QED
  BY <1>1, <1>2, <1>3

\* The parts of the invariant besides the types read nothing else.
LEMMA RecordsFrame ==
  ASSUME SettingsInv, UNCHANGED coreVars, UNCHANGED cloudVars, view' = view
  PROVE  (DifferingIsRecorded /\ EditsDiffer /\ SwitchEdited /\ NoHiddenEdits)'
BY DEF SettingsInv, coreVars, cloudVars, DifferingIsRecorded, EditsDiffer, SwitchEdited,
       NoHiddenEdits, Differing

LEMMA EditKeeps ==
  ASSUME SettingsInv, NEW f \in Fields, NEW v \in Values, Edit(f, v)
  PROVE  SettingsInv'
<1>1. (DifferingIsRecorded /\ EditsDiffer /\ SwitchEdited /\ NoHiddenEdits)'
  BY DraftChangedKeeps DEF Edit, CoreSection, placeVars
<1>2. draft' \in Settings /\ edited' \subseteq Fields /\ reverted' \subseteq Fields
  BY DraftChangedKeeps DEF Edit, CoreSection, placeVars
<1>3. SettingsTypeOK'
  BY <1>2 DEF SettingsInv, Edit, DraftChanged, SettingsTypeOK, cloudVars, placeVars
<1> QED
  BY <1>1, <1>3 DEF SettingsInv

LEMMA EditCloudflareKeeps ==
  ASSUME SettingsInv, NEW v \in Values, EditCloudflare(v)
  PROVE  SettingsInv'
<1>1. SettingsTypeOK'
  BY DEF SettingsInv, SettingsTypeOK, EditCloudflare, coreVars, placeVars
<1>2. DifferingIsRecorded' /\ EditsDiffer'
  BY DEF SettingsInv, EditCloudflare, coreVars, DifferingIsRecorded, EditsDiffer, Differing
<1>3. SwitchEdited'
  BY DEF SettingsInv, EditCloudflare, SwitchEdited
<1>4. NoHiddenEdits'
  BY DEF EditCloudflare, CloudflareSection, placeVars, NoHiddenEdits
<1> QED
  BY <1>1, <1>2, <1>3, <1>4 DEF SettingsInv

LEMMA SaveKeeps == ASSUME SettingsInv, Save PROVE SettingsInv'
<1>1. SavePayload \in Changes
  <2>1. Differing \in SUBSET Fields
    BY DEF Differing
  <2>2. \A f \in Differing : draft[f] \in Values
    BY DEF SettingsInv, SettingsTypeOK, Settings, Differing
  <2>3. SavePayload \in [Differing -> Values]
    BY <2>2 DEF SavePayload
  <2> QED
    BY <2>1, <2>3 DEF Changes
<1>2. Patch("save", SavePayload, {}) \in CoreCalls
  BY <1>1 DEF Patch, CoreCalls
<1>3. SettingsTypeOK'
  BY <1>2 DEF SettingsInv, Save, SettingsTypeOK, coreVars, cloudVars, placeVars
<1> QED
  BY <1>3, RecordsFrame DEF SettingsInv, Save, placeVars

LEMMA ToggleKeeps ==
  ASSUME SettingsInv, NEW v \in Values, ToggleSystemEnabled(v)
  PROVE  SettingsInv'
<1>1. "systemEnabled" \in Fields
  BY ConsoleSettingsAssumption
<1>2. (DifferingIsRecorded /\ EditsDiffer /\ SwitchEdited /\ NoHiddenEdits)'
  BY <1>1, DraftChangedKeeps DEF ToggleSystemEnabled, CoreSection, placeVars
<1>3. draft' \in Settings /\ edited' \subseteq Fields /\ reverted' \subseteq Fields
  BY <1>1, DraftChangedKeeps DEF ToggleSystemEnabled, CoreSection, placeVars
<1> DEFINE change == [f \in {"systemEnabled"} |-> v]
<1>4. change \in Changes
  <2>1. change \in [{"systemEnabled"} -> Values]
    OBVIOUS
  <2>2. {"systemEnabled"} \in SUBSET Fields
    BY <1>1
  <2> QED
    BY <2>1, <2>2 DEF Changes
<1>5. {draft["systemEnabled"]} \in SUBSET Values
  BY <1>1 DEF SettingsInv, SettingsTypeOK, Settings
<1>6. Patch("toggle", change, {draft["systemEnabled"]}) \in CoreCalls
  <2> HIDE DEF change
  <2> QED BY <1>4, <1>5 DEF Patch, CoreCalls
<1>7. calls' \subseteq CoreCalls \cup CloudCalls
  BY <1>6 DEF SettingsInv, SettingsTypeOK, ToggleSystemEnabled
<1>8. SettingsTypeOK'
  BY <1>3, <1>7 DEF SettingsInv, ToggleSystemEnabled, DraftChanged, SettingsTypeOK, cloudVars, placeVars
<1> QED
  BY <1>2, <1>8 DEF SettingsInv

\* A call that moves on stays a call.
LEMMA NextStageType ==
  ASSUME SettingsTypeOK, NEW c \in CoreCalls, NEW stage \in {"patch", "get", "read"},
         NEW snap \in SUBSET Settings, NextStage(c, stage, snap)
  PROVE  calls' \subseteq CoreCalls \cup CloudCalls
<1> DEFINE d == [c EXCEPT !.stage = stage, !.change = NoChange, !.snap = snap]
<1>1. d \in CoreCalls
  BY RestoreIsACall DEF CoreCalls
<1>2. calls' = (calls \ {c}) \cup {d}
  BY DEF NextStage
<1> HIDE DEF d
<1> QED
  BY <1>1, <1>2 DEF SettingsTypeOK

LEMMA PatchStoredKeeps ==
  ASSUME SettingsInv, NEW c \in CoreCalls, PatchStored(c)
  PROVE  SettingsInv'
<1>1. calls' \subseteq CoreCalls \cup CloudCalls
  BY NextStageType DEF PatchStored, SettingsInv
<1>2. \A f \in DOMAIN c.change : c.change[f] \in Values
  <2>1. PICK fs \in SUBSET Fields : c.change \in [fs -> Values]
    BY DEF CoreCalls, Changes
  <2> QED
    BY <2>1
<1>3. stored' \in Settings
  BY <1>2 DEF PatchStored, SettingsInv, SettingsTypeOK, Settings
<1>4. SettingsTypeOK'
  BY <1>1, <1>3 DEF SettingsInv, SettingsTypeOK, PatchStored, coreVars, cloudVars, placeVars
<1> QED
  BY <1>4, RecordsFrame DEF SettingsInv, PatchStored, placeVars

LEMMA SessionReadKeeps ==
  ASSUME SettingsInv, NEW c \in CoreCalls, SessionRead(c)
  PROVE  SettingsInv'
<1>1. {stored} \in SUBSET Settings
  BY DEF SettingsInv, SettingsTypeOK
<1>2. calls' \subseteq CoreCalls \cup CloudCalls
  BY <1>1, NextStageType DEF SessionRead, SettingsInv
<1>3. SettingsTypeOK'
  BY <1>2 DEF SettingsInv, SettingsTypeOK, SessionRead, coreVars, cloudVars, placeVars
<1> QED
  BY <1>3, RecordsFrame DEF SettingsInv, SessionRead, placeVars

LEMMA SessionAppliedKeeps ==
  ASSUME SettingsInv, NEW c \in CoreCalls, SessionApplied(c)
  PROVE  SettingsInv'
<1>1. PICK s \in c.snap : saved' = s /\ draft' = s
  BY DEF SessionApplied
<1>2. s \in Settings
  BY DEF CoreCalls
<1>3. SettingsTypeOK'
  BY <1>1, <1>2 DEF SettingsInv, SettingsTypeOK, SessionApplied, cloudVars, placeVars
<1>4. (DifferingIsRecorded /\ EditsDiffer /\ SwitchEdited /\ NoHiddenEdits)'
  BY <1>1 DEF SettingsInv, SessionApplied, cloudVars, placeVars, DifferingIsRecorded, EditsDiffer,
     SwitchEdited, NoHiddenEdits, Differing
<1> QED
  BY <1>3, <1>4 DEF SettingsInv

LEMMA SaveFailsKeeps ==
  ASSUME SettingsInv, NEW c \in CoreCalls, SaveFails(c)
  PROVE  SettingsInv'
<1>1. CASE c.op = "save"
  <2>1. SettingsTypeOK'
    BY <1>1 DEF SettingsInv, SettingsTypeOK, SaveFails, coreVars, cloudVars, placeVars
  <2> QED
    BY <1>1, <2>1, RecordsFrame DEF SettingsInv, SaveFails, placeVars
<1>2. CASE c.op # "save"
  <2>1. PICK v \in c.prev : draft' = [draft EXCEPT !["systemEnabled"] = v]
    BY <1>2 DEF SaveFails
  <2>2. v \in Values
    BY DEF CoreCalls
  <2>3. /\ edited' = edited \ {"systemEnabled"}
        /\ reverted' = IF c.prev = {saved["systemEnabled"]} THEN reverted \ {"systemEnabled"}
                       ELSE reverted \cup {"systemEnabled"}
        /\ saved' = saved
    BY <1>2 DEF SaveFails
  <2>4. draft' \in Settings
    BY <2>1, <2>2 DEF SettingsInv, SettingsTypeOK, Settings
  <2>5. reverted' \subseteq Fields
    BY <2>3, ConsoleSettingsAssumption DEF SettingsInv, SettingsTypeOK
  <2>6. SettingsTypeOK'
    BY <2>3, <2>4, <2>5 DEF SettingsInv, SettingsTypeOK, SaveFails, cloudVars, placeVars
  <2>7. DifferingIsRecorded'
    <3> SUFFICES ASSUME NEW f \in Differing' PROVE f \in edited' \cup reverted'
      BY DEF DifferingIsRecorded
    <3>1. f \in Fields /\ draft'[f] # saved[f]
      BY <2>3 DEF Differing
    <3>2. CASE f = "systemEnabled"
      <4>1. draft'[f] = v
        BY <2>1, <3>1, <3>2 DEF SettingsInv, SettingsTypeOK, Settings
      <4>2. c.prev # {saved["systemEnabled"]}
        BY <2>1, <3>1, <3>2, <4>1
      <4> QED
        BY <2>3, <3>2, <4>2
    <3>3. CASE f # "systemEnabled"
      <4>1. f \in Differing
        BY <2>1, <3>1, <3>3 DEF Differing, SettingsInv, SettingsTypeOK, Settings
      <4> QED
        BY <2>3, <3>3, <4>1 DEF SettingsInv, DifferingIsRecorded
    <3> QED
      BY <3>2, <3>3
  <2>8. EditsDiffer'
    BY <2>1, <2>3 DEF SettingsInv, SettingsTypeOK, Settings, EditsDiffer, Differing
  <2>9. SwitchEdited' /\ NoHiddenEdits'
    BY <2>3 DEF SettingsInv, SwitchEdited, NoHiddenEdits, SaveFails, cloudVars, placeVars
  <2> QED
    BY <2>6, <2>7, <2>8, <2>9 DEF SettingsInv
<1> QED
  BY <1>1, <1>2

\* The calls about the Cloudflare settings that do not apply any.
LEMMA CloudCallsKeep ==
  ASSUME SettingsInv, SaveCloudflare \/ TestToken \/ LoadCloudflare \/ \E c \in CloudCalls : CloudflareFails(c)
  PROVE  SettingsInv'
<1>1. CloudLoad \in CloudCalls /\ TokenTest \in CloudCalls
  BY DEF CloudLoad, TokenTest, CloudCalls
<1>2. [op |-> "cloudflare", value |-> {cfDraft}] \in CloudCalls
  BY DEF CloudCalls, SettingsInv, SettingsTypeOK
<1>3. calls' \subseteq CoreCalls \cup CloudCalls
  BY <1>1, <1>2 DEF SettingsInv, SettingsTypeOK, SaveCloudflare, TestToken, LoadCloudflare, CloudflareFails
<1>4. SettingsTypeOK'
  BY <1>3 DEF SettingsInv, SettingsTypeOK, SaveCloudflare, TestToken, LoadCloudflare, CloudflareFails,
     coreVars, cloudVars, placeVars
<1>5. UNCHANGED coreVars /\ UNCHANGED cloudVars /\ view' = view
  BY DEF SaveCloudflare, TestToken, LoadCloudflare, CloudflareFails, placeVars
<1> QED
  BY <1>4, <1>5, RecordsFrame DEF SettingsInv

LEMMA CloudflareAppliedKeeps ==
  ASSUME SettingsInv, NEW c \in CloudCalls, NEW v \in Values, CloudflareApplied(c, v)
  PROVE  SettingsInv'
BY DEF SettingsInv, SettingsTypeOK, CloudflareApplied, coreVars, placeVars, DifferingIsRecorded,
       EditsDiffer, SwitchEdited, NoHiddenEdits, Differing

LEMMA GoType ==
  ASSUME SettingsTypeOK, NEW to \in {"elsewhere", "section"}, Go(to)
  PROVE  view' \in {"settings", "elsewhere"} /\ section' \in {"core", "cloudflare"}
<1>1. \E s \in {"core", "cloudflare"} : s # section
  OBVIOUS
<1>2. (CHOOSE s \in {"core", "cloudflare"} : s # section) \in {"core", "cloudflare"}
  BY <1>1
<1> QED
  BY <1>2 DEF Go, SettingsTypeOK

LEMMA OpenSettingsKeeps == ASSUME SettingsInv, OpenSettings PROVE SettingsInv'
<1>1. CloudLoad \in CloudCalls
  BY DEF CloudLoad, CloudCalls
<1>2. SettingsTypeOK'
  BY <1>1 DEF SettingsInv, SettingsTypeOK, OpenSettings, coreVars, cloudVars
<1>3. (DifferingIsRecorded /\ EditsDiffer /\ SwitchEdited /\ NoHiddenEdits)'
  BY DEF SettingsInv, OpenSettings, coreVars, cloudVars, DifferingIsRecorded, EditsDiffer,
     SwitchEdited, NoHiddenEdits, Differing
<1> QED
  BY <1>2, <1>3 DEF SettingsInv

\* No question is needed where nothing differs, so nothing is left behind.
LEMMA LeaveKeeps ==
  ASSUME SettingsInv, NEW to \in {"elsewhere", "section"}, Leave(to)
  PROVE  SettingsInv'
<1>1. SettingsTypeOK'
  BY GoType DEF SettingsInv, SettingsTypeOK, Leave, coreVars, cloudVars
<1>2. edited \subseteq {"systemEnabled"} /\ ~cfEdited /\ ~cfTyped
  BY DEF Leave, MayLeave, Unsaved, SettingsInv, EditsDiffer, SwitchEdited
<1>3. (DifferingIsRecorded /\ EditsDiffer /\ SwitchEdited /\ NoHiddenEdits)'
  BY <1>2 DEF SettingsInv, Leave, coreVars, cloudVars, DifferingIsRecorded, EditsDiffer,
     SwitchEdited, NoHiddenEdits, Differing
<1> QED
  BY <1>1, <1>3 DEF SettingsInv

LEMMA AskKeeps ==
  ASSUME SettingsInv, NEW to \in {"elsewhere", "section", "page"}, Ask(to)
  PROVE  SettingsInv'
<1>1. SettingsTypeOK'
  BY DEF SettingsInv, SettingsTypeOK, Ask, coreVars, cloudVars, placeVars
<1> QED
  BY <1>1, RecordsFrame DEF SettingsInv, Ask, placeVars

\* A discard may restore settings that are out of date; they are recorded.
LEMMA DiscardKeeps ==
  ASSUME SettingsInv, NEW l \in leaving, l.to # "page", Discard(l)
  PROVE  SettingsInv'
<1>1. l.to \in {"elsewhere", "section"} /\ l.saved \in Settings /\ l.cfSaved \in Values
  BY DEF SettingsInv, SettingsTypeOK
<1>2. view' \in {"settings", "elsewhere"} /\ section' \in {"core", "cloudflare"}
  BY <1>1, GoType DEF SettingsInv, Discard
<1>3. SettingsTypeOK'
  BY <1>1, <1>2 DEF SettingsInv, SettingsTypeOK, Discard
<1>4. (DifferingIsRecorded /\ EditsDiffer /\ SwitchEdited /\ NoHiddenEdits)'
  BY DEF Discard, DifferingIsRecorded, EditsDiffer, SwitchEdited, NoHiddenEdits, Differing
<1> QED
  BY <1>3, <1>4 DEF SettingsInv

LEMMA StayKeeps == ASSUME SettingsInv, Stay PROVE SettingsInv'
<1>1. SettingsTypeOK'
  BY DEF SettingsInv, SettingsTypeOK, Stay, coreVars, cloudVars, placeVars
<1> QED
  BY <1>1, RecordsFrame DEF SettingsInv, Stay, placeVars

LEMMA OthersSaveKeeps ==
  ASSUME SettingsInv, NEW f \in Fields, NEW v \in Values, OthersSave(f, v)
  PROVE  SettingsInv'
<1>1. SettingsTypeOK'
  BY DEF SettingsInv, SettingsTypeOK, Settings, OthersSave, coreVars, cloudVars, placeVars
<1> QED
  BY <1>1, RecordsFrame DEF SettingsInv, OthersSave, placeVars

LEMMA SettingsStep == SettingsInv /\ [SettingsNext]_settingsVars => SettingsInv'
<1> SUFFICES ASSUME SettingsInv, [SettingsNext]_settingsVars PROVE SettingsInv'
  OBVIOUS
<1>1. CASE \E f \in Fields, v \in Values : Edit(f, v) \/ OthersSave(f, v)
  BY <1>1, EditKeeps, OthersSaveKeeps
<1>2. CASE \E v \in Values : EditCloudflare(v) \/ ToggleSystemEnabled(v)
  BY <1>2, EditCloudflareKeeps, ToggleKeeps
<1>3. CASE \E v \in Values : \E c \in calls \cap CloudCalls : CloudflareApplied(c, v)
  BY <1>3, CloudflareAppliedKeeps
<1>4. CASE LoadCloudflare \/ SaveCloudflare \/ TestToken \/ \E c \in calls \cap CloudCalls : CloudflareFails(c)
  BY <1>4, CloudCallsKeep
<1>5. CASE OpenSettings
  BY <1>5, OpenSettingsKeeps
<1>6. CASE Save
  BY <1>6, SaveKeeps
<1>7. CASE \E c \in calls \cap CoreCalls :
             PatchStored(c) \/ SessionRead(c) \/ SessionApplied(c) \/ SaveFails(c)
  BY <1>7, PatchStoredKeeps, SessionReadKeeps, SessionAppliedKeeps, SaveFailsKeeps
<1>8. CASE \E to \in {"elsewhere", "section"} : Leave(to)
  BY <1>8, LeaveKeeps
<1>9. CASE \E to \in {"elsewhere", "section", "page"} : Ask(to)
  BY <1>9, AskKeeps
<1>10. CASE \E l \in leaving : IF l.to = "page" THEN NextConsole ELSE Discard(l)
  BY <1>10, NextConsoleKeeps, DiscardKeeps
<1>11. CASE Stay \/ LeavePage \/ SessionEnds
  BY <1>11, StayKeeps, NextConsoleKeeps DEF LeavePage, SessionEnds
<1>12. CASE UNCHANGED settingsVars
  <2>1. SettingsTypeOK'
    BY <1>12 DEF SettingsInv, SettingsTypeOK, settingsVars
  <2> QED
    BY <1>12, <2>1, RecordsFrame DEF SettingsInv, settingsVars, coreVars, cloudVars
<1> QED
  BY <1>1, <1>2, <1>3, <1>4, <1>5, <1>6, <1>7, <1>8, <1>9, <1>10, <1>11, <1>12 DEF SettingsNext

\* The types and the records are invariant, and with them: whatever view but the
\* settings is on display, no edit is waiting in the draft unseen.
THEOREM EditsAreNotHidden == SettingsSpec => []NoHiddenEdits
<1>1. SettingsInv => NoHiddenEdits
  BY DEF SettingsInv
<1> QED
  BY SettingsStart, SettingsStep, <1>1, PTL DEF SettingsSpec

THEOREM SettingsTypes == SettingsSpec => []SettingsTypeOK
<1>1. SettingsInv => SettingsTypeOK
  BY DEF SettingsInv
<1> QED
  BY SettingsStart, SettingsStep, <1>1, PTL DEF SettingsSpec

\* What one step may put on its way.
SentIsEdited ==
  \A c \in calls' \ calls : c.op = "save" /\ c.stage = "patch"
    => DOMAIN c.change \subseteq edited \cup reverted

\* Only a click on save sends a save; its other steps have left their first stage.
LEMMA OthersSendNoSave ==
  ASSUME SettingsInv, SettingsNext, ~Save
  PROVE  \A c \in calls' \ calls : ~(c.op = "save" /\ c.stage = "patch")
<1> SUFFICES ASSUME NEW d \in calls' \ calls PROVE ~(d.op = "save" /\ d.stage = "patch")
  OBVIOUS
<1>1. CASE calls' \subseteq calls
  BY <1>1
<1>2. CASE calls' \subseteq calls \cup {Restore, CloudLoad}
  BY <1>2 DEF Restore, CloudLoad
<1>3. ASSUME NEW v \in Values, ToggleSystemEnabled(v) PROVE d.op # "save"
  BY <1>3 DEF ToggleSystemEnabled, Patch
<1>4. CASE SaveCloudflare \/ TestToken
  BY <1>4 DEF SaveCloudflare, TestToken, TokenTest
<1>5. ASSUME NEW c \in CoreCalls, PatchStored(c) \/ SessionRead(c)
      PROVE  d.stage # "patch"
  <2>1. PICK stage \in {"get", "read"}, snap \in {{}, {stored}} : NextStage(c, stage, snap)
    BY <1>5 DEF PatchStored, SessionRead
  <2> DEFINE e == [c EXCEPT !.stage = stage, !.change = NoChange, !.snap = snap]
  <2>2. e.stage = stage
    BY DEF CoreCalls
  <2>3. d = e
    BY <2>1 DEF NextStage
  <2> QED
    BY <2>2, <2>3
<1>6. ASSUME NextConsole PROVE calls' \subseteq calls \cup {Restore, CloudLoad}
  BY <1>6 DEF NextConsole
<1>7. ASSUME OpenSettings \/ LoadCloudflare PROVE calls' \subseteq calls \cup {Restore, CloudLoad}
  BY <1>7 DEF OpenSettings, LoadCloudflare
<1>8. ASSUME \/ \E f \in Fields, v \in Values : Edit(f, v) \/ OthersSave(f, v)
             \/ \E v \in Values : EditCloudflare(v)
             \/ \E c \in CoreCalls : SessionApplied(c) \/ SaveFails(c)
             \/ \E c \in CloudCalls : CloudflareFails(c) \/ \E v \in Values : CloudflareApplied(c, v)
             \/ \E to \in {"elsewhere", "section", "page"} : Leave(to) \/ Ask(to)
             \/ \E l \in leaving : Discard(l)
             \/ Stay
      PROVE  calls' \subseteq calls
  BY <1>8 DEF Edit, OthersSave, EditCloudflare, SessionApplied, SaveFails, CloudflareFails,
     CloudflareApplied, Leave, Ask, Discard, Stay
<1> QED
  BY <1>1, <1>2, <1>3, <1>4, <1>5, <1>6, <1>7, <1>8 DEF SettingsNext, LeavePage, SessionEnds

LEMMA SavesStep == SettingsInv /\ [SettingsNext]_settingsVars => [SentIsEdited]_settingsVars
<1> SUFFICES ASSUME SettingsInv, SettingsNext PROVE SentIsEdited
  OBVIOUS
<1>1. CASE ~Save
  BY <1>1, OthersSendNoSave DEF SentIsEdited
<1>2. CASE Save
  <2>1. DOMAIN SavePayload \subseteq edited \cup reverted
    BY DEF SettingsInv, DifferingIsRecorded, SavePayload
  <2> QED
    BY <1>2, <2>1 DEF Save, Patch, SentIsEdited
<1> QED
  BY <1>1, <1>2

\* A save carries the fields its administrator edited, or that were recorded as
\* put back, and no others.
THEOREM SavesCarryEdits == SettingsSpec => SavesOnlyEdits
<1>1. SettingsSpec => []SettingsInv
  BY SettingsStart, SettingsStep, PTL DEF SettingsSpec
<1> QED
  BY <1>1, SavesStep, PTL DEF SettingsSpec, SavesOnlyEdits, SentIsEdited

----------------------------------------------------------------------------
(* The batch dialog                                                        *)

\* The current load was started by the opening on display, and what there is to
\* choose from was loaded for it.
LoadsOfThisOpening ==
  /\ \A l \in zoneLoads : l.id <= requestId /\ (Current(l) => l.opening = openings)
  /\ zones # 0 => zones = openings

FlagTypes ==
  modal \in BOOLEAN /\ zonesLoading \in BOOLEAN /\ outdated \in BOOLEAN /\ canBatch \in BOOLEAN

LoadTypes ==
  /\ openings \in 0 .. MaxOpenings /\ zones \in 0 .. MaxOpenings
  /\ requestId \in Nat /\ loadsMade \in 0 .. MaxLoads
  /\ zoneLoads \subseteq ZoneLoads

\* A dialog that was never opened has no load and no batch.
OpenedFirst == (modal => openings # 0) /\ (progress # {} => modal)

DialogInv == FlagTypes /\ LoadTypes /\ OpenedFirst /\ LoadsOfThisOpening /\ ZonesWillCome

\* The domains a batch has made come before the one it is about.
Sequel(p) == IF p.step = "sync" THEN 1 ELSE 0

InOrder(p) ==
  /\ p.completed + Sequel(p) <= p.total
  /\ made \subseteq 1 .. p.completed + Sequel(p)
  /\ p.synced + Sequel(p) <= p.created

Counted(p) ==
  /\ p.created = Cardinality(confirmed)
  /\ p.created + p.failed = p.completed + Sequel(p)
  /\ confirmed \subseteq made /\ Cardinality(made) <= p.created + p.failed

LoopInv ==
  /\ progress \subseteq Progress /\ (\A p, q \in progress : p = q)
  /\ made \subseteq 1 .. MaxBatch /\ confirmed \subseteq 1 .. MaxBatch
  /\ \A p \in progress : InOrder(p) /\ Counted(p)

LEMMA BoundsType == MaxBatch \in Nat /\ MaxOpenings \in Nat /\ MaxLoads \in Nat /\ MaxBatch # 0
BY DomainBatchAssumption

LEMMA DialogInit == BatchInit => DialogInv
<1> SUFFICES ASSUME BatchInit PROVE DialogInv
  OBVIOUS
<1>1. FlagTypes
  BY DEF BatchInit, FlagTypes
<1>2. LoadTypes
  BY BoundsType DEF BatchInit, LoadTypes
<1>3. OpenedFirst /\ LoadsOfThisOpening /\ ZonesWillCome
  BY DEF BatchInit, OpenedFirst, LoadsOfThisOpening, ZonesWillCome
<1> QED
  BY <1>1, <1>2, <1>3 DEF DialogInv

\* No number was given to a load before it was drawn.
LEMMA NumbersBelow == ASSUME DialogInv PROVE \A l \in zoneLoads : l.id \in Nat /\ l.id <= requestId
BY DEF DialogInv, LoadTypes, LoadsOfThisOpening, ZoneLoads

LEMMA StartLoadKeeps ==
  ASSUME DialogInv, NEW o \in Openings, NEW effect \in BOOLEAN, StartLoad(o, effect),
         openings' = o, modal' = TRUE, zones' = 0, canBatch' = canBatch
  PROVE  DialogInv'
<1> DEFINE l == [id |-> requestId + 1, opening |-> o, effect |-> effect, stage |-> "settings"]
<1>1. l \in ZoneLoads
  BY DEF DialogInv, LoadTypes, ZoneLoads
<1>2. l.id = requestId + 1 /\ l.opening = o
  OBVIOUS
<1>3. zoneLoads' = zoneLoads \cup {l}
  BY DEF StartLoad
<1> HIDE DEF l
<1>4. LoadTypes'
  BY <1>1, <1>3, BoundsType DEF StartLoad, DialogInv, LoadTypes, Openings
<1>5. FlagTypes'
  BY DEF StartLoad, DialogInv, FlagTypes
<1>6. LoadsOfThisOpening'
  BY <1>2, <1>3, NumbersBelow DEF StartLoad, DialogInv, LoadTypes, LoadsOfThisOpening, Current
<1>7. ZonesWillCome'
  BY <1>2, <1>3 DEF StartLoad, ZonesWillCome, Current
<1>8. OpenedFirst'
  BY DEF OpenedFirst, Openings
<1> QED
  BY <1>4, <1>5, <1>6, <1>7, <1>8 DEF DialogInv

LEMMA OpenModalKeeps == ASSUME DialogInv, OpenModal PROVE DialogInv'
<1>1. openings + 1 \in Openings
  BY BoundsType DEF OpenModal, DialogInv, LoadTypes, Openings
<1> QED
  BY <1>1, StartLoadKeeps DEF OpenModal

LEMMA RefreshZonesKeeps == ASSUME DialogInv, RefreshZones PROVE DialogInv'
<1>1. openings \in Openings
  BY BoundsType DEF RefreshZones, DialogInv, LoadTypes, OpenedFirst, Openings
<1>2. modal' = TRUE
  BY DEF RefreshZones, DialogInv, FlagTypes
<1> QED
  BY <1>1, <1>2, StartLoadKeeps DEF RefreshZones

LEMMA CloseModalKeeps == ASSUME DialogInv, CloseModal PROVE DialogInv'
<1>1. LoadsOfThisOpening' /\ LoadTypes'
  BY NumbersBelow DEF CloseModal, DialogInv, LoadTypes, LoadsOfThisOpening, Current
<1>2. FlagTypes' /\ ZonesWillCome'
  BY DEF CloseModal, DialogInv, FlagTypes, ZonesWillCome
<1>3. OpenedFirst'
  BY DEF CloseModal, OpenedFirst, loopVars
<1> QED
  BY <1>1, <1>2, <1>3 DEF DialogInv

LEMMA SettingsReadKeeps ==
  ASSUME DialogInv, NEW l \in zoneLoads, SettingsRead(l)
  PROVE  DialogInv'
<1> DEFINE m == [l EXCEPT !.stage = "zones"]
<1>1. m \in ZoneLoads /\ m.id = l.id /\ m.opening = l.opening
  BY DEF DialogInv, LoadTypes, ZoneLoads
<1>2. zoneLoads' = (zoneLoads \ {l}) \cup {m}
  BY DEF SettingsRead
<1> HIDE DEF m
<1>3. LoadTypes' /\ LoadsOfThisOpening'
  BY <1>1, <1>2 DEF SettingsRead, DialogInv, LoadTypes, LoadsOfThisOpening, Current
<1>4. ZonesWillCome'
  BY <1>1, <1>2 DEF SettingsRead, ZonesWillCome, Current
<1>5. FlagTypes' /\ OpenedFirst'
  BY DEF SettingsRead, DialogInv, FlagTypes, OpenedFirst, loopVars
<1> QED
  BY <1>3, <1>4, <1>5 DEF DialogInv

\* A load that is over leaves what it found, if it is the current one.
LEMMA LoadOverKeeps ==
  ASSUME DialogInv, NEW l \in zoneLoads, LoadOver(l),
         zones' \in {0, zones} \/ (Current(l) /\ zones' = l.opening), canBatch' \in BOOLEAN
  PROVE  DialogInv'
<1>1. l.opening \in Openings /\ l.id \in Nat
  BY DEF DialogInv, LoadTypes, ZoneLoads
<1>2. requestId' \in {requestId, requestId + 1} /\ requestId' \in Nat
  BY DEF LoadOver, DialogInv, LoadTypes
<1>3. Current(l) => l.opening = openings
  BY DEF DialogInv, LoadsOfThisOpening
<1>4. zones' \in 0 .. MaxOpenings /\ (zones' # 0 => zones' = openings)
  BY <1>3, BoundsType DEF DialogInv, LoadTypes, LoadsOfThisOpening
<1>5. LoadTypes'
  BY <1>2, <1>4 DEF LoadOver, DialogInv, LoadTypes
<1>6. LoadsOfThisOpening'
  BY <1>2, <1>4, NumbersBelow DEF LoadOver, DialogInv, LoadTypes, LoadsOfThisOpening, Current
<1>7. FlagTypes'
  BY DEF LoadOver, DialogInv, FlagTypes
<1>8. ZonesWillCome'
  <2> SUFFICES ASSUME zonesLoading', ~outdated' PROVE \E m \in zoneLoads' : Current(m)'
    BY DEF ZonesWillCome
  <2>1. zonesLoading /\ ~outdated /\ ~Current(l) /\ ~Cancelled(l)
    BY DEF LoadOver
  <2>2. PICK m \in zoneLoads : Current(m)
    BY <2>1 DEF DialogInv, ZonesWillCome
  <2> QED
    BY <2>1, <2>2 DEF LoadOver, Current
<1>9. OpenedFirst'
  BY DEF LoadOver, DialogInv, OpenedFirst, loopVars
<1> QED
  BY <1>5, <1>6, <1>7, <1>8, <1>9 DEF DialogInv

\* What the loop does to the dialog is to close it.
LEMMA LoopKeepsDialog ==
  ASSUME DialogInv, modal' \in BOOLEAN, canBatch' \in BOOLEAN, OpenedFirst',
         UNCHANGED <<openings, requestId, zoneLoads, loadsMade, zones, zonesLoading, outdated>>
  PROVE  DialogInv'
<1>1. LoadTypes' /\ LoadsOfThisOpening' /\ ZonesWillCome'
  BY DEF DialogInv, LoadTypes, LoadsOfThisOpening, ZonesWillCome, Current
<1>2. FlagTypes'
  BY DEF DialogInv, FlagTypes
<1> QED
  BY <1>1, <1>2 DEF DialogInv

LEMMA DialogStep == DialogInv /\ [BatchNext]_batchVars => DialogInv'
<1> SUFFICES ASSUME DialogInv, [BatchNext]_batchVars PROVE DialogInv'
  OBVIOUS
<1>1. CASE OpenModal \/ CloseModal \/ RefreshZones
  BY <1>1, OpenModalKeeps, CloseModalKeeps, RefreshZonesKeeps
<1>2. ASSUME NEW l \in zoneLoads, SettingsRead(l) \/ ZonesRead(l) \/ LoadEnds(l) PROVE DialogInv'
  <2>1. CASE SettingsRead(l)
    BY <2>1, SettingsReadKeeps
  <2>2. CASE ZonesRead(l) \/ LoadEnds(l)
    <3>1. canBatch' \in BOOLEAN
      BY <2>2 DEF ZonesRead, LoadEnds, DialogInv, FlagTypes
    <3> QED
      BY <2>2, <3>1, LoadOverKeeps DEF ZonesRead, LoadEnds
  <2> QED
    BY <1>2, <2>1, <2>2
<1>3. ASSUME NEW n \in 1 .. MaxBatch, StartBatch(n) PROVE DialogInv'
  <2>1. modal' \in BOOLEAN /\ canBatch' \in BOOLEAN /\ OpenedFirst'
    BY <1>3 DEF StartBatch, DialogUnchanged, DialogInv, FlagTypes, OpenedFirst
  <2> QED
    BY <1>3, <2>1, LoopKeepsDialog DEF StartBatch, DialogUnchanged
<1>4. ASSUME NEW p \in progress,
             DomainCreated(p) \/ DomainFails(p) \/ DomainSynced(p) \/ SyncFails(p)
      PROVE  DialogInv'
  <2>1. modal' = modal
    BY <1>4 DEF DomainCreated, DomainFails, DomainSynced, SyncFails, DialogUnchanged
  <2>2. UNCHANGED <<openings, requestId, zoneLoads, loadsMade, zones, zonesLoading, canBatch, outdated>>
    BY <1>4 DEF DomainCreated, DomainFails, DomainSynced, SyncFails, DialogUnchanged
  <2>3. modal' \in BOOLEAN /\ canBatch' \in BOOLEAN /\ OpenedFirst'
    BY <1>4, <2>1, <2>2 DEF DialogInv, FlagTypes, OpenedFirst
  <2> QED
    BY <2>2, <2>3, LoopKeepsDialog
<1>5. ASSUME NEW p \in progress, EndBatch(p) PROVE DialogInv'
  <2>1. modal' \in BOOLEAN /\ canBatch' \in BOOLEAN /\ OpenedFirst'
    BY <1>5 DEF EndBatch, DialogInv, FlagTypes, OpenedFirst
  <2> QED
    BY <1>5, <2>1, LoopKeepsDialog DEF EndBatch
<1>6. CASE UNCHANGED batchVars
  <2>1. modal' \in BOOLEAN /\ canBatch' \in BOOLEAN /\ OpenedFirst'
    BY <1>6 DEF batchVars, DialogInv, FlagTypes, OpenedFirst
  <2> QED
    BY <1>6, <2>1, LoopKeepsDialog DEF batchVars
<1>7. CASE CloudflareChanged
  <2>1. modal' \in BOOLEAN /\ canBatch' \in BOOLEAN /\ OpenedFirst'
    BY <1>7 DEF CloudflareChanged, DialogInv, FlagTypes, OpenedFirst, loopVars
  <2> QED
    BY <1>7, <2>1, LoopKeepsDialog DEF CloudflareChanged
<1> QED
  BY <1>1, <1>2, <1>3, <1>4, <1>5, <1>6, <1>7 DEF BatchNext


LEMMA LoopInit == BatchInit => LoopInv
BY DEF BatchInit, LoopInv

\* Only a batch that runs has a domain to make, which is not made yet.
LEMMA ABatch ==
  ASSUME LoopInv, NEW p \in progress
  PROVE  /\ p \in Progress /\ progress = {p} /\ InOrder(p) /\ Counted(p)
         /\ IsFiniteSet(made) /\ IsFiniteSet(confirmed)
         /\ Cardinality(made) \in Nat /\ Cardinality(confirmed) \in Nat
<1>1. IsFiniteSet(1 .. MaxBatch)
  BY BoundsType, FS_Interval
<1>2. IsFiniteSet(made) /\ IsFiniteSet(confirmed)
  BY <1>1, FS_Subset DEF LoopInv
<1>3. Cardinality(made) \in Nat /\ Cardinality(confirmed) \in Nat
  BY <1>2, FS_CardinalityType
<1> QED
  BY <1>2, <1>3 DEF LoopInv

\* A step of the loop that leads to the batch q.
LEMMA NextBatch ==
  ASSUME NEW q \in Progress, progress' = {q},
         made' \subseteq 1 .. MaxBatch, confirmed' \subseteq 1 .. MaxBatch,
         InOrder(q)', Counted(q)'
  PROVE  LoopInv'
BY DEF LoopInv

LEMMA StartBatchLoop == ASSUME LoopInv, NEW n \in 1 .. MaxBatch, StartBatch(n) PROVE LoopInv'
<1> DEFINE q == [total |-> n, completed |-> 0, created |-> 0, synced |-> 0,
                 failed |-> 0, step |-> "create"]
<1>1. q \in Progress
  BY BoundsType DEF Progress
<1>2. progress' = {q} /\ made' = {} /\ confirmed' = {}
  BY DEF StartBatch
<1>3. q.total = n /\ q.completed = 0 /\ q.created = 0 /\ q.synced = 0 /\ q.failed = 0 /\ q.step = "create"
  OBVIOUS
<1> HIDE DEF q
<1>4. InOrder(q)'
  BY <1>2, <1>3 DEF InOrder, Sequel
<1>5. Counted(q)'
  BY <1>2, <1>3, FS_EmptySet DEF Counted, Sequel
<1> QED
  BY <1>1, <1>2, <1>4, <1>5, NextBatch

LEMMA DomainCreatedLoop == ASSUME LoopInv, NEW p \in progress, DomainCreated(p) PROVE LoopInv'
<1> DEFINE q == [p EXCEPT !.created = @ + 1, !.step = "sync"]
<1>1. p \in Progress /\ InOrder(p) /\ Counted(p) /\ p.step = "create" /\ p.completed < p.total
  BY ABatch DEF DomainCreated, Running
<1>2. progress' = {q} /\ made' = made \cup {p.completed + 1} /\ confirmed' = confirmed \cup {p.completed + 1}
  BY DEF DomainCreated, Batch, Domain
<1>3. p.created <= p.completed
  BY <1>1 DEF Counted, Sequel, Progress
<1>4. q \in Progress
  <2>1. p.created + 1 \in 0 .. MaxBatch
    BY <1>1, <1>3, BoundsType DEF Progress
  <2> QED
    BY <1>1, <2>1 DEF Progress
<1>5. /\ q.total = p.total /\ q.completed = p.completed /\ q.created = p.created + 1
      /\ q.synced = p.synced /\ q.failed = p.failed /\ q.step = "sync"
  BY <1>1 DEF Progress
<1> HIDE DEF q
<1>6. made' \subseteq 1 .. p.completed + 1 /\ made' \subseteq 1 .. MaxBatch /\ confirmed' \subseteq 1 .. MaxBatch
  <2>1. p.completed \in Nat /\ p.completed + 1 \in 1 .. MaxBatch
    BY <1>1, BoundsType DEF Progress
  <2>2. made \subseteq 1 .. p.completed
    BY <1>1, <2>1 DEF InOrder, Sequel
  <2>3. 1 .. p.completed \subseteq 1 .. p.completed + 1 /\ p.completed + 1 \in 1 .. p.completed + 1
    BY <2>1
  <2> QED
    BY <1>2, <2>1, <2>2, <2>3 DEF LoopInv
<1>7. InOrder(q)'
  BY <1>1, <1>5, <1>6 DEF InOrder, Sequel, Progress
<1>8. p.completed + 1 \notin made /\ p.completed + 1 \notin confirmed
  BY <1>1 DEF InOrder, Counted, Sequel, Progress
<1>9. Cardinality(made') = Cardinality(made) + 1 /\ Cardinality(confirmed') = Cardinality(confirmed) + 1
  BY <1>2, <1>8, ABatch, FS_AddElement
<1>10. Counted(q)'
  BY <1>1, <1>2, <1>5, <1>9, ABatch DEF Counted, Sequel, Progress
<1> QED
  BY <1>2, <1>4, <1>6, <1>7, <1>10, NextBatch

LEMMA DomainFailsLoop == ASSUME LoopInv, NEW p \in progress, DomainFails(p) PROVE LoopInv'
<1> DEFINE q == [p EXCEPT !.failed = @ + 1, !.completed = @ + 1]
<1>1. p \in Progress /\ InOrder(p) /\ Counted(p) /\ p.step = "create" /\ p.completed < p.total
  BY ABatch DEF DomainFails, Running
<1>2. progress' = {q} /\ made' \in {made, made \cup {p.completed + 1}} /\ confirmed' = confirmed
  BY DEF DomainFails, Batch, Domain
<1>3. p.failed <= p.completed
  BY <1>1 DEF Counted, Sequel, Progress
<1>4. q \in Progress
  <2>1. p.failed + 1 \in 0 .. MaxBatch /\ p.completed + 1 \in 0 .. MaxBatch
    BY <1>1, <1>3, BoundsType DEF Progress
  <2> QED
    BY <1>1, <2>1 DEF Progress
<1>5. /\ q.total = p.total /\ q.completed = p.completed + 1 /\ q.created = p.created
      /\ q.synced = p.synced /\ q.failed = p.failed + 1 /\ q.step = "create"
  BY <1>1 DEF Progress
<1> HIDE DEF q
<1>6. made' \subseteq 1 .. p.completed + 1 /\ made' \subseteq 1 .. MaxBatch /\ confirmed' \subseteq 1 .. MaxBatch
  <2>1. p.completed \in Nat /\ p.completed + 1 \in 1 .. MaxBatch
    BY <1>1, BoundsType DEF Progress
  <2>2. made \subseteq 1 .. p.completed
    BY <1>1, <2>1 DEF InOrder, Sequel
  <2>3. 1 .. p.completed \subseteq 1 .. p.completed + 1 /\ p.completed + 1 \in 1 .. p.completed + 1
    BY <2>1
  <2> QED
    BY <1>2, <2>1, <2>2, <2>3 DEF LoopInv
<1>7. InOrder(q)'
  BY <1>1, <1>5, <1>6 DEF InOrder, Sequel, Progress
<1>8. p.completed + 1 \notin made
  BY <1>1 DEF InOrder, Sequel, Progress
<1>9. Cardinality(made') \in {Cardinality(made), Cardinality(made) + 1}
  BY <1>2, <1>8, ABatch, FS_AddElement
<1>10. Counted(q)'
  BY <1>1, <1>2, <1>5, <1>9, ABatch DEF Counted, Sequel, Progress
<1> QED
  BY <1>2, <1>4, <1>6, <1>7, <1>10, NextBatch

\* A synchronization completes its domain, whether it succeeds or fails.
LEMMA SyncLoop ==
  ASSUME LoopInv, NEW p \in progress, p.step = "sync", NEW synced \in {p.synced, p.synced + 1},
         Batch([p EXCEPT !.synced = synced, !.completed = @ + 1, !.step = "create"]),
         UNCHANGED <<made, confirmed>>
  PROVE  LoopInv'
<1> DEFINE q == [p EXCEPT !.synced = synced, !.completed = @ + 1, !.step = "create"]
<1>1. p \in Progress /\ InOrder(p) /\ Counted(p)
  BY ABatch
<1>2. progress' = {q}
  BY DEF Batch
<1>3. p.completed < p.total /\ synced <= p.created /\ synced \in Nat
  BY <1>1 DEF InOrder, Sequel, Progress
<1>4. q \in Progress
  <2>1. synced \in 0 .. MaxBatch /\ p.completed + 1 \in 0 .. MaxBatch
    BY <1>1, <1>3, BoundsType DEF Progress
  <2> QED
    BY <1>1, <2>1 DEF Progress
<1>5. /\ q.total = p.total /\ q.completed = p.completed + 1 /\ q.created = p.created
      /\ q.synced = synced /\ q.failed = p.failed /\ q.step = "create"
  BY <1>1 DEF Progress
<1> HIDE DEF q
<1>6. InOrder(q)'
  BY <1>1, <1>3, <1>5 DEF InOrder, Sequel, Progress
<1>7. Counted(q)'
  BY <1>1, <1>5 DEF Counted, Sequel, Progress
<1> QED
  BY <1>2, <1>4, <1>6, <1>7, NextBatch DEF LoopInv

LEMMA LoopStep == LoopInv /\ [BatchNext]_batchVars => LoopInv'
<1> SUFFICES ASSUME LoopInv, [BatchNext]_batchVars PROVE LoopInv'
  OBVIOUS
<1>1. CASE UNCHANGED loopVars
  BY <1>1 DEF loopVars, LoopInv, InOrder, Counted
<1>2. CASE OpenModal
  BY <1>2 DEF OpenModal, LoopInv
<1>3. CASE CloseModal \/ RefreshZones \/ CloudflareChanged
  BY <1>1, <1>3 DEF CloseModal, RefreshZones, CloudflareChanged
<1>4. ASSUME NEW l \in zoneLoads, SettingsRead(l) \/ ZonesRead(l) \/ LoadEnds(l) PROVE LoopInv'
  BY <1>1, <1>4 DEF SettingsRead, ZonesRead, LoadEnds, LoadOver
<1>5. ASSUME NEW n \in 1 .. MaxBatch, StartBatch(n) PROVE LoopInv'
  BY <1>5, StartBatchLoop
<1>6. ASSUME NEW p \in progress, DomainCreated(p) \/ DomainFails(p) PROVE LoopInv'
  BY <1>6, DomainCreatedLoop, DomainFailsLoop
<1>7. ASSUME NEW p \in progress, DomainSynced(p) PROVE LoopInv'
  BY <1>7, SyncLoop DEF DomainSynced, Running
<1>8. ASSUME NEW p \in progress, SyncFails(p) PROVE LoopInv'
  <2>1. p.step = "sync" /\ UNCHANGED <<made, confirmed>>
    BY <1>8 DEF SyncFails
  <2>2. [p EXCEPT !.completed = @ + 1, !.step = "create"]
          = [p EXCEPT !.synced = p.synced, !.completed = @ + 1, !.step = "create"]
    BY ABatch DEF Progress
  <2> QED
    BY <1>8, <2>1, <2>2, SyncLoop DEF SyncFails, Batch
<1>9. ASSUME NEW p \in progress, EndBatch(p) PROVE LoopInv'
  BY <1>9 DEF EndBatch, LoopInv
<1>10. CASE UNCHANGED batchVars
  BY <1>1, <1>10 DEF batchVars, loopVars
<1> QED
  BY <1>2, <1>3, <1>4, <1>5, <1>6, <1>7, <1>8, <1>9, <1>10 DEF BatchNext

BatchInv == DialogInv /\ LoopInv

LEMMA BatchInvariant == BatchSpec => []BatchInv
<1>1. BatchInit => BatchInv
  BY DialogInit, LoopInit DEF BatchInv
<1>2. BatchInv /\ [BatchNext]_batchVars => BatchInv'
  BY DialogStep, LoopStep DEF BatchInv
<1> QED
  BY <1>1, <1>2, PTL DEF BatchSpec

\* The types of the dialog and its batch hold in every reachable state.
THEOREM BatchTypes == BatchSpec => []BatchTypeOK
<1>1. BatchInv => BatchTypeOK
  <2> SUFFICES ASSUME BatchInv PROVE BatchTypeOK
    OBVIOUS
  <2>1. Cardinality(progress) <= 1
    <3>1. CASE progress = {}
      BY <3>1, FS_EmptySet
    <3>2. ASSUME NEW p \in progress PROVE Cardinality(progress) <= 1
      BY ABatch, FS_Singleton DEF BatchInv
    <3> QED
      BY <3>1, <3>2
  <2>2. openings \in 0 .. MaxOpenings /\ zones \in 0 .. MaxOpenings /\ requestId \in Nat
        /\ loadsMade \in 0 .. MaxLoads /\ zoneLoads \subseteq ZoneLoads
    BY DEF BatchInv, DialogInv, LoadTypes
  <2>3. modal \in BOOLEAN /\ zonesLoading \in BOOLEAN /\ outdated \in BOOLEAN /\ canBatch \in BOOLEAN
    BY DEF BatchInv, DialogInv, FlagTypes
  <2>4. progress \subseteq Progress /\ made \subseteq 1 .. MaxBatch /\ confirmed \subseteq 1 .. MaxBatch
    BY DEF BatchInv, LoopInv
  <2> QED
    BY <2>1, <2>2, <2>3, <2>4, Zenon DEF BatchTypeOK
<1> QED
  BY <1>1, BatchInvariant, PTL

\* The zones on offer were loaded since the dialog was opened.
THEOREM ZonesAreCurrent == BatchSpec => []ZonesOfThisOpening
<1>1. BatchInv => ZonesOfThisOpening
  BY DEF BatchInv, DialogInv, LoadsOfThisOpening, ZonesOfThisOpening
<1> QED
  BY <1>1, BatchInvariant, PTL

\* The dialog waits for zones only while their load is under way, unless a load
\* of an earlier opening has made that one stale.
THEOREM ZonesAreAwaited == BatchSpec => []ZonesWillCome
<1>1. BatchInv => ZonesWillCome
  BY DEF BatchInv, DialogInv
<1> QED
  BY <1>1, BatchInvariant, PTL

\* However its calls fail, the counts of a batch are those of the backend.
THEOREM BatchesAddUp == BatchSpec => []BatchAddsUp
<1>1. BatchInv => BatchAddsUp
  <2> SUFFICES ASSUME BatchInv, NEW p \in progress
               PROVE  /\ p.created = Cardinality(confirmed)
                      /\ p.created + p.failed = p.completed + (IF p.step = "sync" THEN 1 ELSE 0)
                      /\ p.synced <= p.created
                      /\ confirmed \subseteq made /\ Cardinality(made) <= p.created + p.failed
    BY DEF BatchAddsUp
  <2> QED
    BY ABatch DEF BatchInv, InOrder, Counted, Sequel, Progress
<1> QED
  BY <1>1, BatchInvariant, PTL

----------------------------------------------------------------------------
(* The lists                                                               *)

\* The rows prev become once answer a is in, for a handler that starts from them.
Effect(a, prev) ==
  CASE a.call.op = "load"   -> a.list
    [] a.call.op = "create" -> [i \in Items |-> IF i \in a.call.item THEN 1 ELSE prev[i]]
    [] a.call.op = "patch"  ->
         [i \in Items |-> IF i \in a.call.item /\ prev[i] > 0 THEN a.list[i] ELSE prev[i]]
    [] a.call.op = "delete" /\ panel # "logs" ->
         [i \in Items |-> IF i \in a.call.item THEN 0 ELSE prev[i]]
    [] OTHER -> prev

\* What a call creates is not among the rows prev.
IsNew(a, prev) == a.call.op = "create" => \A i \in a.call.item : prev[i] = 0

Before(n) == IF n = 1 THEN rows ELSE answers[n - 1].list
Latest == IF answers = <<>> THEN rows ELSE answers[Len(answers)].list

\* From answer k on, each leads from what came before it to the backend's items
\* at its time, and the last one to those there are now.
FollowedFrom(k) ==
  /\ \A n \in 1 .. Len(answers) : n >= k =>
       /\ answers[n].list = Effect(answers[n], Before(n))
       /\ IsNew(answers[n], Before(n))
  /\ server = Latest

Followed ==
  /\ ~drift => FollowedFrom(1) /\ doubled = {}
  /\ \A n \in 1 .. Len(answers) : answers[n].clean => FollowedFrom(n + 1)

ListTypes ==
  /\ panel \in Panels
  /\ server \in Lists /\ rows \in Lists
  /\ used \subseteq Items /\ \A i \in Items \ used : server[i] = 0
  /\ doubled \subseteq Items
  /\ sent \subseteq ListCalls
  /\ answers \in Seq(Answers)

SwitchTypes == loading \in BOOLEAN /\ drift \in BOOLEAN

\* A deletion names one row, but for that of the whole audit log.
Deletes(c) == c.op = "delete" /\ panel # "logs" => \E i \in Items : c.item = {i}
DeletesOne == \A c \in sent : Deletes(c)

AskingTypes == /\ asking \subseteq ListCalls /\ \A p, q \in asking : p = q
               /\ \A p \in asking : Deletes(p)

ListsInv == ListTypes /\ AskingTypes /\ SwitchTypes /\ DeletesOne /\ Followed /\ LoadingEnds

LEMMA RowsType == NoRows \in Lists /\ MaxRevision \in Nat /\ 1 \in 0 .. MaxRevision
BY ConsoleListsAssumption DEF NoRows, Lists

\* The calls a list waits for that shows itself as loading.
Loads(c) == c.op = "load" \/ c = Activation({})

LEMMA LoadIsACall == LoadCall \in ListCalls /\ LoadCall.op = "load"
BY RowsType DEF LoadCall, ListCall, ListCalls, Ops

LEMMA ActivationIsACall ==
  ASSUME NEW is \in SUBSET Items
  PROVE  Activation(is) \in ListCalls /\ Activation(is).op = "activate"
BY RowsType DEF Activation, ListCall, ListCalls, Ops

LEMMA ListsStart == ListsInit => ListsInv
<1> SUFFICES ASSUME ListsInit PROVE ListsInv
  OBVIOUS
<1>1. server \in Lists
  <2>1. {0, 1} \subseteq 0 .. MaxRevision
    BY RowsType
  <2> QED
    BY <2>1 DEF ListsInit, Lists
<1>2. answers = <<>> /\ Len(answers) = 0 /\ answers \in Seq(Answers) /\ sent = {LoadCall}
  BY DEF ListsInit
<1>3. ListTypes
  BY <1>1, <1>2, RowsType, LoadIsACall DEF ListsInit, ListTypes
<1>4. AskingTypes /\ SwitchTypes /\ DeletesOne
  BY <1>2, LoadIsACall DEF ListsInit, AskingTypes, SwitchTypes, DeletesOne, Deletes
<1>5. Followed
  BY <1>2 DEF ListsInit, Followed
<1>6. LoadingEnds
  BY <1>2, LoadIsACall DEF LoadingEnds, UnderWay
<1> QED
  BY <1>3, <1>4, <1>5, <1>6 DEF ListsInv

LEMMA Shorter ==
  ASSUME NEW S, NEW s \in Seq(S), NEW n \in 1 .. Len(s)
  PROVE  /\ RemoveAt(s, n) \in Seq(S)
         /\ Len(RemoveAt(s, n)) = Len(s) - 1
         /\ \A m \in 1 .. Len(s) - 1 : RemoveAt(s, n)[m] = IF m < n THEN s[m] ELSE s[m + 1]
<1> DEFINE front == SubSeq(s, 1, n - 1)
           back == SubSeq(s, n + 1, Len(s))
<1>1. Len(s) \in Nat /\ n \in Nat /\ n >= 1 /\ n <= Len(s)
  OBVIOUS
<1>2. front \in Seq(S) /\ Len(front) = n - 1 /\ \A m \in 1 .. n - 1 : front[m] = s[m]
  BY <1>1
<1>3. back \in Seq(S) /\ Len(back) = Len(s) - n
  BY <1>1
<1>4. \A m \in 1 .. Len(s) - n : back[m] = s[m + n]
  BY <1>1
<1>5. RemoveAt(s, n) = front \o back
  BY DEF RemoveAt
<1> HIDE DEF front, back
<1>6. /\ front \o back \in Seq(S) /\ Len(front \o back) = Len(s) - 1
      /\ \A m \in 1 .. Len(s) - 1 :
           (front \o back)[m] = IF m <= n - 1 THEN front[m] ELSE back[m - (n - 1)]
  <2>1. Len(front) + Len(back) = Len(s) - 1
    BY <1>1, <1>2, <1>3
  <2>2. /\ front \o back \in Seq(S) /\ Len(front \o back) = Len(front) + Len(back)
        /\ \A m \in 1 .. Len(front) + Len(back) :
             (front \o back)[m] = IF m <= Len(front) THEN front[m] ELSE back[m - Len(front)]
    BY <1>2, <1>3, ConcatProperties, Zenon
  <2> QED
    BY <1>2, <2>1, <2>2, Zenon
<1>7. ASSUME NEW m \in 1 .. Len(s) - 1
      PROVE  (front \o back)[m] = IF m < n THEN s[m] ELSE s[m + 1]
  <2>1. m \in Nat /\ m >= 1 /\ m <= Len(s) - 1
    BY <1>1
  <2>2. CASE m <= n - 1
    BY <1>1, <1>2, <1>6, <2>1, <2>2
  <2>3. CASE ~(m <= n - 1)
    <3>1. m - (n - 1) \in 1 .. Len(s) - n /\ m - (n - 1) + n = m + 1 /\ ~(m < n)
      BY <1>1, <2>1, <2>3
    <3>2. back[m - (n - 1)] = s[m - (n - 1) + n]
      BY <1>4, <3>1
    <3>3. (front \o back)[m] = back[m - (n - 1)]
      BY <1>6, <2>3
    <3> QED
      BY <3>1, <3>2, <3>3
  <2> QED
    BY <2>2, <2>3
<1> QED
  BY <1>5, <1>6, <1>7

LEMMA AnswersUnclean ==
  ASSUME NEW s \in Seq(Answers)
  PROVE  /\ Unfollowable(s) \in Seq(Answers) /\ Len(Unfollowable(s)) = Len(s)
         /\ \A m \in 1 .. Len(s) : Unfollowable(s)[m].call = s[m].call /\ ~Unfollowable(s)[m].clean
<1>1. \A m \in 1 .. Len(s) : s[m] \in Answers /\ [s[m] EXCEPT !.clean = FALSE] \in Answers
  <2> SUFFICES ASSUME NEW m \in 1 .. Len(s)
               PROVE  s[m] \in Answers /\ [s[m] EXCEPT !.clean = FALSE] \in Answers
    OBVIOUS
  <2>1. s[m] \in Answers
    OBVIOUS
  <2> QED
    BY <2>1 DEF Answers
<1>2. DOMAIN s = 1 .. Len(s) /\ Len(s) \in Nat
  OBVIOUS
<1>3. Unfollowable(s) = [m \in 1 .. Len(s) |-> [s[m] EXCEPT !.clean = FALSE]]
  BY <1>2 DEF Unfollowable
<1>4. Unfollowable(s) \in Seq(Answers) /\ Len(Unfollowable(s)) = Len(s)
  BY <1>1, <1>2, <1>3
<1>5. \A m \in 1 .. Len(s) : [s[m] EXCEPT !.clean = FALSE].call = s[m].call
                             /\ ~[s[m] EXCEPT !.clean = FALSE].clean
  BY <1>1 DEF Answers
<1> QED
  BY <1>3, <1>4, <1>5

\* A click sends calls, or asks; or a call is refused.
LEMMA ClickedKeeps ==
  ASSUME ListsInv, UNCHANGED <<panel, server, used, shownVars, answers, drift>>,
         sent' \subseteq ListCalls, \A c \in sent' \ sent : Deletes(c),
         AskingTypes', loading' \in BOOLEAN, LoadingEnds'
  PROVE  ListsInv'
<1>1. ListTypes' /\ DeletesOne'
  BY DEF ListsInv, ListTypes, DeletesOne, Deletes, shownVars
<1>2. Followed'
  <2>1. UNCHANGED <<panel, server, rows, doubled, answers, drift>> /\ Followed
    BY DEF ListsInv, shownVars
  <2>2. (FollowedFrom(1) => FollowedFrom(1)')
        /\ \A n \in 1 .. Len(answers) : FollowedFrom(n + 1) => FollowedFrom(n + 1)'
    BY <2>1 DEF FollowedFrom, Latest, Before, Effect, IsNew
  <2> QED
    BY <2>1, <2>2 DEF Followed
<1>3. SwitchTypes'
  BY DEF ListsInv, SwitchTypes
<1> QED
  BY <1>1, <1>2, <1>3 DEF ListsInv

\* What a click of the view on display sends or asks about.
MayCall(c) == c \in ListCalls /\ Deletes(c)

LEMMA SendKeeps == ASSUME ListsInv, NEW c, MayCall(c), Send(c) PROVE ListsInv'
<1>1. sent' \subseteq ListCalls /\ \A d \in sent' \ sent : Deletes(d)
  BY DEF Send, MayCall, ListsInv, ListTypes
<1>2. AskingTypes'
  BY DEF Send, ListsInv, AskingTypes, Deletes
<1>3. loading' \in BOOLEAN
  BY DEF Send, ListsInv, SwitchTypes
<1>4. LoadingEnds'
  BY DEF Send, ListsInv, LoadingEnds, UnderWay
<1> QED
  BY <1>1, <1>2, <1>3, <1>4, ClickedKeeps DEF Send

LEMMA LoadKeeps == ASSUME ListsInv, Load(LoadCall) PROVE ListsInv'
<1>1. sent' \subseteq ListCalls /\ \A d \in sent' \ sent : Deletes(d)
  BY LoadIsACall DEF Load, Deletes, ListsInv, ListTypes
<1>2. AskingTypes'
  BY DEF Load, ListsInv, AskingTypes, Deletes
<1>3. LoadingEnds' /\ loading' \in BOOLEAN
  BY LoadIsACall DEF Load, LoadingEnds, UnderWay
<1> QED
  BY <1>1, <1>2, <1>3, ClickedKeeps DEF Load

LEMMA PromptKeeps == ASSUME ListsInv, NEW c, MayCall(c), Prompt(c) PROVE ListsInv'
<1>1. AskingTypes'
  BY DEF Prompt, AskingTypes, MayCall, Deletes
<1>2. LoadingEnds'
  BY DEF Prompt, ListsInv, LoadingEnds, UnderWay
<1>3. loading' \in BOOLEAN
  BY DEF Prompt, ListsInv, SwitchTypes
<1> QED
  BY <1>1, <1>2, <1>3, ClickedKeeps DEF Prompt, ListsInv, ListTypes

LEMMA DialogAnsweredKeeps == ASSUME ListsInv, ConfirmPrompt \/ ClosePrompt PROVE ListsInv'
<1>1. sent' \subseteq ListCalls /\ \A d \in sent' \ sent : Deletes(d)
  BY DEF ConfirmPrompt, ClosePrompt, ListsInv, ListTypes, AskingTypes
<1>2. AskingTypes'
  BY DEF ConfirmPrompt, ClosePrompt, AskingTypes
<1>3. LoadingEnds'
  BY DEF ConfirmPrompt, ClosePrompt, ListsInv, LoadingEnds, UnderWay
<1>4. loading' \in BOOLEAN
  BY DEF ConfirmPrompt, ClosePrompt, ListsInv, SwitchTypes
<1> QED
  BY <1>1, <1>2, <1>3, <1>4, ClickedKeeps DEF ConfirmPrompt, ClosePrompt

\* Every function of api.ts sends a call.
LEMMA RequestsAreCalls ==
  ASSUME ListsInv
  PROVE  /\ MayCall(Post) /\ MayCall(createOwnedAccount) /\ MayCall(runAdminCleanup)
         /\ panel = "logs" => MayCall(clearAdminAuditLogs)
         /\ \A i \in Items :
              /\ MayCall(PatchOf(i)) /\ MayCall(Delete(i)) /\ MayCall(deleteOwnedAccount(i))
              /\ MayCall(getManagedDomainRecords(i)) /\ MayCall(resetAdminUserPassword(i))
<1>1. rows \in Lists /\ NoRows \in Lists
  BY RowsType DEF ListsInv, ListTypes
<1>2. MayCall(Post) /\ MayCall(createOwnedAccount) /\ MayCall(runAdminCleanup)
  BY <1>1 DEF MayCall, Deletes, Post, createOwnedAccount, runAdminCleanup, ListCall, ListCalls, Ops
<1>3. panel = "logs" => MayCall(clearAdminAuditLogs)
  BY <1>1 DEF MayCall, Deletes, clearAdminAuditLogs, ListCall, ListCalls, Ops
<1>4. ASSUME NEW i \in Items
      PROVE  /\ MayCall(PatchOf(i)) /\ MayCall(getManagedDomainRecords(i))
             /\ MayCall(resetAdminUserPassword(i))
  BY <1>1 DEF MayCall, Deletes, PatchOf, getManagedDomainRecords, resetAdminUserPassword,
     ListCall, ListCalls, Ops
<1>5. ASSUME NEW i \in Items PROVE MayCall(Delete(i)) /\ MayCall(deleteOwnedAccount(i))
  BY <1>1 DEF MayCall, Deletes, Delete, deleteOwnedAccount, ListCall, ListCalls, Ops
<1> QED
  BY <1>2, <1>3, <1>4, <1>5

LEMMA CallRefusedKeeps == ASSUME ListsInv, NEW c \in sent, CallRefused(c) PROVE ListsInv'
<1>1. sent' \subseteq sent
  BY DEF CallRefused
<1>2. AskingTypes'
  BY DEF CallRefused, ListsInv, AskingTypes, Deletes
<1>3. LoadingEnds'
  <2> SUFFICES ASSUME loading' PROVE (UnderWay("load") \/ Activation({}) \in sent)'
    BY DEF LoadingEnds
  <2>1. loading /\ c.op # "load" /\ c # Activation({}) /\ sent' = sent \ {c} /\ answers' = answers
    <3>1. loading /\ c.op # "load" /\ sent' = sent \ {c} /\ answers' = answers
      BY Zenon DEF CallRefused
    <3>2. c # Activation({})
      BY DEF CallRefused, Activation, ListCall
    <3> QED
      BY <3>1, <3>2
  <2>2. UnderWay("load") => UnderWay("load")'
    BY <2>1 DEF UnderWay
  <2>3. Activation({}) \in sent => Activation({}) \in sent'
    BY <2>1
  <2>4. UnderWay("load") \/ Activation({}) \in sent
    BY <2>1 DEF ListsInv, LoadingEnds
  <2> QED
    BY <2>2, <2>3, <2>4 DEF Activation, ListCall, NoRows
<1>4. loading' \in BOOLEAN
  BY DEF CallRefused
<1> QED
  BY <1>1, <1>2, <1>3, <1>4, ClickedKeeps DEF CallRefused, ListsInv, ListTypes

LEMMA ClicksKeep == ASSUME ListsInv, ListClicks PROVE ListsInv'
<1>1. CASE \/ loadManagedDomains \/ loadUsers \/ loadAccessKeys \/ loadInviteCodes
           \/ loadMailboxAccounts \/ loadOps
  BY <1>1, LoadKeeps DEF loadManagedDomains, loadUsers, loadAccessKeys, loadInviteCodes,
     loadMailboxAccounts, loadOps, fetchManagedDomains, fetchAdminUsers, fetchAdminAccessKeys,
     fetchAdminInviteCodes, fetchOwnedAccounts, getAdminAuditLogs
<1>2. CASE CreateDomain \/ CreateUser \/ GenerateKey \/ CreateInviteCode \/ CreateMailbox
  BY <1>2, SendKeeps, RequestsAreCalls DEF CreateDomain, CreateUser, GenerateKey,
     CreateInviteCode, CreateMailbox, createManagedDomain, createAdminUser, createAdminAccessKey,
     createAdminInviteCode
<1>3. ASSUME NEW i \in Items,
             VerifyDomain(i) \/ ShareDomain(i) \/ SyncCloudflare(i) \/ PatchUser(i) \/ ToggleInviteCode(i)
      PROVE  ListsInv'
  BY <1>3, SendKeeps, RequestsAreCalls DEF VerifyDomain, ShareDomain, SyncCloudflare, PatchUser,
     ToggleInviteCode, verifyManagedDomain, updateManagedDomainSharing,
     syncManagedDomainCloudflare, updateAdminUser, updateAdminInviteCode
<1>4. ASSUME NEW i \in Items,
             \/ AskDeleteDomain(i) \/ AskDeleteUser(i) \/ AskUserLimit(i) \/ AskUserPassword(i)
             \/ AskDeleteKey(i) \/ AskDeleteCode(i) \/ AskDeleteMailbox(i)
      PROVE  ListsInv'
  BY <1>4, PromptKeeps, RequestsAreCalls DEF AskDeleteDomain, AskDeleteUser, AskUserLimit,
     AskUserPassword, AskDeleteKey, AskDeleteCode, AskDeleteMailbox, deleteManagedDomain,
     deleteAdminUser, updateAdminUser, deleteAdminAccessKey, deleteAdminInviteCode
<1>5. CASE ConfirmPrompt \/ ClosePrompt
  BY <1>5, DialogAnsweredKeeps
<1>6. CASE ClearLogs
  BY <1>6, SendKeeps, RequestsAreCalls DEF ClearLogs, LogsView
<1>7. CASE RunCleanup
  BY <1>7, SendKeeps, RequestsAreCalls DEF RunCleanup
<1>8. ASSUME NEW i \in Items, ShowRecords(i) PROVE ListsInv'
  BY <1>8, SendKeeps, RequestsAreCalls DEF ShowRecords
<1> QED
  BY <1>1, <1>2, <1>3, <1>4, <1>5, <1>6, <1>7, <1>8 DEF ListClicks

\* The answer to a call follows what there was when the call was handled, and so
\* the rows can still be brought up to date.
LEMMA AnswerFollows ==
  ASSUME ListsInv, NEW a \in Answers, answers' = Append(answers, a), server' = a.list,
         UNCHANGED <<panel, shownVars, drift>>, a.list = Effect(a, server), IsNew(a, server)
  PROVE  Followed'
<1>1. answers \in Seq(Answers) /\ Len(answers) \in Nat
  BY DEF ListsInv, ListTypes
<1>2. /\ Len(answers') = Len(answers) + 1 /\ answers'[Len(answers) + 1] = a
      /\ \A n \in 1 .. Len(answers) : answers'[n] = answers[n]
  BY <1>1
<1>3. ASSUME NEW n, n = Len(answers) + 1 PROVE Before(n)' = Latest
  <2>1. CASE answers = <<>>
    BY <1>1, <1>3, <2>1 DEF Before, Latest, shownVars
  <2>2. CASE answers # <<>>
    <3>1. n # 1 /\ n - 1 = Len(answers) /\ n - 1 \in 1 .. Len(answers)
      BY <1>1, <1>3, <2>2
    <3> QED
      BY <1>2, <2>2, <3>1 DEF Before, Latest
  <2> QED
    BY <2>1, <2>2
<1>4. \A n \in 1 .. Len(answers) : Before(n)' = Before(n)
  <2> SUFFICES ASSUME NEW n \in 1 .. Len(answers) PROVE Before(n)' = Before(n)
    OBVIOUS
  <2>1. n # 1 => n - 1 \in 1 .. Len(answers)
    BY <1>1
  <2> QED
    BY <1>2, <2>1 DEF Before, shownVars
<1>5. \A b, prev : Effect(b, prev)' = Effect(b, prev)
  BY DEF Effect
<1>6. server' = Latest'
  BY <1>1, <1>2 DEF Latest
<1>7. \A k : FollowedFrom(k) => FollowedFrom(k)'
  <2> SUFFICES ASSUME NEW k, FollowedFrom(k), NEW n \in 1 .. Len(answers'), n >= k
               PROVE  answers'[n].list = Effect(answers'[n], Before(n)')
                      /\ IsNew(answers'[n], Before(n)')
    BY <1>5, <1>6 DEF FollowedFrom, Effect, IsNew
  <2>1. CASE n = Len(answers) + 1
    BY <1>2, <1>3, <2>1 DEF FollowedFrom
  <2>2. CASE n # Len(answers) + 1
    <3>1. n \in 1 .. Len(answers)
      BY <1>1, <1>2, <2>2
    <3>2. answers'[n] = answers[n] /\ Before(n)' = Before(n)
      BY <1>2, <1>4, <3>1
    <3>3. answers[n].list = Effect(answers[n], Before(n)) /\ IsNew(answers[n], Before(n))
      BY <3>1 DEF FollowedFrom
    <3> QED
      BY <3>2, <3>3
  <2> QED
    BY <2>1, <2>2
<1>8. ASSUME NEW k, k = Len(answers') + 1 PROVE FollowedFrom(k)'
  <2>1. \A n \in 1 .. Len(answers') : ~(n >= k)
    BY <1>1, <1>2, <1>8
  <2> QED
    BY <1>6, <2>1 DEF FollowedFrom
<1>9. ASSUME NEW n \in 1 .. Len(answers'), answers'[n].clean PROVE FollowedFrom(n + 1)'
  <2>1. CASE n = Len(answers')
    BY <1>8, <2>1
  <2>2. CASE n # Len(answers')
    <3>1. n \in 1 .. Len(answers) /\ answers'[n] = answers[n]
      BY <1>1, <1>2, <2>2
    <3> QED
      BY <1>7, <1>9, <3>1 DEF ListsInv, Followed
  <2> QED
    BY <2>1, <2>2
<1> QED
  BY <1>7, <1>9 DEF ListsInv, Followed, shownVars

\* The backend handles a call and answers it.
LEMMA HandledKeeps ==
  ASSUME ListsInv, NEW c \in sent, NEW srv \in Lists, NEW is \in SUBSET Items, Handled(c, srv, is),
         UNCHANGED drift, used' \subseteq Items, \A i \in Items \ used' : srv[i] = 0,
         c.op # "activate", c.op = "create" => \A i \in is : server[i] = 0,
         \A a \in Answers : a.call.op = c.op /\ a.call.item = is /\ a.list = srv
           => srv = Effect(a, server)
  PROVE  ListsInv'
<1> DEFINE d == [c EXCEPT !.item = is]
           a == [call |-> d, list |-> srv, clean |-> TRUE]
<1>1. d \in ListCalls /\ d.op = c.op /\ d.item = is
  BY DEF ListsInv, ListTypes, ListCalls
<1> HIDE DEF d
<1>2. a \in Answers /\ a.call.op = c.op /\ a.call.item = is /\ a.list = srv
  BY <1>1 DEF Answers
<1>3. answers' = Append(answers, a)
  BY DEF Handled, d
<1> HIDE DEF a
<1>4. ListTypes'
  BY <1>2, <1>3 DEF Handled, ListsInv, ListTypes, shownVars
<1>5. Followed'
  BY <1>2, <1>3, AnswerFollows DEF Handled, IsNew
<1>6. AskingTypes' /\ DeletesOne'
  BY DEF Handled, ListsInv, AskingTypes, DeletesOne, Deletes
<1>7. SwitchTypes'
  BY DEF Handled, ListsInv, SwitchTypes
<1>8. LoadingEnds'
  <2> SUFFICES ASSUME loading PROVE UnderWay("load")' \/ Activation({}) \in sent'
    BY DEF Handled, LoadingEnds
  <2>1. answers \in Seq(Answers) /\ DOMAIN answers = 1 .. Len(answers) /\ Len(answers) \in Nat
    BY DEF ListsInv, ListTypes
  <2>2. /\ DOMAIN answers' = 1 .. Len(answers) + 1 /\ answers'[Len(answers) + 1] = a
        /\ \A n \in 1 .. Len(answers) : answers'[n] = answers[n]
    BY <1>3, <2>1
  <2>3. UnderWay("load") \/ Activation({}) \in sent
    BY DEF ListsInv, LoadingEnds
  <2>6. CASE Activation({}) \in sent
    BY <2>6, ActivationIsACall DEF Handled
  <2>4. CASE \E e \in sent : e.op = "load"
    <3>1. PICK e \in sent : e.op = "load"
      BY <2>4
    <3>2. CASE e = c
      BY <1>2, <2>1, <2>2, <3>1, <3>2 DEF UnderWay
    <3>3. CASE e # c
      BY <3>1, <3>3 DEF Handled, UnderWay
    <3> QED
      BY <3>2, <3>3
  <2>5. CASE \E n \in DOMAIN answers : answers[n].call.op = "load"
    <3>1. PICK n \in 1 .. Len(answers) : answers[n].call.op = "load"
      BY <2>1, <2>5
    <3>2. n \in DOMAIN answers' /\ answers'[n].call.op = "load"
      BY <2>1, <2>2, <3>1
    <3> QED
      BY <3>2 DEF UnderWay
  <2> QED
    BY <2>3, <2>4, <2>5, <2>6 DEF UnderWay
<1> QED
  BY <1>4, <1>5, <1>6, <1>7, <1>8 DEF ListsInv

LEMMA HandleLoadKeeps == ASSUME ListsInv, NEW c \in sent, HandleLoad(c) PROVE ListsInv'
BY HandledKeeps DEF HandleLoad, Effect, ListsInv, ListTypes

LEMMA HandleCreateKeeps == ASSUME ListsInv, NEW c \in sent, HandleCreate(c) PROVE ListsInv'
<1>1. PICK i \in Items \ used : Handled(c, [server EXCEPT ![i] = 1], {i}) /\ used' = used \cup {i}
  BY DEF HandleCreate
<1> DEFINE srv == [server EXCEPT ![i] = 1]
<1>2. server[i] = 0 /\ srv \in Lists /\ srv = [j \in Items |-> IF j \in {i} THEN 1 ELSE server[j]]
  BY RowsType DEF ListsInv, ListTypes, Lists
<1>3. used' \subseteq Items /\ \A j \in Items \ used' : srv[j] = 0
  BY <1>1 DEF ListsInv, ListTypes, Lists
<1>4. Handled(c, srv, {i})
  BY <1>1
<1> HIDE DEF srv
<1> QED
  BY <1>2, <1>3, <1>4, HandledKeeps DEF HandleCreate, Effect

LEMMA HandlePatchKeeps == ASSUME ListsInv, NEW c \in sent, HandlePatch(c) PROVE ListsInv'
<1>1. PICK i \in c.item : server[i] \in 1 .. MaxRevision - 1 /\ Handled(c, [server EXCEPT ![i] = @ + 1], {i})
  BY DEF HandlePatch
<1> DEFINE srv == [server EXCEPT ![i] = server[i] + 1]
<1>2. i \in Items /\ server[i] > 0 /\ server[i] + 1 \in 0 .. MaxRevision
  BY <1>1, RowsType DEF ListsInv, ListTypes, ListCalls
<1>3. srv \in Lists /\ srv = [j \in Items |-> IF j \in {i} /\ server[j] > 0 THEN srv[j] ELSE server[j]]
  BY <1>2 DEF ListsInv, ListTypes, Lists
<1>4. used' = used /\ \A j \in Items \ used' : srv[j] = 0
  BY <1>2 DEF HandlePatch, ListsInv, ListTypes, Lists
<1>5. Handled(c, srv, {i})
  BY <1>1
<1> HIDE DEF srv
<1>6. ASSUME NEW a \in Answers, a.call.op = c.op, a.call.item = {i}, a.list = srv
      PROVE  srv = Effect(a, server)
  <2>1. a.call.op = "patch"
    BY <1>6 DEF HandlePatch
  <2> QED
    BY <1>3, <1>6, <2>1 DEF Effect
<1> QED
  BY <1>2, <1>3, <1>4, <1>5, <1>6, HandledKeeps DEF HandlePatch, ListsInv, ListTypes

LEMMA HandleDeleteKeeps == ASSUME ListsInv, NEW c \in sent, HandleDelete(c) PROVE ListsInv'
<1>1. PICK i \in Items : c.item = {i}
  BY DEF HandleDelete, ListsInv, DeletesOne, Deletes
<1>2. (CHOOSE j \in c.item : TRUE) = i
  BY <1>1
<1> DEFINE srv == [server EXCEPT ![i] = 0]
<1>3. srv \in Lists /\ srv = [j \in Items |-> IF j \in {i} THEN 0 ELSE server[j]]
  <2>1. 0 \in 0 .. MaxRevision
    BY RowsType
  <2> QED
    BY <2>1 DEF ListsInv, ListTypes, Lists
<1>4. used' = used /\ \A j \in Items \ used' : srv[j] = 0
  BY DEF HandleDelete, ListsInv, ListTypes, Lists
<1>5. Handled(c, srv, {i})
  BY <1>1, <1>2 DEF HandleDelete
<1> HIDE DEF srv
<1>6. \A a \in Answers : a.call.op = c.op /\ a.call.item = {i} /\ a.list = srv => srv = Effect(a, server)
  BY <1>3 DEF HandleDelete, Effect
<1> QED
  BY <1>3, <1>4, <1>5, <1>6, HandledKeeps DEF HandleDelete, ListsInv, ListTypes


LEMMA HandleReadKeeps == ASSUME ListsInv, NEW c \in sent, HandleRead(c) PROVE ListsInv'
BY HandledKeeps DEF HandleRead, Effect, ListsInv, ListTypes

LoadAnswered(s) == \E n \in 1 .. Len(s) : s[n].call.op = "load"

LEMMA LoadsUnderWay ==
  ASSUME answers \in Seq(Answers)
  PROVE  UnderWay("load") \/ Activation({}) \in sent
           <=> (\E c \in sent : Loads(c)) \/ LoadAnswered(answers)
<1>1. DOMAIN answers = 1 .. Len(answers)
  OBVIOUS
<1> QED
  BY <1>1 DEF UnderWay, LoadAnswered, Loads

\* What the rows cannot follow is recorded, in the answers on their way too.
LEMMA AdriftKeeps ==
  ASSUME ListsInv, drift' = TRUE, UNCHANGED panel, server' \in Lists, rows' \in Lists,
         doubled' \subseteq Items,
         used' \subseteq Items, \A i \in Items \ used' : server'[i] = 0,
         sent' \subseteq ListCalls, \A c \in sent' \ sent : Deletes(c),
         AskingTypes', loading' \in BOOLEAN,
         answers' \in Seq(Answers), \A n \in 1 .. Len(answers') : ~answers'[n].clean,
         loading' => (\E c \in sent' : Loads(c)) \/ LoadAnswered(answers')
  PROVE  ListsInv'
<1>1. Followed'
  BY DEF Followed
<1>2. DeletesOne'
  BY DEF ListsInv, DeletesOne, Deletes
<1>3. ListTypes'
  BY DEF ListTypes, ListsInv
<1>4. SwitchTypes'
  BY DEF SwitchTypes
<1>5. LoadingEnds'
  <2>1. DOMAIN answers' = 1 .. Len(answers')
    OBVIOUS
  <2> QED
    BY <2>1 DEF LoadingEnds, UnderWay, LoadAnswered, Loads
<1> QED
  BY <1>1, <1>2, <1>3, <1>4, <1>5 DEF ListsInv

\* The loads under way, once a call has left or an answer is gone.
LEMMA LoadSeen == ListsInv /\ loading => (\E c \in sent : Loads(c)) \/ LoadAnswered(answers)
BY LoadsUnderWay DEF ListsInv, ListTypes, LoadingEnds

LEMMA StillAnswered ==
  ASSUME NEW s \in Seq(Answers), LoadAnswered(s)
  PROVE  LoadAnswered(Unfollowable(s))
BY AnswersUnclean DEF LoadAnswered

LEMMA AnsweredBesides ==
  ASSUME NEW s \in Seq(Answers), NEW n \in 1 .. Len(s), s[n].call.op # "load", LoadAnswered(s)
  PROVE  LoadAnswered(RemoveAt(s, n))
<1>1. Len(s) \in Nat
  OBVIOUS
<1>2. PICK m \in 1 .. Len(s) : s[m].call.op = "load"
  BY DEF LoadAnswered
<1> DEFINE k == IF m < n THEN m ELSE m - 1
<1>3. m # n
  BY <1>2
<1>4. k \in 1 .. Len(s) - 1 /\ s[m] = IF k < n THEN s[k] ELSE s[k + 1]
  BY <1>1, <1>3
<1>5. RemoveAt(s, n)[k] = s[m]
  BY <1>4, Shorter
<1> HIDE DEF k
<1>6. k \in 1 .. Len(RemoveAt(s, n))
  BY <1>4, Shorter
<1> QED
  BY <1>2, <1>5, <1>6 DEF LoadAnswered

LEMMA OthersChangeKeeps == ASSUME ListsInv, OthersChange PROVE ListsInv'
<1>1. answers \in Seq(Answers) /\ answers' = Unfollowable(answers)
  BY DEF ListsInv, ListTypes, OthersChange
<1>2. answers' \in Seq(Answers) /\ \A n \in 1 .. Len(answers') : ~answers'[n].clean
  BY <1>1, AnswersUnclean
<1>3. 0 \in 0 .. MaxRevision /\ 1 \in 0 .. MaxRevision
  BY RowsType
<1>4. server' \in Lists /\ used' \subseteq Items /\ \A i \in Items \ used' : server'[i] = 0
  <2>1. PICK i \in Items :
          \/ server[i] > 0 /\ server' = [server EXCEPT ![i] = 0] /\ UNCHANGED used
          \/ /\ server[i] \in 1 .. MaxRevision - 1
             /\ server' = [server EXCEPT ![i] = @ + 1] /\ UNCHANGED used
          \/ /\ i \notin used
             /\ server' = [server EXCEPT ![i] = 1] /\ used' = used \cup {i}
    BY DEF OthersChange
  <2>2. /\ server \in [Items -> 0 .. MaxRevision] /\ used \subseteq Items
        /\ \A j \in Items \ used : server[j] = 0
    BY DEF ListsInv, ListTypes, Lists
  <2>3. CASE server[i] > 0 /\ server' = [server EXCEPT ![i] = 0] /\ UNCHANGED used
    BY <1>3, <2>2, <2>3 DEF Lists
  <2>4. CASE /\ server[i] \in 1 .. MaxRevision - 1
             /\ server' = [server EXCEPT ![i] = @ + 1] /\ UNCHANGED used
    <3>1. server[i] + 1 \in 0 .. MaxRevision /\ server[i] # 0
      BY <2>4, RowsType
    <3>2. server' = [server EXCEPT ![i] = server[i] + 1]
      BY <2>4
    <3> QED
      BY <2>2, <2>4, <3>1, <3>2 DEF Lists
  <2>5. CASE i \notin used /\ server' = [server EXCEPT ![i] = 1] /\ used' = used \cup {i}
    BY <1>3, <2>2, <2>5 DEF Lists
  <2> QED
    BY <2>1, <2>3, <2>4, <2>5
<1>5. loading' \in BOOLEAN
  BY DEF OthersChange, ListsInv, SwitchTypes
<1>6. loading' => (\E c \in sent' : Loads(c)) \/ LoadAnswered(answers')
  BY <1>1, LoadSeen, StillAnswered DEF OthersChange
<1>7. AskingTypes'
  BY DEF OthersChange, ListsInv, AskingTypes, Deletes
<1>8. UNCHANGED <<panel, rows, doubled, sent>> /\ drift' = TRUE
  BY DEF OthersChange, shownVars
<1> QED
  BY <1>2, <1>4, <1>5, <1>6, <1>7, <1>8, AdriftKeeps DEF ListsInv, ListTypes

LEMMA MailboxNotFoundKeeps == ASSUME ListsInv, NEW c \in sent, MailboxNotFound(c) PROVE ListsInv'
<1>1. answers \in Seq(Answers) /\ answers' = Unfollowable(answers)
  BY DEF ListsInv, ListTypes, MailboxNotFound
<1>2. answers' \in Seq(Answers) /\ \A n \in 1 .. Len(answers') : ~answers'[n].clean
  BY <1>1, AnswersUnclean
<1>3. rows' \in Lists
  <2>1. c.base \in Lists /\ 0 \in 0 .. MaxRevision
    BY RowsType DEF ListsInv, ListTypes, ListCalls
  <2> QED
    BY <2>1 DEF MailboxNotFound, Lists
<1> DEFINE d == Activation(c.item)
<1>8. d \in ListCalls /\ d.op = "activate" /\ c.op = "delete"
  BY ActivationIsACall DEF MailboxNotFound, ListsInv, ListTypes, ListCalls
<1>9. \/ sent' = (sent \ {c}) \cup {LoadCall} /\ loading' = TRUE
      \/ sent' = (sent \ {c}) \cup {d} /\ UNCHANGED loading
  BY DEF MailboxNotFound
<1> HIDE DEF d
<1>4. sent' \subseteq ListCalls /\ \A e \in sent' \ sent : Deletes(e)
  BY <1>8, <1>9, LoadIsACall DEF ListsInv, ListTypes, Deletes
<1>10. loading' => (\E e \in sent' : Loads(e)) \/ LoadAnswered(answers')
  <2>1. ~Loads(c)
    BY <1>8, ActivationIsACall DEF Loads
  <2>2. CASE LoadCall \in sent'
    BY <2>2, LoadIsACall DEF Loads
  <2>3. CASE UNCHANGED loading /\ sent' = (sent \ {c}) \cup {d}
    BY <1>1, <2>1, <2>3, LoadSeen, StillAnswered
  <2> QED
    BY <1>9, <2>2, <2>3
<1>5. loading' \in BOOLEAN
  BY <1>9 DEF ListsInv, SwitchTypes
<1>6. AskingTypes'
  BY DEF MailboxNotFound, ListsInv, AskingTypes, Deletes
<1>7. UNCHANGED <<panel, server, used, doubled>> /\ drift' = TRUE
  BY DEF MailboxNotFound
<1> QED
  BY <1>2, <1>3, <1>4, <1>5, <1>6, <1>7, <1>10, AdriftKeeps DEF ListsInv, ListTypes

LEMMA HandleCleanupKeeps == ASSUME ListsInv, NEW c \in sent, HandleCleanup(c) PROVE ListsInv'
<1> DEFINE a == [call |-> c, list |-> server', clean |-> FALSE]
<1>1. server' \in Lists /\ used' \subseteq Items
  BY RowsType DEF HandleCleanup, ListsInv, ListTypes, Lists
<1>2. a \in Answers /\ ~a.clean
  BY <1>1 DEF Answers, ListsInv, ListTypes
<1>3. answers' = Append(Unfollowable(answers), a)
  BY DEF HandleCleanup
<1> HIDE DEF a
<1>4. /\ Unfollowable(answers) \in Seq(Answers)
      /\ \A n \in 1 .. Len(Unfollowable(answers)) : ~Unfollowable(answers)[n].clean
  BY AnswersUnclean DEF ListsInv, ListTypes
<1> DEFINE s == Unfollowable(answers)
<1>5. s \in Seq(Answers) /\ Len(s) \in Nat /\ \A n \in 1 .. Len(s) : ~s[n].clean
  BY <1>4
<1> HIDE DEF s
<1>6. /\ answers' \in Seq(Answers) /\ Len(answers') = Len(s) + 1 /\ answers'[Len(s) + 1] = a
      /\ \A n \in 1 .. Len(s) : answers'[n] = s[n]
  BY <1>2, <1>3, <1>5 DEF s
<1>7. \A n \in 1 .. Len(answers') : ~answers'[n].clean
  <2> SUFFICES ASSUME NEW n \in 1 .. Len(answers') PROVE ~answers'[n].clean
    OBVIOUS
  <2>1. n = Len(s) + 1 \/ n \in 1 .. Len(s)
    BY <1>5, <1>6
  <2> QED
    BY <1>2, <1>5, <1>6, <2>1
<1>8. loading' => (\E d \in sent' : Loads(d)) \/ LoadAnswered(answers')
  <2> SUFFICES ASSUME loading', ~\E d \in sent' : Loads(d) PROVE LoadAnswered(answers')
    OBVIOUS
  <2>1. ~\E d \in sent : Loads(d)
    BY ActivationIsACall DEF HandleCleanup, Loads
  <2>2. LoadAnswered(s)
    BY <2>1, LoadSeen, StillAnswered DEF HandleCleanup, ListsInv, ListTypes, s
  <2> QED
    BY <1>5, <1>6, <2>2 DEF LoadAnswered
<1>9. loading' \in BOOLEAN
  BY DEF HandleCleanup, ListsInv, SwitchTypes
<1>10. AskingTypes'
  BY DEF HandleCleanup, ListsInv, AskingTypes, Deletes
<1>11. \A i \in Items \ used' : server'[i] = 0
  BY DEF HandleCleanup, NoRows, ListsInv, ListTypes
<1>12. UNCHANGED <<panel, rows, doubled>> /\ drift' = TRUE /\ sent' \subseteq sent
  BY DEF HandleCleanup, shownVars
<1> QED
  BY <1>1, <1>6, <1>7, <1>8, <1>9, <1>10, <1>11, <1>12, AdriftKeeps DEF ListsInv, ListTypes

LEMMA AnswerLostKeeps == ASSUME ListsInv, NEW n \in DOMAIN answers, AnswerLost(n) PROVE ListsInv'
<1> DEFINE s == RemoveAt(answers, n)
<1>1. answers \in Seq(Answers) /\ n \in 1 .. Len(answers) /\ answers' = Unfollowable(s)
  BY DEF ListsInv, ListTypes, AnswerLost
<1>2. s \in Seq(Answers)
  BY <1>1, Shorter
<1>3. answers' \in Seq(Answers) /\ \A m \in 1 .. Len(answers') : ~answers'[m].clean
  BY <1>1, <1>2, AnswersUnclean
<1>4. loading' => (\E c \in sent' : Loads(c)) \/ LoadAnswered(answers')
  <2> SUFFICES ASSUME loading', ~\E c \in sent' : Loads(c) PROVE LoadAnswered(answers')
    OBVIOUS
  <2>1. loading /\ answers[n].call.op # "load" /\ ~\E c \in sent : Loads(c)
    BY DEF AnswerLost
  <2>2. LoadAnswered(answers)
    BY <2>1, LoadSeen
  <2>3. LoadAnswered(s)
    BY <1>1, <2>1, <2>2, AnsweredBesides
  <2> QED
    BY <1>1, <1>2, <2>3, StillAnswered
<1>5. loading' \in BOOLEAN
  BY DEF AnswerLost
<1>6. AskingTypes'
  BY DEF AnswerLost, ListsInv, AskingTypes, Deletes
<1>7. UNCHANGED <<panel, server, used, rows, doubled, sent>> /\ drift' = TRUE
  BY DEF AnswerLost, shownVars
<1> QED
  BY <1>3, <1>4, <1>5, <1>6, <1>7, AdriftKeeps DEF ListsInv, ListTypes

LEMMA ShownType ==
  ASSUME ListsInv, NEW a \in Answers
  PROVE  Shown(a) \in Lists
<1>1. a.list \in Lists /\ a.call.base \in Lists /\ rows \in Lists /\ 0 \in 0 .. MaxRevision /\ 1 \in 0 .. MaxRevision
  BY RowsType DEF Answers, ListCalls, ListsInv, ListTypes
<1> DEFINE from == IF panel = "mailboxes" THEN a.call.base ELSE rows
<1>2. from \in Lists
  BY <1>1
<1> HIDE DEF from
<1>3. /\ [i \in Items |-> IF i \in a.call.item THEN 1 ELSE from[i]] \in Lists
      /\ [i \in Items |-> IF i \in a.call.item THEN 0 ELSE from[i]] \in Lists
      /\ [i \in Items |-> IF i \in a.call.item /\ rows[i] > 0 THEN a.list[i] ELSE rows[i]] \in Lists
  BY <1>1, <1>2 DEF Lists
<1> QED
  BY <1>1, <1>3 DEF Shown, from

LEMMA ShownTwiceType == ASSUME ListsInv, NEW a \in Answers PROVE ShownTwice(a) \subseteq Items
<1>1. a.call.item \subseteq Items /\ doubled \subseteq Items
  BY DEF Answers, ListCalls, ListsInv, ListTypes
<1> QED
  BY <1>1 DEF ShownTwice

\* The first answer, to a handler that started from these rows, leads where it
\* would lead from them.
LEMMA ShownInOrder ==
  ASSUME NEW a, panel = "mailboxes" /\ a.call.op \in {"create", "delete"} => rows = a.call.base
  PROVE  Shown(a) = Effect(a, rows)
<1>1. CASE a.call.op = "load"
  BY <1>1 DEF Shown, Effect
<1>2. CASE a.call.op = "create"
  BY <1>2 DEF Shown, Effect
<1>3. CASE a.call.op = "patch"
  BY <1>3 DEF Shown, Effect
<1>4. CASE a.call.op = "delete"
  BY <1>4 DEF Shown, Effect
<1>5. CASE a.call.op \notin {"load", "create", "patch", "delete"}
  BY <1>5 DEF Shown, Effect
<1> QED
  BY <1>1, <1>2, <1>3, <1>4, <1>5

\* Without its first answer the queue still leads from the rows to the backend's.
LEMMA TailFollowed ==
  ASSUME ListsInv, answers # <<>>, answers' = RemoveAt(answers, 1), UNCHANGED <<panel, server>>,
         NEW k \in Nat, k >= 1, FollowedFrom(k + 1),
         k = 1 \/ Len(answers) = 1 => rows' = answers[1].list
  PROVE  FollowedFrom(k)'
<1>1. answers \in Seq(Answers) /\ Len(answers) \in Nat /\ 1 \in 1 .. Len(answers)
  BY DEF ListsInv, ListTypes
<1>2. /\ answers' \in Seq(Answers) /\ Len(answers') = Len(answers) - 1
      /\ \A m \in 1 .. Len(answers) - 1 : answers'[m] = answers[m + 1]
  BY <1>1, Shorter
<1>3. server = answers[Len(answers)].list
  BY DEF FollowedFrom, Latest
<1>4. server' = Latest'
  <2>1. CASE Len(answers) = 1
    <3>1. answers' = <<>>
      BY <1>2, <2>1
    <3> QED
      BY <1>3, <2>1, <3>1 DEF Latest
  <2>2. CASE Len(answers) # 1
    <3>1. Len(answers) - 1 \in 1 .. Len(answers) - 1 /\ Len(answers) - 1 + 1 = Len(answers)
      <4>1. \A m \in Nat : 1 \in 1 .. m /\ m # 1 => m - 1 \in 1 .. m - 1 /\ m - 1 + 1 = m
        OBVIOUS
      <4> QED
        BY <1>1, <2>2, <4>1, Zenon
    <3>2. answers'[Len(answers')] = answers[Len(answers)] /\ answers' # <<>>
      BY <1>2, <3>1
    <3> QED
      BY <1>3, <3>2 DEF Latest
  <2> QED
    BY <2>1, <2>2
<1>5. ASSUME NEW n \in 1 .. Len(answers'), n >= k
      PROVE  answers'[n].list = Effect(answers'[n], Before(n)') /\ IsNew(answers'[n], Before(n)')
  <2>1. n \in 1 .. Len(answers) - 1 /\ n + 1 \in 1 .. Len(answers) /\ n + 1 >= k + 1
    BY <1>1, <1>2, <1>5
  <2>2. answers'[n] = answers[n + 1]
    BY <1>2, <2>1
  <2>3. Before(n)' = Before(n + 1)
    <3>1. CASE n = 1
      BY <1>5, <3>1 DEF Before
    <3>2. CASE n # 1
      <4>1. n - 1 \in 1 .. Len(answers) - 1 /\ n - 1 + 1 = n /\ n + 1 - 1 = n /\ n + 1 # 1
        BY <1>1, <2>1, <3>2
      <4>2. answers'[n - 1] = answers[n]
        BY <1>2, <4>1
      <4> QED
        BY <3>2, <4>1, <4>2 DEF Before
    <3> QED
      BY <3>1, <3>2
  <2>4. /\ answers[n + 1].list = Effect(answers[n + 1], Before(n + 1))
        /\ IsNew(answers[n + 1], Before(n + 1))
    BY <2>1 DEF FollowedFrom
  <2> QED
    BY <2>2, <2>3, <2>4
<1> QED
  BY <1>4, <1>5 DEF FollowedFrom, Effect, IsNew

\* An answer in order, with nothing missed before it, or a load with nothing
\* missed after it.
LEMMA InOrderFollowed ==
  ASSUME ListsInv, answers # <<>>, answers' = RemoveAt(answers, 1), UNCHANGED <<panel, server>>,
         rows' = Effect(answers[1], rows), doubled' = ShownTwice(answers[1]),
         drift' = (drift /\ ~(answers[1].call.op = "load" /\ answers[1].clean))
  PROVE  Followed'
<1>1. answers \in Seq(Answers) /\ Len(answers) \in Nat /\ 1 \in 1 .. Len(answers)
  BY DEF ListsInv, ListTypes
<1>2. /\ Len(answers') = Len(answers) - 1
      /\ \A m \in 1 .. Len(answers) - 1 : answers'[m] = answers[m + 1]
  <2>1. \A m \in 1 .. Len(answers) - 1 : ~(m < 1)
    BY <1>1
  <2> QED
    BY <1>1, <2>1, Shorter
<1>3. ASSUME ~drift' PROVE FollowedFrom(1)' /\ doubled' = {}
  <2>1. CASE ~drift
    <3>1. FollowedFrom(1) /\ doubled = {}
      BY <2>1 DEF ListsInv, Followed
    <3>2. Before(1) = rows
      BY DEF Before
    <3>3. rows' = answers[1].list
      BY <1>1, <3>1, <3>2 DEF FollowedFrom
    <3>4. FollowedFrom(1 + 1)
      BY <1>1, <3>1 DEF FollowedFrom
    <3>5. doubled' = {}
      <4>1. answers[1].call.op = "create" => \A i \in answers[1].call.item : rows[i] = 0
        BY <1>1, <3>1, <3>2 DEF FollowedFrom, IsNew
      <4>2. answers[1].call.op = "create" => {i \in answers[1].call.item : rows[i] > 0} = {}
        BY <4>1
      <4> QED
        BY <3>1, <4>2 DEF ShownTwice
    <3> QED
      BY <3>3, <3>4, <3>5, TailFollowed
  <2>2. CASE answers[1].call.op = "load" /\ answers[1].clean
    <3>1. FollowedFrom(1 + 1)
      BY <1>1, <2>2 DEF ListsInv, Followed
    <3>2. rows' = answers[1].list /\ doubled' = {}
      BY <2>2 DEF Effect, ShownTwice
    <3> QED
      BY <3>1, <3>2, TailFollowed
  <2> QED
    BY <1>3, <2>1, <2>2
<1>4. ASSUME NEW n \in 1 .. Len(answers'), answers'[n].clean PROVE FollowedFrom(n + 1)'
  <2>1. n \in 1 .. Len(answers) - 1 /\ n + 1 \in 1 .. Len(answers) /\ n + 1 \in Nat /\ n + 1 >= 1
        /\ n + 1 # 1 /\ Len(answers) # 1
    BY <1>1, <1>2
  <2>2. answers[n + 1].clean
    BY <1>2, <1>4, <2>1
  <2>3. FollowedFrom(n + 1 + 1)
    BY <2>1, <2>2 DEF ListsInv, Followed
  <2> QED
    BY <2>1, <2>3, TailFollowed
<1> QED
  BY <1>3, <1>4 DEF Followed

LEMMA ReceiveKeeps ==
  ASSUME ListsInv, NEW n \in DOMAIN answers, Receive(n), UNCHANGED <<panel, server, used, asking>>,
         sent' \subseteq ListCalls, \A c \in sent' \ sent : Deletes(c), loading' \in BOOLEAN,
         loading' => (\E c \in sent' : Loads(c)) \/ LoadAnswered(RemoveAt(answers, n))
  PROVE  ListsInv'
<1> DEFINE a == answers[n]
           inOrder == n = 1 /\ (panel = "mailboxes" /\ a.call.op \in {"create", "delete"} => rows = a.call.base)
           rest == RemoveAt(answers, n)
<1>1. answers \in Seq(Answers) /\ n \in 1 .. Len(answers) /\ a \in Answers
  BY DEF ListsInv, ListTypes
<1>2. rest \in Seq(Answers)
  BY <1>1, Shorter
<1>3. rows' = Shown(a) /\ rows' \in Lists /\ doubled' = ShownTwice(a) /\ doubled' \subseteq Items
  BY <1>1, ShownType, ShownTwiceType DEF Receive
<1>4. AskingTypes'
  BY DEF ListsInv, AskingTypes, Deletes
<1>5. CASE ~inOrder
  <2>1. drift' = TRUE /\ answers' = Unfollowable(rest)
    BY <1>5 DEF Receive
  <2>2. answers' \in Seq(Answers) /\ \A m \in 1 .. Len(answers') : ~answers'[m].clean
    BY <1>2, <2>1, AnswersUnclean
  <2>3. loading' => (\E c \in sent' : Loads(c)) \/ LoadAnswered(answers')
    BY <1>2, <2>1, StillAnswered
  <2> QED
    BY <1>3, <1>4, <2>1, <2>2, <2>3, AdriftKeeps DEF ListsInv, ListTypes
<1>6. CASE inOrder
  <2>1. n = 1 /\ answers' = RemoveAt(answers, 1)
    BY <1>6 DEF Receive
  <2>2. rows' = Effect(answers[1], rows)
    BY <1>3, <1>6, <2>1, ShownInOrder
  <2>3. drift' = (drift /\ ~(answers[1].call.op = "load" /\ answers[1].clean))
    BY <1>6, <2>1 DEF Receive
  <2>4. Followed'
    <3>1. answers # <<>>
      BY <1>1
    <3> QED
      BY <1>3, <2>1, <2>2, <2>3, <3>1, InOrderFollowed
  <2>5. ListTypes'
    BY <1>2, <1>3, <2>1 DEF ListsInv, ListTypes
  <2>6. DeletesOne'
    BY DEF ListsInv, DeletesOne, Deletes
  <2>7. SwitchTypes'
    BY <2>3 DEF SwitchTypes
  <2>8. LoadingEnds'
    <3>1. DOMAIN answers' = 1 .. Len(answers')
      BY <1>2, <2>1
    <3> QED
      BY <2>1, <3>1 DEF LoadingEnds, UnderWay, LoadAnswered, Loads
  <2> QED
    BY <1>4, <2>4, <2>5, <2>6, <2>7, <2>8 DEF ListsInv
<1> QED
  BY <1>5, <1>6

LEMMA ListLoadedKeeps == ASSUME ListsInv, NEW n \in DOMAIN answers, ListLoaded(n) PROVE ListsInv'
<1>1. CASE loading' = FALSE /\ UNCHANGED sent
  BY <1>1, ReceiveKeeps DEF ListLoaded, ListsInv, ListTypes
<1>2. CASE sent' = sent \cup {Activation({})} /\ UNCHANGED loading
  <2> DEFINE d == Activation({})
  <2>1. d \in ListCalls /\ Deletes(d) /\ Loads(d)
    BY ActivationIsACall DEF Deletes, Loads
  <2>2. sent' = sent \cup {d}
    BY <1>2
  <2> HIDE DEF d
  <2>3. sent' \subseteq ListCalls /\ (\A c \in sent' \ sent : Deletes(c)) /\ \E c \in sent' : Loads(c)
    BY <2>1, <2>2 DEF ListsInv, ListTypes
  <2>4. loading' \in BOOLEAN
    BY <1>2 DEF ListsInv, SwitchTypes
  <2> QED
    BY <2>3, <2>4, ReceiveKeeps DEF ListLoaded
<1> QED
  BY <1>1, <1>2 DEF ListLoaded

\* An activation was not waited for, or is followed by a load that is.
LEMMA ActivationEndsKeeps == ASSUME ListsInv, NEW c \in sent, ActivationEnds(c) PROVE ListsInv'
<1>1. sent' \subseteq ListCalls /\ \A d \in sent' \ sent : Deletes(d)
  BY LoadIsACall DEF ActivationEnds, Deletes, ListsInv, ListTypes
<1>2. AskingTypes'
  BY DEF ActivationEnds, ListsInv, AskingTypes, Deletes
<1>3. loading' \in BOOLEAN
  BY DEF ActivationEnds
<1>4. LoadingEnds'
  BY LoadIsACall DEF ActivationEnds, LoadingEnds, UnderWay
<1> QED
  BY <1>1, <1>2, <1>3, <1>4, ClickedKeeps DEF ActivationEnds

LEMMA ChangeAnsweredKeeps ==
  ASSUME ListsInv, NEW n \in DOMAIN answers, ChangeAnswered(n)
  PROVE  ListsInv'
<1> DEFINE op == answers[n].call.op
           s == RemoveAt(answers, n)
<1>1. answers \in Seq(Answers) /\ n \in 1 .. Len(answers) /\ answers[n] \in Answers
  BY DEF ListsInv, ListTypes
<1>2. loading => (\E c \in sent : Loads(c)) \/ LoadAnswered(s)
  <2> SUFFICES ASSUME loading, ~\E c \in sent : Loads(c) PROVE LoadAnswered(s)
    OBVIOUS
  <2> QED
    BY <1>1, LoadSeen, AnsweredBesides DEF ChangeAnswered
<1>3. CASE sent' = sent \cup Follows(op) /\ loading' = (loading \/ Follows(op) # {})
  <2>1. Follows(op) \in {{}, {LoadCall}}
    BY DEF Follows
  <2>2. sent' \subseteq ListCalls /\ \A c \in sent' \ sent : Deletes(c)
    BY <1>3, <2>1, LoadIsACall DEF ListsInv, ListTypes, Deletes
  <2>3. loading' => (\E c \in sent' : Loads(c)) \/ LoadAnswered(s)
    <3>1. CASE Follows(op) = {}
      BY <1>2, <1>3, <3>1
    <3>2. CASE Follows(op) = {LoadCall}
      BY <1>3, <3>2, LoadIsACall DEF Loads
    <3> QED
      BY <2>1, <3>1, <3>2
  <2>4. loading' \in BOOLEAN
    BY <1>3
  <2> QED
    BY <2>2, <2>3, <2>4, ReceiveKeeps DEF ChangeAnswered
<1>5. CASE Replaces(answers[n].call) /\ sent' = sent \cup {Activation(answers[n].call.item)} /\ loading' = loading
  <2> DEFINE c == Activation(answers[n].call.item)
  <2>1. c \in ListCalls /\ Deletes(c)
    BY <1>1, ActivationIsACall DEF Answers, ListCalls, Deletes
  <2>2. sent' = sent \cup {c}
    BY <1>5
  <2> HIDE DEF c
  <2>3. sent' \subseteq ListCalls /\ \A d \in sent' \ sent : Deletes(d)
    BY <2>1, <2>2 DEF ListsInv, ListTypes
  <2>4. loading' => (\E d \in sent' : Loads(d)) \/ LoadAnswered(s)
    BY <1>2, <1>5
  <2>5. loading' \in BOOLEAN
    BY <1>5 DEF ListsInv, SwitchTypes
  <2> QED
    BY <2>3, <2>4, <2>5, ReceiveKeeps DEF ChangeAnswered
<1>4. CASE sent' = sent \cup AutoSync(answers[n].call) /\ loading' = loading
  <2>1. answers[n].call.item \subseteq Items
    BY <1>1 DEF Answers, ListCalls
  <2>2. \A c \in AutoSync(answers[n].call) : MayCall(c)
    BY <2>1, RequestsAreCalls DEF AutoSync, syncManagedDomainCloudflare
  <2>3. sent' \subseteq ListCalls /\ \A d \in sent' \ sent : Deletes(d)
    BY <1>4, <2>2 DEF MayCall, ListsInv, ListTypes
  <2>4. loading' => (\E d \in sent' : Loads(d)) \/ LoadAnswered(s)
    BY <1>2, <1>4
  <2>5. loading' \in BOOLEAN
    BY <1>4 DEF ListsInv, SwitchTypes
  <2> QED
    BY <2>3, <2>4, <2>5, ReceiveKeeps DEF ChangeAnswered
<1> QED
  BY <1>3, <1>4, <1>5 DEF ChangeAnswered

LEMMA LoadedElsewhereKeeps == ASSUME ListsInv, LoadedElsewhere PROVE ListsInv'
<1>1. sent' \subseteq ListCalls /\ \A d \in sent' \ sent : Deletes(d)
  BY LoadIsACall DEF LoadedElsewhere, Deletes, ListsInv, ListTypes
<1>2. AskingTypes'
  BY DEF LoadedElsewhere, ListsInv, AskingTypes, Deletes
<1>3. LoadingEnds' /\ loading' \in BOOLEAN
  BY LoadIsACall DEF LoadedElsewhere, LoadingEnds, UnderWay
<1> QED
  BY <1>1, <1>2, <1>3, ClickedKeeps DEF LoadedElsewhere

\* Rows changed by another handler of the page are put right by the loads that
\* were put right before.
LEMMA RowsChangedKeeps ==
  ASSUME ListsInv, rows' \in Lists, doubled' \subseteq Items, drift' = TRUE,
         UNCHANGED <<panel, server, used, loading, asking, sent, answers>>
  PROVE  ListsInv'
<1>1. answers \in Seq(Answers) /\ Len(answers) \in Nat
  BY DEF ListsInv, ListTypes
<1>2. ASSUME NEW n \in 1 .. Len(answers), answers[n].clean PROVE FollowedFrom(n + 1)'
  <2>1. FollowedFrom(n + 1)
    BY <1>2 DEF ListsInv, Followed
  <2>2. answers # <<>>
    BY <1>1
  <2>3. \A m \in 1 .. Len(answers) : m >= n + 1 => Before(m)' = Before(m)
    BY <1>1 DEF Before
  <2> QED
    BY <2>1, <2>2, <2>3 DEF FollowedFrom, Latest, Effect, IsNew
<1>3. Followed'
  BY <1>2 DEF Followed
<1>4. ListTypes' /\ DeletesOne'
  BY DEF ListsInv, ListTypes, DeletesOne, Deletes
<1>5. AskingTypes'
  BY DEF ListsInv, AskingTypes, Deletes
<1>6. SwitchTypes'
  BY DEF ListsInv, SwitchTypes
<1>7. LoadingEnds'
  BY DEF ListsInv, LoadingEnds, UnderWay
<1> QED
  BY <1>3, <1>4, <1>5, <1>6, <1>7 DEF ListsInv

LEMMA BatchListedKeeps ==
  ASSUME ListsInv, NEW i \in Items, NEW v \in 1 .. MaxRevision, BatchListed(i, v)
  PROVE  ListsInv'
<1>1. rows' \in Lists /\ doubled' \subseteq Items
  BY RowsType DEF BatchListed, ListsInv, ListTypes, Lists
<1> QED
  BY <1>1, RowsChangedKeeps DEF BatchListed

LEMMA ListsResetKeeps == ASSUME ListsInv, ListsReset PROVE ListsInv'
BY RowsType, RowsChangedKeeps DEF ListsReset

LEMMA NextSessionKeeps == ASSUME ListsInv, NextSession PROVE ListsInv'
<1>1. answers' = <<>> /\ Len(answers') = 0 /\ answers' \in Seq(Answers) /\ sent' = {LoadCall}
  BY DEF NextSession
<1>2. AskingTypes'
  BY DEF NextSession, AskingTypes
<1>3. sent' \subseteq ListCalls /\ (\A d \in sent' \ sent : Deletes(d)) /\ \E d \in sent' : Loads(d)
  BY <1>1, LoadIsACall DEF Deletes, Loads
<1>4. rows' \in Lists /\ doubled' \subseteq Items /\ loading' \in BOOLEAN
  BY RowsType DEF NextSession
<1>5. UNCHANGED <<panel, server, used>> /\ drift' = TRUE
  BY DEF NextSession
<1> QED
  BY <1>1, <1>2, <1>3, <1>4, <1>5, AdriftKeeps DEF ListsInv, ListTypes

LEMMA ListsStep == ListsInv /\ [ListsNext]_listVars => ListsInv'
<1> SUFFICES ASSUME ListsInv, [ListsNext]_listVars PROVE ListsInv'
  OBVIOUS
<1>1. CASE ListClicks
  BY <1>1, ClicksKeep
<1>2. ASSUME NEW c \in sent,
             \/ HandleLoad(c) \/ HandleCreate(c) \/ HandlePatch(c) \/ HandleDelete(c)
             \/ HandleRead(c) \/ HandleCleanup(c)
      PROVE  ListsInv'
  BY <1>2, HandleLoadKeeps, HandleCreateKeeps, HandlePatchKeeps, HandleDeleteKeeps, HandleReadKeeps,
     HandleCleanupKeeps
<1>3. ASSUME NEW c \in sent, CallRefused(c) \/ MailboxNotFound(c) \/ ActivationEnds(c) PROVE ListsInv'
  BY <1>3, CallRefusedKeeps, MailboxNotFoundKeeps, ActivationEndsKeeps
<1>4. CASE OthersChange
  BY <1>4, OthersChangeKeeps
<1>5. ASSUME NEW n \in DOMAIN answers, ListLoaded(n) \/ ChangeAnswered(n) \/ AnswerLost(n) PROVE ListsInv'
  BY <1>5, ListLoadedKeeps, ChangeAnsweredKeeps, AnswerLostKeeps
<1>6. CASE UNCHANGED listVars
  <2>1. AskingTypes' /\ LoadingEnds' /\ loading' \in BOOLEAN
    BY <1>6 DEF listVars, ListsInv, AskingTypes, Deletes, LoadingEnds, UnderWay, SwitchTypes
  <2> QED
    BY <1>6, <2>1, ClickedKeeps DEF listVars, shownVars, ListsInv, ListTypes
<1>7. CASE RestOfPage
  BY <1>7, LoadedElsewhereKeeps, ListsResetKeeps, NextSessionKeeps, BatchListedKeeps DEF RestOfPage
<1> QED
  BY <1>1, <1>2, <1>3, <1>4, <1>5, <1>6, <1>7 DEF ListsNext, Backend

LEMMA ListsInvariant == ListsSpec => []ListsInv
BY ListsStart, ListsStep, PTL DEF ListsSpec

\* The types of the lists hold in every reachable state.
THEOREM ListsTypes == ListsSpec => []ListsTypeOK
<1>1. ListsInv => ListsTypeOK
  <2> SUFFICES ASSUME ListsInv PROVE ListsTypeOK
    OBVIOUS
  <2>1. Cardinality(asking) <= 1
    <3>1. CASE asking = {}
      BY <3>1, FS_EmptySet
    <3>2. ASSUME NEW p \in asking PROVE Cardinality(asking) <= 1
      <4>1. asking = {p}
        BY DEF ListsInv, AskingTypes, Deletes
      <4>2. Cardinality({p}) = 1
        BY FS_Singleton
      <4> QED
        BY <4>1, <4>2
    <3> QED
      BY <3>1, <3>2
  <2> QED
    BY <2>1 DEF ListsInv, ListTypes, AskingTypes, SwitchTypes, ListsTypeOK
<1> QED
  BY <1>1, ListsInvariant, PTL

\* Whatever order changes and loads are made in, the rows end as the backend's,
\* unless answers were lost, overtaken or worked on old rows since the last load.
THEOREM RowsFollow == ListsSpec => []ListsAgree
<1>1. ListsInv => ListsAgree
  <2> SUFFICES ASSUME ListsInv, answers = <<>>, ~drift PROVE rows = server /\ doubled = {}
    BY DEF ListsAgree
  <2> QED
    BY DEF ListsInv, Followed, FollowedFrom, Latest
<1> QED
  BY <1>1, ListsInvariant, PTL

\* A list that shows itself as loading has a load under way.
THEOREM LoadingIsAnswered == ListsSpec => []LoadingEnds
<1>1. ListsInv => LoadingEnds
  BY DEF ListsInv
<1> QED
  BY <1>1, ListsInvariant, PTL

----------------------------------------------------------------------------
(* The page                                                                *)

\* A behaviour of the page follows one part, so it is one of each part: of that
\* one, or one that does nothing.  What the parts do to each other in the code is
\* among the steps of the part it is done to.
LEMMA PartsAlone == Spec => SessionSpec /\ ListsSpec /\ SettingsSpec /\ BatchSpec
<1>1. PageInit => SessionInit /\ ListsInit /\ SettingsInit /\ BatchInit
  BY DEF PageInit
<1>2. [PageNext]_pageVars => [SessionNext]_sessionVars
  BY DEF PageNext, pageVars
<1>3. [PageNext]_pageVars => [ListsNext]_listVars
  BY DEF PageNext, pageVars
<1>4. [PageNext]_pageVars => [SettingsNext]_settingsVars
  BY DEF PageNext, pageVars
<1>5. [PageNext]_pageVars => [BatchNext]_batchVars
  BY DEF PageNext, pageVars
<1> QED
  BY <1>1, <1>2, <1>3, <1>4, <1>5, PTL DEF Spec, SessionSpec, ListsSpec, SettingsSpec, BatchSpec

\* The whole page is well typed.
THEOREM PageTypes == Spec => []TypeOK
BY PartsAlone, SessionTypes, ListsTypes, SettingsTypes, BatchTypes, PTL DEF TypeOK

\* Every property of a part holds of the page.
THEOREM PageIsSafe ==
  Spec => /\ [](SignedOutStaysOut /\ CodesAreSentOnce /\ BootIsAnswered)
          /\ [](ListsAgree /\ LoadingEnds)
          /\ []NoHiddenEdits /\ SavesOnlyEdits
          /\ [](ZonesOfThisOpening /\ ZonesWillCome /\ BatchAddsUp)
BY PartsAlone, SigningOutLasts, CodesGoOnce, BootsEnd, RowsFollow, LoadingIsAnswered,
   EditsAreNotHidden, SavesCarryEdits, ZonesAreCurrent, ZonesAreAwaited, BatchesAddUp, PTL
=============================================================================

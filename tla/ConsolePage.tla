----------------------------- MODULE ConsolePage -----------------------------
(***************************************************************************)
(* The console page as a whole: its session, its lists, its settings view  *)
(* and its batch dialog.  In the code they are one component, and they     *)
(* share state: a batch writes the list of domains, a save of the settings *)
(* loads the audit log, the dialog and the automatic synchronization read  *)
(* the Cloudflare settings, and the end of a session resets everything.    *)
(* Each part therefore has actions for what the others do to it, which may *)
(* happen at any time (RestOfPage of the lists, CloudflareChanged of the   *)
(* batch, LoadCloudflare and NextConsole of the settings, ConsoleRequest   *)
(* of the session).  A part by itself then has every behaviour it has      *)
(* among the others, and more; so a behaviour here follows one part, and   *)
(* the others stay in an initial state.                                    *)
(***************************************************************************)
EXTENDS WebSession, ConsoleLists, ConsoleSettings, DomainBatch

VARIABLE part   \* the part this behaviour follows

pageVars == <<sessionVars, listVars, settingsVars, batchVars, part>>

\* The initial states of a part that is not followed are cut down to one.
PageInit ==
  /\ part \in {"session", "lists", "settings", "batch"}
  /\ SessionInit /\ (part # "session" => trusted /\ setUp)
  /\ ListsInit /\ (part # "lists" => panel = "domains" /\ server = NoRows)
  /\ SettingsInit /\ (part # "settings" => calls = {} /\ \A f \in Fields : stored[f] = DefaultCloudflare)
  /\ BatchInit

PageNext ==
  \/ /\ part = "session" /\ SessionNext
     /\ UNCHANGED <<part, listVars, settingsVars, batchVars>>
  \/ /\ part = "lists" /\ ListsNext
     /\ UNCHANGED <<part, sessionVars, settingsVars, batchVars>>
  \/ /\ part = "settings" /\ SettingsNext
     /\ UNCHANGED <<part, sessionVars, listVars, batchVars>>
  \/ /\ part = "batch" /\ BatchNext
     /\ UNCHANGED <<part, sessionVars, listVars, settingsVars>>

Spec == PageInit /\ [][PageNext]_pageVars

TypeOK == SessionTypeOK /\ ListsTypeOK /\ SettingsTypeOK /\ BatchTypeOK
=============================================================================

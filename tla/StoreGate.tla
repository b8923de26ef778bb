----------------------------- MODULE StoreGate -----------------------------
(***************************************************************************)
(* background_store_gate (state.rs): the one-permit semaphore that the     *)
(* mail poller, the domain verifier and the cleanup share.  Requests never *)
(* take it.  An acquisition is tried for background_store_lock_timeout     *)
(* milliseconds and then given up, and the caller skips the work.          *)
(***************************************************************************)

VARIABLE gate   \* the task that holds the permit, or "free"

GateTasks == {"poller", "verifier", "cleanup"}

GateTypeOK == gate \in GateTasks \cup {"free"}

GateInit == gate = "free"

\* The permit is taken and kept over the next store calls.
Acquire(task) == gate = "free" /\ gate' = task

\* The permit is taken and dropped around a single statement.
PassThrough == gate = "free" /\ UNCHANGED gate

\* The permit goes out of scope.
Release(task) == gate = task /\ gate' = "free"

\* The wait ran into its timeout: somebody else kept the permit all along.
GateTimesOut(task) == gate \notin {"free", task} /\ UNCHANGED gate
=============================================================================

---------------------------- MODULE MCMailClient ----------------------------
(***************************************************************************)
(* The constants of MailClient for TLC: two mailboxes between which the    *)
(* user switches while calls, a token refresh and the stream are under way.*)
(***************************************************************************)
EXTENDS MailClient, TLC

CONSTANTS a, b

Interchangeable == Permutations({a, b})
=============================================================================

--------------------------- MODULE MCConsolePage ---------------------------
(* The console page on small instances of its parts. *)
EXTENDS ConsolePage

MCOffered == {"register", "otp", "recover", "linux-do"}
MCItems   == {1, 2}
MCFields  == {"systemEnabled", "branding"}
MCValues  == {0, 1}
=============================================================================

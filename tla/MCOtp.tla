------------------------------- MODULE MCOtp -------------------------------
(***************************************************************************)
(* The constants of Otp for TLC: two requests race for two codes, sent to  *)
(* one address or to two, and codes outlive their cooldown by one tick.    *)
(***************************************************************************)
EXTENDS Otp, TLC

Interchangeable == Permutations(Requests) \cup Permutations(Codes)
=============================================================================

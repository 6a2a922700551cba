----------------------------- MODULE MCWifiTcp -----------------------------
(* Bounded instance of WifiTcp for TLC.                                     *)
EXTENDS WifiTcp
=============================================================================

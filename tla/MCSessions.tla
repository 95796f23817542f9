----------------------------- MODULE MCSessions -----------------------------
(* Instance of Sessions for TLC; the configuration gives the constants.    *)
EXTENDS Sessions
=============================================================================

----------------------------- MODULE MCHostReady -----------------------------
(* The requests of the runs, for HostApi with its history variable.          *)
EXTENDS MCHostApi, HostApiReady
=============================================================================

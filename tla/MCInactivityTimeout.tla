------------------------ MODULE MCInactivityTimeout ------------------------
(* The model-checking instance of InactivityTimeout; the .cfg file names   *)
(* the server's limits and what clients propose.                           *)
EXTENDS InactivityTimeout
=============================================================================

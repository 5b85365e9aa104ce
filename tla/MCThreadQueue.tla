--------------------------- MODULE MCThreadQueue ---------------------------
(* Model-checking instance of ThreadQueue: the constants come from the     *)
(* .cfg files.                                                             *)
EXTENDS ThreadQueue
=============================================================================

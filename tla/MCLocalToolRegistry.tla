------------------------ MODULE MCLocalToolRegistry ------------------------
(* Model-checking instance of LocalToolRegistry: two requests of one       *)
(* thread, so that one can be live while the other is over.                *)
EXTENDS LocalToolRegistry, TLC

CONSTANTS th1, r1, r2, get_prefs

MCThreadOf == (r1 :> th1) @@ (r2 :> th1)
MCToolOf   == (r1 :> get_prefs) @@ (r2 :> get_prefs)
=============================================================================

--------------------------- MODULE MCStreamClient ---------------------------
(* Small instances of StreamClient for TLC.                                *)
EXTENDS StreamClient

(* The iPad's queue of main actor tasks takes the room of a third task.    *)
TasksByClient == [web |-> 3, ipad |-> 2]
=============================================================================

--------------------------- MODULE MCToolHandler ---------------------------
(* Model-checking instances of ToolHandler: two requests of one thread for *)
(* one tool, and a client of each kind.                                    *)
EXTENDS ToolHandler, TLC

CONSTANTS th1, r1, r2, tool

OneThread   == [r \in Requests |-> th1]
OneTool     == [r \in Requests |-> tool]

SyncAndAsync == r1 :> "sync" @@ r2 :> "async"
SyncAndFire  == r1 :> "sync" @@ r2 :> "fire_and_forget"

ReactHook == [mode |-> SyncAndAsync, wired |-> TRUE, sdk |-> "react",
              hook |-> TRUE, fallback |-> "unhandled", retry |-> TRUE,
              results |-> {{"response_json"}}]

(* A response, and the object of a handler that sets two discriminants.    *)
OneOrTwo == {{"response_json"}, {"response_json", "error"}}

EveryClient ==
  {ReactHook,
   [ReactHook EXCEPT !.mode = SyncAndFire, !.fallback = "none", !.retry = FALSE,
                     !.results = OneOrTwo],
   [ReactHook EXCEPT !.mode = SyncAndFire, !.results = OneOrTwo],
   [ReactHook EXCEPT !.mode = SyncAndFire, !.hook = FALSE, !.fallback = "any"],
   [ReactHook EXCEPT !.mode = SyncAndFire, !.hook = FALSE],
   [ReactHook EXCEPT !.wired = FALSE],
   [ReactHook EXCEPT !.sdk = "coordinator"],
   [ReactHook EXCEPT !.sdk = "coordinator", !.mode = SyncAndFire, !.hook = FALSE],
   [ReactHook EXCEPT !.sdk = "approved", !.fallback = "none", !.mode = SyncAndFire],
   [ReactHook EXCEPT !.sdk = "approved", !.fallback = "none", !.hook = FALSE]}
=============================================================================

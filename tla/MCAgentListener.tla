-------------------------- MODULE MCAgentListener --------------------------
(* Model-checking instances of AgentListener: one thread; the .cfg files   *)
(* choose the sockets, the agents they name and the tools that are called. *)
EXTENDS AgentListener, TLC

CONSTANTS th1, s1, s2, r1, r2, tool, planner

OneThread    == [r \in Requests |-> th1]
OneRoom      == [s \in Sockets |-> th1]
OneTool      == [r \in Requests |-> tool]
NoAgents     == [s \in Sockets |-> NoAgent]
PlannerAgent == [s \in Sockets |-> planner]
BothAsync    == [r \in Requests |-> "async"]
SyncAndAsync == [r \in Requests |-> IF r = r1 THEN "sync" ELSE "async"]
AsyncAndFire == [r \in Requests |-> IF r = r1 THEN "async" ELSE "fire_and_forget"]
=============================================================================

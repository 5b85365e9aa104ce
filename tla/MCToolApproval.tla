--------------------------- MODULE MCToolApproval ---------------------------
(***************************************************************************)
(* Model-checking instances of ToolApproval: two requests of one tool, the *)
(* first with a deadline.                                                  *)
(***************************************************************************)
EXTENDS ToolApproval

CONSTANTS q1, q2, t

OneTool == [q \in Requests |-> t]
=============================================================================

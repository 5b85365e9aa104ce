------------------------- MODULE MCAttachmentUpload -------------------------
(* Model-checking instance of AttachmentUpload: u1 has two attachments, u2 *)
(* one, u3 none.  The React hook with a host that sends whenever it likes  *)
(* and one refused attachment; the Swift client with a host that waits.    *)
EXTENDS AttachmentUpload, TLC

CONSTANTS u1, u2, u3

TwoOneNone == u1 :> 2 @@ u2 :> 1 @@ u3 :> 0

ReactAndSwift == {[swift |-> FALSE, waits |-> "nothing", oversized |-> {u1}],
                  [swift |-> TRUE, waits |-> "upload", oversized |-> {}]}
=============================================================================

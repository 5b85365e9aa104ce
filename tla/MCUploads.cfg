\* Two clients, up to three connections, three sends.
SPECIFICATION Spec
CONSTANTS
  u1 = u1
  u2 = u2
  u3 = u3
  Sends = {u1, u2, u3}
  NoSend = NoSend
  Size <- TwoOneNone
  Settings <- ReactAndSwift
  MaxConnections = 3
INVARIANTS OwnAttachmentsOrNone NeverIncomplete FailedSendsNeverRun MessagesKeepAttachments
PROPERTIES UploadEnds
\* All sends made and all connections used is where a behaviour ends.
CHECK_DEADLOCK FALSE

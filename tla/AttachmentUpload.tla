-------------------------- MODULE AttachmentUpload --------------------------
(***************************************************************************)
(* Attachments on their way to an agent run: the uploader of the client    *)
(* SDKs (agent-streemr-react/src/useAgentStream.ts and                     *)
(* agent-streemr-swift/.../Core/AgentStream.swift), the connection, and    *)
(* the staging of the server (agent-streemr/src/server/listener.ts).       *)
(*                                                                         *)
(* A send is one call of sendMessage.  One that has attachments emits      *)
(* start_attachments and every attachment at once, waits for the acks, and *)
(* emits the message that refers to them.  Its correlation id is random,   *)
(* so the send stands for it.  A connection delivers in order and loses    *)
(* what is in flight when it breaks; the server has fresh state for the    *)
(* next one.                                                               *)
(***************************************************************************)
EXTENDS Naturals, Sequences

CONSTANTS Sends,          \* calls of sendMessage
          NoSend,
          Size,           \* Size[u]: how many attachments u has
          Settings,       \* the clients, hosts and servers to look at
          MaxConnections  \* bound: connections, and sockets the client makes

(* swift: the Swift client, where it differs from the React hook; waits:   *)
(* what the host waits for before the next send; oversized: sends whose    *)
(* last attachment the server refuses.                                     *)
AllSettings == [swift : BOOLEAN, waits : {"nothing", "isStreaming", "upload"},
                oversized : SUBSET Sends]

ASSUME UploadAssumption ==
  /\ NoSend \notin Sends
  /\ Size \in [Sends -> Nat]
  /\ Settings \subseteq AllSettings
  /\ MaxConnections \in Nat \ {0}

VARIABLES setting,   \* which of Settings this is; it never changes
          link,      \* the client's socket: up, reconnecting when down, which object
          conn,      \* connections made so far; the server keeps state per connection
          c2s, s2c,  \* packets in flight
          phase,     \* phase[u]: how far the send has come
          unacked,   \* unacked[u]: sequence numbers without an ack
          entries,   \* keys of the map of pending acks
          socketOf,  \* socketOf[u]: the socket object the send captured
          streaming, \* isStreaming, which hosts disable their input on
          staging,   \* the staging session of the connection
          runs,      \* runs the server enqueued, each with its attachments
          finished,  \* how many of them have sent their last chunk
          refused    \* sends answered with "Attachment sequence incomplete"

clientVars == <<phase, unacked, entries, socketOf, streaming>>
serverVars == <<staging, runs, finished, refused>>
vars == <<setting, link, conn, c2s, s2c, clientVars, serverVars>>

NoStaging   == [of |-> NoSend, count |-> 0, staged |-> <<>>]
Phases      == {"idle", "uploading", "acked", "sent", "failed", "abandoned"}

(* The packets. *)
StartPacket(u)      == [kind |-> "start", of |-> u, count |-> Size[u]]
AttachmentPacket(u, i) == [kind |-> "attachment", of |-> u, seq |-> i, body |-> <<u, i>>]
MessagePacket(u, c) == [kind |-> "message", send |-> u, of |-> c]
AckPacket(u, i)     == [kind |-> "ack", of |-> u, seq |-> i]
Burst(u) == <<StartPacket(u)>> \o [i \in 1..Size[u] |-> AttachmentPacket(u, i - 1)]

(* The attachments of u, in the order the user gave them. *)
All(u) == [i \in 1..Size[u] |-> <<u, i - 1>>]

TypeOK ==
  /\ setting \in Settings
  /\ link \in [up : BOOLEAN, wanted : BOOLEAN, object : 0..MaxConnections]
  /\ conn \in 0..MaxConnections
  /\ phase \in [Sends -> Phases]
  /\ unacked \in [Sends -> SUBSET Nat]
  /\ entries \subseteq Sends
  /\ socketOf \in [Sends -> 0..MaxConnections]
  /\ streaming \in BOOLEAN
  /\ staging.of \in Sends \cup {NoSend} /\ staging.count \in Nat
  /\ DOMAIN staging.staged \subseteq 0..(staging.count - 1)
  /\ finished \in 0..Len(runs)
  /\ refused \subseteq Sends

Init ==
  /\ setting \in Settings
  /\ link = [up |-> TRUE, wanted |-> TRUE, object |-> 1]
  /\ conn = 1
  /\ c2s = <<>> /\ s2c = <<>>
  /\ phase = [u \in Sends |-> "idle"]
  /\ unacked = [u \in Sends |-> {}]
  /\ entries = {}
  /\ socketOf = [u \in Sends |-> 0]
  /\ streaming = FALSE
  /\ staging = NoStaging
  /\ runs = <<>> /\ finished = 0 /\ refused = {}
-----------------------------------------------------------------------------
(***************************************************************************)
(* The client.                                                             *)
(***************************************************************************)
InProgress(u) == phase[u] \in {"uploading", "acked"}

HostMaySend ==
  /\ setting.waits = "isStreaming" => ~streaming
  /\ setting.waits = "upload" => \A u \in Sends : ~InProgress(u)

(* sendMessage(text, context, attachments) *)
SendMessage(u) ==
  /\ phase[u] = "idle" /\ link.up /\ HostMaySend
  /\ streaming' = TRUE
  /\ socketOf' = [socketOf EXCEPT ![u] = link.object]
  /\ \/ /\ Size[u] = 0
        /\ c2s' = Append(c2s, MessagePacket(u, NoSend))
        /\ phase' = [phase EXCEPT ![u] = "sent"]
        /\ UNCHANGED <<unacked, entries>>
     \/ /\ Size[u] > 0
        /\ c2s' = c2s \o Burst(u)
        /\ phase' = [phase EXCEPT ![u] = "uploading"]
        /\ unacked' = [unacked EXCEPT ![u] = 0..(Size[u] - 1)]
        /\ entries' = entries \cup {u}
  /\ UNCHANGED <<setting, link, conn, s2c, serverVars>>

(* The last ack resolves the upload.  The React hook emits the message in  *)
(* the same turn, the Swift client in a later job of the main actor.       *)
AllAcked(u) ==
  IF setting.swift
  THEN phase' = [phase EXCEPT ![u] = "acked"] /\ UNCHANGED c2s
  ELSE /\ phase' = [phase EXCEPT ![u] = "sent"]
       /\ c2s' = Append(c2s, MessagePacket(u, u))

(* Seeded fault: the first ack resolves the upload. *)
ReceiveFirstAck ==
  /\ s2c # <<>> /\ Head(s2c).kind = "ack"
  /\ s2c' = Tail(s2c)
  /\ LET u == Head(s2c).of
     IN IF u \in entries
        THEN entries' = entries \ {u} /\ AllAcked(u)
        ELSE UNCHANGED <<entries, phase, c2s>>
  /\ UNCHANGED <<setting, link, conn, unacked, socketOf, streaming, serverVars>>

(* attachment_ack *)
ReceiveAck ==
  /\ s2c # <<>> /\ Head(s2c).kind = "ack"
  /\ s2c' = Tail(s2c)
  /\ LET u    == Head(s2c).of
         rest == unacked[u] \ {Head(s2c).seq}
     IN \/ /\ u \in entries
           /\ unacked' = [unacked EXCEPT ![u] = rest]
           /\ IF rest = {}
              THEN entries' = entries \ {u} /\ AllAcked(u)
              ELSE UNCHANGED <<entries, phase, c2s>>
        \/ u \notin entries /\ UNCHANGED <<unacked, entries, phase, c2s>>
  /\ UNCHANGED <<setting, link, conn, socketOf, streaming, serverVars>>

(* Swift: the upload task resumes, and looks whether its socket is still   *)
(* the stream's; what a closed socket is given is lost.                    *)
ResumeUpload(u) ==
  /\ phase[u] = "acked"
  /\ phase' = [phase EXCEPT ![u] = IF socketOf[u] = link.object THEN "sent" ELSE "abandoned"]
  /\ c2s' = IF socketOf[u] = link.object /\ link.up
            THEN Append(c2s, MessagePacket(u, u)) ELSE c2s
  /\ UNCHANGED <<setting, link, conn, s2c, unacked, entries, socketOf, streaming, serverVars>>

(* Seeded fault: the timer only fires on a live connection. *)
AckTimeoutWhenUp(u) ==
  /\ phase[u] = "uploading" /\ link.up
  /\ phase' = [phase EXCEPT ![u] = "failed"]
  /\ entries' = entries \ {u}
  /\ streaming' = FALSE
  /\ UNCHANGED <<setting, link, conn, c2s, s2c, unacked, socketOf, serverVars>>

(* Seeded fault: the timeout is reported, and the message sent anyway. *)
AckTimeoutSends(u) ==
  /\ phase[u] = "uploading" /\ link.up
  /\ phase' = [phase EXCEPT ![u] = "failed"]
  /\ entries' = entries \ {u}
  /\ streaming' = FALSE
  /\ c2s' = Append(c2s, MessagePacket(u, u))
  /\ UNCHANGED <<setting, link, conn, s2c, unacked, socketOf, serverVars>>

(* The timer of the upload: the send fails.  The Swift timer does nothing  *)
(* once the entry is gone.                                                 *)
AckTimeout(u) ==
  /\ phase[u] = "uploading"
  /\ setting.swift => u \in entries
  /\ phase' = [phase EXCEPT ![u] = "failed"]
  /\ entries' = entries \ {u}
  /\ streaming' = FALSE
  /\ UNCHANGED <<setting, link, conn, c2s, s2c, unacked, socketOf, serverVars>>

(* error and the last agent_response of a run. *)
ReceiveStop ==
  /\ s2c # <<>> /\ Head(s2c).kind \in {"error", "done"}
  /\ s2c' = Tail(s2c)
  /\ streaming' = FALSE
  /\ UNCHANGED <<setting, link, conn, c2s, phase, unacked, entries, socketOf, serverVars>>
-----------------------------------------------------------------------------
(***************************************************************************)
(* The connection.                                                         *)
(***************************************************************************)
Break(l) ==
  /\ link' = l
  /\ c2s' = <<>> /\ s2c' = <<>>
  /\ UNCHANGED <<setting, conn, phase, unacked, socketOf, serverVars>>

(* The transport fails and the library reconnects, or the server closes    *)
(* the socket and it does not.                                             *)
LinkLost(again) ==
  /\ link.up
  /\ Break([link EXCEPT !.up = FALSE, !.wanted = again])
  /\ streaming' = FALSE
  /\ UNCHANGED entries

(* connect(threadId): a new socket object replaces the old one. *)
Connect ==
  /\ link.object < MaxConnections
  /\ Break([up |-> FALSE, wanted |-> TRUE, object |-> link.object + 1])
  /\ UNCHANGED <<streaming, entries>>

(* disconnect(): resetState of the Swift client empties the map. *)
Disconnect ==
  /\ link.object < MaxConnections
  /\ Break([up |-> FALSE, wanted |-> FALSE, object |-> link.object + 1])
  /\ streaming' = FALSE
  /\ entries' = IF setting.swift THEN {} ELSE entries

(* A handshake with the server takes longer than a job of the main actor. *)
LinkUp ==
  /\ ~link.up /\ link.wanted /\ conn < MaxConnections
  /\ \A u \in Sends : phase[u] # "acked"
  /\ link' = [link EXCEPT !.up = TRUE]
  /\ conn' = conn + 1
  /\ staging' = NoStaging
  /\ UNCHANGED <<setting, c2s, s2c, clientVars, runs, finished, refused>>
-----------------------------------------------------------------------------
(***************************************************************************)
(* The server.                                                             *)
(***************************************************************************)
Receive(kind) == c2s # <<>> /\ Head(c2s).kind = kind /\ c2s' = Tail(c2s)
ErrorPacket   == [kind |-> "error"]

(* Seeded fault: what the previous session staged is not thrown away. *)
HandleStartKeepsStaged ==
  /\ Receive("start")
  /\ staging' = [of |-> Head(c2s).of, count |-> Head(c2s).count, staged |-> staging.staged]
  /\ UNCHANGED <<setting, link, conn, s2c, clientVars, runs, finished, refused>>

(* start_attachments: replace any previous staging session. *)
HandleStart ==
  /\ Receive("start")
  /\ staging' = [of |-> Head(c2s).of, count |-> Head(c2s).count, staged |-> <<>>]
  /\ UNCHANGED <<setting, link, conn, s2c, clientVars, runs, finished, refused>>

(* attachment: stage it unless its sequence number is taken, and ack. *)
Stage(staged, i, body) ==
  [j \in DOMAIN staged \cup {i} |-> IF j \in DOMAIN staged THEN staged[j] ELSE body]

Stageable(p) ==
  /\ p.of = staging.of
  /\ p.seq < staging.count
  /\ ~(p.of \in setting.oversized /\ p.seq = Size[p.of] - 1)

HandleAttachment ==
  /\ Receive("attachment")
  /\ LET p == Head(c2s)
     IN \/ /\ Stageable(p)
           /\ staging' = [staging EXCEPT !.staged = Stage(@, p.seq, p.body)]
           /\ s2c' = Append(s2c, AckPacket(p.of, p.seq))
        \/ ~Stageable(p) /\ s2c' = Append(s2c, ErrorPacket) /\ UNCHANGED staging
  /\ UNCHANGED <<setting, link, conn, clientVars, runs, finished, refused>>

(* Seeded fault: the staging session is dropped before it is looked at. *)
HandleMessageForgets ==
  /\ Receive("message")
  /\ staging' = NoStaging
  /\ runs' = Append(runs, [send |-> Head(c2s).send, conn |-> conn, attachments |-> <<>>])
  /\ UNCHANGED <<setting, link, conn, s2c, clientVars, finished, refused>>

(* message: with the id of the session and all of it staged, the run gets  *)
(* the attachments; with some of it missing there is no run; with another  *)
(* id or none the run gets nothing.  The session is over in every case.    *)
Claims(p)   == p.of # NoSend /\ p.of = staging.of
IsComplete  == DOMAIN staging.staged = 0..(staging.count - 1)

HandleMessage ==
  /\ Receive("message")
  /\ staging' = NoStaging
  /\ LET p == Head(c2s)
         Run(atts) == runs' = Append(runs, [send |-> p.send, conn |-> conn, attachments |-> atts])
     IN \/ /\ Claims(p) /\ IsComplete
           /\ Run([i \in 1..staging.count |-> staging.staged[i - 1]])
           /\ UNCHANGED <<s2c, refused>>
        \/ /\ Claims(p) /\ ~IsComplete
           /\ s2c' = Append(s2c, ErrorPacket)
           /\ refused' = refused \cup {p.send}
           /\ UNCHANGED runs
        \/ /\ ~Claims(p)
           /\ Run(<<>>)
           /\ UNCHANGED <<s2c, refused>>
  /\ UNCHANGED <<setting, link, conn, clientVars, finished>>

(* The runs end one after the other; the socket of each hears of it if it  *)
(* is still there.                                                         *)
FinishRun ==
  /\ finished < Len(runs)
  /\ finished' = finished + 1
  /\ s2c' = IF link.up /\ runs[finished + 1].conn = conn
            THEN Append(s2c, [kind |-> "done"]) ELSE s2c
  /\ UNCHANGED <<setting, link, conn, c2s, clientVars, staging, runs, refused>>

Next ==
  \/ \E u \in Sends : SendMessage(u) \/ ResumeUpload(u) \/ AckTimeout(u)
  \/ ReceiveAck \/ ReceiveStop
  \/ (\E again \in BOOLEAN : LinkLost(again)) \/ Connect \/ Disconnect \/ LinkUp
  \/ HandleStart \/ HandleAttachment \/ HandleMessage \/ FinishRun

(* Timers fire, jobs run, and a connection that stays up delivers.  Nobody *)
(* owes another connection, or another message.                            *)
Fairness ==
  /\ \A u \in Sends : WF_vars(ResumeUpload(u)) /\ WF_vars(AckTimeout(u))
  /\ WF_vars(ReceiveAck) /\ WF_vars(ReceiveStop)
  /\ WF_vars(HandleStart) /\ WF_vars(HandleAttachment) /\ WF_vars(HandleMessage)
  /\ WF_vars(FinishRun)

Safety == Init /\ [][Next]_vars
Spec   == Safety /\ Fairness
-----------------------------------------------------------------------------
(***************************************************************************)
(* Properties.                                                             *)
(***************************************************************************)
RunsInLog == {runs[i] : i \in DOMAIN runs}

(* A run gets the attachments of its own message, all of them and in their *)
(* order, or none: never a part, never those of another message, however   *)
(* sends overlap and connections break.                                    *)
OwnAttachmentsOrNone ==
  \A r \in RunsInLog : r.attachments \in {<<>>, All(r.send)}

(* The clients never send a message before its upload is complete at the   *)
(* server, so nobody sees "Attachment sequence incomplete".                *)
NeverIncomplete == refused = {}

(* A send that was reported as failed is not answered by a run after all:  *)
(* the user who sends it again does not get two.                           *)
FailedSendsNeverRun ==
  \A r \in RunsInLog : phase[r.send] \notin {"failed", "abandoned"}

(* A message with attachments reaches its run with them, provided the host *)
(* lets each upload end before the next send: waiting for isStreaming is   *)
(* not enough, as the end of any run makes it false.                       *)
MessagesKeepAttachments ==
  setting.waits = "upload" => \A r \in RunsInLog : r.attachments = All(r.send)

(* Every upload of the React hook ends: all acks arrive or the timer       *)
(* rejects it, whatever happens to the connection in the meantime.  (The   *)
(* Swift client empties its map on disconnect() and leaves the upload      *)
(* waiting for ever.)                                                      *)
UploadEnds ==
  ~setting.swift => \A u \in Sends : phase[u] = "uploading" ~> phase[u] # "uploading"
=============================================================================

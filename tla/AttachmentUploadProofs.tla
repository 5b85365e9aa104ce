----------------------- MODULE AttachmentUploadProofs -----------------------
(***************************************************************************)
(* Proofs about AttachmentUpload: for any number of sends, attachments and *)
(* connections, overlapping uploads, lost packets and timers that fire in  *)
(* between, a run gets the attachments of its own message or none.         *)
(***************************************************************************)
EXTENDS AttachmentUpload, SequenceTheorems, TLAPS

-----------------------------------------------------------------------------
(***************************************************************************)
(* Packets and sequences of them.                                          *)
(***************************************************************************)
Seqs(u)  == 0..(Size[u] - 1)
Claim(u) == IF Size[u] = 0 THEN NoSend ELSE u

Outgoing ==
  {StartPacket(u) : u \in Sends} \cup {MessagePacket(u, Claim(u)) : u \in Sends}
  \cup UNION {{AttachmentPacket(u, i) : i \in Seqs(u)} : u \in Sends}

Incoming ==
  {ErrorPacket, [kind |-> "done"]} \cup UNION {{AckPacket(u, i) : i \in Seqs(u)} : u \in Sends}

(* The three packets of a client. *)
LEMMA OutgoingKinds ==
  ASSUME NEW p \in Outgoing
  PROVE  \/ /\ p.kind = "start" /\ p.of \in Sends /\ p = StartPacket(p.of)
            /\ p.count = Size[p.of]
         \/ /\ p.kind = "attachment" /\ p.of \in Sends /\ p.seq \in Seqs(p.of)
            /\ p.body = <<p.of, p.seq>> /\ p = AttachmentPacket(p.of, p.seq)
         \/ p.kind = "message" /\ p.send \in Sends /\ p.of = Claim(p.send)
  BY DEF Outgoing, StartPacket, AttachmentPacket, MessagePacket

LEMMA IncomingKinds ==
  ASSUME NEW p \in Incoming
  PROVE  \/ /\ p.kind = "ack" /\ p.of \in Sends /\ p.seq \in Seqs(p.of)
            /\ p = AckPacket(p.of, p.seq)
         \/ p.kind \in {"error", "done"}
  BY DEF Incoming, AckPacket, ErrorPacket

LEMMA PacketsMade ==
  ASSUME NEW u \in Sends
  PROVE  /\ StartPacket(u) \in Outgoing /\ MessagePacket(u, Claim(u)) \in Outgoing
         /\ \A i \in Seqs(u) : AttachmentPacket(u, i) \in Outgoing /\ AckPacket(u, i) \in Incoming
         /\ ErrorPacket \in Incoming /\ [kind |-> "done"] \in Incoming
         /\ StartPacket(u).kind = "start" /\ StartPacket(u).of = u
         /\ \A c : /\ MessagePacket(u, c).kind = "message" /\ MessagePacket(u, c).send = u
                   /\ MessagePacket(u, c).of = c
         /\ \A i : /\ AttachmentPacket(u, i).kind = "attachment" /\ AttachmentPacket(u, i).of = u
                   /\ AttachmentPacket(u, i).seq = i
         /\ \A i : AckPacket(u, i).kind = "ack" /\ AckPacket(u, i).of = u /\ AckPacket(u, i).seq = i
         /\ ErrorPacket.kind = "error"
  BY DEF Outgoing, Incoming, StartPacket, AttachmentPacket, MessagePacket, AckPacket, ErrorPacket

(* Taking the first packet. *)
LEMMA TailOf ==
  ASSUME NEW S, NEW s \in Seq(S), s # <<>>
  PROVE  /\ Head(s) \in S /\ Head(s) = s[1] /\ Tail(s) \in Seq(S)
         /\ Len(s) \in Nat \ {0} /\ Len(Tail(s)) = Len(s) - 1
         /\ \A i \in 1..Len(Tail(s)) : /\ Tail(s)[i] = s[i + 1] /\ i + 1 \in 1..Len(s)
                                       /\ Tail(s)[i] \in S
  BY HeadTailProperties, EmptySeq, ElementOfSeq

(* Sending one. *)
LEMMA AppendOf ==
  ASSUME NEW S, NEW s \in Seq(S), NEW m \in S
  PROVE  /\ Append(s, m) \in Seq(S) /\ Len(Append(s, m)) = Len(s) + 1 /\ Len(s) \in Nat
         /\ \A i \in 1..Len(Append(s, m)) : 
              Append(s, m)[i] = IF i = Len(s) + 1 THEN m ELSE s[i]
         /\ \A i \in 1..Len(Append(s, m)) : i # Len(s) + 1 => i \in 1..Len(s)
  BY AppendProperties

(* Sending all packets of an upload. *)
LEMMA BurstOf ==
  ASSUME UploadAssumption, NEW u \in Sends, NEW s \in Seq(Outgoing)
  PROVE  /\ s \o Burst(u) \in Seq(Outgoing)
         /\ Len(s \o Burst(u)) = Len(s) + 1 + Size[u] /\ Len(s) \in Nat
         /\ \A i \in 1..Len(s) : (s \o Burst(u))[i] = s[i]
         /\ (s \o Burst(u))[Len(s) + 1] = StartPacket(u)
         /\ \A i \in (Len(s) + 2)..Len(s \o Burst(u)) :
              \E k \in Seqs(u) : (s \o Burst(u))[i] = AttachmentPacket(u, k)
<1> DEFINE start == <<StartPacket(u)>>
           rest == [i \in 1..Size[u] |-> AttachmentPacket(u, i - 1)]
<1>1. Size[u] \in Nat
  BY DEF UploadAssumption
<1>2. start \in Seq(Outgoing) /\ Len(start) = 1 /\ start[1] = StartPacket(u)
  BY PacketsMade
<1>3. \A i \in 1..Size[u] : i - 1 \in Seqs(u)
  BY <1>1 DEF Seqs
<1>4. rest \in [1..Size[u] -> Outgoing]
  BY <1>3, PacketsMade
<1>5. rest \in Seq(Outgoing)
  BY <1>1, <1>4, SeqDef
<1>6. Len(rest) = Size[u]
  BY <1>1, <1>5
<1>7. start \o rest \in Seq(Outgoing) /\ Len(start \o rest) = 1 + Size[u]
      /\ \A i \in 1..(1 + Size[u]) : (start \o rest)[i] = IF i <= 1 THEN start[i] ELSE rest[i - 1]
  <2> HIDE DEF start, rest
  <2>1. /\ start \o rest \in Seq(Outgoing) /\ Len(start \o rest) = Len(start) + Len(rest)
        /\ \A i \in 1..(Len(start) + Len(rest)) :
             (start \o rest)[i] = IF i <= Len(start) THEN start[i] ELSE rest[i - Len(start)]
    BY <1>2, <1>5, ConcatProperties
  <2> QED
    BY <1>2, <1>6, <2>1
<1>8. Burst(u) = start \o rest
  BY DEF Burst
<1> HIDE DEF start, rest
<1>9. /\ s \o Burst(u) \in Seq(Outgoing) /\ Len(s \o Burst(u)) = Len(s) + (1 + Size[u])
      /\ \A i \in 1..(Len(s) + (1 + Size[u])) :
           (s \o Burst(u))[i] = IF i <= Len(s) THEN s[i] ELSE (start \o rest)[i - Len(s)]
      /\ Len(s) \in Nat
  BY <1>7, <1>8, ConcatProperties, LenProperties
<1>10. ASSUME NEW i \in (Len(s) + 2)..Len(s \o Burst(u))
       PROVE  \E k \in Seqs(u) : (s \o Burst(u))[i] = AttachmentPacket(u, k)
  <2> DEFINE k == i - Len(s)
  <2>1. k \in 2..(1 + Size[u]) /\ k \in 1..(1 + Size[u]) /\ i \in 1..(Len(s) + (1 + Size[u]))
        /\ ~(i <= Len(s)) /\ ~(k <= 1)
    BY <1>1, <1>9
  <2>2. (s \o Burst(u))[i] = (start \o rest)[k]
    BY <1>9, <2>1
  <2> HIDE DEF k
  <2>3. (start \o rest)[k] = rest[k - 1]
    BY <1>7, <2>1
  <2>4. k - 1 \in 1..Size[u]
    BY <1>1, <2>1
  <2>5. rest[k - 1] = AttachmentPacket(u, k - 1 - 1) /\ k - 1 - 1 \in Seqs(u)
    BY <1>3, <2>4 DEF rest
  <2> QED
    BY <2>2, <2>3, <2>5
<1>11. (s \o Burst(u))[Len(s) + 1] = StartPacket(u)
  <2> DEFINE n == Len(s) + 1
  <2>1. n \in 1..(Len(s) + (1 + Size[u])) /\ ~(n <= Len(s)) /\ n - Len(s) = 1
        /\ 1 \in 1..(1 + Size[u])
    BY <1>1, <1>9
  <2> HIDE DEF n
  <2>2. (s \o Burst(u))[n] = (start \o rest)[1]
    BY <1>9, <2>1
  <2>3. (start \o rest)[1] = StartPacket(u)
    BY <1>2, <1>7, <2>1
  <2> QED
    BY <2>2, <2>3 DEF n
<1>12. \A i \in 1..Len(s) : i \in 1..(Len(s) + (1 + Size[u])) /\ i <= Len(s)
  BY <1>1, <1>9
<1>13. Len(s) + (1 + Size[u]) = Len(s) + 1 + Size[u]
  BY <1>1, <1>9
<1> QED
  BY <1>9, <1>10, <1>11, <1>12, <1>13

-----------------------------------------------------------------------------
(***************************************************************************)
(* The inductive invariant.  What is in flight is true when it is sent and *)
(* stays true until it arrives.                                            *)
(***************************************************************************)

(* If the session is still the one of u, attachment i is in it. *)
Arrived(u, i) == staging.of = u => i \in DOMAIN staging.staged

(* The server has not seen the upload of u yet. *)
Unanswered(u) ==
  /\ staging.of # u /\ unacked[u] = Seqs(u)
  /\ \A k \in 1..Len(s2c) : s2c[k].kind = "ack" => s2c[k].of # u

FromClient ==
  {p \in Outgoing : /\ p.kind \in {"start", "attachment"} => phase[p.of] # "idle"
                    /\ p.kind = "start" => Unanswered(p.of)
                    /\ p.kind = "message" => phase[p.send] = "sent"}

FromServer ==
  {p \in Incoming : p.kind = "ack" => phase[p.of] # "idle" /\ Arrived(p.of, p.seq)}

(* No upload is started twice. *)
StartedOnce ==
  \A i, j \in 1..Len(c2s) :
    c2s[i].kind = "start" /\ c2s[j].kind = "start" /\ c2s[i].of = c2s[j].of => i = j

(* A session holds what it should, if perhaps not yet all of it. *)
Session(u, D) == [of |-> u, count |-> Size[u], staged |-> [i \in D |-> <<u, i>>]]

Sessions == {NoStaging} \cup UNION {{Session(u, D) : D \in SUBSET Seqs(u)} : u \in Sends}

Logged ==
  {r \in [send : Sends, conn : 0..MaxConnections, attachments : {<<>>} \cup {All(u) : u \in Sends}] :
     phase[r.send] = "sent" /\ r.attachments \in {<<>>, All(r.send)}}

(* How far a send has come and what it waits for. *)
Progress(u) ==
  /\ phase[u] = "idle" => staging.of # u /\ unacked[u] = {}
  /\ phase[u] = "uploading" => Size[u] # 0 /\ unacked[u] # {}
  /\ phase[u] = "acked" => Size[u] # 0 /\ unacked[u] = {}
  /\ phase[u] = "sent" => unacked[u] = {}

(* What was acknowledged is staged, unless the session is over. *)
Received(u) == phase[u] # "idle" => \A i \in Seqs(u) \ unacked[u] : Arrived(u, i)

UploadInv ==
  /\ TypeOK
  /\ c2s \in Seq(FromClient) /\ s2c \in Seq(FromServer) /\ runs \in Seq(Logged)
  /\ StartedOnce
  /\ staging \in Sessions /\ refused = {}
  /\ \A u \in entries : phase[u] = "uploading"
  /\ \A u \in Sends : Progress(u) /\ Received(u)
  /\ ~link.up => c2s = <<>> /\ s2c = <<>>

(* A sequence of S whose elements are all in T is a sequence of T. *)
LEMMA SeqOfAll ==
  ASSUME NEW S, NEW T, NEW s \in Seq(S), \A i \in 1..Len(s) : s[i] \in T
  PROVE  s \in Seq(T)
  OBVIOUS

LEMMA SessionFacts ==
  ASSUME NEW g \in Sessions, UploadAssumption
  PROVE  /\ g.of \in Sends \cup {NoSend} /\ g.count \in Nat
         /\ DOMAIN g.staged \subseteq 0..(g.count - 1)
         /\ g.of # NoSend => /\ g.count = Size[g.of] /\ DOMAIN g.staged \subseteq Seqs(g.of)
                             /\ \A i \in DOMAIN g.staged : g.staged[i] = <<g.of, i>>
                             /\ g = Session(g.of, DOMAIN g.staged)
         /\ g.of = NoSend => g = NoStaging
<1>1. CASE g = NoStaging
  BY <1>1 DEF NoStaging
<1>2. ASSUME NEW u \in Sends, NEW D \in SUBSET Seqs(u), g = Session(u, D)
      PROVE  /\ g.of = u /\ g.count = Size[u] /\ DOMAIN g.staged = D
             /\ \A i \in D : g.staged[i] = <<u, i>>
  BY <1>2 DEF Session
<1>3. ASSUME NEW u \in Sends, NEW D \in SUBSET Seqs(u), g = Session(u, D)
      PROVE  /\ g.of \in Sends /\ g.of # NoSend /\ g.count \in Nat
             /\ DOMAIN g.staged \subseteq 0..(g.count - 1)
             /\ g.count = Size[g.of] /\ DOMAIN g.staged \subseteq Seqs(g.of)
             /\ \A i \in DOMAIN g.staged : g.staged[i] = <<g.of, i>>
             /\ g = Session(g.of, DOMAIN g.staged)
  BY <1>2, <1>3 DEF Seqs, UploadAssumption
<1> QED
  BY <1>1, <1>3 DEF Sessions, NoStaging

PhasesAdvance ==
  \A u \in Sends : /\ phase[u] # "idle" => phase'[u] # "idle"
                   /\ phase[u] = "sent" => phase'[u] = "sent"

(* What is in flight stays honest. *)
LEMMA StaysHonest ==
  ASSUME NEW p \in FromClient, PhasesAdvance, p.kind = "start" => Unanswered(p.of)'
  PROVE  p \in FromClient'
  BY OutgoingKinds DEF FromClient, PhasesAdvance

LEMMA StaysTrue ==
  ASSUME UploadInv, PhasesAdvance, UNCHANGED staging
  PROVE  s2c \in Seq(FromServer')
<1>1. \A i \in 1..Len(s2c) : s2c[i] \in FromServer
  BY ElementOfSeq DEF UploadInv
<1>2. FromServer \subseteq FromServer'
  BY IncomingKinds DEF FromServer, Arrived, PhasesAdvance
<1> QED
  BY <1>1, <1>2, SeqOfAll DEF UploadInv

LEMMA StaysLogged ==
  ASSUME UploadInv, PhasesAdvance
  PROVE  runs \in Seq(Logged')
<1>1. \A i \in 1..Len(runs) : runs[i] \in Logged
  BY ElementOfSeq DEF UploadInv
<1>2. Logged \subseteq Logged'
  BY DEF Logged, PhasesAdvance
<1> QED
  BY <1>1, <1>2, SeqOfAll DEF UploadInv

LEMMA PacketFacts ==
  ASSUME UploadInv
  PROVE  /\ c2s \in Seq(Outgoing) /\ s2c \in Seq(Incoming)
         /\ \A i \in 1..Len(c2s) : c2s[i] \in FromClient /\ c2s[i] \in Outgoing
         /\ \A i \in 1..Len(s2c) : s2c[i] \in FromServer /\ s2c[i] \in Incoming
<1>1. \A i \in 1..Len(c2s) : c2s[i] \in FromClient
  BY ElementOfSeq DEF UploadInv
<1>2. \A i \in 1..Len(s2c) : s2c[i] \in FromServer
  BY ElementOfSeq DEF UploadInv
<1>3. FromClient \subseteq Outgoing /\ FromServer \subseteq Incoming
  BY DEF FromClient, FromServer
<1> QED
  BY <1>1, <1>2, <1>3, SeqOfAll DEF UploadInv

LEMMA UploadInit == UploadAssumption /\ Init => UploadInv
<1> SUFFICES ASSUME UploadAssumption, Init PROVE UploadInv
  OBVIOUS
<1>1. TypeOK
  <2>1. streaming \in BOOLEAN /\ setting \in Settings
    BY DEF Init
  <2>2. link \in [up : BOOLEAN, wanted : BOOLEAN, object : 0..MaxConnections]
    BY DEF Init, UploadAssumption
  <2>3. staging \in Sessions
    BY DEF Init, Sessions
  <2>4. conn \in 0..MaxConnections /\ finished \in 0..Len(runs)
    BY DEF Init, UploadAssumption
  <2>5. /\ phase \in [Sends -> Phases] /\ unacked \in [Sends -> SUBSET Nat]
        /\ socketOf \in [Sends -> 0..MaxConnections] /\ entries = {} /\ refused = {}
    BY DEF Init, UploadAssumption, Phases
  <2> QED
    BY <2>1, <2>2, <2>3, <2>4, <2>5, SessionFacts DEF TypeOK
<1>2. /\ c2s \in Seq(FromClient) /\ s2c \in Seq(FromServer) /\ runs \in Seq(Logged)
      /\ Len(c2s) = 0 /\ Len(s2c) = 0 /\ Len(runs) = 0
  BY DEF Init
<1>3. staging \in Sessions /\ refused = {}
  BY DEF Init, Sessions
<1>4. \A u \in Sends : Progress(u) /\ Received(u)
  BY DEF Init, Progress, Received, NoStaging, UploadAssumption
<1> QED
  BY <1>1, <1>2, <1>3, <1>4 DEF Init, UploadInv, StartedOnce

-----------------------------------------------------------------------------
(***************************************************************************)
(* The client's steps leave the server alone.                              *)
(***************************************************************************)
LEMMA SendStep ==
  ASSUME UploadAssumption, UploadInv, NEW u \in Sends, SendMessage(u)
  PROVE  UploadInv'
<1>1. /\ phase[u] = "idle" /\ link.up /\ phase \in [Sends -> Phases]
      /\ unacked \in [Sends -> SUBSET Nat] /\ Size[u] \in Nat /\ entries \subseteq Sends
      /\ UNCHANGED <<setting, link, conn, s2c, staging, runs, finished, refused>>
      /\ staging.of # u
  BY DEF SendMessage, serverVars, UploadInv, TypeOK, UploadAssumption, Progress
<1>2. /\ phase' = [phase EXCEPT ![u] = IF Size[u] = 0 THEN "sent" ELSE "uploading"]
      /\ unacked' = [unacked EXCEPT ![u] = IF Size[u] = 0 THEN unacked[u] ELSE Seqs(u)]
      /\ entries' = IF Size[u] = 0 THEN entries ELSE entries \cup {u}
  BY <1>1 DEF SendMessage, Seqs
<1>3. PhasesAdvance /\ phase'[u] # "idle" /\ \A v \in Sends : v # u => phase'[v] = phase[v]
  BY <1>1, <1>2 DEF PhasesAdvance
<1>4. TypeOK'
  <2>1. streaming' \in BOOLEAN
    BY DEF SendMessage
  <2>2. socketOf' \in [Sends -> 0..MaxConnections]
    BY DEF SendMessage, UploadInv, TypeOK
  <2>3. phase' \in [Sends -> Phases] /\ unacked' \in [Sends -> SUBSET Nat] /\ entries' \subseteq Sends
    BY <1>1, <1>2 DEF Phases, Seqs
  <2> QED
    BY <1>1, <2>1, <2>2, <2>3 DEF UploadInv, TypeOK
<1>5. \A k \in 1..Len(s2c) : s2c[k].kind = "ack" => s2c[k].of # u
  BY <1>1, PacketFacts DEF FromServer
<1>6. \A i \in 1..Len(c2s) : c2s[i].kind = "start" => c2s[i].of # u
  BY <1>1, PacketFacts DEF FromClient
<1>7. c2s \in Seq(FromClient')
  <2>1. \A v \in Sends : v # u /\ Unanswered(v) => Unanswered(v)'
    BY <1>1, <1>2 DEF Unanswered
  <2>2. ASSUME NEW p \in FromClient, p.kind = "start" => p.of # u PROVE p \in FromClient'
    <3>1. p.kind = "start" => Unanswered(p.of)'
      BY <2>1, <2>2, OutgoingKinds DEF FromClient
    <3> QED
      BY <1>3, <3>1, StaysHonest
  <2> QED
    BY <1>6, <2>2, PacketFacts, SeqOfAll
<1>8. c2s' \in Seq(FromClient') /\ StartedOnce'
  <2>1. CASE Size[u] = 0
    <3> DEFINE m == MessagePacket(u, NoSend)
    <3>1. c2s' = Append(c2s, m) /\ m \in Outgoing /\ m.kind = "message" /\ m.send = u
      BY <1>1, <2>1, PacketsMade DEF SendMessage, Claim
    <3> HIDE DEF m
    <3>2. m \in FromClient'
      BY <1>1, <1>2, <2>1, <3>1 DEF FromClient
    <3>3. StartedOnce'
      BY <3>1, PacketFacts, AppendOf DEF UploadInv, StartedOnce
    <3> QED
      BY <1>7, <3>1, <3>2, <3>3, AppendOf
  <2>2. CASE Size[u] # 0
    <3>1. c2s' = c2s \o Burst(u)
      BY <1>1, <2>2 DEF SendMessage
    <3>2. /\ c2s' \in Seq(Outgoing) /\ Len(c2s') = Len(c2s) + 1 + Size[u] /\ Len(c2s) \in Nat
          /\ \A i \in 1..Len(c2s) : c2s'[i] = c2s[i]
          /\ c2s'[Len(c2s) + 1] = StartPacket(u)
          /\ \A i \in (Len(c2s) + 2)..Len(c2s') : \E k \in Seqs(u) : c2s'[i] = AttachmentPacket(u, k)
      <4>1. c2s \in Seq(Outgoing)
        BY PacketFacts
      <4> DEFINE t == c2s \o Burst(u)
      <4>2. /\ t \in Seq(Outgoing) /\ Len(t) = Len(c2s) + 1 + Size[u] /\ Len(c2s) \in Nat
            /\ \A i \in 1..Len(c2s) : t[i] = c2s[i]
            /\ t[Len(c2s) + 1] = StartPacket(u)
            /\ \A i \in (Len(c2s) + 2)..Len(t) : \E k \in Seqs(u) : t[i] = AttachmentPacket(u, k)
        BY <4>1, BurstOf
      <4> HIDE DEF t
      <4>3. c2s' = t
        BY <3>1 DEF t
      <4> QED
        BY <4>2, <4>3
    <3>3. ASSUME NEW i \in 1..Len(c2s')
          PROVE  \/ i \in 1..Len(c2s) /\ c2s'[i] = c2s[i]
                 \/ i = Len(c2s) + 1 /\ c2s'[i] = StartPacket(u)
                 \/ c2s'[i] \in Outgoing /\ c2s'[i].kind = "attachment" /\ c2s'[i].of = u
      <4>1. i \in 1..Len(c2s) \/ i = Len(c2s) + 1 \/ i \in (Len(c2s) + 2)..Len(c2s')
        BY <1>1, <3>2
      <4> QED
        BY <3>2, <4>1, PacketsMade
    <3>4. StartedOnce'
      <4> SUFFICES ASSUME NEW i \in 1..Len(c2s'), NEW j \in 1..Len(c2s'),
                          c2s'[i].kind = "start", c2s'[j].kind = "start", c2s'[i].of = c2s'[j].of
                   PROVE  i = j
        BY DEF StartedOnce
      <4>1. i \in 1..Len(c2s) \/ i = Len(c2s) + 1
        BY <3>3
      <4>2. j \in 1..Len(c2s) \/ j = Len(c2s) + 1
        BY <3>3
      <4>3. c2s'[Len(c2s) + 1].of = u /\ Len(c2s) + 1 \notin 1..Len(c2s)
        BY <3>2, PacketsMade
      <4>4. StartedOnce
        BY DEF UploadInv
      <4> QED
        BY <1>6, <3>2, <4>1, <4>2, <4>3, <4>4 DEF StartedOnce
    <3>5. StartPacket(u) \in FromClient'
      <4>1. Unanswered(u)'
        BY <1>1, <1>2, <1>5, <2>2 DEF Unanswered, UploadInv, Progress
      <4> QED
        BY <1>3, <4>1, PacketsMade DEF FromClient
    <3>6. \A p \in Outgoing : p.kind = "attachment" /\ p.of = u => p \in FromClient'
      BY <1>3 DEF FromClient
    <3>7. \A i \in 1..Len(c2s) : c2s[i] \in FromClient'
      BY <1>7, ElementOfSeq
    <3>8. ASSUME NEW i \in 1..Len(c2s') PROVE c2s'[i] \in FromClient'
      BY <3>3, <3>5, <3>6, <3>7
    <3> QED
      BY <3>2, <3>4, <3>8, SeqOfAll
  <2> QED
    BY <2>1, <2>2
<1>9. s2c' \in Seq(FromServer')
  BY <1>1, <1>3, StaysTrue
<1>10. \A v \in Sends : Progress(v)' /\ Received(v)'
  <2>0. Size[u] # 0 => 0 \in Seqs(u)
    BY <1>1 DEF Seqs
  <2>1. Progress(u)'
    BY <1>1, <1>2, <2>0 DEF Progress, UploadInv
  <2>2. Received(u)'
    BY <1>1 DEF Received, Arrived
  <2>3. ASSUME NEW v \in Sends, v # u PROVE Progress(v)' /\ Received(v)'
    BY <1>1, <1>2, <2>3 DEF Progress, Received, Arrived, UploadInv
  <2> QED
    BY <2>1, <2>2, <2>3
<1>11. \A v \in entries' : phase'[v] = "uploading"
  BY <1>1, <1>2, <1>3 DEF UploadInv
<1>12. runs' \in Seq(Logged')
  BY <1>1, <1>3, StaysLogged
<1> QED
  BY <1>1, <1>4, <1>8, <1>9, <1>10, <1>11, <1>12 DEF UploadInv

(* What is in flight to the server when only the client's side has moved. *)
LEMMA ClientKept ==
  ASSUME UploadInv, PhasesAdvance, UNCHANGED staging,
         \A v \in Sends : Unanswered(v) => unacked'[v] = unacked[v],
         \A v \in Sends : Unanswered(v) => (\A k \in 1..Len(s2c) : s2c[k].kind = "ack" => s2c[k].of # v)'
  PROVE  c2s \in Seq(FromClient')
<1>1. \A v \in Sends : Unanswered(v) => Unanswered(v)'
  BY DEF Unanswered
<1>2. ASSUME NEW p \in FromClient PROVE p \in FromClient'
  <2>1. p.kind = "start" => Unanswered(p.of)'
    BY <1>1, OutgoingKinds DEF FromClient
  <2> QED
    BY <2>1, StaysHonest
<1> QED
  BY <1>2, PacketFacts, SeqOfAll

(* Receiving: the packets behind the first one are those that were there.  *)
LEMMA AckTaken ==
  ASSUME UploadInv, s2c # <<>>, s2c' = Tail(s2c)
  PROVE  /\ Head(s2c) \in FromServer /\ Head(s2c) \in Incoming /\ link.up /\ Head(s2c) = s2c[1]
         /\ Len(s2c) \in Nat \ {0}
         /\ \A k \in 1..Len(s2c') : s2c'[k] = s2c[k + 1] /\ k + 1 \in 1..Len(s2c)
         /\ \A v \in Sends : Unanswered(v) => (\A k \in 1..Len(s2c) : s2c[k].kind = "ack" => s2c[k].of # v)'
<1>1. s2c \in Seq(FromServer)
  BY DEF UploadInv
<1>2. /\ Head(s2c) \in FromServer /\ Head(s2c) = s2c[1] /\ Len(s2c) \in Nat \ {0}
      /\ \A k \in 1..Len(s2c') : s2c'[k] = s2c[k + 1] /\ k + 1 \in 1..Len(s2c)
  BY <1>1, TailOf
<1>3. Head(s2c) \in Incoming /\ link.up
  BY <1>2 DEF FromServer, UploadInv
<1>4. ASSUME NEW v \in Sends, Unanswered(v), NEW k \in 1..Len(s2c'), s2c'[k].kind = "ack"
      PROVE  s2c'[k].of # v
  BY <1>2, <1>4 DEF Unanswered
<1> QED
  BY <1>2, <1>3, <1>4

LEMMA AckStep ==
  ASSUME UploadAssumption, UploadInv, ReceiveAck
  PROVE  UploadInv'
<1> DEFINE m == Head(s2c)
           rest == unacked[m.of] \ {m.seq}
<1>1. /\ s2c # <<>> /\ s2c' = Tail(s2c) /\ m.kind = "ack"
      /\ UNCHANGED <<setting, link, conn, socketOf, streaming, staging, runs, finished, refused>>
  BY DEF ReceiveAck, serverVars
<1>2. /\ m.of \in Sends /\ m.seq \in Seqs(m.of) /\ m \in FromServer /\ Arrived(m.of, m.seq)
      /\ phase \in [Sends -> Phases] /\ unacked \in [Sends -> SUBSET Nat] /\ entries \subseteq Sends
      /\ \A v \in entries : phase[v] = "uploading"
  <2>1. m \in FromServer /\ m \in Incoming
    BY <1>1, AckTaken
  <2>2. m.of \in Sends /\ m.seq \in Seqs(m.of)
    BY <1>1, <2>1, IncomingKinds
  <2>3. Arrived(m.of, m.seq)
    BY <1>1, <2>1 DEF FromServer
  <2> QED
    BY <2>1, <2>2, <2>3 DEF UploadInv, TypeOK
<1>3. \A v \in Sends : Unanswered(v) => v # m.of
  BY <1>1, <1>2, AckTaken DEF Unanswered
<1>4. CASE m.of \notin entries
  <2>1. UNCHANGED <<unacked, entries, phase, c2s>>
    BY <1>4 DEF ReceiveAck
  <2>2. PhasesAdvance
    BY <2>1 DEF PhasesAdvance
  <2>3. c2s' \in Seq(FromClient')
    BY <1>1, <2>1, <2>2, AckTaken, ClientKept
  <2>4. s2c' \in Seq(FromServer') /\ runs' \in Seq(Logged')
    BY <1>1, <2>2, StaysTrue, StaysLogged, TailOf
  <2>5. TypeOK' /\ StartedOnce'
    BY <1>1, <2>1 DEF UploadInv, TypeOK, StartedOnce
  <2>6. \A v \in Sends : Progress(v)' /\ Received(v)'
    BY <1>1, <2>1 DEF UploadInv, Progress, Received, Arrived
  <2> QED
    BY <1>1, <2>1, <2>3, <2>4, <2>5, <2>6, AckTaken DEF UploadInv
<1>5. CASE m.of \in entries
  <2>0. PICK u \in Sends : u = m.of
    BY <1>2
  <2>1. /\ unacked' = [unacked EXCEPT ![u] = rest]
        /\ rest # {} => UNCHANGED <<entries, phase, c2s>>
        /\ rest = {} => /\ entries' = entries \ {u}
                        /\ phase' = [phase EXCEPT ![u] = IF setting.swift THEN "acked" ELSE "sent"]
                        /\ c2s' = IF setting.swift THEN c2s ELSE Append(c2s, MessagePacket(u, u))
    BY <1>5, <2>0 DEF ReceiveAck, AllAcked
  <2> HIDE DEF rest
  <2>2. /\ phase[u] = "uploading" /\ Size[u] # 0 /\ unacked[u] # {} 
        /\ \A v \in Sends : Progress(v) /\ Received(v)
    BY <1>2, <1>5, <2>0 DEF UploadInv, Progress
  <2>3. PhasesAdvance
    BY <1>2, <2>1, <2>2 DEF PhasesAdvance
  <2>4. c2s \in Seq(FromClient')
    <3>1. \A v \in Sends : Unanswered(v) => unacked'[v] = unacked[v]
      BY <1>2, <1>3, <2>0, <2>1
    <3> QED
      BY <1>1, <2>3, <3>1, AckTaken, ClientKept
  <2>5. s2c' \in Seq(FromServer') /\ runs' \in Seq(Logged')
    BY <1>1, <2>3, StaysTrue, StaysLogged, TailOf
  <2>6. c2s' \in Seq(FromClient') /\ StartedOnce'
    <3>1. CASE c2s' = c2s
      BY <2>4, <3>1 DEF UploadInv, StartedOnce
    <3>2. CASE rest = {} /\ ~setting.swift
      <4> DEFINE p == MessagePacket(u, u)
      <4>1. c2s' = Append(c2s, p) /\ p \in Outgoing /\ p.kind = "message" /\ p.send = u
        BY <1>2, <2>1, <2>2, <3>2, PacketsMade DEF Claim
      <4>2. phase'[u] = "sent"
        BY <1>2, <2>1, <3>2
      <4>3. p \in FromClient'
        BY <4>1, <4>2 DEF FromClient
      <4> HIDE DEF p
      <4>4. StartedOnce'
        BY <4>1, PacketFacts, AppendOf DEF UploadInv, StartedOnce
      <4> QED
        BY <2>4, <4>1, <4>3, <4>4, AppendOf
    <3> QED
      BY <2>1, <3>1, <3>2
  <2>7. \A v \in Sends : Progress(v)' /\ Received(v)'
    <3>1. ASSUME NEW v \in Sends, v # u PROVE Progress(v)' /\ Received(v)'
      <4>1. phase'[v] = phase[v] /\ unacked'[v] = unacked[v]
        BY <1>2, <2>1, <3>1
      <4> QED
        BY <1>1, <2>2, <4>1 DEF Progress, Received, Arrived
    <3>2. unacked'[u] = rest
      BY <1>2, <2>1
    <3>3. Progress(u)'
      BY <1>1, <1>2, <2>1, <2>2, <3>2 DEF Progress
    <3>4. Received(u)'
      BY <1>1, <1>2, <2>0, <2>2, <3>2 DEF Received, Arrived, rest
    <3> QED
      BY <3>1, <3>3, <3>4
  <2>8. TypeOK'
    <3>1. phase' \in [Sends -> Phases] /\ unacked' \in [Sends -> SUBSET Nat] /\ entries' \subseteq Sends
      BY <1>2, <2>1 DEF Phases, rest
    <3> QED
      BY <1>1, <3>1 DEF UploadInv, TypeOK
  <2>9. \A v \in entries' : phase'[v] = "uploading"
    BY <1>2, <2>1
  <2> QED
    BY <1>1, <2>5, <2>6, <2>7, <2>8, <2>9, AckTaken DEF UploadInv
<1> QED
  BY <1>4, <1>5

LEMMA ResumeStep ==
  ASSUME UploadAssumption, UploadInv, NEW u \in Sends, ResumeUpload(u)
  PROVE  UploadInv'
<1>1. /\ phase[u] = "acked" /\ phase \in [Sends -> Phases] /\ Size[u] # 0 /\ unacked[u] = {}
      /\ UNCHANGED <<setting, link, conn, s2c, unacked, entries, socketOf, streaming,
                     staging, runs, finished, refused>>
      /\ \A v \in Sends : Progress(v) /\ Received(v)
      /\ \A v \in entries : v \in Sends /\ phase[v] = "uploading"
  BY DEF ResumeUpload, serverVars, UploadInv, TypeOK, Progress
<1>2. phase' = [phase EXCEPT ![u] = IF socketOf[u] = link.object THEN "sent" ELSE "abandoned"]
  BY DEF ResumeUpload
<1>3. PhasesAdvance /\ \A v \in Sends : v # u => phase'[v] = phase[v]
  BY <1>1, <1>2 DEF PhasesAdvance
<1>4. c2s \in Seq(FromClient')
  <2>1. \A v \in Sends : Unanswered(v) =>
          (\A k \in 1..Len(s2c) : s2c[k].kind = "ack" => s2c[k].of # v)'
    BY <1>1 DEF Unanswered
  <2> QED
    BY <1>1, <1>3, <2>1, ClientKept
<1>5. s2c' \in Seq(FromServer') /\ runs' \in Seq(Logged')
  BY <1>1, <1>3, StaysTrue, StaysLogged
<1>6. /\ c2s' \in Seq(FromClient') /\ StartedOnce' /\ (~link.up => c2s' = c2s)
  <2>1. CASE socketOf[u] = link.object /\ link.up
    <3> DEFINE p == MessagePacket(u, u)
    <3>1. c2s' = Append(c2s, p) /\ p \in Outgoing /\ p.kind = "message" /\ p.send = u
      BY <1>1, <2>1, PacketsMade DEF Claim, ResumeUpload
    <3>2. phase'[u] = "sent"
      BY <1>1, <1>2, <2>1
    <3>3. p \in FromClient'
      BY <3>1, <3>2 DEF FromClient
    <3> HIDE DEF p
    <3>4. StartedOnce'
      BY <3>1, PacketFacts, AppendOf DEF UploadInv, StartedOnce
    <3> QED
      BY <1>4, <2>1, <3>1, <3>3, <3>4, AppendOf
  <2>2. CASE ~(socketOf[u] = link.object /\ link.up)
    <3>1. c2s' = c2s
      BY <2>2 DEF ResumeUpload
    <3> QED
      BY <1>4, <3>1 DEF UploadInv, StartedOnce
  <2> QED
    BY <2>1, <2>2
<1>7. \A v \in Sends : Progress(v)' /\ Received(v)'
  BY <1>1, <1>2, <1>3 DEF Progress, Received, Arrived
<1>8. TypeOK'
  <2>1. phase' \in [Sends -> Phases]
    BY <1>1, <1>2 DEF Phases
  <2> QED
    BY <1>1, <2>1 DEF UploadInv, TypeOK
<1>9. \A v \in entries' : phase'[v] = "uploading"
  BY <1>1, <1>3
<1> QED
  BY <1>1, <1>5, <1>6, <1>7, <1>8, <1>9 DEF UploadInv

LEMMA TimeoutStep ==
  ASSUME UploadAssumption, UploadInv, NEW u \in Sends, AckTimeout(u)
  PROVE  UploadInv'
<1>1. /\ phase[u] = "uploading" /\ phase \in [Sends -> Phases] /\ entries \subseteq Sends
      /\ phase' = [phase EXCEPT ![u] = "failed"] /\ entries' = entries \ {u} /\ streaming' = FALSE
      /\ UNCHANGED <<setting, link, conn, c2s, s2c, unacked, socketOf, staging, runs, finished, refused>>
      /\ \A v \in Sends : Progress(v) /\ Received(v)
  BY DEF AckTimeout, serverVars, UploadInv, TypeOK
<1>2. PhasesAdvance /\ \A v \in Sends : v # u => phase'[v] = phase[v]
  BY <1>1 DEF PhasesAdvance
<1>3. c2s' \in Seq(FromClient')
  <2>1. \A v \in Sends : Unanswered(v) =>
          (\A k \in 1..Len(s2c) : s2c[k].kind = "ack" => s2c[k].of # v)'
    BY <1>1 DEF Unanswered
  <2> QED
    BY <1>1, <1>2, <2>1, ClientKept
<1>4. s2c' \in Seq(FromServer') /\ runs' \in Seq(Logged')
  BY <1>1, <1>2, StaysTrue, StaysLogged
<1>5. \A v \in Sends : Progress(v)' /\ Received(v)'
  BY <1>1, <1>2 DEF Progress, Received, Arrived
<1>6. TypeOK' /\ StartedOnce'
  <2>1. phase' \in [Sends -> Phases] /\ streaming' \in BOOLEAN
    BY <1>1 DEF Phases
  <2> QED
    BY <1>1, <2>1 DEF UploadInv, TypeOK, StartedOnce
<1>7. \A v \in entries' : phase'[v] = "uploading"
  BY <1>1, <1>2 DEF UploadInv
<1> QED
  BY <1>1, <1>3, <1>4, <1>5, <1>6, <1>7 DEF UploadInv

LEMMA StopStep ==
  ASSUME UploadInv, ReceiveStop
  PROVE  UploadInv'
<1>1. /\ s2c # <<>> /\ s2c' = Tail(s2c) /\ streaming' = FALSE
      /\ UNCHANGED <<setting, link, conn, c2s, phase, unacked, entries, socketOf,
                     staging, runs, finished, refused>>
  BY DEF ReceiveStop, serverVars
<1>2. PhasesAdvance
  BY <1>1 DEF PhasesAdvance
<1>3. c2s' \in Seq(FromClient')
  BY <1>1, <1>2, AckTaken, ClientKept
<1>4. s2c' \in Seq(FromServer') /\ runs' \in Seq(Logged')
  BY <1>1, <1>2, StaysTrue, StaysLogged, TailOf
<1>5. TypeOK' /\ StartedOnce'
  <2>1. streaming' \in BOOLEAN
    BY <1>1
  <2> QED
    BY <1>1, <2>1 DEF UploadInv, TypeOK, StartedOnce
<1>6. \A v \in Sends : Progress(v)' /\ Received(v)'
  BY <1>1 DEF UploadInv, Progress, Received, Arrived
<1> QED
  BY <1>1, <1>3, <1>4, <1>5, <1>6, AckTaken DEF UploadInv

-----------------------------------------------------------------------------
(***************************************************************************)
(* The connection takes with it what is in flight, and nothing else.       *)
(***************************************************************************)
LEMMA BreakStep ==
  ASSUME UploadInv, NEW l \in [up : BOOLEAN, wanted : BOOLEAN, object : 0..MaxConnections],
         Break(l), streaming' \in BOOLEAN, entries' \subseteq entries
  PROVE  UploadInv'
<1>1. /\ link' = l /\ c2s' = <<>> /\ s2c' = <<>>
      /\ UNCHANGED <<setting, conn, phase, unacked, socketOf, staging, runs, finished, refused>>
  BY DEF Break, serverVars
<1>2. /\ c2s' \in Seq(FromClient') /\ s2c' \in Seq(FromServer') /\ StartedOnce'
  BY <1>1 DEF StartedOnce
<1>3. runs' \in Seq(Logged')
  BY <1>1 DEF UploadInv, Logged
<1>4. TypeOK'
  BY <1>1 DEF UploadInv, TypeOK
<1>5. \A v \in Sends : Progress(v)' /\ Received(v)'
  BY <1>1 DEF UploadInv, Progress, Received, Arrived
<1> QED
  BY <1>1, <1>2, <1>3, <1>4, <1>5 DEF UploadInv

LEMMA LinkStep ==
  ASSUME UploadAssumption, UploadInv,
         \/ \E again \in BOOLEAN : LinkLost(again)
         \/ Connect \/ Disconnect
  PROVE  UploadInv'
<1>1. /\ link \in [up : BOOLEAN, wanted : BOOLEAN, object : 0..MaxConnections]
      /\ streaming \in BOOLEAN
  BY DEF UploadInv, TypeOK
<1>2. ASSUME NEW again \in BOOLEAN, LinkLost(again) PROVE UploadInv'
  <2>1. [link EXCEPT !.up = FALSE, !.wanted = again] \in
          [up : BOOLEAN, wanted : BOOLEAN, object : 0..MaxConnections]
    BY <1>1
  <2>2. streaming' \in BOOLEAN
    BY <1>2 DEF LinkLost
  <2> QED
    BY <1>2, <2>1, <2>2, BreakStep DEF LinkLost
<1>3. CASE Connect
  <2>1. [up |-> FALSE, wanted |-> TRUE, object |-> link.object + 1] \in
          [up : BOOLEAN, wanted : BOOLEAN, object : 0..MaxConnections]
    BY <1>1, <1>3 DEF Connect, UploadAssumption
  <2>2. streaming' \in BOOLEAN
    BY <1>1, <1>3 DEF Connect
  <2> QED
    BY <1>3, <2>1, <2>2, BreakStep DEF Connect
<1>4. CASE Disconnect
  <2>1. [up |-> FALSE, wanted |-> FALSE, object |-> link.object + 1] \in
          [up : BOOLEAN, wanted : BOOLEAN, object : 0..MaxConnections]
    BY <1>1, <1>4 DEF Disconnect, UploadAssumption
  <2>2. streaming' \in BOOLEAN
    BY <1>4 DEF Disconnect
  <2> QED
    BY <1>4, <2>1, <2>2, BreakStep DEF Disconnect
<1> QED
  BY <1>2, <1>3, <1>4

LEMMA LinkUpStep ==
  ASSUME UploadAssumption, UploadInv, LinkUp
  PROVE  UploadInv'
<1>1. /\ ~link.up /\ conn < MaxConnections /\ conn \in 0..MaxConnections
      /\ link' = [link EXCEPT !.up = TRUE] /\ conn' = conn + 1 /\ staging' = NoStaging
      /\ UNCHANGED <<setting, c2s, s2c, phase, unacked, entries, socketOf, streaming,
                     runs, finished, refused>>
  BY DEF LinkUp, clientVars, UploadInv, TypeOK
<1>2. c2s' = <<>> /\ s2c' = <<>>
  BY <1>1 DEF UploadInv
<1>3. /\ c2s' \in Seq(FromClient') /\ s2c' \in Seq(FromServer') /\ StartedOnce'
  BY <1>2 DEF StartedOnce
<1>4. runs' \in Seq(Logged')
  BY <1>1 DEF UploadInv, Logged
<1>5. staging' \in Sessions
  BY <1>1 DEF Sessions
<1>6. TypeOK'
  <2>1. link' \in [up : BOOLEAN, wanted : BOOLEAN, object : 0..MaxConnections]
    BY <1>1 DEF UploadInv, TypeOK
  <2>2. conn' \in 0..MaxConnections
    BY <1>1 DEF UploadAssumption
  <2> QED
    BY <1>1, <1>5, <2>1, <2>2, SessionFacts DEF UploadInv, TypeOK
<1>7. \A v \in Sends : Progress(v)' /\ Received(v)'
  BY <1>1 DEF UploadInv, Progress, Received, Arrived, NoStaging, UploadAssumption
<1> QED
  BY <1>1, <1>2, <1>3, <1>4, <1>5, <1>6, <1>7 DEF UploadInv

-----------------------------------------------------------------------------
(***************************************************************************)
(* The server's steps leave the client alone.                              *)
(***************************************************************************)
LEMMA Taken ==
  ASSUME UploadInv, c2s # <<>>, c2s' = Tail(c2s)
  PROVE  /\ Head(c2s) \in FromClient /\ Head(c2s) \in Outgoing /\ link.up
         /\ StartedOnce' /\ c2s' \in Seq(FromClient)
         /\ \A k \in 1..Len(c2s') : c2s'[k].kind = "start" /\ Head(c2s).kind = "start"
                                      => c2s'[k].of # Head(c2s).of
<1>1. c2s \in Seq(FromClient)
  BY DEF UploadInv
<1>2. /\ Head(c2s) \in FromClient /\ Head(c2s) = c2s[1] /\ Len(c2s) \in Nat \ {0}
      /\ c2s' \in Seq(FromClient)
      /\ \A k \in 1..Len(c2s') : c2s'[k] = c2s[k + 1] /\ k + 1 \in 1..Len(c2s)
      /\ Len(c2s') = Len(c2s) - 1
  BY <1>1, TailOf
<1>3. Head(c2s) \in Outgoing /\ link.up
  BY <1>2 DEF FromClient, UploadInv
<1>4. StartedOnce
  BY DEF UploadInv
<1>5. StartedOnce'
  <2> SUFFICES ASSUME NEW i \in 1..Len(c2s'), NEW j \in 1..Len(c2s'),
                      c2s'[i].kind = "start", c2s'[j].kind = "start", c2s'[i].of = c2s'[j].of
               PROVE  i = j
    BY DEF StartedOnce
  <2>1. i + 1 = j + 1
    BY <1>2, <1>4 DEF StartedOnce
  <2> QED
    BY <1>2, <2>1
<1>6. ASSUME NEW k \in 1..Len(c2s'), c2s'[k].kind = "start", Head(c2s).kind = "start",
             c2s'[k].of = Head(c2s).of
      PROVE  FALSE
  <2>1. k + 1 = 1
    <3>1. 1 \in 1..Len(c2s)
      BY <1>2
    <3> QED
      BY <1>2, <1>4, <1>6, <3>1 DEF StartedOnce
  <2> QED
    BY <1>2, <2>1
<1> QED
  BY <1>2, <1>3, <1>5, <1>6

(* What is still in flight after the server has taken the first packet. *)
LEMMA StillHonest ==
  ASSUME UploadInv, c2s # <<>>, c2s' = Tail(c2s), UNCHANGED phase,
         \A v \in Sends : Unanswered(v) =>
           Unanswered(v)' \/ (Head(c2s).kind = "start" /\ Head(c2s).of = v)
  PROVE  c2s' \in Seq(FromClient')
<1>1. PhasesAdvance
  BY DEF PhasesAdvance
<1>2. ASSUME NEW k \in 1..Len(c2s') PROVE c2s'[k] \in FromClient'
  <2>1. PICK p \in FromClient : p = c2s'[k]
    BY Taken, ElementOfSeq
  <2>2. p.kind = "start" => Unanswered(p.of) /\ p.of \in Sends
    BY OutgoingKinds DEF FromClient
  <2>3. p.kind = "start" => Unanswered(p.of)'
    BY <2>1, <2>2, Taken
  <2> QED
    BY <1>1, <2>1, <2>3, StaysHonest
<1> QED
  BY <1>2, Taken, SeqOfAll

LEMMA StartStep ==
  ASSUME UploadAssumption, UploadInv, HandleStart
  PROVE  UploadInv'
<1>1. /\ c2s # <<>> /\ c2s' = Tail(c2s) /\ Head(c2s).kind = "start"
      /\ UNCHANGED <<setting, link, conn, s2c, phase, unacked, entries, socketOf, streaming,
                     runs, finished, refused>>
      /\ staging' = [of |-> Head(c2s).of, count |-> Head(c2s).count, staged |-> <<>>]
  BY DEF HandleStart, Receive, clientVars
<1>2. PICK u \in Sends : Head(c2s).of = u /\ Head(c2s).count = Size[u] /\ Unanswered(u)
                         /\ phase[u] # "idle"
  BY <1>1, Taken, OutgoingKinds DEF FromClient
<1>3. staging' = Session(u, {}) /\ staging'.of = u /\ {} \subseteq Seqs(u)
  <2>1. [i \in {} |-> <<u, i>>] = <<>>
    OBVIOUS
  <2> QED
    BY <1>1, <1>2, <2>1 DEF Session
<1>4. staging' \in Sessions
  BY <1>3 DEF Sessions
<1>5. c2s' \in Seq(FromClient')
  <2>1. \A v \in Sends : v # u /\ Unanswered(v) => Unanswered(v)'
    BY <1>1, <1>3 DEF Unanswered
  <2>2. \A v \in Sends : Unanswered(v) =>
          Unanswered(v)' \/ (Head(c2s).kind = "start" /\ Head(c2s).of = v)
    BY <1>1, <1>2, <2>1
  <2>3. UNCHANGED phase
    BY <1>1
  <2> QED
    BY <1>1, <2>2, <2>3, StillHonest
<1>6. s2c' \in Seq(FromServer')
  <2>1. ASSUME NEW k \in 1..Len(s2c) PROVE s2c[k] \in FromServer'
    <3>1. PICK p \in FromServer : p = s2c[k] /\ (p.kind = "ack" => p.of # u)
      BY <1>2, PacketFacts DEF Unanswered
    <3> QED
      BY <1>1, <1>3, <3>1 DEF FromServer, Arrived
  <2> QED
    BY <1>1, <2>1, PacketFacts, SeqOfAll
<1>7. \A v \in Sends : Progress(v)' /\ Received(v)'
  BY <1>1, <1>2, <1>3 DEF UploadInv, Progress, Received, Arrived, Unanswered
<1>8. runs' \in Seq(Logged')
  BY <1>1, StaysLogged DEF PhasesAdvance
<1>9. TypeOK'
  BY <1>1, <1>4, SessionFacts DEF UploadInv, TypeOK
<1> QED
  BY <1>1, <1>4, <1>5, <1>6, <1>7, <1>8, <1>9, Taken DEF UploadInv

LEMMA AttachmentStep ==
  ASSUME UploadAssumption, UploadInv, HandleAttachment
  PROVE  UploadInv'
<1> DEFINE p == Head(c2s)
<1>1. /\ c2s # <<>> /\ c2s' = Tail(c2s) /\ p.kind = "attachment"
      /\ UNCHANGED <<setting, link, conn, phase, unacked, entries, socketOf, streaming,
                     runs, finished, refused>>
  BY DEF HandleAttachment, Receive, clientVars
<1>a. PICK u \in Sends : p.of = u /\ p.seq \in Seqs(u) /\ p.body = <<u, p.seq>> /\ phase[u] # "idle"
  BY <1>1, Taken, OutgoingKinds DEF FromClient
<1>2. PICK i \in Seqs(u) : p.of = u /\ p.seq = i /\ p.body = <<u, i>> /\ phase[u] # "idle"
  BY <1>a
<1>3. /\ s2c \in Seq(Incoming) /\ s2c \in Seq(FromServer)
      /\ \A k \in 1..Len(s2c) : s2c[k] \in FromServer
      /\ staging \in Sessions /\ \A v \in Sends : Progress(v) /\ Received(v)
  BY PacketFacts DEF UploadInv
<1>4. PICK m \in Incoming :
        /\ s2c' = Append(s2c, m)
        /\ \/ /\ staging.of = u /\ m = AckPacket(u, i)
              /\ staging' = [staging EXCEPT !.staged = Stage(@, i, <<u, i>>)]
           \/ m.kind = "error" /\ staging' = staging
  <2>1. CASE Stageable(p)
    BY <1>2, <2>1, PacketsMade DEF HandleAttachment, Stageable
  <2>2. CASE ~Stageable(p)
    BY <2>2, PacketsMade DEF HandleAttachment
  <2> QED
    BY <2>1, <2>2
<1> HIDE DEF p
<1>5. /\ staging' \in Sessions /\ staging'.of = staging.of
      /\ \A v \in Sends : \A k : Arrived(v, k) => Arrived(v, k)'
      /\ m.kind = "ack" => staging.of = u /\ m.of = u /\ m.seq = i /\ Arrived(u, i)'
  <2>1. CASE m.kind = "error" /\ staging' = staging
    BY <1>3, <2>1 DEF Arrived
  <2>2. CASE /\ staging.of = u /\ m = AckPacket(u, i)
             /\ staging' = [staging EXCEPT !.staged = Stage(@, i, <<u, i>>)]
    <3>1. PICK D \in SUBSET Seqs(u) : staging = Session(u, D)
      BY <1>3, <2>2, SessionFacts DEF UploadAssumption
    <3>2. Stage([k \in D |-> <<u, k>>], i, <<u, i>>) = [k \in D \cup {i} |-> <<u, k>>]
      BY DEF Stage
    <3>3. staging' = Session(u, D \cup {i}) /\ D \cup {i} \in SUBSET Seqs(u)
      <4>1. staging.staged = [k \in D |-> <<u, k>>]
        BY <3>1 DEF Session
      <4>2. staging' = [staging EXCEPT !.staged = [k \in D \cup {i} |-> <<u, k>>]]
        BY <2>2, <3>2, <4>1
      <4>3. [Session(u, D) EXCEPT !.staged = [k \in D \cup {i} |-> <<u, k>>]] = Session(u, D \cup {i})
        <5>1. ASSUME NEW f, NEW g
              PROVE  [[of |-> u, count |-> Size[u], staged |-> f] EXCEPT !.staged = g]
                       = [of |-> u, count |-> Size[u], staged |-> g]
          OBVIOUS
        <5> QED
          BY <5>1 DEF Session
      <4> QED
        BY <3>1, <4>2, <4>3
    <3>4. /\ staging'.of = u /\ DOMAIN staging.staged = D /\ DOMAIN staging'.staged = D \cup {i}
      BY <3>1, <3>3 DEF Session
    <3>5. staging' \in Sessions
      BY <3>3 DEF Sessions
    <3> QED
      BY <2>2, <3>4, <3>5, PacketsMade DEF Arrived
  <2> QED
    BY <1>4, <2>1, <2>2
<1>7. /\ s2c' \in Seq(Incoming) /\ Len(s2c) \in Nat
      /\ \A k \in 1..Len(s2c') : (k \in 1..Len(s2c) /\ s2c'[k] = s2c[k]) \/ s2c'[k] = m
  BY <1>3, <1>4, AppendOf
<1>8. c2s' \in Seq(FromClient')
  <2>1. ASSUME NEW v \in Sends, Unanswered(v) PROVE Unanswered(v)'
    BY <1>1, <1>5, <1>7, <2>1 DEF Unanswered
  <2>2. UNCHANGED phase
    BY <1>1
  <2> QED
    BY <1>1, <2>1, <2>2, StillHonest
<1>9. s2c' \in Seq(FromServer')
  <2>1. \A q \in FromServer : q \in FromServer'
    BY <1>1, <1>5, IncomingKinds DEF FromServer
  <2>2. m \in FromServer'
    BY <1>1, <1>2, <1>5 DEF FromServer
  <2> QED
    BY <1>3, <1>7, <2>1, <2>2, SeqOfAll
<1>10. \A v \in Sends : Progress(v)' /\ Received(v)'
  BY <1>1, <1>3, <1>5 DEF Progress, Received
<1>11. runs' \in Seq(Logged')
  BY <1>1, StaysLogged DEF PhasesAdvance
<1>12. TypeOK'
  BY <1>1, <1>5, SessionFacts DEF UploadInv, TypeOK
<1> QED
  BY <1>1, <1>5, <1>8, <1>9, <1>10, <1>11, <1>12, Taken DEF UploadInv

(* The upload of a message that refers to it is complete: this is why a    *)
(* message never takes the branch of an incomplete one.                    *)
LEMMA MessageIsComplete ==
  ASSUME UploadAssumption, UploadInv, NEW u \in Sends, phase[u] = "sent", staging.of = u
  PROVE  /\ IsComplete /\ staging.count = Size[u]
         /\ [i \in 1..staging.count |-> staging.staged[i - 1]] = All(u)
<1>1. /\ staging.count = Size[u] /\ DOMAIN staging.staged \subseteq Seqs(u) /\ Size[u] \in Nat
      /\ \A i \in DOMAIN staging.staged : staging.staged[i] = <<u, i>>
  BY SessionFacts DEF UploadInv, UploadAssumption
<1>2. \A i \in Seqs(u) : i \in DOMAIN staging.staged
  BY DEF UploadInv, Progress, Received, Arrived
<1>3. DOMAIN staging.staged = Seqs(u) /\ \A i \in 1..Size[u] : i - 1 \in Seqs(u)
  <2>1. DOMAIN staging.staged = Seqs(u)
    BY <1>1, <1>2
  <2>2. \A i \in 1..Size[u] : i - 1 \in Seqs(u)
    BY <1>1 DEF Seqs
  <2> QED
    BY <2>1, <2>2
<1>4. \A i \in 1..Size[u] : staging.staged[i - 1] = <<u, i - 1>>
  BY <1>1, <1>3
<1>5. [i \in 1..Size[u] |-> staging.staged[i - 1]] = All(u)
  BY <1>4 DEF All
<1>6. IsComplete
  BY <1>1, <1>3 DEF IsComplete, Seqs
<1> QED
  BY <1>1, <1>5, <1>6

LEMMA MessageTaken ==
  ASSUME UploadAssumption, UploadInv, HandleMessage
  PROVE  \E u \in Sends, r \in Logged :
           /\ Head(c2s) \in FromClient /\ Head(c2s).kind = "message" /\ Head(c2s).send = u
           /\ r.send = u /\ runs' = Append(runs, r)
           /\ UNCHANGED <<s2c, refused>>
           /\ r.attachments = IF Claims(Head(c2s)) THEN All(u) ELSE <<>>
           /\ Head(c2s).of = Claim(u)
<1> DEFINE p == Head(c2s)
           Rec(u, atts) == [send |-> u, conn |-> conn, attachments |-> atts]
<1>1. c2s # <<>> /\ c2s' = Tail(c2s) /\ p.kind = "message" /\ conn \in 0..MaxConnections
  BY DEF HandleMessage, Receive, UploadInv, TypeOK
<1>2. PICK u \in Sends : p.send = u /\ p.of = Claim(u) /\ phase[u] = "sent" /\ p \in FromClient
  BY <1>1, Taken, OutgoingKinds DEF FromClient
<1>3. Claims(p) => IsComplete /\ [i \in 1..staging.count |-> staging.staged[i - 1]] = All(u)
  BY <1>2, MessageIsComplete DEF Claims, Claim
<1>4. /\ Claims(p) => runs' = Append(runs, Rec(u, All(u))) /\ UNCHANGED <<s2c, refused>>
      /\ ~Claims(p) => runs' = Append(runs, Rec(u, <<>>)) /\ UNCHANGED <<s2c, refused>>
  BY <1>2, <1>3 DEF HandleMessage
<1>5. \A atts : atts \in {<<>>, All(u)} =>
         /\ Rec(u, atts) \in Logged /\ Rec(u, atts).send = u /\ Rec(u, atts).attachments = atts
  BY <1>1, <1>2 DEF Logged
<1> HIDE DEF Rec, p
<1> QED
  BY <1>1, <1>2, <1>4, <1>5 DEF p

LEMMA MessageStep ==
  ASSUME UploadAssumption, UploadInv, HandleMessage
  PROVE  UploadInv'
<1>1. /\ c2s # <<>> /\ c2s' = Tail(c2s) /\ staging' = NoStaging /\ NoStaging.of = NoSend
      /\ UNCHANGED <<setting, link, conn, phase, unacked, entries, socketOf, streaming, finished>>
  BY DEF HandleMessage, Receive, clientVars, NoStaging
<1>2. PICK r \in Logged : runs' = Append(runs, r) /\ UNCHANGED <<s2c, refused>>
                         /\ Head(c2s).kind = "message"
  BY MessageTaken
<1>3. \A v \in Sends : staging'.of # v
  BY <1>1 DEF UploadAssumption
<1>4. c2s' \in Seq(FromClient')
  <2>1. \A v \in Sends : Unanswered(v) => Unanswered(v)'
    BY <1>1, <1>2, <1>3 DEF Unanswered
  <2>2. UNCHANGED phase
    BY <1>1
  <2> QED
    BY <1>1, <2>1, <2>2, StillHonest
<1>5. s2c' \in Seq(FromServer')
  <2>1. \A q \in FromServer : q \in FromServer'
    BY <1>1, <1>3, IncomingKinds DEF FromServer, Arrived
  <2> QED
    BY <1>2, <2>1, PacketFacts, SeqOfAll
<1>6. runs' \in Seq(Logged') /\ finished' \in 0..Len(runs')
  <2>1. runs \in Seq(Logged) /\ finished \in 0..Len(runs) /\ Logged' = Logged
    BY <1>1 DEF UploadInv, TypeOK, Logged
  <2>2. /\ Append(runs, r) \in Seq(Logged) /\ Len(Append(runs, r)) = Len(runs) + 1 /\ Len(runs) \in Nat
    BY <2>1, AppendOf
  <2> QED
    BY <1>1, <1>2, <2>1, <2>2
<1>7. \A v \in Sends : Progress(v)' /\ Received(v)'
  BY <1>1, <1>3 DEF UploadInv, Progress, Received, Arrived
<1>8. staging' \in Sessions
  BY <1>1 DEF Sessions
<1>9. TypeOK'
  BY <1>1, <1>2, <1>6, <1>8, SessionFacts DEF UploadInv, TypeOK
<1> QED
  BY <1>1, <1>2, <1>4, <1>5, <1>6, <1>7, <1>8, <1>9, Taken DEF UploadInv

LEMMA FinishStep ==
  ASSUME UploadAssumption, UploadInv, FinishRun
  PROVE  UploadInv'
<1> DEFINE m == [kind |-> "done"]
<1>1. /\ finished < Len(runs) /\ finished' = finished + 1
      /\ UNCHANGED <<setting, link, conn, c2s, phase, unacked, entries, socketOf, streaming,
                     staging, runs, refused>>
      /\ s2c' = s2c \/ (link.up /\ s2c' = Append(s2c, m))
  BY DEF FinishRun, clientVars
<1>2. m \in Incoming /\ m.kind # "ack" /\ m \in FromServer
  BY DEF Incoming, FromServer
<1> HIDE DEF m
<1>3. /\ s2c' \in Seq(FromServer)
      /\ \A k \in 1..Len(s2c') : (k \in 1..Len(s2c) /\ s2c'[k] = s2c[k]) \/ s2c'[k] = m
  <2>1. s2c \in Seq(FromServer)
    BY DEF UploadInv
  <2>2. CASE s2c' = s2c
    BY <2>1, <2>2
  <2>3. CASE s2c' = Append(s2c, m)
    BY <1>2, <2>1, <2>3, AppendOf
  <2> QED
    BY <1>1, <2>2, <2>3
<1>4. FromServer' = FromServer /\ Logged' = Logged
  BY <1>1 DEF FromServer, Arrived, Logged
<1>5. c2s' \in Seq(FromClient')
  <2>1. \A v \in Sends : Unanswered(v) => (\A k \in 1..Len(s2c) : s2c[k].kind = "ack" => s2c[k].of # v)'
    BY <1>2, <1>3 DEF Unanswered
  <2> QED
    BY <1>1, <2>1, ClientKept DEF PhasesAdvance
<1>6. finished' \in 0..Len(runs')
  <2>1. runs \in Seq(Logged) /\ finished \in 0..Len(runs) /\ Len(runs) \in Nat
    BY LenProperties DEF UploadInv, TypeOK
  <2> QED
    BY <1>1, <2>1
<1>7. TypeOK'
  BY <1>1, <1>6 DEF UploadInv, TypeOK
<1>8. \A v \in Sends : Progress(v)' /\ Received(v)'
  BY <1>1 DEF UploadInv, Progress, Received, Arrived
<1>9. runs' \in Seq(Logged') /\ StartedOnce'
  BY <1>1, <1>4 DEF UploadInv, StartedOnce
<1> QED
  BY <1>1, <1>3, <1>4, <1>5, <1>7, <1>8, <1>9 DEF UploadInv

LEMMA UploadStep == UploadAssumption /\ UploadInv /\ [Next]_vars => UploadInv'
<1> SUFFICES ASSUME UploadAssumption, UploadInv, [Next]_vars PROVE UploadInv'
  OBVIOUS
<1>1. ASSUME NEW u \in Sends, SendMessage(u) \/ ResumeUpload(u) \/ AckTimeout(u) PROVE UploadInv'
  BY <1>1, SendStep, ResumeStep, TimeoutStep
<1>2. CASE ReceiveAck \/ ReceiveStop
  BY <1>2, AckStep, StopStep
<1>3. CASE (\E again \in BOOLEAN : LinkLost(again)) \/ Connect \/ Disconnect \/ LinkUp
  BY <1>3, LinkStep, LinkUpStep
<1>4. CASE HandleStart \/ HandleAttachment \/ HandleMessage \/ FinishRun
  BY <1>4, StartStep, AttachmentStep, MessageStep, FinishStep
<1>5. CASE UNCHANGED vars
  <2>1. UNCHANGED <<setting, link, conn, c2s, s2c, phase, unacked, entries, socketOf, streaming,
                    staging, runs, finished, refused>>
    BY <1>5 DEF vars, clientVars, serverVars
  <2>2. FromClient' = FromClient /\ FromServer' = FromServer /\ Logged' = Logged
    BY <2>1 DEF FromClient, FromServer, Unanswered, Arrived, Logged
  <2>3. TypeOK' /\ StartedOnce'
    BY <2>1 DEF UploadInv, TypeOK, StartedOnce
  <2>4. \A v \in Sends : Progress(v)' /\ Received(v)'
    BY <2>1 DEF UploadInv, Progress, Received, Arrived
  <2> QED
    BY <2>1, <2>2, <2>3, <2>4 DEF UploadInv
<1> QED
  BY <1>1, <1>2, <1>3, <1>4, <1>5 DEF Next

-----------------------------------------------------------------------------
(***************************************************************************)
(* The theorems.                                                           *)
(***************************************************************************)

(* Whatever the connection does, packets in flight, staging and the log of *)
(* runs stay true to how far each send has come.                           *)
THEOREM UploadInvariant == Safety => []UploadInv
BY UploadInit, UploadStep, UploadAssumption, PTL DEF Safety

(* The types of the client's and the server's state, as the maps and the   *)
(* staging record of the code have them.                                   *)
THEOREM UploadTyped == Safety => []TypeOK
<1>1. UploadInv => TypeOK
  BY DEF UploadInv
<1> QED
  BY <1>1, UploadInvariant, PTL

LEMMA LoggedRuns ==
  ASSUME UploadInv, NEW r \in RunsInLog
  PROVE  r \in Logged
<1>1. PICK i \in DOMAIN runs : r = runs[i]
  BY DEF RunsInLog
<1>2. runs \in Seq(Logged)
  BY DEF UploadInv
<1>3. i \in 1..Len(runs)
  BY <1>1, <1>2, LenProperties
<1> QED
  BY <1>1, <1>2, <1>3, ElementOfSeq

(* A run gets all attachments of its own message or none (listener.ts, the *)
(* message handler), however sends overlap and connections break.          *)
THEOREM AttachmentsOwnOrNone == Safety => []OwnAttachmentsOrNone
<1>1. UploadInv => OwnAttachmentsOrNone
  BY LoggedRuns DEF OwnAttachmentsOrNone, Logged
<1> QED
  BY <1>1, UploadInvariant, PTL

(* The server's answer "Attachment sequence incomplete" is never given to  *)
(* the clients of this repository: an ack comes after the staging.         *)
THEOREM UploadsComplete == Safety => []NeverIncomplete
<1>1. UploadInv => NeverIncomplete
  BY DEF UploadInv, NeverIncomplete
<1> QED
  BY <1>1, UploadInvariant, PTL

(* A send whose upload timed out, or was abandoned with its socket, is in  *)
(* no run: the message is not emitted afterwards.                          *)
THEOREM FailedStayFailed == Safety => []FailedSendsNeverRun
<1>1. UploadInv => FailedSendsNeverRun
  BY LoggedRuns DEF FailedSendsNeverRun, Logged
<1> QED
  BY <1>1, UploadInvariant, PTL

-----------------------------------------------------------------------------
(***************************************************************************)
(* A host that waits for each upload keeps its attachments.  The packets   *)
(* of a send reach the server as one block: its start, attachments, and    *)
(* the message that refers to them, with no other start or message between.*)
(***************************************************************************)
Quiet(s)    == \A i \in 1..Len(s) : s[i].kind = "attachment"
Lacks(s, p) == \A i \in 1..Len(s) : s[i] # p
Opens(s, u) ==
  \E k \in 1..Len(s) : /\ s[k] = StartPacket(u)
                       /\ \A i \in 1..Len(s) : i > k => s[i].kind = "attachment"
Refers(p)   == p.kind = "message" /\ p.of # NoSend
ClaimsFirst(s, u) ==
  \A k \in 1..Len(s) : Refers(s[k]) => /\ u = s[k].send
                                       /\ \A i \in 1..Len(s) : i < k => s[i].kind = "attachment"

LEMMA TailFacts ==
  ASSUME NEW S, NEW s \in Seq(S), s # <<>>
  PROVE  /\ Quiet(s) => Head(s).kind = "attachment" /\ Quiet(Tail(s))
         /\ \A p : Lacks(s, p) => Head(s) # p /\ Lacks(Tail(s), p)
         /\ \A u : Opens(s, u) => Opens(Tail(s), u) \/ (Head(s) = StartPacket(u) /\ Quiet(Tail(s)))
         /\ \A u : ClaimsFirst(s, u) =>
              /\ Refers(Head(s)) => u = Head(s).send
              /\ Head(s).kind = "attachment" => ClaimsFirst(Tail(s), u)
              /\ Head(s).kind # "attachment" => \A v : ClaimsFirst(Tail(s), v)
<1> DEFINE t == Tail(s)
           n == Len(s)
<1>1. /\ Head(s) = s[1] /\ n \in Nat \ {0} /\ Len(t) = n - 1 /\ 1 \in 1..n
      /\ \A i \in 1..Len(t) : t[i] = s[i + 1] /\ i + 1 \in 1..n
  BY TailOf
<1> HIDE DEF t, n
<1>2. Quiet(s) => Head(s).kind = "attachment" /\ Quiet(t)
  BY <1>1 DEF Quiet, n
<1>3. ASSUME NEW p, Lacks(s, p) PROVE Head(s) # p /\ Lacks(t, p)
  BY <1>1, <1>3 DEF Lacks, n
<1>4. ASSUME NEW u, Opens(s, u) PROVE Opens(t, u) \/ (Head(s) = StartPacket(u) /\ Quiet(t))
  <2>1. PICK k \in 1..n : s[k] = StartPacket(u) /\ \A i \in 1..n : i > k => s[i].kind = "attachment"
    BY <1>4 DEF Opens, n
  <2>2. CASE k = 1
    <3>1. \A i \in 1..Len(t) : i + 1 > k
      BY <2>2
    <3> QED
      BY <1>1, <2>1, <2>2, <3>1 DEF Quiet
  <2>3. CASE k # 1
    <3>1. PICK h \in 1..Len(t) : h + 1 = k
      BY <1>1, <2>3
    <3>2. \A i \in 1..Len(t) : i > h => i + 1 > k
      BY <1>1, <3>1
    <3> QED
      BY <1>1, <2>1, <3>1, <3>2 DEF Opens
  <2> QED
    BY <2>2, <2>3
<1>5. ASSUME NEW u, ClaimsFirst(s, u)
      PROVE  /\ Refers(Head(s)) => u = Head(s).send
             /\ Head(s).kind = "attachment" => ClaimsFirst(t, u)
             /\ Head(s).kind # "attachment" => \A v : ClaimsFirst(t, v)
  <2>1. Refers(Head(s)) => u = Head(s).send
    BY <1>1, <1>5 DEF ClaimsFirst, n
  <2>2. ASSUME NEW k \in 1..Len(t), Refers(t[k])
        PROVE  /\ u = t[k].send /\ Head(s).kind = "attachment"
               /\ \A i \in 1..Len(t) : i < k => t[i].kind = "attachment"
    <3>1. u = s[k + 1].send /\ \A i \in 1..n : i < k + 1 => s[i].kind = "attachment"
      BY <1>1, <1>5, <2>2 DEF ClaimsFirst, n
    <3>2. 1 < k + 1 /\ \A i \in 1..Len(t) : i < k => i + 1 < k + 1
      BY <1>1
    <3> QED
      BY <1>1, <3>1, <3>2
  <2> QED
    BY <2>1, <2>2 DEF ClaimsFirst
<1> QED
  BY <1>2, <1>3, <1>4, <1>5 DEF t

LEMMA AppendFacts ==
  ASSUME NEW S, NEW s \in Seq(S), NEW m \in S
  PROVE  /\ \A p : Lacks(s, p) /\ m # p => Lacks(Append(s, m), p)
         /\ \A u : ClaimsFirst(s, u) /\ (Refers(m) => u = m.send /\ Quiet(s))
                   => ClaimsFirst(Append(s, m), u)
<1> DEFINE t == Append(s, m)
           n == Len(s) + 1
<1>1. /\ n \in Nat /\ Len(t) = n /\ \A i \in 1..Len(t) : t[i] = IF i = n THEN m ELSE s[i]
      /\ \A i \in 1..Len(t) : i # n => i \in 1..Len(s)
  BY AppendOf
<1>2. \A i \in 1..n : i <= n
  BY <1>1
<1> HIDE DEF t, n
<1>3. ASSUME NEW p, Lacks(s, p), m # p PROVE Lacks(t, p)
  BY <1>1, <1>3 DEF Lacks
<1>4. ASSUME NEW u, ClaimsFirst(s, u), Refers(m) => u = m.send /\ Quiet(s)
      PROVE  ClaimsFirst(t, u)
  <2> SUFFICES ASSUME NEW k \in 1..Len(t), Refers(t[k])
               PROVE  /\ u = t[k].send
                      /\ \A i \in 1..Len(t) : i < k => t[i].kind = "attachment"
    BY DEF ClaimsFirst
  <2>1. CASE k = n
    <3>1. \A i \in 1..Len(t) : i < k => i \in 1..Len(s) /\ t[i] = s[i]
      BY <1>1, <2>1
    <3> QED
      BY <1>1, <1>4, <2>1, <3>1 DEF Quiet
  <2>2. CASE k # n
    <3>1. k \in 1..Len(s) /\ t[k] = s[k]
      BY <1>1, <2>2
    <3>2. \A i \in 1..Len(t) : i < k => i \in 1..Len(s) /\ t[i] = s[i]
      BY <1>1, <1>2, <2>2
    <3> QED
      BY <1>4, <3>1, <3>2 DEF ClaimsFirst
  <2> QED
    BY <2>1, <2>2
<1> QED
  BY <1>3, <1>4 DEF t

LEMMA BurstFacts ==
  ASSUME UploadAssumption, NEW u \in Sends, NEW s \in Seq(Outgoing)
  PROVE  /\ Opens(s \o Burst(u), u)
         /\ \A v : ClaimsFirst(s, v) => ClaimsFirst(s \o Burst(u), v)
<1> DEFINE t == s \o Burst(u)
           n == Len(s) + 1
<1>1. /\ Len(s) \in Nat /\ Size[u] \in Nat /\ Len(t) = n + Size[u] /\ t[n] = StartPacket(u)
      /\ \A i \in 1..Len(s) : t[i] = s[i]
      /\ \A i \in (Len(s) + 2)..Len(t) : \E k \in Seqs(u) : t[i] = AttachmentPacket(u, k)
  BY BurstOf DEF UploadAssumption
<1>2. n \in Nat /\ n = Len(s) + 1 /\ n \in 1..Len(t)
  BY <1>1
<1> HIDE DEF t, n
<1>3. \A i \in 1..Len(t) : i > n => t[i].kind = "attachment"
  <2>1. \A i \in 1..Len(t) : i > n => i \in (Len(s) + 2)..Len(t)
    BY <1>1, <1>2
  <2> QED
    BY <1>1, <2>1, PacketsMade
<1>4. \A i \in 1..Len(t) : i < n => i \in 1..Len(s) /\ t[i] = s[i]
  BY <1>1, <1>2
<1>5. ASSUME NEW v, ClaimsFirst(s, v) PROVE ClaimsFirst(t, v)
  <2> SUFFICES ASSUME NEW k \in 1..Len(t), Refers(t[k])
               PROVE  /\ v = t[k].send
                      /\ \A i \in 1..Len(t) : i < k => t[i].kind = "attachment"
    BY DEF ClaimsFirst
  <2>1. k < n
    <3>1. t[n].kind = "start"
      BY <1>1, PacketsMade
    <3>2. k # n /\ ~(k > n)
      BY <1>3, <3>1 DEF Refers
    <3> QED
      BY <1>2, <3>2
  <2>2. \A i \in 1..Len(t) : i < k => i < n
    BY <1>1, <1>2, <2>1
  <2>3. k \in 1..Len(s) /\ t[k] = s[k]
    BY <1>4, <2>1
  <2> QED
    BY <1>4, <1>5, <2>2, <2>3 DEF ClaimsFirst
<1> QED
  BY <1>1, <1>2, <1>3, <1>5 DEF Opens, t

(* An ack of u is missing and will not come: the upload cannot complete.   *)
Lost(u) ==
  \/ phase[u] = "acked" /\ ~link.up
  \/ \E j \in unacked[u] : Lacks(c2s, AttachmentPacket(u, j)) /\ Lacks(s2c, AckPacket(u, j))

Underway(u) == Opens(c2s, u) \/ (staging.of = u /\ Quiet(c2s)) \/ Lost(u)

Alone ==
  /\ \A u, v \in Sends : InProgress(u) /\ InProgress(v) => u = v
  /\ \A u \in Sends : InProgress(u) => Underway(u)
  /\ ClaimsFirst(c2s, staging.of)
  /\ \A r \in RunsInLog : r.attachments = All(r.send)

AloneInv == setting.waits = "upload" => Alone

LEMMA AloneSequences ==
  ASSUME UploadInv
  PROVE  /\ c2s \in Seq(Outgoing) /\ s2c \in Seq(Incoming)
         /\ phase \in [Sends -> Phases] /\ unacked \in [Sends -> SUBSET Nat]
         /\ \A u \in Sends : Opens(c2s, u) => Unanswered(u)
<1>1. /\ phase \in [Sends -> Phases] /\ unacked \in [Sends -> SUBSET Nat]
  BY DEF UploadInv, TypeOK
<1>2. ASSUME NEW u \in Sends, Opens(c2s, u) PROVE Unanswered(u)
  <2>1. PICK k \in 1..Len(c2s) : c2s[k] = StartPacket(u)
    BY <1>2 DEF Opens
  <2> QED
    BY <2>1, PacketFacts, PacketsMade DEF FromClient
<1> QED
  BY <1>1, <1>2, PacketFacts

LEMMA AloneSend ==
  ASSUME UploadAssumption, UploadInv, Alone, setting.waits = "upload", NEW u \in Sends, SendMessage(u)
  PROVE  Alone'
<1>1. /\ \A v \in Sends : ~InProgress(v)
      /\ UNCHANGED <<staging, runs>> /\ Size[u] \in Nat /\ phase \in [Sends -> Phases]
  BY DEF SendMessage, HostMaySend, serverVars, UploadAssumption, UploadInv, TypeOK
<1>2. RunsInLog' = RunsInLog
  BY <1>1 DEF RunsInLog
<1>3. CASE Size[u] = 0
  <2> DEFINE m == MessagePacket(u, NoSend)
  <2>1. /\ c2s' = Append(c2s, m) /\ phase' = [phase EXCEPT ![u] = "sent"]
        /\ m \in Outgoing /\ ~Refers(m)
    BY <1>1, <1>3, PacketsMade DEF SendMessage, Claim, Refers
  <2> HIDE DEF m
  <2>2. ClaimsFirst(c2s', staging.of)
    BY <2>1, AloneSequences, AppendFacts DEF Alone
  <2>3. \A v \in Sends : ~InProgress(v)'
    BY <1>1, <2>1 DEF InProgress
  <2> QED
    BY <1>1, <1>2, <2>2, <2>3 DEF Alone
<1>4. CASE Size[u] > 0
  <2>1. /\ c2s' = c2s \o Burst(u) /\ phase' = [phase EXCEPT ![u] = "uploading"]
    BY <1>1, <1>4 DEF SendMessage
  <2>2. ClaimsFirst(c2s', staging.of) /\ Opens(c2s', u)
    BY <2>1, AloneSequences, BurstFacts DEF Alone
  <2>3. \A v \in Sends : InProgress(v)' => v = u
    BY <1>1, <2>1 DEF InProgress
  <2> QED
    BY <1>1, <1>2, <2>2, <2>3 DEF Alone, Underway
<1> QED
  BY <1>1, <1>3, <1>4

(* When the last ack of u is there, the session of u is open and nothing   *)
(* but attachments is on its way to it.                                    *)
LEMMA UnderwayComplete ==
  ASSUME UploadAssumption, UploadInv, NEW u \in Sends, Underway(u), ~Lost(u),
         \/ unacked[u] = {} /\ Size[u] # 0
         \/ \E k \in 1..Len(s2c) : s2c[k].kind = "ack" /\ s2c[k].of = u
  PROVE  staging.of = u /\ Quiet(c2s)
<1>1. Size[u] \in Nat
  BY DEF UploadAssumption
<1>2. Size[u] # 0 => 0 \in Seqs(u)
  BY <1>1 DEF Seqs
<1>3. ~Unanswered(u)
  BY <1>2 DEF Unanswered
<1> QED
  BY <1>3, AloneSequences DEF Underway

LEMMA AloneAck ==
  ASSUME UploadAssumption, UploadInv, Alone, ReceiveAck
  PROVE  Alone'
<1> DEFINE m == Head(s2c)
           rest == unacked[m.of] \ {m.seq}
<1>1. /\ s2c # <<>> /\ s2c' = Tail(s2c) /\ m.kind = "ack" /\ m \in Incoming /\ m = s2c[1]
      /\ link.up /\ Len(s2c) \in Nat \ {0} /\ UNCHANGED <<link, staging, runs>>
  BY AckTaken DEF ReceiveAck, serverVars
<1>2. PICK u \in Sends : u = m.of /\ m = AckPacket(u, m.seq)
  BY <1>1, IncomingKinds
<1>3. RunsInLog' = RunsInLog
  BY <1>1 DEF RunsInLog
<1>4. \A p : Lacks(s2c, p) => m # p /\ Lacks(s2c', p)
  BY <1>1, AloneSequences, TailFacts
<1>5. CASE m.of \notin entries
  <2>1. UNCHANGED <<unacked, phase, c2s>>
    BY <1>5 DEF ReceiveAck
  <2>2. \A v \in Sends : Underway(v) => Underway(v)'
    BY <1>1, <1>4, <2>1 DEF Underway, Lost
  <2>3. \A v \in Sends : InProgress(v)' <=> InProgress(v)
    BY <2>1 DEF InProgress
  <2> QED
    BY <1>1, <1>3, <2>1, <2>2, <2>3 DEF Alone
<1>6. CASE m.of \in entries
  <2>1. /\ unacked' = [unacked EXCEPT ![u] = rest]
        /\ rest # {} => UNCHANGED <<phase, c2s>>
        /\ rest = {} => /\ phase' = [phase EXCEPT ![u] = IF setting.swift THEN "acked" ELSE "sent"]
                        /\ c2s' = IF setting.swift THEN c2s ELSE Append(c2s, MessagePacket(u, u))
        /\ phase[u] = "uploading"
    BY <1>2, <1>6 DEF ReceiveAck, AllAcked, UploadInv
  <2>2. \A j \in unacked[u] : Lacks(s2c, AckPacket(u, j)) => j \in rest
    BY <1>2, <1>4 
  <2> HIDE DEF m, rest
  <2>3. /\ Underway(u) /\ \A v \in Sends : InProgress(v) => v = u
    BY <2>1 DEF Alone, InProgress
  <2>4. CASE rest # {}
    <3>1. UNCHANGED <<phase, c2s>> /\ unacked'[u] = rest
      BY <2>1, <2>4, AloneSequences
    <3>2. Underway(u)'
      <4>1. Lost(u) => Lost(u)'
        BY <1>1, <1>4, <2>2, <3>1 DEF Lost
      <4> QED
        BY <1>1, <2>3, <3>1, <4>1 DEF Underway
    <3>3. \A v \in Sends : InProgress(v)' => v = u
      BY <2>3, <3>1 DEF InProgress
    <3> QED
      BY <1>1, <1>3, <3>1, <3>2, <3>3 DEF Alone
  <2>5. CASE rest = {}
    <3>1. ~Lost(u)
      BY <2>1, <2>2, <2>5 DEF Lost
    <3>2. staging.of = u /\ Quiet(c2s)
      <4>1. s2c[1].kind = "ack" /\ s2c[1].of = u /\ 1 \in 1..Len(s2c)
        BY <1>1, <1>2 DEF m
      <4> QED
        BY <2>3, <3>1, <4>1, UnderwayComplete
    <3>3. ClaimsFirst(c2s, staging.of)
      BY DEF Alone
    <3>4. CASE setting.swift
      <4>1. c2s' = c2s /\ phase' = [phase EXCEPT ![u] = "acked"]
        BY <2>1, <2>5, <3>4
      <4>2. \A v \in Sends : InProgress(v)' => v = u
        BY <2>3, <4>1, AloneSequences DEF InProgress
      <4> QED
        BY <1>1, <1>3, <3>2, <3>3, <4>1, <4>2 DEF Alone, Underway
    <3>5. CASE ~setting.swift
      <4> DEFINE p == MessagePacket(u, u)
      <4>1. c2s' = Append(c2s, p) /\ phase' = [phase EXCEPT ![u] = "sent"]
        BY <2>1, <2>5, <3>5
      <4>2. p \in Outgoing /\ p.send = u
        <5>1. Size[u] # 0
          BY <2>1 DEF UploadInv, Progress
        <5> QED
          BY <5>1, PacketsMade DEF Claim
      <4> HIDE DEF p
      <4>3. ClaimsFirst(c2s', staging.of)
        BY <3>2, <3>3, <4>1, <4>2, AloneSequences, AppendFacts
      <4>4. \A v \in Sends : ~InProgress(v)'
        BY <2>3, <4>1, AloneSequences DEF InProgress
      <4> QED
        BY <1>1, <1>3, <4>3, <4>4 DEF Alone
    <3> QED
      BY <3>4, <3>5
  <2> QED
    BY <2>4, <2>5
<1> QED
  BY <1>5, <1>6

LEMMA AloneResume ==
  ASSUME UploadAssumption, UploadInv, Alone, NEW u \in Sends, ResumeUpload(u)
  PROVE  Alone'
<1>1. /\ phase[u] = "acked" /\ UNCHANGED <<link, staging, runs>> /\ Size[u] # 0 /\ unacked[u] = {}
      /\ phase' = [phase EXCEPT ![u] = IF socketOf[u] = link.object THEN "sent" ELSE "abandoned"]
  BY DEF ResumeUpload, serverVars, UploadInv, Progress
<1>2. \A v \in Sends : ~InProgress(v)'
  BY <1>1, AloneSequences DEF Alone, InProgress
<1>3. ClaimsFirst(c2s', staging.of)
  <2>1. CASE socketOf[u] = link.object /\ link.up
    <3> DEFINE p == MessagePacket(u, u)
    <3>1. c2s' = Append(c2s, p) /\ p \in Outgoing /\ p.send = u
      BY <1>1, <2>1, PacketsMade DEF ResumeUpload, Claim
    <3> HIDE DEF p
    <3>2. Underway(u) /\ ~Lost(u)
      BY <1>1, <2>1 DEF Alone, InProgress, Lost
    <3>3. staging.of = u /\ Quiet(c2s)
      BY <1>1, <3>2, UnderwayComplete
    <3> QED
      BY <3>1, <3>3, AloneSequences, AppendFacts DEF Alone
  <2>2. CASE ~(socketOf[u] = link.object /\ link.up)
    BY <2>2 DEF ResumeUpload, Alone
  <2> QED
    BY <2>1, <2>2
<1> QED
  BY <1>1, <1>2, <1>3 DEF Alone, RunsInLog

LEMMA AloneTimeout ==
  ASSUME UploadInv, Alone, NEW u \in Sends, AckTimeout(u)
  PROVE  Alone'
<1>1. /\ phase[u] = "uploading" /\ phase' = [phase EXCEPT ![u] = "failed"]
      /\ UNCHANGED <<c2s, staging, runs>>
  BY DEF AckTimeout, serverVars
<1>2. \A v \in Sends : ~InProgress(v)'
  BY <1>1, AloneSequences DEF Alone, InProgress
<1> QED
  BY <1>1, <1>2 DEF Alone, RunsInLog

LEMMA AloneStop ==
  ASSUME UploadInv, Alone, ReceiveStop
  PROVE  Alone'
<1>1. s2c # <<>> /\ s2c' = Tail(s2c) /\ UNCHANGED <<link, c2s, phase, unacked, staging, runs>>
  BY DEF ReceiveStop, serverVars
<1>2. \A p : Lacks(s2c, p) => Lacks(s2c', p)
  BY <1>1, AloneSequences, TailFacts
<1>3. \A v \in Sends : (Underway(v) => Underway(v)') /\ (InProgress(v)' <=> InProgress(v))
  BY <1>1, <1>2 DEF Underway, Lost, InProgress
<1> QED
  BY <1>1, <1>3 DEF Alone, RunsInLog

(* A connection that breaks takes an ack of the upload with it.            *)
LEMMA AloneBreak ==
  ASSUME UploadInv, Alone, NEW l, Break(l), ~l.up
  PROVE  Alone'
<1>1. /\ link' = l /\ c2s' = <<>> /\ s2c' = <<>> /\ UNCHANGED <<phase, unacked, staging, runs>>
  BY DEF Break, serverVars
<1>2. /\ \A p : Lacks(c2s', p) /\ Lacks(s2c', p)
      /\ ClaimsFirst(c2s', staging.of)
  BY <1>1 DEF Lacks, ClaimsFirst
<1>3. ASSUME NEW u \in Sends, InProgress(u) PROVE Lost(u)'
  <2>1. phase[u] = "uploading" => unacked[u] # {}
    BY DEF UploadInv, Progress
  <2> QED
    BY <1>1, <1>2, <1>3, <2>1 DEF Lost, InProgress
<1>4. \A u \in Sends : InProgress(u)' <=> InProgress(u)
  BY <1>1 DEF InProgress
<1> QED
  BY <1>1, <1>2, <1>3, <1>4 DEF Alone, RunsInLog, Underway

LEMMA AloneLink ==
  ASSUME UploadAssumption, UploadInv, Alone,
         \/ \E again \in BOOLEAN : LinkLost(again)
         \/ Connect \/ Disconnect
  PROVE  Alone'
<1>1. link \in [up : BOOLEAN, wanted : BOOLEAN, object : 0..MaxConnections]
  BY DEF UploadInv, TypeOK
<1>2. ASSUME NEW again \in BOOLEAN, LinkLost(again) PROVE Alone'
  <2>1. ~[link EXCEPT !.up = FALSE, !.wanted = again].up
    BY <1>1
  <2> QED
    BY <1>2, <2>1, AloneBreak DEF LinkLost
<1>3. CASE Connect
  BY <1>3, AloneBreak DEF Connect
<1>4. CASE Disconnect
  BY <1>4, AloneBreak DEF Disconnect
<1> QED
  BY <1>2, <1>3, <1>4

LEMMA AloneLinkUp ==
  ASSUME UploadInv, Alone, LinkUp
  PROVE  Alone'
<1>1. /\ ~link.up /\ \A u \in Sends : phase[u] # "acked"
      /\ UNCHANGED <<c2s, s2c, phase, unacked, runs>>
  BY DEF LinkUp, clientVars
<1>2. c2s' = <<>> /\ s2c' = <<>>
  BY <1>1 DEF UploadInv
<1>3. /\ \A p : Lacks(c2s', p) /\ Lacks(s2c', p)
      /\ ClaimsFirst(c2s', staging'.of)
  BY <1>2 DEF Lacks, ClaimsFirst
<1>4. ASSUME NEW u \in Sends, InProgress(u) PROVE Lost(u)'
  <2>1. phase[u] = "uploading" /\ unacked[u] # {}
    BY <1>1, <1>4 DEF UploadInv, Progress, InProgress
  <2> QED
    BY <1>1, <1>3, <2>1 DEF Lost
<1>5. \A u \in Sends : InProgress(u)' <=> InProgress(u)
  BY <1>1 DEF InProgress
<1> QED
  BY <1>1, <1>3, <1>4, <1>5 DEF Alone, RunsInLog, Underway

(* What the server takes from the client leaves an upload underway.        *)
LEMMA UnderwayTaken ==
  ASSUME UploadInv, Alone, c2s # <<>>, c2s' = Tail(c2s), UNCHANGED <<link, phase, unacked>>,
         NEW u \in Sends, InProgress(u),
         Head(c2s) = StartPacket(u) => staging'.of = u,
         Head(c2s).kind = "attachment" => staging'.of = staging.of,
         \A j \in unacked[u] : Lacks(s2c, AckPacket(u, j)) /\ Head(c2s) # AttachmentPacket(u, j)
                                => Lacks(s2c, AckPacket(u, j))'
  PROVE  Underway(u)'
<1>1. /\ Quiet(c2s) => Head(c2s).kind = "attachment" /\ Quiet(c2s')
      /\ \A p : Lacks(c2s, p) => Head(c2s) # p /\ Lacks(c2s', p)
      /\ Opens(c2s, u) => Opens(c2s', u) \/ (Head(c2s) = StartPacket(u) /\ Quiet(c2s'))
  BY AloneSequences, TailFacts
<1>2. Underway(u)
  BY DEF Alone
<1>3. CASE Opens(c2s, u)
  BY <1>1, <1>3 DEF Underway
<1>4. CASE staging.of = u /\ Quiet(c2s)
  BY <1>1, <1>4 DEF Underway
<1>5. CASE Lost(u)
  BY <1>1, <1>5 DEF Underway, Lost
<1> QED
  BY <1>2, <1>3, <1>4, <1>5 DEF Underway

LEMMA AloneServer ==
  ASSUME UploadAssumption, UploadInv, Alone, HandleStart \/ HandleAttachment
  PROVE  Alone'
<1> DEFINE p == Head(c2s)
<1>1. /\ c2s # <<>> /\ c2s' = Tail(c2s) /\ UNCHANGED <<link, phase, unacked, runs>>
      /\ p \in FromClient /\ p \in Outgoing
  BY Taken DEF HandleStart, HandleAttachment, Receive, clientVars
<1>2. \A u \in Sends : InProgress(u)' <=> InProgress(u)
  BY <1>1 DEF InProgress
<1>3. ClaimsFirst(c2s', staging'.of) /\ \A u \in Sends : InProgress(u) => Underway(u)'
  <2>1. CASE HandleStart
    <3>1. /\ p.kind = "start" /\ staging'.of = p.of /\ s2c' = s2c
      BY <2>1 DEF HandleStart, Receive
    <3>2. ClaimsFirst(c2s', staging'.of)
      BY <1>1, <3>1, AloneSequences, TailFacts DEF Alone
    <3>3. \A u \in Sends : p = StartPacket(u) => staging'.of = u
      BY <3>1, PacketsMade
    <3> HIDE DEF p
    <3>4. ASSUME NEW u \in Sends, InProgress(u) PROVE Underway(u)'
      <4>1. \A j \in unacked[u] : Lacks(s2c, AckPacket(u, j)) => Lacks(s2c, AckPacket(u, j))'
        BY <3>1
      <4> QED
        BY <1>1, <3>1, <3>3, <3>4, <4>1, UnderwayTaken DEF p
    <3> QED
      BY <3>2, <3>4
  <2>2. CASE HandleAttachment
    <3>1. p.kind = "attachment" /\ p.of \in Sends /\ p = AttachmentPacket(p.of, p.seq)
      BY <1>1, <2>2, OutgoingKinds DEF HandleAttachment, Receive
    <3>2. staging' = staging \/ staging' = [staging EXCEPT !.staged = Stage(@, p.seq, p.body)]
      BY <2>2 DEF HandleAttachment
    <3>3. staging'.of = staging.of
      BY <3>2, SessionFacts DEF UploadInv, Sessions, NoStaging, Session
    <3>4. PICK m \in Incoming : s2c' = Append(s2c, m) /\ (m.kind # "error" => m = AckPacket(p.of, p.seq))
      <4>1. CASE Stageable(p)
        <5>1. p.seq \in Seqs(p.of)
          BY <1>1, <3>1, OutgoingKinds
        <5> QED
          BY <2>2, <3>1, <4>1, <5>1, PacketsMade DEF HandleAttachment
      <4>2. CASE ~Stageable(p)
        BY <2>2, <3>1, <4>2, PacketsMade DEF HandleAttachment
      <4> QED
        BY <4>1, <4>2
    <3>5. ClaimsFirst(c2s', staging'.of)
      BY <1>1, <3>1, <3>3, AloneSequences, TailFacts DEF Alone
    <3>6. ASSUME NEW u \in Sends, InProgress(u) PROVE Underway(u)'
      <4>1. ASSUME NEW j \in unacked[u], Lacks(s2c, AckPacket(u, j)), p # AttachmentPacket(u, j)
            PROVE  Lacks(s2c, AckPacket(u, j))'
        <5>1. m # AckPacket(u, j)
          BY <3>1, <3>4, <4>1 DEF AckPacket
        <5>2. Lacks(Append(s2c, m), AckPacket(u, j))
          BY <4>1, <5>1, AloneSequences, AppendFacts
        <5> QED
          BY <3>4, <5>2
      <4>2. p # StartPacket(u)
        BY <3>1, PacketsMade
      <4> QED
        BY <1>1, <3>3, <3>6, <4>1, <4>2, UnderwayTaken
    <3> QED
      BY <3>5, <3>6
  <2> QED
    BY <2>1, <2>2
<1> QED
  BY <1>1, <1>2, <1>3 DEF Alone, RunsInLog

(* A message that refers to its attachments finds its session open.        *)
LEMMA AloneMessage ==
  ASSUME UploadAssumption, UploadInv, Alone, HandleMessage
  PROVE  Alone'
<1> DEFINE p == Head(c2s)
<1>1. /\ c2s # <<>> /\ c2s' = Tail(c2s) /\ UNCHANGED <<link, phase, unacked>> /\ p.kind = "message"
  BY DEF HandleMessage, Receive, clientVars
<1>2. PICK u \in Sends, r \in Logged :
        /\ p.send = u /\ r.send = u /\ runs' = Append(runs, r) /\ UNCHANGED s2c /\ p.of = Claim(u)
        /\ r.attachments = IF Claims(p) THEN All(u) ELSE <<>>
  BY MessageTaken
<1>3. r.attachments = All(u)
  <2>1. CASE Size[u] = 0
    <3>1. All(u) = <<>>
      BY <2>1 DEF All
    <3> QED
      BY <1>2, <3>1
  <2>2. CASE Size[u] # 0
    <3>1. Refers(p) /\ p.of = u
      BY <1>1, <1>2, <2>2 DEF Refers, Claim, UploadAssumption
    <3>2. staging.of = u
      BY <1>1, <1>2, <3>1, AloneSequences, TailFacts DEF Alone
    <3> QED
      BY <1>2, <3>1, <3>2 DEF Claims, Refers
  <2> QED
    BY <2>1, <2>2
<1>4. ClaimsFirst(c2s', staging'.of)
  BY <1>1, AloneSequences, TailFacts DEF Alone
<1>5. ASSUME NEW v \in Sends, InProgress(v) PROVE Underway(v)'
  <2>1. p # StartPacket(v)
    BY <1>1, PacketsMade
  <2>2. \A j \in unacked[v] : Lacks(s2c, AckPacket(v, j)) => Lacks(s2c, AckPacket(v, j))'
    BY <1>2
  <2> QED
    BY <1>1, <1>5, <2>1, <2>2, UnderwayTaken
<1>6. \A v \in Sends : InProgress(v)' <=> InProgress(v)
  BY <1>1 DEF InProgress
<1>7. ASSUME NEW q \in RunsInLog' PROVE q.attachments = All(q.send)
  <2>1. runs \in Seq(Logged)
    BY DEF UploadInv
  <2>2. PICK i \in DOMAIN runs' : q = runs'[i]
    BY <1>7 DEF RunsInLog
  <2>3. q = r \/ q \in RunsInLog
    BY <1>2, <2>1, <2>2, AppendOf DEF RunsInLog
  <2> QED
    BY <1>2, <1>3, <2>3 DEF Alone
<1> QED
  BY <1>4, <1>5, <1>6, <1>7 DEF Alone

LEMMA AloneFinish ==
  ASSUME UploadInv, Alone, FinishRun
  PROVE  Alone'
<1> DEFINE m == [kind |-> "done"]
<1>1. /\ UNCHANGED <<link, c2s, phase, unacked, staging, runs>>
      /\ s2c' = s2c \/ s2c' = Append(s2c, m)
  BY DEF FinishRun, clientVars
<1>2. m \in Incoming /\ \A u, j : m # AckPacket(u, j)
  <2>1. m.kind = "done" /\ \A u, j : AckPacket(u, j).kind = "ack"
    BY DEF AckPacket
  <2> QED
    BY <2>1 DEF Incoming
<1> HIDE DEF m
<1>3. ASSUME NEW u, NEW j, Lacks(s2c, AckPacket(u, j)) PROVE Lacks(s2c', AckPacket(u, j))
  <2>1. Lacks(Append(s2c, m), AckPacket(u, j))
    BY <1>2, <1>3, AloneSequences, AppendFacts
  <2> QED
    BY <1>1, <1>3, <2>1
<1>4. \A v \in Sends : (Underway(v) => Underway(v)') /\ (InProgress(v)' <=> InProgress(v))
  BY <1>1, <1>3 DEF Underway, Lost, InProgress
<1> QED
  BY <1>1, <1>4 DEF Alone, RunsInLog

LEMMA AloneStep == UploadAssumption /\ UploadInv /\ AloneInv /\ [Next]_vars => AloneInv'
<1> SUFFICES ASSUME UploadAssumption, UploadInv, AloneInv, [Next]_vars, setting'.waits = "upload"
             PROVE  Alone'
  BY DEF AloneInv
<1>1. CASE UNCHANGED vars
  <2>1. UNCHANGED <<setting, link, c2s, s2c, phase, unacked, staging, runs>>
    BY <1>1 DEF vars, clientVars, serverVars
  <2>2. Alone
    BY <2>1 DEF AloneInv
  <2>3. \A v \in Sends : (Underway(v) => Underway(v)') /\ (InProgress(v)' <=> InProgress(v))
    BY <2>1 DEF Underway, Lost, InProgress
  <2> QED
    BY <2>1, <2>2, <2>3 DEF Alone, RunsInLog
<1>2. CASE Next
  <2>1. UNCHANGED setting
    BY <1>2 DEF Next, SendMessage, ResumeUpload, AckTimeout, ReceiveAck, ReceiveStop, LinkLost,
                Connect, Disconnect, Break, LinkUp, HandleStart, HandleAttachment, HandleMessage,
                FinishRun
  <2>2. Alone /\ setting.waits = "upload"
    BY <2>1 DEF AloneInv
  <2>3. ASSUME NEW u \in Sends, SendMessage(u) \/ ResumeUpload(u) \/ AckTimeout(u) PROVE Alone'
    BY <2>2, <2>3, AloneSend, AloneResume, AloneTimeout
  <2>4. CASE ReceiveAck \/ ReceiveStop
    BY <2>2, <2>4, AloneAck, AloneStop
  <2>5. CASE (\E again \in BOOLEAN : LinkLost(again)) \/ Connect \/ Disconnect \/ LinkUp
    BY <2>2, <2>5, AloneLink, AloneLinkUp
  <2>6. CASE HandleStart \/ HandleAttachment \/ HandleMessage \/ FinishRun
    BY <2>2, <2>6, AloneServer, AloneMessage, AloneFinish
  <2> QED
    BY <1>2, <2>3, <2>4, <2>5, <2>6 DEF Next
<1> QED
  BY <1>1, <1>2

(* With a host that waits for each upload to end before the next send, a   *)
(* message with attachments always reaches its run with them.              *)
THEOREM WaitingKeepsAttachments == Safety => []MessagesKeepAttachments
<1>1. Init => AloneInv
  <2> SUFFICES ASSUME Init PROVE Alone
    BY DEF AloneInv
  <2>1. /\ c2s = <<>> /\ runs = <<>> /\ \A u \in Sends : ~InProgress(u)
    BY DEF Init, InProgress
  <2> QED
    BY <2>1 DEF Alone, ClaimsFirst, RunsInLog
<1>2. AloneInv => MessagesKeepAttachments
  BY DEF AloneInv, Alone, MessagesKeepAttachments
<1> QED
  BY <1>1, <1>2, AloneStep, UploadInvariant, UploadAssumption, PTL DEF Safety
=============================================================================

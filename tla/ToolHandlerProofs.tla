------------------------- MODULE ToolHandlerProofs --------------------------
(***************************************************************************)
(* Proofs about ToolHandler: what the client was told has arrived was      *)
(* accepted, and the answer the agent works with is the handler's, however *)
(* responses, acknowledgements and retries cross and get lost.             *)
(*                                                                         *)
(* What is under way is a sequence of honest packets: Seq(S) is kept by    *)
(* taking the first packet and by appending one more, so a packet counts   *)
(* for what was true when it was sent, provided that stays true.  Losing   *)
(* packets breaks nothing.  What the registry does with a response is      *)
(* taken from LocalToolRegistryProofs.                                     *)
(***************************************************************************)
EXTENDS ToolHandler, FiniteSetTheorems, SequenceTheorems, TLAPS

RP == INSTANCE LocalToolRegistryProofs

(* A sequence of S whose elements are all in T is a sequence of T. *)
LEMMA SeqOfAll ==
  ASSUME NEW S, NEW T, NEW s \in Seq(S), \A i \in 1..Len(s) : s[i] \in T
  PROVE  s \in Seq(T)
  OBVIOUS

(* No request is under way twice. *)
Once(s) == \A i, j \in 1..Len(s) : s[i].kind = "ask" /\ s[j].kind = "ask" /\ s[i].id = s[j].id => i = j

(* Taking the first packet: the request it asks for is under way no more.  *)
LEMMA OnceTail ==
  ASSUME NEW S, NEW s \in Seq(S), s # <<>>, Once(s)
  PROVE  /\ Head(s) \in S /\ Tail(s) \in Seq(S) /\ Once(Tail(s))
         /\ Len(Tail(s)) = Len(s) - 1
         /\ \A i \in 1..Len(Tail(s)) :
              /\ Tail(s)[i] \in S /\ Tail(s)[i] = s[i + 1]
              /\ ~(Head(s).kind = "ask" /\ Tail(s)[i].kind = "ask" /\ Tail(s)[i].id = Head(s).id)
<1>1. /\ Head(s) \in S /\ Tail(s) \in Seq(S) /\ Len(Tail(s)) = Len(s) - 1
      /\ \A i \in 1..Len(Tail(s)) : Tail(s)[i] = s[i + 1]
  BY HeadTailProperties
<1>2. Len(s) \in Nat \ {0} /\ Head(s) = s[1]
  BY EmptySeq
<1>3. Once(Tail(s))
  BY <1>1, <1>2 DEF Once
<1>4. ASSUME NEW i \in 1..Len(Tail(s)) PROVE Tail(s)[i] \in S
  BY <1>1, <1>4, ElementOfSeq
<1>5. ASSUME NEW i \in 1..Len(Tail(s)), Head(s).kind = "ask", Tail(s)[i].kind = "ask", Tail(s)[i].id = Head(s).id PROVE FALSE
  <2>1. 1 \in 1..Len(s) /\ i + 1 \in 1..Len(s) /\ i + 1 # 1
    BY <1>1, <1>2
  <2> QED
    BY <1>1, <1>2, <1>5, <2>1 DEF Once
<1> QED
  BY <1>1, <1>3, <1>4, <1>5

(* Sending a packet: an acknowledgement, or a request that is new.         *)
LEMMA OnceAppend ==
  ASSUME NEW S, NEW s \in Seq(S), NEW m \in S, Once(s),
         m.kind = "ask" => \A i \in 1..Len(s) : s[i].kind = "ask" => s[i].id # m.id
  PROVE  Append(s, m) \in Seq(S) /\ Once(Append(s, m))
<1>1. /\ Append(s, m) \in Seq(S) /\ Len(Append(s, m)) = Len(s) + 1
      /\ \A i \in 1..Len(s) : Append(s, m)[i] = s[i]
      /\ Append(s, m)[Len(s) + 1] = m
  BY AppendProperties
<1>2. Len(s) \in Nat
  OBVIOUS
<1>3. Once(Append(s, m))
  <2> DEFINE t == Append(s, m)
  <2> SUFFICES ASSUME NEW i \in 1..Len(t), NEW j \in 1..Len(t),
                      t[i].kind = "ask", t[j].kind = "ask", t[i].id = t[j].id
               PROVE  i = j
    BY DEF Once
  <2>1. /\ i \in 1..Len(s) \/ i = Len(s) + 1
        /\ j \in 1..Len(s) \/ j = Len(s) + 1
    BY <1>1, <1>2
  <2> QED
    BY <1>1, <1>2, <2>1 DEF Once
<1> QED
  BY <1>1, <1>3

(* What the client emits goes where what it emitted before is. *)
LEMMA EmitKeeps ==
  ASSUME NEW S, c2s \in Seq(S), outbox \in Seq(S), NEW p \in S, Emit(<<p>>)
  PROVE  c2s' \in Seq(S) /\ outbox' \in Seq(S)
<1>1. <<p>> \in Seq(S)
  OBVIOUS
<1>2. c2s \o <<p>> \in Seq(S) /\ outbox \o <<p>> \in Seq(S)
  BY <1>1, ConcatProperties
<1> QED
  BY <1>2 DEF Emit

(* R is the registry the model is written with, RP the one the proofs      *)
(* about it are made for: they are the same.                               *)
LEMMA SameRegistry ==
  /\ R!RegistryAssumption <=> RP!RegistryAssumption
  /\ R!Registry = RP!Registry /\ R!Empty = RP!Empty /\ R!None = RP!None
  /\ \A g, r, t : R!TrackEmit(g, r, t) = RP!TrackEmit(g, r, t)
  /\ \A g, r, t : R!AwaitResponse(g, r, t) = RP!AwaitResponse(g, r, t)
  /\ \A g, r : R!Timeout(g, r) = RP!Timeout(g, r)
  /\ \A g, th, t : R!ClearExpired(g, th, t) = RP!ClearExpired(g, th, t)
  /\ \A g, r, status : R!HandleResponse(g, r, status) = RP!HandleResponse(g, r, status)
  /\ \A g, r : R!Accepts(g, r) <=> RP!Accepts(g, r)
<1> USE DEF R!None, RP!None, R!Of, RP!Of, R!Failures, RP!Failures
<1>1. R!Registry = RP!Registry
  BY DEF R!Registry, RP!Registry, R!Outcomes, RP!Outcomes
<1>2. R!Empty = RP!Empty
  BY DEF R!Empty, RP!Empty
<1>3. \A g, r, t : R!TrackEmit(g, r, t) = RP!TrackEmit(g, r, t)
  BY DEF R!TrackEmit, RP!TrackEmit
<1>4. \A g, r, t : R!AwaitResponse(g, r, t) = RP!AwaitResponse(g, r, t)
  BY DEF R!AwaitResponse, RP!AwaitResponse
<1>5. \A g, S, v : R!Resolve(g, S, v) = RP!Resolve(g, S, v)
  BY DEF R!Resolve, RP!Resolve
<1>6. \A g, r : R!Timeout(g, r) = RP!Timeout(g, r)
  BY <1>5 DEF R!Timeout, RP!Timeout
<1>7. \A g, th, t : R!Expired(g, th, t) = RP!Expired(g, th, t)
  BY DEF R!Expired, RP!Expired
<1>8. \A g, th, t : R!ClearExpired(g, th, t) = RP!ClearExpired(g, th, t)
  BY <1>5, <1>7 DEF R!ClearExpired, RP!ClearExpired
<1>9. \A g, r : R!Accepts(g, r) <=> RP!Accepts(g, r)
  BY DEF R!Accepts, RP!Accepts
<1>10. \A g, r : R!Dispatch(g, r) = RP!Dispatch(g, r)
  BY DEF R!Dispatch, RP!Dispatch
<1>11. \A g, r, status : R!Deliver(g, r, status) = RP!Deliver(g, r, status)
  BY <1>5 DEF R!Deliver, RP!Deliver
<1>12. \A g, r, status : R!HandleResponse(g, r, status) = RP!HandleResponse(g, r, status)
  BY <1>9, <1>10, <1>11 DEF R!HandleResponse, RP!HandleResponse
<1>13. R!RegistryAssumption <=> RP!RegistryAssumption
  BY DEF R!RegistryAssumption, RP!RegistryAssumption
<1> QED
  BY <1>1, <1>2, <1>3, <1>4, <1>6, <1>8, <1>9, <1>12, <1>13

-----------------------------------------------------------------------------
(***************************************************************************)
(* The inductive invariant.  Its first part holds for every client.        *)
(***************************************************************************)

(* The registry holds only what a run asked for. *)
RegistryUsed == RP!Sound(reg) /\ reg.emitted \subseteq asked

(* What may be under way to the client: a request no hook has seen, and    *)
(* the acknowledgement of a response that was accepted.                    *)
Honest ==
  {m \in Incoming : IF m.kind = "ask" THEN m.id \in asked /\ stage[m.id] = "none"
                                      ELSE reg.answer[m.id] # R!None}

HandlerInv ==
  /\ TypeOK /\ RegistryUsed
  /\ s2c \in Seq(Honest) /\ Once(s2c)
  /\ \A r \in Requests : stage[r] # "none" => r \in asked
  /\ \A r \in heard : reg.answer[r] # R!None

(* Accepted responses come in at local_tool_response only, and stay.       *)
AnswersKept == reg'.answer = reg.answer

(* A response that parses. *)
LEMMA ParsedStatus ==
  ASSUME NEW p \in Packets, Parsed(p) # R!None
  PROVE  Parsed(p) \in Statuses /\ p.active # {}
<1>1. Cardinality(p.active) = 1 /\ Parsed(p) = StatusOf[CHOOSE d \in p.active : TRUE]
  BY DEF Parsed
<1>2. p.active # {} /\ p.active \subseteq Discriminants
  BY <1>1, FS_EmptySet DEF Packets
<1>3. (CHOOSE d \in p.active : TRUE) \in Discriminants
  BY <1>2
<1> QED
  BY <1>1, <1>2, <1>3, HandlerAssumption

LEMMA RegistryFacts ==
  ASSUME HandlerInv
  PROVE  /\ RP!RegistryAssumption /\ ThreadOf \in [Requests -> Threads]
         /\ reg \in RP!Registry /\ now \in Nat
         /\ \A r \in Requests : reg.answer[r] \in Statuses \cup {R!None}
         /\ \A r \in Requests : reg.expiresAt[r] \in Nat
         /\ R!None \notin Statuses
  BY ComponentAssumption, SameRegistry
  DEF HandlerInv, RegistryUsed, RP!Sound, TypeOK, R!TypeOK, RP!Registry, RP!RegistryAssumption, R!None, RP!None

(* A tool call registers its request, unless it is wired up or needs no    *)
(* answer.                                                                 *)
LEMMA AskTurn ==
  ASSUME HandlerInv, NEW r \in Requests, NEW arrives \in BOOLEAN, Ask(r, arrives)
  PROVE  RegistryUsed' /\ AnswersKept
<1> DEFINE g == RP!ClearExpired(reg, ThreadOf[r], now)
           e == RP!TrackEmit(g, r, now)
<1>1. /\ r \notin asked /\ asked' = asked \cup {r}
      /\ reg' = reg \/ reg' = e \/ reg' = RP!AwaitResponse(e, r, now)
  BY SameRegistry DEF Ask
<1>2. /\ RP!Sound(reg) /\ reg \in RP!Registry /\ now \in Nat /\ ThreadOf[r] \in Threads
      /\ r \notin reg.emitted /\ reg.emitted \subseteq asked /\ RP!RegistryAssumption
  BY <1>1, RegistryFacts DEF HandlerInv, RegistryUsed
<1>3. /\ RP!Sound(g) /\ g \in RP!Registry /\ g.emitted = reg.emitted /\ g.answer = reg.answer
  BY <1>2, RP!ClearExpiredSound, RP!ClearExpiredFields DEF RP!RegistryAssumption, RP!Sound
<1> HIDE DEF g
<1>4. /\ RP!Sound(e) /\ e \in RP!Registry /\ e.emitted = g.emitted \cup {r}
      /\ e.answer = g.answer /\ e.early = g.early /\ e.promise = g.promise
  BY <1>2, <1>3, RP!TrackEmitSound, RP!TrackEmitFields DEF RP!RegistryAssumption, RP!Sound
<1>5. e.early[r] = RP!None /\ e.promise[r] = RP!None
  BY <1>2, <1>3, <1>4 DEF RP!Sound, RP!SoundAt, RP!Unused
<1> HIDE DEF e
<1>6. LET w == RP!AwaitResponse(e, r, now)
      IN  RP!Sound(w) /\ w.emitted = e.emitted /\ w.answer = e.answer
  BY <1>2, <1>4, <1>5, RP!AwaitResponseSound, RP!AwaitResponseFields DEF RP!RegistryAssumption
<1> QED
  BY <1>1, <1>2, <1>3, <1>4, <1>6 DEF RegistryUsed, AnswersKept

(* The registry takes a response that parses and that it still waits for,  *)
(* and the acknowledgement says just that.                                 *)
LEMMA HandleResponseTurn ==
  ASSUME HandlerInv, c2s \in Seq(Packets), HandleResponse
  PROVE  /\ RegistryUsed'
         /\ Head(c2s) \in Packets
         /\ \/ AnswersKept /\ s2c' = s2c
            \/ /\ Parsed(Head(c2s)) # R!None
               /\ \A r \in Requests :
                    reg'.answer[r] = IF r = Head(c2s).id THEN Parsed(Head(c2s)) ELSE reg.answer[r]
               /\ s2c' = Append(s2c, [kind |-> "ack", id |-> Head(c2s).id])
<1> DEFINE p == Head(c2s)
           g == RP!ClearExpired(reg, ThreadOf[p.id], now)
           h == RP!HandleResponse(g, p.id, Parsed(p))
<1>1. p \in Packets /\ p.id \in Requests
  <2>1. c2s # <<>>
    BY DEF HandleResponse
  <2>2. p \in Packets
    BY <2>1, HeadTailProperties
  <2> QED
    BY <2>2 DEF Packets
<1>2. /\ RP!Sound(reg) /\ reg \in RP!Registry /\ now \in Nat /\ ThreadOf[p.id] \in Threads
      /\ reg.emitted \subseteq asked /\ RP!RegistryAssumption /\ asked' = asked
  BY <1>1, RegistryFacts DEF HandlerInv, RegistryUsed, HandleResponse
<1>3. /\ RP!Sound(g) /\ g \in RP!Registry /\ g.emitted = reg.emitted /\ g.answer = reg.answer
  BY <1>2, RP!ClearExpiredSound, RP!ClearExpiredFields DEF RP!RegistryAssumption, RP!Sound
<1>4. /\ reg' = IF Parsed(p) = R!None THEN g ELSE h
      /\ s2c' = IF Parsed(p) # R!None /\ RP!Accepts(g, p.id)
                THEN Append(s2c, [kind |-> "ack", id |-> p.id]) ELSE s2c
  BY SameRegistry DEF HandleResponse
<1> HIDE DEF g, p
<1>5. CASE Parsed(p) = R!None
  BY <1>1, <1>2, <1>3, <1>4, <1>5 DEF RegistryUsed, AnswersKept, p
<1>6. CASE Parsed(p) # R!None
  <2>1. Parsed(p) \in Statuses
    BY <1>1, <1>6, ParsedStatus
  <2>2. /\ RP!Sound(h) /\ h.emitted = g.emitted
        /\ \A q \in Requests :
             h.answer[q] = IF q = p.id /\ RP!Accepts(g, p.id) THEN Parsed(p) ELSE g.answer[q]
    BY <1>1, <1>2, <1>3, <2>1, RP!HandleResponseSound, RP!HandleResponseFields DEF RP!RegistryAssumption
  <2>3. h \in RP!Registry
    BY <2>2 DEF RP!Sound
  <2> HIDE DEF h
  <2>4. reg' = h
    BY <1>4, <1>6
  <2>5. CASE RP!Accepts(g, p.id)
    BY <1>1, <1>2, <1>3, <1>4, <1>6, <2>2, <2>4, <2>5 DEF RegistryUsed, p
  <2>6. CASE ~RP!Accepts(g, p.id)
    <3>1. \A q \in Requests : h.answer[q] = reg.answer[q]
      BY <1>3, <2>2, <2>6
    <3>2. h.answer = reg.answer
      BY <1>2, <2>3, <3>1 DEF RP!Registry
    <3> QED
      BY <1>1, <1>2, <1>3, <1>4, <2>2, <2>4, <2>6, <3>2 DEF RegistryUsed, AnswersKept, p
  <2> QED
    BY <2>5, <2>6
<1> QED
  BY <1>5, <1>6

(* The timer of awaitResponse answers nothing. *)
LEMMA TimeoutTurn ==
  ASSUME HandlerInv, NEW r \in Requests, AwaitTimesOut(r)
  PROVE  RegistryUsed' /\ AnswersKept
<1>1. r \in reg.timers /\ reg' = RP!Timeout(reg, r) /\ asked' = asked
  BY SameRegistry DEF AwaitTimesOut, R!FireTimer
<1>2. RP!Sound(reg) /\ reg \in RP!Registry /\ reg.emitted \subseteq asked /\ RP!RegistryAssumption
  BY RegistryFacts DEF HandlerInv, RegistryUsed
<1>3. RP!Sound(reg') /\ reg'.emitted = reg.emitted /\ reg'.answer = reg.answer
  BY <1>1, <1>2, RP!TimeoutSound, RP!TimeoutFields DEF RP!RegistryAssumption
<1> QED
  BY <1>1, <1>2, <1>3 DEF RegistryUsed, AnswersKept

(* What is under way stays honest while requests are not unasked, stages   *)
(* not begun and answers not taken back.                                   *)
LEMMA StillHonest ==
  ASSUME HandlerInv, asked \subseteq asked',
         \A r \in Requests : stage[r] = "none" => stage'[r] = "none",
         \A r \in Requests : reg.answer[r] # R!None => reg'.answer[r] # R!None
  PROVE  Honest \subseteq Honest' /\ s2c \in Seq(Honest')
<1>1. s2c \in Seq(Honest)
  BY DEF HandlerInv
<1>2. Honest \subseteq Honest'
  BY DEF Honest, Incoming
<1>3. \A i \in 1..Len(s2c) : s2c[i] \in Honest'
  BY <1>1, <1>2, ElementOfSeq
<1> QED
  BY <1>1, <1>2, <1>3, SeqOfAll

LEMMA SettingTypes ==
  ASSUME TypeOK
  PROVE  /\ setting.mode \in [Requests -> Modes] /\ setting.hook \in BOOLEAN
         /\ setting.results \subseteq SUBSET Discriminants
         /\ setting.sdk \in {"react", "coordinator", "approved"}
         /\ setting.fallback \in {"none", "any", "unhandled"}
  BY HandlerAssumption DEF TypeOK, AllSettings

LEMMA HandlerInit == Init => HandlerInv
<1> SUFFICES ASSUME Init PROVE HandlerInv
  OBVIOUS
<1>1. RP!RegistryAssumption
  BY ComponentAssumption, SameRegistry
<1>2. RP!Sound(reg) /\ reg = RP!Empty
  BY <1>1, SameRegistry, RP!EmptySound DEF Init, RP!RegistryAssumption
<1>3. reg.emitted = {}
  BY <1>2 DEF RP!Empty
<1>4. R!TypeOK
  BY <1>2, SameRegistry DEF Init, R!TypeOK, RP!Sound
<1>5. s2c \in Seq(Incoming) /\ s2c \in Seq(Honest) /\ c2s \in Seq(Packets) /\ outbox \in Seq(Packets) /\ Once(s2c)
  BY DEF Init, Once
<1>6. setting.hook \in BOOLEAN /\ MaxUnmounts \in Nat /\ MaxConnections \in Nat \ {0}
  BY HandlerAssumption DEF Init, AllSettings
<1>7. TypeOK
  BY <1>4, <1>5, <1>6 DEF Init, TypeOK, Stages
<1> QED
  BY <1>2, <1>3, <1>5, <1>7 DEF HandlerInv, RegistryUsed, Init

(* The server's part: tool calls, responses and timers.                    *)
LEMMA ServerStep ==
  ASSUME HandlerInv
  PROVE  /\ \A r \in Requests, arrives \in BOOLEAN : Ask(r, arrives) => HandlerInv'
         /\ HandleResponse => HandlerInv'
         /\ \A r \in Requests : AwaitTimesOut(r) => HandlerInv'
         /\ Tick => HandlerInv'
<1>t. TypeOK /\ RegistryUsed /\ s2c \in Seq(Honest) /\ Once(s2c)
  BY DEF HandlerInv
<1>r. RegistryUsed' /\ now' \in Nat => R!TypeOK'
  BY SameRegistry DEF RegistryUsed, RP!Sound, R!TypeOK
<1>1. ASSUME NEW r \in Requests, NEW arrives \in BOOLEAN, Ask(r, arrives) PROVE HandlerInv'
  <2> DEFINE m == [kind |-> "ask", id |-> r]
  <2>1. /\ r \notin asked /\ asked' = asked \cup {r}
        /\ s2c' = Append(s2c, m) \/ s2c' = s2c
        /\ UNCHANGED <<now, setting, up, conn, c2s, hook>> /\ outbox' = outbox
    BY <1>1 DEF Ask
  <2>2. RegistryUsed' /\ AnswersKept
    BY <1>1, AskTurn
  <2>3. stage[r] = "none" /\ stage' = stage
    BY <2>1 DEF HandlerInv, TypeOK, hook
  <2>4. s2c \in Seq(Honest')
    BY <2>1, <2>2, <2>3, StillHonest DEF AnswersKept
  <2>5. m \in Honest' /\ m \in Incoming
    BY <2>1, <2>3 DEF Honest, Incoming
  <2>6. ASSUME NEW i \in 1..Len(s2c), s2c[i].kind = "ask" PROVE s2c[i].id # r
    <3>1. s2c[i] \in Honest
      BY <1>t, ElementOfSeq
    <3> QED
      BY <2>1, <2>6, <3>1 DEF Honest
  <2>7. Append(s2c, m) \in Seq(Honest') /\ Once(Append(s2c, m))
    BY <1>t, <2>4, <2>5, <2>6, OnceAppend
  <2>8. s2c' \in Seq(Honest') /\ Once(s2c)' /\ s2c' \in Seq(Incoming)
    <3>1. Once(s2c')
      BY <1>t, <2>1, <2>7
    <3>2. s2c' \in Seq(Honest')
      BY <2>1, <2>4, <2>7
    <3>3. Honest' \subseteq Incoming
      BY DEF Honest, Incoming
    <3>4. s2c' \in Seq(Incoming)
      BY <3>2, <3>3, SeqOfAll, ElementOfSeq
    <3> QED
      BY <3>1, <3>2, <3>4 DEF Once
  <2>9. TypeOK'
    BY <1>t, <1>r, <2>1, <2>2, <2>8 DEF TypeOK, R!TypeOK, hook, Tracked
  <2> QED
    BY <2>1, <2>2, <2>3, <2>8, <2>9 DEF HandlerInv, hook, AnswersKept
<1>2. ASSUME HandleResponse PROVE HandlerInv'
  <2> DEFINE p == Head(c2s)
             m == [kind |-> "ack", id |-> p.id]
  <2>1. /\ c2s # <<>> /\ c2s' = Tail(c2s) /\ UNCHANGED <<now, asked, setting, up, conn, outbox, hook>>
    BY <1>2 DEF HandleResponse
  <2>2. c2s \in Seq(Packets)
    BY <1>t DEF TypeOK
  <2>3. /\ RegistryUsed' /\ p \in Packets
        /\ \/ AnswersKept /\ s2c' = s2c
           \/ /\ Parsed(p) # R!None
              /\ \A r \in Requests :
                   reg'.answer[r] = IF r = p.id THEN Parsed(p) ELSE reg.answer[r]
              /\ s2c' = Append(s2c, m)
    BY <1>2, <2>2, HandleResponseTurn
  <2>4. c2s' \in Seq(Packets)
    BY <2>1, <2>2, HeadTailProperties
  <2> HIDE DEF p
  <2>5. \A r \in Requests : reg.answer[r] # R!None => reg'.answer[r] # R!None
    BY <2>3 DEF AnswersKept
  <2>6. s2c \in Seq(Honest')
    BY <2>1, <2>5, StillHonest DEF hook
  <2>7. s2c' \in Seq(Honest') /\ Once(s2c')
    <3>1. CASE s2c' = s2c
      BY <1>t, <2>6, <3>1
    <3>2. CASE s2c' # s2c
      <4>1. m \in Honest' /\ m.kind # "ask"
        BY <2>3, <3>2 DEF Honest, Incoming, Packets
      <4> HIDE DEF m
      <4> QED
        BY <1>t, <2>3, <2>6, <3>2, <4>1, OnceAppend
    <3> QED
      BY <3>1, <3>2
  <2>8. s2c' \in Seq(Incoming)
    BY <2>7, SeqOfAll, ElementOfSeq DEF Honest
  <2>9. TypeOK'
    BY <1>t, <1>r, <2>1, <2>3, <2>4, <2>8 DEF TypeOK, R!TypeOK, hook, Tracked
  <2>10. Once(s2c)'
    BY <2>7 DEF Once
  <2>11. \A q \in heard : q \in Requests
    BY <1>t DEF TypeOK
  <2> QED
    BY <2>1, <2>3, <2>5, <2>7, <2>9, <2>10, <2>11 DEF HandlerInv, hook
<1>3. ASSUME RegistryUsed', AnswersKept, now' \in Nat, UNCHANGED <<asked, setting, wire, hook>>
      PROVE  HandlerInv'
  <2>1. s2c' \in Seq(Honest')
    BY <1>3, StillHonest DEF AnswersKept, wire, hook
  <2>2. TypeOK'
    BY <1>t, <1>r, <1>3 DEF TypeOK, wire, hook, Tracked
  <2>3. Once(s2c)'
    BY <1>t, <1>3 DEF Once, wire
  <2> QED
    BY <1>3, <2>1, <2>2, <2>3 DEF HandlerInv, AnswersKept, wire, hook
<1>4. ASSUME NEW r \in Requests, AwaitTimesOut(r) PROVE HandlerInv'
  <2>1. now' \in Nat
    BY <1>4, RegistryFacts DEF AwaitTimesOut, R!FireTimer
  <2> QED
    BY <1>3, <1>4, <2>1, TimeoutTurn DEF AwaitTimesOut
<1>5. ASSUME Tick PROVE HandlerInv'
  <2>1. reg' = reg /\ now' \in Nat /\ UNCHANGED <<asked, setting, wire, hook>>
    BY <1>5, RegistryFacts DEF Tick, R!Tick
  <2> QED
    BY <1>3, <1>t, <2>1 DEF RegistryUsed, AnswersKept
<1> QED
  BY <1>1, <1>2, <1>4, <1>5

(* The response of the client to a request. *)
LEMMA ResponsePacket ==
  ASSUME NEW r \in Requests, NEW active \in SUBSET Discriminants
  PROVE  /\ Response(r, active) \in Packets
         /\ Response(r, active).id = r /\ Response(r, active).active = active
  BY DEF Response, Packets

(* The connection's and the client's part. *)
LEMMA ClientStep ==
  ASSUME HandlerInv
  PROVE  /\ LinkLost => HandlerInv'
         /\ LinkUp => HandlerInv'
         /\ ReceiveRequest => HandlerInv'
         /\ ReceiveAck => HandlerInv'
         /\ \A r \in Requests, decision \in {"allowed", "denied", "expired"} :
              Decide(r, decision) => HandlerInv'
         /\ \A r \in Requests, active \in setting.results : Finish(r, active) => HandlerInv'
         /\ \A r \in Requests : RetryFires(r) => HandlerInv'
         /\ Unmount => HandlerInv'
         /\ Mount => HandlerInv'
         /\ UNCHANGED vars => HandlerInv'
<1> USE HandlerAssumption DEF wire, hook, R!TypeOK, Tracked
<1>t. /\ TypeOK /\ RegistryUsed /\ s2c \in Seq(Honest) /\ Once(s2c)
      /\ \A r \in Requests : stage[r] # "none" => r \in asked
      /\ \A r \in heard : reg.answer[r] # R!None
  BY DEF HandlerInv
<1>s. {"notSupported"} \in SUBSET Discriminants /\ {"allowed"} \in SUBSET Discriminants
  BY DEF Discriminants, StatusOf
<1>p. /\ \A r \in Requests : Response(r, {"notSupported"}) \in Packets /\ Response(r, {"allowed"}) \in Packets
      /\ \A r \in Requests : Response(r, answered[r]) \in Packets
      /\ c2s \in Seq(Packets) /\ outbox \in Seq(Packets)
  BY <1>t, <1>s, ResponsePacket DEF TypeOK
<1>h. ASSUME UNCHANGED <<asked, s2c, reg>>, heard' = heard,
             \A r \in Requests : stage[r] = stage'[r] \/ (stage[r] # "none" /\ stage'[r] # "none"), TypeOK'
      PROVE  HandlerInv'
  <2>1. s2c' \in Seq(Honest')
    BY <1>h, StillHonest
  <2>2. Once(s2c)'
    BY <1>t, <1>h DEF Once
  <2> QED
    BY <1>t, <1>h, <2>1, <2>2 DEF HandlerInv, RegistryUsed
<1>1. ASSUME LinkLost PROVE HandlerInv'
  <2>1. <<>> \in Seq(Honest') /\ <<>> \in Seq(Incoming) /\ <<>> \in Seq(Packets) /\ Len(<<>>) = 0
    OBVIOUS
  <2>2. TypeOK'
    BY <1>t, <1>1, <2>1 DEF LinkLost, TypeOK
  <2>3. Once(s2c)'
    BY <1>1, <2>1 DEF LinkLost, Once
  <2> QED
    BY <1>t, <1>1, <2>1, <2>2, <2>3 DEF LinkLost, HandlerInv, RegistryUsed
<1>2. ASSUME LinkUp PROVE HandlerInv'
  <2>1. <<>> \in Seq(Packets)
    OBVIOUS
  <2>2. TypeOK'
    BY <1>t, <1>2, <2>1 DEF LinkUp, TypeOK
  <2> QED
    BY <1>2, <1>h, <2>2 DEF LinkUp
<1>3. ASSUME ReceiveRequest PROVE HandlerInv'
  <2> DEFINE r == Head(s2c).id
  <2>1. /\ s2c # <<>> /\ Head(s2c).kind = "ask" /\ s2c' = Tail(s2c)
        /\ stage' = stage \/ stage' = [stage EXCEPT ![r] = "checking"]
        /\ Emit(<<Response(r, {"notSupported"})>>) \/ UNCHANGED <<c2s, outbox>>
        /\ UNCHANGED <<reg, now, asked, setting, up, conn, mounted, unmounts, answered,
                       armed, retryAt, repeated, due, heard>>
    BY <1>3 DEF ReceiveRequest
  <2>2. /\ Head(s2c) \in Honest /\ Once(Tail(s2c)) /\ Tail(s2c) \in Seq(Honest)
        /\ \A i \in 1..Len(Tail(s2c)) :
             /\ Tail(s2c)[i] \in Honest
             /\ ~(Tail(s2c)[i].kind = "ask" /\ Tail(s2c)[i].id = r)
    BY <1>t, <2>1, OnceTail
  <2>3. r \in Requests /\ r \in asked /\ stage[r] = "none"
    BY <2>1, <2>2 DEF Honest, Incoming
  <2> HIDE DEF r
  <2>4. c2s' \in Seq(Packets) /\ outbox' \in Seq(Packets)
    BY <1>p, <2>1, <2>3, EmitKeeps
  <2>5. ASSUME NEW i \in 1..Len(Tail(s2c)) PROVE Tail(s2c)[i] \in Honest' /\ Tail(s2c)[i] \in Incoming
    BY <1>t, <2>1, <2>2 DEF Honest, TypeOK
  <2>6. s2c' \in Seq(Honest') /\ s2c' \in Seq(Incoming)
    BY <2>1, <2>2, <2>5, SeqOfAll
  <2>7. Once(s2c)'
    BY <2>1, <2>2 DEF Once
  <2>8. TypeOK'
    BY <1>t, <2>1, <2>3, <2>4, <2>6 DEF TypeOK, Stages
  <2> QED
    BY <1>t, <2>1, <2>3, <2>6, <2>7, <2>8 DEF HandlerInv, RegistryUsed, TypeOK
<1>4. ASSUME ReceiveAck PROVE HandlerInv'
  <2>1. /\ s2c # <<>> /\ Head(s2c).kind = "ack" /\ s2c' = Tail(s2c)
        /\ armed' \subseteq armed /\ heard \subseteq heard' /\ heard' \subseteq heard \cup {Head(s2c).id}
        /\ UNCHANGED <<reg, now, asked, setting, up, conn, c2s, outbox, mounted, unmounts,
                       stage, answered, retryAt, repeated, due>>
    BY <1>4 DEF ReceiveAck
  <2>2. /\ Head(s2c) \in Honest /\ Once(Tail(s2c)) /\ Tail(s2c) \in Seq(Honest)
        /\ \A i \in 1..Len(Tail(s2c)) : Tail(s2c)[i] \in Honest
    BY <1>t, <2>1, OnceTail
  <2>3. Head(s2c).id \in Requests /\ reg.answer[Head(s2c).id] # R!None
    BY <2>1, <2>2 DEF Honest, Incoming
  <2>4. Honest' = Honest /\ Honest \subseteq Incoming
    BY <2>1 DEF Honest
  <2>5. s2c' \in Seq(Honest') /\ s2c' \in Seq(Incoming)
    BY <2>1, <2>2, <2>4, SeqOfAll
  <2>6. Once(s2c)'
    BY <2>1, <2>2 DEF Once
  <2>7. TypeOK'
    BY <1>t, <2>1, <2>3, <2>5 DEF TypeOK
  <2> QED
    BY <1>t, <2>1, <2>3, <2>5, <2>6, <2>7 DEF HandlerInv, RegistryUsed
<1>5. ASSUME NEW r \in Requests, NEW decision \in {"allowed", "denied", "expired"}, Decide(r, decision)
      PROVE  HandlerInv'
  <2>1. /\ stage[r] = "checking"
        /\ stage' = [stage EXCEPT ![r] = "handling"] \/ stage' = [stage EXCEPT ![r] = "over"]
        /\ \/ answered' = [answered EXCEPT ![r] = {"allowed"}] /\ Emit(<<Response(r, {"allowed"})>>)
           \/ UNCHANGED <<answered, c2s, outbox>>
        /\ UNCHANGED <<reg, now, asked, setting, up, conn, s2c, mounted, unmounts,
                       armed, retryAt, repeated, due, heard>>
    BY <1>5 DEF Decide
  <2>2. c2s' \in Seq(Packets) /\ outbox' \in Seq(Packets)
    BY <1>p, <2>1, EmitKeeps
  <2>3. TypeOK'
    BY <1>t, <1>s, <2>1, <2>2 DEF TypeOK, Stages
  <2> QED
    BY <1>t, <1>h, <2>1, <2>3 DEF TypeOK
<1>6. ASSUME NEW r \in Requests, NEW active \in setting.results, Finish(r, active) PROVE HandlerInv'
  <2>1. /\ stage[r] = "handling" /\ stage' = [stage EXCEPT ![r] = "over"]
        /\ UNCHANGED <<reg, now, asked, setting, up, conn, s2c, mounted, unmounts, repeated, heard>>
    BY <1>6 DEF Finish
  <2>2. active \in SUBSET Discriminants /\ Response(r, active) \in Packets
    BY <1>t, SettingTypes, ResponsePacket
  <2>3. /\ Emit(<<Response(r, active)>>) \/ UNCHANGED <<c2s, outbox>>
        /\ answered' = [answered EXCEPT ![r] = active] \/ answered' = answered
    BY <1>6 DEF Finish
  <2>4. \/ UNCHANGED <<armed, retryAt, due>>
        \/ /\ Retriable(r) /\ Tracked(r)
           /\ armed' = armed \cup {r} /\ due' = due \cup {r}
           /\ retryAt' = [retryAt EXCEPT ![r] = Deadline(r) - Second]
    BY <1>6 DEF Finish, Retriable
  <2>5. c2s' \in Seq(Packets) /\ outbox' \in Seq(Packets)
    BY <1>p, <2>2, <2>3, EmitKeeps
  <2>6. Retriable(r) => Deadline(r) - Second \in Nat
    BY RegistryFacts DEF Retriable, Deadline
  <2>7. retryAt' \in [Requests -> Nat]
    BY <1>t, <2>4, <2>6 DEF TypeOK
  <2>8. /\ armed' \subseteq Requests /\ due' \subseteq Requests
        /\ \A q \in armed' : Tracked(q)' /\ stage'[q] = "over"
    BY <1>t, <2>1, <2>4 DEF TypeOK
  <2>9. TypeOK'
    BY <1>t, <2>1, <2>2, <2>3, <2>5, <2>7, <2>8 DEF TypeOK, Stages
  <2> QED
    BY <1>t, <1>h, <2>1, <2>9 DEF TypeOK
<1>7. ASSUME NEW r \in Requests, RetryFires(r) PROVE HandlerInv'
  <2>1. c2s' \in Seq(Packets) /\ outbox' \in Seq(Packets)
    BY <1>p, <1>7, EmitKeeps DEF RetryFires
  <2>2. TypeOK'
    BY <1>t, <1>7, <2>1 DEF TypeOK, RetryFires
  <2> QED
    BY <1>7, <1>h, <2>2 DEF RetryFires
<1>8. ASSUME Unmount PROVE HandlerInv'
  <2>1. unmounts' \in 0..MaxUnmounts
    BY <1>t, <1>8 DEF TypeOK, Unmount
  <2>2. \A r \in armed' : r \in armed
    BY <1>8 DEF Unmount
  <2>3. TypeOK'
    BY <1>t, <1>8, <2>1, <2>2 DEF TypeOK, Unmount
  <2> QED
    BY <1>8, <1>h, <2>3 DEF Unmount
<1>9. ASSUME Mount PROVE HandlerInv'
  <2>1. TypeOK'
    BY <1>t, <1>9 DEF TypeOK, Mount
  <2> QED
    BY <1>9, <1>h, <2>1 DEF Mount
<1>10. ASSUME UNCHANGED vars PROVE HandlerInv'
  <2>1. TypeOK'
    BY <1>t, <1>10 DEF TypeOK, vars
  <2> QED
    BY <1>10, <1>h, <2>1 DEF vars
<1> QED
  BY <1>1, <1>2, <1>3, <1>4, <1>5, <1>6, <1>7, <1>8, <1>9, <1>10

(* Whatever clients, connection and clock do, in whichever order.          *)
THEOREM HandlerInvariant == Safety => []HandlerInv
<1>1. HandlerInv /\ [Next]_vars => HandlerInv'
  BY ServerStep, ClientStep DEF Next
<1> QED
  BY <1>1, HandlerInit, PTL DEF Safety

(* The variables keep their types, and only a request that is over, and    *)
(* whose tool waits for a response, has a retry timer.                     *)
THEOREM HandlerTyped == Safety => []TypeOK
<1>1. HandlerInv => TypeOK
  BY DEF HandlerInv
<1> QED
  BY <1>1, HandlerInvariant, PTL

(* What the client was told has arrived was accepted by the registry       *)
(* (useLocalToolHandler.ts:172-183, listener.ts:655-662).                  *)
THEOREM AcknowledgedIsAccepted == Safety => []AckedMeansAccepted
<1>1. HandlerInv => AckedMeansAccepted
  <2> SUFFICES ASSUME HandlerInv, NEW r \in heard PROVE reg.answers[r] > 0
    BY DEF AckedMeansAccepted
  <2>1. r \in Requests /\ reg.answer[r] # RP!None
    BY SameRegistry DEF HandlerInv, TypeOK
  <2>2. reg.answers[r] \in Nat /\ RP!Answered(reg, r)
    BY <2>1 DEF HandlerInv, RegistryUsed, RP!Sound, RP!SoundAt, RP!Registry
  <2> QED
    BY <2>1, <2>2 DEF RP!Answered
<1> QED
  BY <1>1, HandlerInvariant, PTL

-----------------------------------------------------------------------------
(***************************************************************************)
(* One answer for each request: where a fallback leaves alone the tools a  *)
(* hook or a user's approval answers for.  With a fallback for any tool    *)
(* beside a hook the agent may work with the fallback's answer             *)
(* (useLocalToolHandler.ts:234).                                           *)
(***************************************************************************)
OneResponder ==
  \A s \in Settings : /\ s.fallback = "any" => ~s.hook
                      /\ s.sdk = "approved" => s.fallback = "none"

(* The client's handlers, and not its fallback, answer.                    *)
Handles == setting.hook \/ Approves

(* Responses under way are the handler's.                                  *)
Given == {p \in Packets : Handles => stage[p.id] = "over" /\ p.active = answered[p.id]}

(* The answers of the registry are the handler's, too, and it does not     *)
(* answer twice; what was acknowledged is not repeated.                    *)
AnsweredOnce ==
  /\ mounted => setting.hook
  /\ \A r \in Requests : stage[r] # "none" => Handles
  /\ c2s \in Seq(Given) /\ outbox \in Seq(Given)
  /\ \A r \in Requests : Handles /\ reg.answer[r] # R!None =>
                           stage[r] = "over" /\ reg.answer[r] = Parsed(Response(r, answered[r]))
  /\ \A r \in armed : r \notin heard

NoRepeat == \A r \in repeated' \ repeated : r \notin heard

LEMMA AnsweredOnceInit == Init => AnsweredOnce
<1> SUFFICES ASSUME Init PROVE AnsweredOnce
  OBVIOUS
<1>1. \A r \in Requests : reg.answer[r] = R!None
  BY DEF Init, R!Empty
<1>2. <<>> \in Seq(Given)
  OBVIOUS
<1> QED
  BY <1>1, <1>2 DEF Init, AnsweredOnce

(* A response under way stays the handler's: what is over stays so.        *)
LEMMA GivenKept ==
  ASSUME AnsweredOnce, setting' = setting,
         \A r \in Requests : stage[r] = "over" => stage'[r] = "over" /\ answered'[r] = answered[r]
  PROVE  /\ Given \subseteq Given'
         /\ c2s \in Seq(Given') /\ outbox \in Seq(Given')
<1>1. Given \subseteq Given'
  BY DEF Given, Packets, Handles, Approves
<1>2. (\A i \in 1..Len(c2s) : c2s[i] \in Given') /\ (\A i \in 1..Len(outbox) : outbox[i] \in Given')
  BY <1>1, ElementOfSeq DEF AnsweredOnce
<1> QED
  BY <1>1, <1>2, SeqOfAll DEF AnsweredOnce

LEMMA AnsweredOnceStep ==
  OneResponder /\ HandlerInv /\ AnsweredOnce /\ [Next]_vars => AnsweredOnce' /\ NoRepeat
<1> SUFFICES ASSUME OneResponder, HandlerInv, AnsweredOnce, [Next]_vars
             PROVE  AnsweredOnce' /\ NoRepeat
  OBVIOUS
<1> USE DEF wire, hook, Approves
<1>t. /\ TypeOK /\ s2c \in Seq(Honest) /\ Once(s2c)
      /\ \A r \in Requests : reg.answer[r] # R!None /\ Handles => stage[r] = "over"
      /\ \A r \in heard : r \in Requests /\ reg.answer[r] # R!None
      /\ c2s \in Seq(Given) /\ outbox \in Seq(Given)
  BY DEF HandlerInv, AnsweredOnce, TypeOK
<1>a. ASSUME UNCHANGED <<setting, stage, answered>>, mounted' => setting.hook,
             AnswersKept, armed' \subseteq armed, heard' = heard,
             c2s' \in Seq(Given'), outbox' \in Seq(Given'), repeated' = repeated
      PROVE  AnsweredOnce' /\ NoRepeat
  BY <1>a DEF AnsweredOnce, AnswersKept, Handles, NoRepeat
<1>g. ASSUME UNCHANGED <<setting, stage, answered>>
      PROVE  Given' = Given /\ c2s \in Seq(Given') /\ outbox \in Seq(Given')
  BY <1>t, <1>g DEF Given, Handles
<1>1. ASSUME NEW r \in Requests, NEW arrives \in BOOLEAN, Ask(r, arrives) PROVE AnsweredOnce' /\ NoRepeat
  <2>1. UNCHANGED <<setting, c2s, outbox, hook>>
    BY <1>1 DEF Ask
  <2> QED
    BY <1>1, <1>a, <1>g, <2>1, AskTurn DEF AnsweredOnce
<1>2. ASSUME HandleResponse PROVE AnsweredOnce' /\ NoRepeat
  <2> DEFINE p == Head(c2s)
  <2>1. c2s # <<>> /\ c2s' = Tail(c2s) /\ UNCHANGED <<setting, outbox, hook>>
    BY <1>2 DEF HandleResponse
  <2>2. p \in Given /\ c2s' \in Seq(Given)
    BY <1>t, <2>1, HeadTailProperties
  <2>3. c2s' \in Seq(Given') /\ outbox' \in Seq(Given')
    BY <1>g, <2>1, <2>2
  <2>4. \/ AnswersKept
        \/ /\ Parsed(p) # R!None
           /\ \A r \in Requests : reg'.answer[r] = IF r = p.id THEN Parsed(p) ELSE reg.answer[r]
    BY <1>t, <1>2, HandleResponseTurn DEF TypeOK
  <2>5. CASE AnswersKept
    BY <1>a, <2>1, <2>3, <2>5 DEF AnsweredOnce
  <2>6. CASE ~AnswersKept
    <3> HIDE DEF p
    <3>1. p \in Packets /\ (Handles => stage[p.id] = "over" /\ p.active = answered[p.id])
      BY <2>2 DEF Given
    <3>2. Handles => Parsed(p) = Parsed(Response(p.id, answered[p.id]))
      <4>1. p = Response(p.id, p.active)
        BY <3>1 DEF Packets, Response
      <4> QED
        BY <3>1, <4>1
    <3>3. ASSUME NEW r \in Requests, Handles, reg'.answer[r] # R!None
          PROVE  stage[r] = "over" /\ reg'.answer[r] = Parsed(Response(r, answered[r]))
      <4>1. CASE r = p.id
        BY <2>4, <2>6, <3>1, <3>2, <3>3, <4>1
      <4>2. CASE r # p.id
        BY <2>4, <2>6, <3>3, <4>2 DEF AnsweredOnce
      <4> QED
        BY <4>1, <4>2
    <3>4. \A r \in Requests : Parsed(Response(r, answered[r]))' = Parsed(Response(r, answered[r]))
      BY <2>1 DEF Parsed, Response
    <3>5. AnsweredOnce'
      BY <2>1, <2>3, <3>3, <3>4 DEF AnsweredOnce, Handles
    <3> QED
      BY <2>1, <3>5 DEF NoRepeat
  <2> QED
    BY <2>5, <2>6
<1>3. ASSUME NEW r \in Requests, AwaitTimesOut(r) PROVE AnsweredOnce' /\ NoRepeat
  <2>1. UNCHANGED <<setting, wire, hook>>
    BY <1>3 DEF AwaitTimesOut
  <2> QED
    BY <1>3, <1>a, <1>g, <2>1, TimeoutTurn DEF AnsweredOnce
<1>4. ASSUME Tick \/ UNCHANGED vars PROVE AnsweredOnce' /\ NoRepeat
  <2>1. reg' = reg /\ UNCHANGED <<setting, wire, hook>>
    BY <1>4 DEF Tick, R!Tick, vars
  <2> QED
    BY <1>a, <1>g, <2>1 DEF AnsweredOnce, AnswersKept
<1>5. ASSUME LinkLost PROVE AnsweredOnce' /\ NoRepeat
  <2>1. <<>> \in Seq(Given')
    OBVIOUS
  <2> QED
    BY <1>5, <1>a, <1>g, <2>1 DEF LinkLost, AnsweredOnce, AnswersKept
<1>6. ASSUME LinkUp PROVE AnsweredOnce' /\ NoRepeat
  <2>1. <<>> \in Seq(Given')
    OBVIOUS
  <2> QED
    BY <1>6, <1>a, <1>g, <2>1 DEF LinkUp, AnsweredOnce, AnswersKept
<1>7. ASSUME Mount \/ Unmount PROVE AnsweredOnce' /\ NoRepeat
  <2>1. /\ UNCHANGED <<reg, setting, wire, stage, answered, repeated, heard>>
        /\ armed' \subseteq armed /\ (mounted' => setting.hook)
    BY <1>7 DEF Mount, Unmount, AnsweredOnce
  <2>2. c2s' \in Seq(Given') /\ outbox' \in Seq(Given')
    BY <1>g, <2>1
  <2>3. AnswersKept
    BY <2>1 DEF AnswersKept
  <2> QED
    BY <1>a, <2>1, <2>2, <2>3
<1>8. ASSUME ReceiveRequest PROVE AnsweredOnce' /\ NoRepeat
  <2> DEFINE r == Head(s2c).id
             n == Response(r, {"notSupported"})
  <2>1. /\ s2c # <<>> /\ Head(s2c).kind = "ask"
        /\ stage' = IF Takes(r) THEN [stage EXCEPT ![r] = "checking"] ELSE stage
        /\ IF FallbackAnswers(r) THEN Emit(<<n>>) ELSE UNCHANGED <<c2s, outbox>>
        /\ UNCHANGED <<reg, setting, mounted, answered, armed, repeated, heard>>
    BY <1>8 DEF ReceiveRequest
  <2>2. Head(s2c) \in Honest
    BY <1>t, <2>1, HeadTailProperties
  <2>3. r \in Requests /\ stage[r] = "none"
    BY <2>1, <2>2 DEF Honest, Incoming
  <2>4. n \in Packets
    BY <2>3, ResponsePacket DEF Discriminants, StatusOf
  <2> HIDE DEF r, n
  <2>5. c2s \in Seq(Given') /\ outbox \in Seq(Given')
    BY <1>t, <2>1, <2>3, GivenKept DEF TypeOK
  <2>6. FallbackAnswers(r) => ~Handles
    BY <1>t DEF OneResponder, FallbackAnswers, Handles, TypeOK
  <2>7. FallbackAnswers(r) => n \in Given'
    BY <2>1, <2>4, <2>6 DEF Given, Handles
  <2>8. c2s' \in Seq(Given') /\ outbox' \in Seq(Given')
    BY <2>1, <2>5, <2>7, EmitKeeps
  <2>9. Takes(r) => Handles
    BY DEF Takes, AnsweredOnce, Handles
  <2>10. \A q \in Requests : stage'[q] # "none" => Handles
    BY <1>t, <2>1, <2>3, <2>9 DEF AnsweredOnce, TypeOK
  <2>11. \A q \in Requests : stage[q] = "over" => stage'[q] = "over"
    BY <1>t, <2>1, <2>3 DEF TypeOK
  <2>12. AnsweredOnce'
    BY <2>1, <2>8, <2>10, <2>11 DEF AnsweredOnce, Handles
  <2> QED
    BY <2>1, <2>12 DEF NoRepeat
<1>9. ASSUME ReceiveAck PROVE AnsweredOnce' /\ NoRepeat
  <2>1. /\ armed' = (IF mounted THEN armed \ {Head(s2c).id} ELSE armed)
        /\ heard' = (IF mounted THEN heard \cup {Head(s2c).id} ELSE heard)
        /\ UNCHANGED <<reg, setting, c2s, outbox, mounted, stage, answered, repeated>>
    BY <1>9 DEF ReceiveAck
  <2> QED
    BY <1>g, <2>1 DEF AnsweredOnce, Handles, NoRepeat
<1>10. ASSUME NEW r \in Requests, NEW decision \in {"allowed", "denied", "expired"}, Decide(r, decision)
       PROVE  AnsweredOnce' /\ NoRepeat
  <2> DEFINE n == Response(r, {"allowed"})
  <2>1. /\ stage[r] = "checking" /\ stage'[r] # "none"
        /\ \A q \in Requests \ {r} : stage'[q] = stage[q] /\ answered'[q] = answered[q]
        /\ \/ stage'[r] = "over" /\ answered'[r] = {"allowed"} /\ Emit(<<n>>)
           \/ UNCHANGED <<c2s, outbox>>
        /\ UNCHANGED <<reg, setting, mounted, armed, repeated, heard>>
    BY <1>t, <1>10 DEF Decide, TypeOK
  <2>2. n \in Packets /\ n.id = r /\ n.active = {"allowed"}
    BY ResponsePacket DEF Discriminants, StatusOf
  <2> HIDE DEF n
  <2>3. c2s \in Seq(Given') /\ outbox \in Seq(Given')
    BY <2>1, GivenKept
  <2>4. stage'[r] = "over" /\ answered'[r] = {"allowed"} => n \in Given'
    BY <2>2 DEF Given
  <2>5. c2s' \in Seq(Given') /\ outbox' \in Seq(Given')
    BY <2>1, <2>3, <2>4, EmitKeeps
  <2>6. Handles /\ reg.answer[r] = R!None
    BY <1>t, <2>1 DEF AnsweredOnce
  <2>7. AnsweredOnce'
    BY <2>1, <2>5, <2>6 DEF AnsweredOnce, Handles, Response
  <2> QED
    BY <2>1, <2>7 DEF NoRepeat
<1>11. ASSUME NEW r \in Requests, NEW active \in setting.results, Finish(r, active)
       PROVE  AnsweredOnce' /\ NoRepeat
  <2> DEFINE n == Response(r, active)
  <2>1. /\ stage[r] = "handling" /\ stage'[r] = "over"
        /\ \A q \in Requests \ {r} : stage'[q] = stage[q] /\ answered'[q] = answered[q]
        /\ \/ answered'[r] = active /\ Emit(<<n>>)
           \/ UNCHANGED <<c2s, outbox>>
        /\ armed' \subseteq armed \cup {r}
        /\ UNCHANGED <<reg, setting, mounted, repeated, heard>>
    BY <1>t, <1>11 DEF Finish, TypeOK
  <2>2. n \in Packets /\ n.id = r /\ n.active = active
    BY <1>t, SettingTypes, ResponsePacket
  <2> HIDE DEF n
  <2>3. c2s \in Seq(Given') /\ outbox \in Seq(Given')
    BY <2>1, GivenKept
  <2>4. answered'[r] = active => n \in Given'
    BY <2>1, <2>2 DEF Given
  <2>5. c2s' \in Seq(Given') /\ outbox' \in Seq(Given')
    BY <2>1, <2>3, <2>4, EmitKeeps
  <2>6. Handles /\ reg.answer[r] = R!None /\ r \notin heard
    BY <1>t, <2>1 DEF AnsweredOnce
  <2>7. AnsweredOnce'
    BY <2>1, <2>5, <2>6 DEF AnsweredOnce, Handles, Response
  <2> QED
    BY <2>1, <2>7 DEF NoRepeat
<1>12. ASSUME NEW r \in Requests, RetryFires(r) PROVE AnsweredOnce' /\ NoRepeat
  <2> DEFINE n == Response(r, answered[r])
  <2>1. /\ r \in armed /\ armed' \subseteq armed /\ repeated' = repeated \cup {r} /\ Emit(<<n>>)
        /\ UNCHANGED <<reg, setting, mounted, stage, answered, heard>>
    BY <1>12 DEF RetryFires
  <2>2. n \in Given'
    BY <1>t, <2>1, ResponsePacket DEF Given, TypeOK
  <2> HIDE DEF n
  <2>3. c2s' \in Seq(Given') /\ outbox' \in Seq(Given')
    BY <1>g, <2>1, <2>2, EmitKeeps
  <2>4. AnsweredOnce'
    BY <2>1, <2>3 DEF AnsweredOnce, Handles
  <2> QED
    BY <2>1, <2>4 DEF NoRepeat, AnsweredOnce
<1> QED
  BY <1>1, <1>2, <1>3, <1>4, <1>5, <1>6, <1>7, <1>8, <1>9, <1>10, <1>11, <1>12 DEF Next

(* The handler's answer is the only one in flight and in the registry.     *)
THEOREM AnsweredOnceInvariant == ASSUME OneResponder PROVE Safety => []AnsweredOnce
<1>1. HandlerInv /\ HandlerInv' /\ AnsweredOnce /\ [Next]_vars => AnsweredOnce'
  BY OneResponder, AnsweredOnceStep
<1> QED
  BY <1>1, AnsweredOnceInit, HandlerInvariant, PTL DEF Safety

(* Repeated, late or denied: where one of them answers, the answer the     *)
(* agent works with is the one of the hook that took the request           *)
(* (useLocalToolHandler.ts:90-170, registry.ts:285-330).                   *)
THEOREM AnswerIsTheHandlers == ASSUME OneResponder PROVE Safety => []HandlerAnswerPrevails
<1>1. HandlerInv /\ AnsweredOnce => HandlerAnswerPrevails
  <2> SUFFICES ASSUME HandlerInv, AnsweredOnce, NEW r \in Requests,
                      stage[r] # "none", reg.answer[r] # R!None
               PROVE  answered[r] # {} /\ reg.answer[r] = Parsed(Response(r, answered[r]))
    BY DEF HandlerAnswerPrevails
  <2>1. reg.answer[r] = Parsed(Response(r, answered[r]))
    BY DEF AnsweredOnce
  <2>2. answered[r] \in SUBSET Discriminants
    BY DEF HandlerInv, TypeOK
  <2>3. Response(r, answered[r]).active # {}
    BY <2>1, <2>2, ResponsePacket, ParsedStatus
  <2> QED
    BY <2>1, <2>2, <2>3, ResponsePacket
<1> QED
  BY <1>1, AnsweredOnceInvariant, HandlerInvariant, PTL

(* A retry timer never repeats what was acknowledged, on whichever         *)
(* connection the acknowledgement came (useLocalToolHandler.ts:140-183).   *)
THEOREM AcknowledgedIsNotRepeated == ASSUME OneResponder PROVE Safety => NoRepeatAfterAck
<1>1. HandlerInv /\ AnsweredOnce /\ [Next]_vars => [NoRepeat]_vars
  BY OneResponder, AnsweredOnceStep
<1>2. Safety => [][NoRepeat]_vars
  BY <1>1, HandlerInvariant, AnsweredOnceInvariant, PTL DEF Safety
<1> QED
  BY <1>2 DEF NoRepeatAfterAck, NoRepeat
=============================================================================

------------------------ MODULE StreamClientProofs -------------------------
(***************************************************************************)
(* Proofs about StreamClient, for any number of messages, runs, chunks and *)
(* broken links, and for both libraries: what the screen shows of a run is *)
(* a piece of what the run said, and in the web client an answer is on one *)
(* message of its own.                                                     *)
(***************************************************************************)
EXTENDS StreamClient, SequenceTheorems, TLAPS

-----------------------------------------------------------------------------
(***************************************************************************)
(* Sequences by position.                                                  *)
(***************************************************************************)
(* Something is appended.                                                  *)
LEMMA Appending ==
  ASSUME NEW S, NEW s \in Seq(S), NEW p \in S
  PROVE  /\ Append(s, p) \in Seq(S) /\ Len(s) \in Nat
         /\ DOMAIN s = 1..Len(s) /\ DOMAIN Append(s, p) = 1..(Len(s) + 1)
         /\ Append(s, p)[Len(s) + 1] = p
         /\ \A i \in 1..Len(s) : Append(s, p)[i] = s[i]
<1>1. Append(s, p) \in Seq(S) /\ Len(s) \in Nat /\ Len(Append(s, p)) = Len(s) + 1
  BY AppendProperties, LenProperties
<1>2. DOMAIN s = 1..Len(s) /\ DOMAIN Append(s, p) = 1..(Len(s) + 1)
  BY <1>1, LenProperties
<1> QED
  BY <1>1, <1>2, AppendProperties

(* The first element is taken.                                             *)
LEMMA Taking ==
  ASSUME NEW S, NEW s \in Seq(S), s # <<>>
  PROVE  /\ Head(s) \in S /\ Head(s) = s[1] /\ Tail(s) \in Seq(S) /\ Len(s) \in Nat \ {0}
         /\ DOMAIN s = 1..Len(s) /\ DOMAIN Tail(s) = 1..(Len(s) - 1)
         /\ \A i \in 1..(Len(s) - 1) : Tail(s)[i] = s[i + 1]
<1>1. /\ Head(s) \in S /\ Tail(s) \in Seq(S) /\ Len(Tail(s)) = Len(s) - 1
      /\ \A i \in 1..Len(Tail(s)) : Tail(s)[i] = s[i + 1]
  BY HeadTailProperties
<1>2. Len(s) \in Nat \ {0} /\ DOMAIN s = 1..Len(s) /\ DOMAIN Tail(s) = 1..(Len(s) - 1)
  BY <1>1, EmptySeq, LenProperties
<1> QED
  BY <1>1, <1>2

(* The rest is cut off.                                                    *)
LEMMA Cutting ==
  ASSUME NEW S, NEW s \in Seq(S), NEW n \in 0..Len(s)
  PROVE  /\ SubSeq(s, 1, n) \in Seq(S) /\ Len(s) \in Nat
         /\ DOMAIN s = 1..Len(s) /\ DOMAIN SubSeq(s, 1, n) = 1..n
         /\ \A i \in 1..n : SubSeq(s, 1, n)[i] = s[i]
<1>1. Len(s) \in Nat /\ DOMAIN s = 1..Len(s) /\ n \in Nat /\ n <= Len(s)
  BY LenProperties
<1>2. \A i \in 1..n : s[i] \in S
  BY <1>1, ElementOfSeq
<1>3. /\ SubSeq(s, 1, n) \in Seq(S)
      /\ Len(SubSeq(s, 1, n)) = IF 1 <= n THEN n - 1 + 1 ELSE 0
      /\ \A i \in 1..(n - 1 + 1) : SubSeq(s, 1, n)[i] = s[1 + i - 1]
  BY <1>1, <1>2, SubSeqProperties
<1>4. Len(SubSeq(s, 1, n)) = n /\ n - 1 + 1 = n
  BY <1>1, <1>3
<1>5. DOMAIN SubSeq(s, 1, n) = 1..n
  BY <1>3, <1>4, LenProperties
<1>6. ASSUME NEW i \in 1..n PROVE SubSeq(s, 1, n)[i] = s[i]
  BY <1>1, <1>3, <1>4
<1> QED
  BY <1>1, <1>3, <1>5, <1>6

(* Others follow.                                                          *)
LEMMA Joining ==
  ASSUME NEW S, NEW s \in Seq(S), NEW t \in Seq(S)
  PROVE  /\ s \o t \in Seq(S) /\ Len(s) \in Nat /\ Len(t) \in Nat
         /\ DOMAIN s = 1..Len(s) /\ DOMAIN t = 1..Len(t)
         /\ DOMAIN (s \o t) = 1..(Len(s) + Len(t))
         /\ \A i \in 1..Len(s) : (s \o t)[i] = s[i]
         /\ \A i \in 1..Len(t) : (s \o t)[Len(s) + i] = t[i]
<1> DEFINE u == s \o t
<1>1. /\ u \in Seq(S) /\ Len(u) = Len(s) + Len(t) /\ Len(s) \in Nat /\ Len(t) \in Nat
      /\ \A i \in 1..(Len(s) + Len(t)) : u[i] = IF i <= Len(s) THEN s[i] ELSE t[i - Len(s)]
  BY ConcatProperties, LenProperties
<1>2. DOMAIN s = 1..Len(s) /\ DOMAIN t = 1..Len(t) /\ DOMAIN u = 1..(Len(s) + Len(t))
  BY <1>1, LenProperties
<1> HIDE DEF u
<1>3. \A i \in 1..Len(s) : u[i] = s[i]
  BY <1>1
<1>4. ASSUME NEW i \in 1..Len(t) PROVE u[Len(s) + i] = t[i]
  <2>1. Len(s) + i \in 1..(Len(s) + Len(t)) /\ ~(Len(s) + i <= Len(s)) /\ Len(s) + i - Len(s) = i
    BY <1>1
  <2> QED
    BY <1>1, <2>1
<1> QED
  BY <1>1, <1>2, <1>3, <1>4 DEF u

-----------------------------------------------------------------------------
(***************************************************************************)
(* Packets and tasks, and the chunks among them.                           *)
(***************************************************************************)
Packets ==
  [kind : {"connect", "disconnect", "inactive", "version", "connect_error", "cleared", "error"}]
    \cup [kind : {"working"}, on : BOOLEAN] \cup [kind : {"token"}, run : Runs]
    \cup {p \in [kind : {"response"}, run : Runs, part : 1..Chunks, done : BOOLEAN] : p.done <=> p.part = Chunks}
Looks == [kind : {"observe"}, on : BOOLEAN]

Part(p, r, n) == p.kind = "response" /\ p.run = r /\ p.part = n
In(s, r, n)   == \E i \in DOMAIN s : Part(s[i], r, n)
Ordered(s) ==
  \A i, j \in DOMAIN s : i < j =>
    \A r \in Runs, m, n \in 1..Chunks : Part(s[i], r, m) /\ Part(s[j], r, n) => m < n

(* What is appended comes last.                                            *)
LEMMA InAppended ==
  ASSUME NEW S, NEW s \in Seq(S), NEW p \in S
  PROVE  /\ \A r, n : In(Append(s, p), r, n) <=> In(s, r, n) \/ Part(p, r, n)
         /\ Ordered(s) /\ (\A r \in Runs, m, n \in 1..Chunks : In(s, r, m) /\ Part(p, r, n) => m < n)
              => Ordered(Append(s, p))
<1> DEFINE u == Append(s, p)
           l == Len(s)
<1>1. /\ l \in Nat /\ DOMAIN s = 1..l /\ DOMAIN u = 1..(l + 1)
      /\ u[l + 1] = p /\ \A i \in 1..l : u[i] = s[i]
  BY Appending
<1> HIDE DEF u, l
<1>2. ASSUME NEW r, NEW n PROVE In(u, r, n) <=> In(s, r, n) \/ Part(p, r, n)
  BY <1>1 DEF In
<1>3. ASSUME Ordered(s), \A r \in Runs, m, n \in 1..Chunks : In(s, r, m) /\ Part(p, r, n) => m < n
      PROVE  Ordered(u)
  <2> SUFFICES ASSUME NEW i \in DOMAIN u, NEW j \in DOMAIN u, i < j,
                      NEW r \in Runs, NEW m \in 1..Chunks, NEW n \in 1..Chunks,
                      Part(u[i], r, m), Part(u[j], r, n)
               PROVE  m < n
    BY DEF Ordered
  <2>1. i \in DOMAIN s /\ u[i] = s[i] /\ In(s, r, m)
    BY <1>1 DEF In
  <2>2. CASE j = l + 1
    BY <1>1, <1>3, <2>1, <2>2
  <2>3. CASE j # l + 1
    <3>1. j \in DOMAIN s /\ u[j] = s[j]
      BY <1>1, <2>3
    <3> QED
      BY <1>3, <2>1, <3>1 DEF Ordered
  <2> QED
    BY <2>2, <2>3
<1> QED
  BY <1>2, <1>3 DEF u

(* What is taken comes first.                                              *)
LEMMA InTaken ==
  ASSUME NEW S, NEW s \in Seq(S), s # <<>>
  PROVE  /\ \A r, n : In(s, r, n) <=> In(Tail(s), r, n) \/ Part(Head(s), r, n)
         /\ Ordered(s) =>
              /\ Ordered(Tail(s))
              /\ \A r \in Runs, m, n \in 1..Chunks : Part(Head(s), r, m) /\ In(Tail(s), r, n) => m < n
<1> DEFINE u == Tail(s)
           l == Len(s)
<1>1. /\ l \in Nat \ {0} /\ DOMAIN s = 1..l /\ DOMAIN u = 1..(l - 1)
      /\ Head(s) = s[1] /\ \A i \in 1..(l - 1) : u[i] = s[i + 1]
  BY Taking
<1> HIDE DEF u, l
<1>2. /\ \A i \in DOMAIN u : i + 1 \in DOMAIN s /\ u[i] = s[i + 1] /\ 1 < i + 1
      /\ 1 \in DOMAIN s
      /\ \A i \in DOMAIN s : i = 1 \/ (i - 1 \in DOMAIN u /\ u[i - 1] = s[i])
  BY <1>1
<1>3. ASSUME NEW r, NEW n PROVE In(s, r, n) <=> In(u, r, n) \/ Part(Head(s), r, n)
  BY <1>1, <1>2 DEF In
<1>4. ASSUME Ordered(s) PROVE Ordered(u)
  <2> SUFFICES ASSUME NEW i \in DOMAIN u, NEW j \in DOMAIN u, i < j,
                      NEW r \in Runs, NEW m \in 1..Chunks, NEW n \in 1..Chunks,
                      Part(u[i], r, m), Part(u[j], r, n)
               PROVE  m < n
    BY DEF Ordered
  <2>1. i + 1 < j + 1 /\ i + 1 \in DOMAIN s /\ j + 1 \in DOMAIN s
    BY <1>1, <1>2
  <2> QED
    BY <1>2, <1>4, <2>1 DEF Ordered
<1>5. ASSUME Ordered(s), NEW r \in Runs, NEW m \in 1..Chunks, NEW n \in 1..Chunks,
             Part(Head(s), r, m), In(u, r, n)
      PROVE  m < n
  <2>1. PICK j \in DOMAIN u : Part(u[j], r, n)
    BY <1>5 DEF In
  <2>2. 1 \in DOMAIN s /\ j + 1 \in DOMAIN s /\ 1 < j + 1 /\ Part(s[1], r, m) /\ Part(s[j + 1], r, n)
    BY <1>1, <1>2, <1>5, <2>1
  <2> QED
    BY <1>5, <2>2 DEF Ordered
<1> QED
  BY <1>3, <1>4, <1>5 DEF u

(* What is cut off would have come later.                                  *)
LEMMA InCut ==
  ASSUME NEW S, NEW s \in Seq(S), NEW l \in 0..Len(s)
  PROVE  LET u == SubSeq(s, 1, l)
         IN  /\ \A r, n : In(u, r, n) => In(s, r, n)
             /\ Ordered(s) =>
                  /\ Ordered(u)
                  /\ \A r \in Runs, m, n \in 1..Chunks : In(u, r, m) /\ In(s, r, n) /\ ~In(u, r, n) => m < n
<1> DEFINE u == SubSeq(s, 1, l)
<1>1. Len(s) \in Nat /\ DOMAIN s = 1..Len(s) /\ DOMAIN u = 1..l /\ \A i \in 1..l : u[i] = s[i]
  BY Cutting
<1> HIDE DEF u
<1>2. \A i \in DOMAIN u : i \in DOMAIN s /\ u[i] = s[i]
  BY <1>1
<1>3. Ordered(s) => Ordered(u)
  BY <1>2 DEF Ordered
<1>4. ASSUME NEW r, NEW n, In(u, r, n) PROVE In(s, r, n)
  BY <1>2, <1>4 DEF In
<1>5. ASSUME Ordered(s), NEW r \in Runs, NEW m \in 1..Chunks, NEW n \in 1..Chunks,
             In(u, r, m), In(s, r, n), ~In(u, r, n)
      PROVE  m < n
  <2>1. PICK i \in DOMAIN u : Part(u[i], r, m)
    BY <1>5 DEF In
  <2>2. PICK j \in DOMAIN s : Part(s[j], r, n)
    BY <1>5 DEF In
  <2>3. ~(j <= l)
    BY <1>1, <1>5, <2>2 DEF In
  <2>4. i < j
    BY <1>1, <2>3
  <2> QED
    BY <1>2, <1>5, <2>1, <2>2, <2>4 DEF Ordered
<1> QED
  BY <1>3, <1>4, <1>5 DEF u

(* Others follow that are no chunks.                                       *)
LEMMA InJoined ==
  ASSUME NEW S, NEW s \in Seq(S), NEW t \in Seq(S), \A i \in DOMAIN t : t[i].kind # "response"
  PROVE  /\ \A r, n : In(s \o t, r, n) <=> In(s, r, n)
         /\ Ordered(s) => Ordered(s \o t)
<1> DEFINE u == s \o t
           l == Len(s)
<1>1. /\ l \in Nat /\ Len(t) \in Nat /\ DOMAIN s = 1..l /\ DOMAIN t = 1..Len(t)
      /\ DOMAIN u = 1..(l + Len(t)) /\ \A i \in 1..l : u[i] = s[i]
      /\ \A i \in 1..Len(t) : u[l + i] = t[i]
  BY Joining
<1> HIDE DEF u, l
<1>2. /\ \A i \in DOMAIN s : i \in DOMAIN u /\ u[i] = s[i]
      /\ \A i \in DOMAIN u : (i \in DOMAIN s /\ u[i] = s[i]) \/ u[i].kind # "response"
  <2>1. ASSUME NEW i \in DOMAIN u, ~(i \in DOMAIN s) PROVE u[i].kind # "response"
    <3>1. i - l \in DOMAIN t /\ l + (i - l) = i
      BY <1>1, <2>1
    <3> QED
      BY <1>1, <3>1
  <2> QED
    BY <1>1, <2>1
<1>3. \A r, n : In(u, r, n) <=> In(s, r, n)
  BY <1>2 DEF In, Part
<1>4. Ordered(s) => Ordered(u)
  BY <1>2 DEF Ordered, Part
<1> QED
  BY <1>3, <1>4 DEF u

(* Nothing is in the empty sequence.                                       *)
LEMMA InEmpty == (\A r, n : ~In(<<>>, r, n)) /\ Ordered(<<>>) /\ DOMAIN <<>> = {}
<1>1. DOMAIN <<>> = {}
  BY EmptySeq, LenProperties
<1> QED
  BY <1>1 DEF In, Ordered

-----------------------------------------------------------------------------
(***************************************************************************)
(* The screen.                                                             *)
(***************************************************************************)
(* A screen u that shows what ms shows and after it e, as part j of its    *)
(* last message i.                                                         *)
Extended(ms, u, i, j, e) ==
  /\ i \in DOMAIN u /\ j \in DOMAIN u[i].parts /\ u[i].parts[j] = e /\ j \in Nat
  /\ i = Len(u) /\ i \in Nat \ {0} /\ DOMAIN u = 1..i
  /\ DOMAIN ms \subseteq 1..i /\ 1..i \subseteq DOMAIN ms \cup {i}
  /\ \A k \in DOMAIN ms : \A l \in DOMAIN ms[k].parts :
       /\ l \in DOMAIN u[k].parts /\ u[k].parts[l] = ms[k].parts[l] /\ l \in Nat
       /\ k < i \/ (k = i /\ l < j)
  /\ \A k \in DOMAIN u : \A l \in DOMAIN u[k].parts :
       (k = i /\ l = j) \/ (k \in DOMAIN ms /\ l \in DOMAIN ms[k].parts)
  /\ \A k \in DOMAIN ms : k # i => u[k] = ms[k]

(* What there is of a message.                                             *)
LEMMA MessageFacts ==
  ASSUME NEW m \in Messages
  PROVE  /\ m = [role |-> m.role, parts |-> m.parts, streaming |-> m.streaming]
         /\ m.streaming \in BOOLEAN /\ m.role \in {"user", "assistant"}
         /\ \A j \in DOMAIN m.parts : j \in Nat /\ m.parts[j] \in Runs \X (0..Chunks)
         /\ m.role = "assistant" => m.parts \in Seq(Runs \X (1..Chunks))
         /\ m.role = "user" => DOMAIN m.parts = {1} /\ m.parts[1][2] = 0 /\ ~m.streaming
<1>0. Chunks \in Nat
  BY StreamAssumption
<1>1. CASE m \in [role : {"user"}, parts : {<<<<r, 0>>>> : r \in Typed}, streaming : {FALSE}]
  <2>1. PICK r \in Typed : m.parts = <<<<r, 0>>>>
    BY <1>1
  <2>2. DOMAIN m.parts = {1} /\ m.parts[1] = <<r, 0>> /\ r \in Runs /\ 0 \in 0..Chunks
    BY <1>0, <2>1 DEF Runs
  <2>3. m.parts[1][2] = 0 /\ \A j \in DOMAIN m.parts : j \in Nat /\ m.parts[j] \in Runs \X (0..Chunks)
    BY <2>2
  <2>4. m = [role |-> m.role, parts |-> m.parts, streaming |-> m.streaming] /\ m.role = "user" /\ m.streaming = FALSE
    BY <1>1
  <2> QED
    BY <2>2, <2>3, <2>4
<1>2. CASE m \in [role : {"assistant"}, parts : Seq(Runs \X (1..Chunks)), streaming : BOOLEAN]
  <2>1. m.parts \in Seq(Runs \X (1..Chunks)) /\ m.role = "assistant" /\ m.streaming \in BOOLEAN
    BY <1>2
  <2>2. DOMAIN m.parts = 1..Len(m.parts) /\ Len(m.parts) \in Nat
    BY <2>1, LenProperties
  <2>3. ASSUME NEW j \in DOMAIN m.parts PROVE j \in Nat /\ m.parts[j] \in Runs \X (0..Chunks)
    <3>1. m.parts[j] \in Runs \X (1..Chunks)
      BY <2>1, <2>2, ElementOfSeq
    <3>2. 1..Chunks \subseteq 0..Chunks
      BY <1>0
    <3> QED
      BY <2>2, <3>1, <3>2
  <2> QED
    BY <1>2, <2>1, <2>3
<1> QED
  BY <1>1, <1>2 DEF Messages

(* A message of the user is added to the screen.                           *)
LEMMA Said ==
  ASSUME NEW ms \in Seq(Messages), NEW r \in Typed
  PROVE  LET u == Append(ms, Message("user", <<<<r, 0>>>>, FALSE))
         IN  /\ u \in Seq(Messages) /\ Extended(ms, u, Len(u), 1, <<r, 0>>)
             /\ Len(u) \notin DOMAIN ms /\ u[Len(u)].role = "user" /\ ~u[Len(u)].streaming
<1> DEFINE m == Message("user", <<<<r, 0>>>>, FALSE)
           u == Append(ms, m)
           l == Len(ms)
<1>1. /\ m \in Messages /\ DOMAIN m.parts = {1} /\ m.parts[1] = <<r, 0>>
      /\ m.role = "user" /\ ~m.streaming
  BY DEF Message, Messages
<1> HIDE DEF m
<1>2. /\ u \in Seq(Messages) /\ l \in Nat /\ DOMAIN ms = 1..l /\ DOMAIN u = 1..(l + 1)
      /\ u[l + 1] = m /\ \A i \in 1..l : u[i] = ms[i]
  BY <1>1, Appending
<1>3. Len(u) = l + 1
  BY <1>1, AppendProperties
<1> HIDE DEF u, l
<1>4. Extended(ms, u, Len(u), 1, <<r, 0>>)
  <2>1. \A k \in DOMAIN ms : \A j \in DOMAIN ms[k].parts : j \in Nat
    BY ElementOfSeq, MessageFacts
  <2> QED
    BY <1>1, <1>2, <1>3, <2>1 DEF Extended
<1>5. /\ u \in Seq(Messages) /\ Extended(ms, u, Len(u), 1, <<r, 0>>)
      /\ Len(u) \notin DOMAIN ms /\ u[Len(u)].role = "user" /\ ~u[Len(u)].streaming
  <2>1. Len(u) \notin DOMAIN ms
    BY <1>2, <1>3
  <2> QED
    BY <1>1, <1>2, <1>3, <1>4, <2>1
<1> QED
  BY <1>5 DEF u, m

(* A chunk is added to the screen.                                         *)
LEMMA Answered ==
  ASSUME NEW ms \in Seq(Messages), NEW p \in Packets, p.kind = "response"
  PROVE  LET u == Appended(ms, p)
         IN  /\ u \in Seq(Messages)
             /\ \E j : Extended(ms, u, Len(u), j, <<p.run, p.part>>)
             /\ u[Len(u)].role = "assistant" /\ u[Len(u)].streaming = ~p.done
             /\ ms # <<>> => Len(ms) \in DOMAIN ms
             /\ Len(u) \in DOMAIN ms <=> ms # <<>> /\ Streams(ms[Len(ms)])
             /\ Len(u) \in DOMAIN ms => Len(u) = Len(ms)
<1> DEFINE e == <<p.run, p.part>>
           u == Appended(ms, p)
           l == Len(ms)
<1>1. e \in Runs \X (1..Chunks) /\ p.done \in BOOLEAN
  BY DEF Packets
<1>2. l \in Nat /\ DOMAIN ms = 1..l /\ (ms # <<>> => l \in DOMAIN ms) /\ Last(ms) = ms[l]
  <2>1. l \in Nat /\ DOMAIN ms = 1..l /\ (ms # <<>> => l \in Nat \ {0})
    BY LenProperties, EmptySeq
  <2> QED
    BY <2>1 DEF Last
<1> HIDE DEF l
<1>3. CASE ms # <<>> /\ Streams(ms[l])
  <2> DEFINE q == ms[l].parts
             k == Len(q) + 1
             m == Message("assistant", Append(q, e), ~p.done)
  <2>1. ms[l] \in Messages
    BY <1>2, <1>3, ElementOfSeq
  <2>2. q \in Seq(Runs \X (1..Chunks))
    BY <1>3, <2>1, MessageFacts DEF Streams
  <2>3. /\ Append(q, e) \in Seq(Runs \X (1..Chunks)) /\ Len(q) \in Nat
        /\ DOMAIN q = 1..Len(q) /\ DOMAIN Append(q, e) = 1..k /\ Append(q, e)[k] = e
        /\ \A i \in 1..Len(q) : Append(q, e)[i] = q[i]
    BY <1>1, <2>2, Appending
  <2>4. /\ m \in Messages /\ m.parts = Append(q, e) /\ m.role = "assistant" /\ m.streaming = ~p.done
    BY <1>1, <2>3 DEF Message, Messages
  <2>5. u = [ms EXCEPT ![l] = m]
    BY <1>2, <1>3 DEF Appended, l
  <2> HIDE DEF m, u, e
  <2>6. /\ u \in Seq(Messages) /\ Len(u) = l /\ \A i \in 1..l : u[i] = IF i = l THEN m ELSE ms[i]
    BY <1>2, <1>3, <2>4, <2>5, ExceptSeq DEF l
  <2>7. DOMAIN u = 1..l /\ l \in 1..l
    BY <1>2, <1>3, <2>6, LenProperties
  <2>8. u[l] = m /\ \A i \in DOMAIN ms : i # l => u[i] = ms[i]
    BY <1>2, <2>6, <2>7
  <2> HIDE DEF q, k
  <2>9. u[l].parts[k] = e /\ DOMAIN u[l].parts = 1..k /\ k \in 1..k
        /\ \A i \in 1..Len(q) : u[l].parts[i] = q[i]
    <3>1. u[l].parts = Append(q, e) /\ k \in 1..k
      BY <2>3, <2>4, <2>8 DEF k
    <3>2. DOMAIN Append(q, e) = 1..k /\ Append(q, e)[k] = e /\ \A i \in 1..Len(q) : Append(q, e)[i] = q[i]
      BY <2>3 DEF k
    <3> QED
      BY <3>1, <3>2
  <2>10. Extended(ms, u, l, k, e)
    <3>1. ASSUME NEW i \in DOMAIN ms, NEW j \in DOMAIN ms[i].parts
          PROVE  /\ j \in DOMAIN u[i].parts /\ u[i].parts[j] = ms[i].parts[j] /\ j \in Nat
                 /\ i < l \/ (i = l /\ j < k)
      <4>1. CASE i = l
        <5>1. ms[i].parts = q /\ j \in 1..Len(q) /\ j \in 1..k /\ j < k /\ j \in Nat
          BY <2>3, <3>1, <4>1 DEF q, k
        <5> QED
          BY <2>9, <4>1, <5>1
      <4>2. CASE i # l
        <5>1. ms[i] \in Messages
          BY <1>2, ElementOfSeq DEF l
        <5> QED
          BY <1>2, <2>8, <3>1, <4>2, <5>1, MessageFacts
      <4> QED
        BY <4>1, <4>2
    <3>2. ASSUME NEW i \in DOMAIN u, NEW j \in DOMAIN u[i].parts
          PROVE  (i = l /\ j = k) \/ (i \in DOMAIN ms /\ j \in DOMAIN ms[i].parts)
      <4>1. CASE i = l
        BY <1>2, <2>3, <2>7, <2>9, <3>2, <4>1 DEF q, k
      <4>2. CASE i # l
        BY <1>2, <2>7, <2>8, <3>2, <4>2
      <4> QED
        BY <4>1, <4>2
    <3> QED
      <4>1. l = Len(u) /\ l \in Nat \ {0} /\ DOMAIN ms = 1..l /\ k \in DOMAIN u[l].parts /\ l \in DOMAIN u /\ k \in Nat
        <5>1. l = Len(u) /\ l \in Nat \ {0}
          BY <1>2, <2>6, <2>7
        <5> QED
          BY <1>2, <2>7, <2>9, <5>1
      <4> QED
        BY <2>7, <2>8, <2>9, <3>1, <3>2, <4>1 DEF Extended
  <2>11. /\ \E j : Extended(ms, u, Len(u), j, e)
         /\ u[Len(u)].role = "assistant" /\ u[Len(u)].streaming = ~p.done
         /\ Len(u) \in DOMAIN ms /\ Len(u) = l
    BY <1>2, <1>3, <2>4, <2>6, <2>8, <2>10
  <2> QED
    BY <1>2, <1>3, <2>6, <2>11 DEF u, e, l
<1>4. CASE ~(ms # <<>> /\ Streams(ms[l]))
  <2> DEFINE m == Message("assistant", <<e>>, ~p.done)
  <2>1. /\ m \in Messages /\ m.parts = <<e>> /\ m.role = "assistant" /\ m.streaming = ~p.done
    BY <1>1 DEF Message, Messages
  <2>2. u = Append(ms, m)
    BY <1>2, <1>4 DEF Appended, l
  <2>3. DOMAIN m.parts = {1} /\ m.parts[1] = e
    BY <2>1
  <2> HIDE DEF m, e
  <2>4. /\ u \in Seq(Messages) /\ DOMAIN u = 1..(l + 1) /\ u[l + 1] = m /\ \A i \in 1..l : u[i] = ms[i]
        /\ Len(u) = l + 1
    BY <2>1, <2>2, Appending, AppendProperties DEF l
  <2> HIDE DEF u
  <2>5. Extended(ms, u, l + 1, 1, e)
    <3>1. \A i \in DOMAIN ms : \A j \in DOMAIN ms[i].parts : j \in Nat
      BY ElementOfSeq, MessageFacts
    <3> QED
      BY <1>2, <2>3, <2>4, <3>1 DEF Extended
  <2>6. /\ \E j : Extended(ms, u, Len(u), j, e)
        /\ u[Len(u)].role = "assistant" /\ u[Len(u)].streaming = ~p.done
        /\ Len(u) \notin DOMAIN ms
    BY <1>2, <2>1, <2>4, <2>5
  <2> QED
    BY <1>2, <1>4, <2>4, <2>6 DEF u, e, l
<1> QED
  BY <1>3, <1>4

(* What an event does to the screen.                                       *)
LEMMA ScreenFacts ==
  ASSUME NEW u \in Screens
  PROVE  /\ u = [status |-> u.status, messages |-> u.messages, streaming |-> u.streaming,
                 working |-> u.working, thought |-> u.thought]
         /\ u.status \in {"disconnected", "connecting", "connected", "error"}
         /\ u.messages \in Seq(Messages) /\ u.streaming \in BOOLEAN /\ u.working \in BOOLEAN
         /\ u.thought \subseteq Runs
  BY DEF Screens

(* Its status changes, and a lost link darkens it.                         *)
Statuses == {"disconnected", "connecting", "connected", "error"}
(* A new status is all that changes.                                       *)
LEMMA StatusFacts ==
  ASSUME NEW u \in Screens, NEW x \in Statuses
  PROVE  /\ [u EXCEPT !.status = x] \in Screens /\ [u EXCEPT !.status = x].messages = u.messages
         /\ [u EXCEPT !.status = x].streaming = u.streaming /\ [u EXCEPT !.status = x].status = x
  BY ScreenFacts DEF Screens, Statuses

(* Without the flags the messages stay.                                    *)
LEMMA DarkFacts ==
  ASSUME NEW u \in Screens
  PROVE  Dark(u) \in Screens /\ Dark(u).messages = u.messages /\ Dark(u).streaming = FALSE
<1>1. u = [status |-> u.status, messages |-> u.messages, streaming |-> u.streaming,
           working |-> u.working, thought |-> u.thought]
  BY ScreenFacts
<1> DEFINE d == Dark(u)
<1>2. d = [u EXCEPT !.streaming = FALSE, !.working = FALSE]
  BY DEF Dark
<1> HIDE DEF d
<1>3. d = [status |-> u.status, messages |-> u.messages, streaming |-> FALSE,
           working |-> FALSE, thought |-> u.thought]
  BY <1>1, <1>2
<1>4. d \in Screens
  BY <1>3, ScreenFacts DEF Screens
<1> QED
  BY <1>3, <1>4 DEF d

(* After a clear there are no messages.                                    *)
LEMMA ForgotFacts ==
  ASSUME NEW u \in Screens
  PROVE  Forgot(u) \in Screens /\ Forgot(u).messages = <<>> /\ Forgot(u).streaming = FALSE
<1>1. u = [status |-> u.status, messages |-> u.messages, streaming |-> u.streaming,
           working |-> u.working, thought |-> u.thought]
  BY ScreenFacts
<1> DEFINE d == Forgot(u)
<1>2. d = [u EXCEPT !.messages = <<>>, !.streaming = FALSE, !.thought = {}]
  BY DEF Forgot
<1> HIDE DEF d
<1>3. d = [status |-> u.status, messages |-> <<>>, streaming |-> FALSE,
           working |-> u.working, thought |-> {}]
  BY <1>1, <1>2
<1>4. d \in Screens
  BY <1>3, ScreenFacts, EmptySeq DEF Screens
<1> QED
  BY <1>3, <1>4 DEF d

(* An event is handled.                                                    *)
LEMMA HandledFacts ==
  ASSUME NEW u \in Screens, NEW p \in Packets
  PROVE  /\ Handled(u, p) \in Screens
         /\ p.kind = "response" => Handled(u, p).messages = Appended(u.messages, p) /\ Handled(u, p).streaming = ~p.done
         /\ p.kind = "cleared" => Handled(u, p).messages = <<>>
         /\ p.kind \notin {"response", "cleared"} => Handled(u, p).messages = u.messages
         /\ p.kind \in {"connect", "version", "working", "token"} => Handled(u, p).streaming = u.streaming
<1> DEFINE v == Handled(u, p)
<1>0. /\ u = [status |-> u.status, messages |-> u.messages, streaming |-> u.streaming,
              working |-> u.working, thought |-> u.thought]
      /\ u.status \in {"disconnected", "connecting", "connected", "error"}
      /\ u.messages \in Seq(Messages) /\ u.streaming \in BOOLEAN /\ u.working \in BOOLEAN
      /\ u.thought \subseteq Runs
  BY ScreenFacts
<1>1. CASE p.kind \in {"connect", "version"}
  <2>1. v = [u EXCEPT !.status = IF p.kind = "connect" THEN "connected" ELSE "error"]
    BY <1>1 DEF Handled
  <2> HIDE DEF v
  <2>2. v \in Screens
    BY <1>0, <2>1 DEF Screens
  <2> QED
    BY <1>1, <2>1, <2>2, <1>0 DEF v
<1>2. CASE p.kind \in {"disconnect", "inactive"}
  <2>1. v = [Dark(u) EXCEPT !.status = "disconnected"]
    BY <1>2 DEF Handled
  <2> HIDE DEF v
  <2> DEFINE d == Dark(u)
  <2>2. d \in Screens /\ d.messages = u.messages /\ "disconnected" \in Statuses
    BY DarkFacts DEF Statuses
  <2> HIDE DEF d
  <2>3. /\ [d EXCEPT !.status = "disconnected"] \in Screens
        /\ [d EXCEPT !.status = "disconnected"].messages = d.messages
    BY <2>2, StatusFacts
  <2>4. v \in Screens /\ v.messages = u.messages
    BY <2>1, <2>2, <2>3 DEF d
  <2>5. p.kind \notin {"response", "cleared", "connect", "version", "working", "token"}
    BY <1>2
  <2> QED
    BY <2>4, <2>5 DEF v
<1>3. CASE p.kind = "connect_error"
  <2>1. v = [u EXCEPT !.status = "error", !.streaming = FALSE]
    BY <1>3 DEF Handled
  <2> HIDE DEF v
  <2>2. v = [status |-> "error", messages |-> u.messages, streaming |-> FALSE,
             working |-> u.working, thought |-> u.thought]
    BY <1>0, <2>1
  <2>3. v \in Screens
    BY <1>0, <2>2 DEF Screens
  <2> QED
    BY <1>3, <2>2, <2>3 DEF v
<1>4. CASE p.kind = "working"
  <2>1. v = [u EXCEPT !.working = p.on] /\ p.on \in BOOLEAN
    BY <1>4 DEF Handled, Packets
  <2> HIDE DEF v
  <2>2. v \in Screens /\ v.messages = u.messages /\ v.streaming = u.streaming
    BY <1>0, <2>1 DEF Screens
  <2> QED
    BY <1>4, <2>2 DEF v
<1>5. CASE p.kind = "token"
  <2>1. v = [u EXCEPT !.thought = @ \cup {p.run}] /\ p.run \in Runs
    BY <1>5 DEF Handled, Packets
  <2> HIDE DEF v
  <2>2. v = [status |-> u.status, messages |-> u.messages, streaming |-> u.streaming,
             working |-> u.working, thought |-> u.thought \cup {p.run}]
    BY <1>0, <2>1
  <2>3. v \in Screens
    BY <1>0, <2>1, <2>2 DEF Screens
  <2> QED
    BY <1>5, <2>2, <2>3 DEF v
<1>6. CASE p.kind = "response"
  <2> DEFINE ms == Appended(u.messages, p)
             th == IF p.done THEN {} ELSE u.thought
  <2>1. v = [u EXCEPT !.streaming = ~p.done, !.thought = IF p.done THEN {} ELSE @,
                      !.messages = Appended(@, p)]
    BY <1>6 DEF Handled
  <2>2. ms \in Seq(Messages)
    BY <1>0, <1>6, Answered
  <2>3. v = [status |-> u.status, messages |-> ms, streaming |-> ~p.done,
             working |-> u.working, thought |-> th]
    BY <1>0, <2>1
  <2>4. (~p.done) \in BOOLEAN /\ th \subseteq Runs
    BY <1>0
  <2> HIDE DEF v, ms, th
  <2>5. v \in Screens
    BY <1>0, <2>2, <2>3, <2>4 DEF Screens
  <2> QED
    BY <1>6, <2>3, <2>5 DEF v, ms
<1>7. CASE p.kind = "cleared"
  <2>1. v = Forgot(u)
    BY <1>7 DEF Handled
  <2> HIDE DEF v
  <2>2. v = [status |-> u.status, messages |-> <<>>, streaming |-> FALSE,
             working |-> u.working, thought |-> {}]
    BY <1>0, <2>1 DEF Forgot
  <2>3. v \in Screens
    BY <1>0, <2>2, EmptySeq DEF Screens
  <2> QED
    BY <1>7, <2>2, <2>3 DEF v
<1>8. CASE p.kind = "error"
  <2>1. v = [u EXCEPT !.streaming = FALSE, !.status = IF Swift THEN "error" ELSE @]
    BY <1>8 DEF Handled
  <2> HIDE DEF v
  <2>2. v = [status |-> IF Swift THEN "error" ELSE u.status, messages |-> u.messages, streaming |-> FALSE,
             working |-> u.working, thought |-> u.thought]
    BY <1>0, <2>1
  <2>3. v \in Screens
    BY <1>0, <2>2 DEF Screens
  <2> QED
    BY <1>8, <2>2, <2>3 DEF v
<1> QED
  BY <1>1, <1>2, <1>3, <1>4, <1>5, <1>6, <1>7, <1>8 DEF Packets


-----------------------------------------------------------------------------
(***************************************************************************)
(* The way of a chunk: from the wire (w) through the tasks of Swift (td)   *)
(* to the screen (ms).  st says how far each run is, and to the runs of    *)
(* live the link still carries what they say.                              *)
(***************************************************************************)
Seen(ms, r, n)  == \E i \in DOMAIN ms : \E j \in DOMAIN ms[i].parts : ms[i].parts[j] = <<r, n>>
SeenOrdered(ms) ==
  \A r \in Runs, m, n \in 1..Chunks : \A i, k \in DOMAIN ms :
    \A j \in DOMAIN ms[i].parts, l \in DOMAIN ms[k].parts :
      ms[i].parts[j] = <<r, m>> /\ ms[k].parts[l] = <<r, n>> /\ (i < k \/ (i = k /\ j < l)) => m < n

(* On its way or on the screen.                                            *)
Known(ms, td, w, r, n) == Seen(ms, r, n) \/ In(td, r, n) \/ In(w, r, n)
InOrder(ms, td, w) ==
  /\ SeenOrdered(ms) /\ Ordered(td) /\ Ordered(w)
  /\ \A r \in Runs, m, n \in 1..Chunks :
       /\ Seen(ms, r, m) /\ In(td, r, n) => m < n
       /\ Seen(ms, r, m) /\ In(w, r, n) => m < n
       /\ In(td, r, m) /\ In(w, r, n) => m < n
Flows(ms, td, w, st, live) ==
  /\ InOrder(ms, td, w)
  /\ \A r \in Runs, m, n \in 1..Chunks :
       /\ Known(ms, td, w, r, m) => m < st[r]
       /\ Known(ms, td, w, r, m) /\ Known(ms, td, w, r, n) => \A o \in m..n : Known(ms, td, w, r, o)
       /\ r \in live /\ Known(ms, td, w, r, m) => Known(ms, td, w, r, st[r] - 1)

(* Of a screen in the order of its runs, a piece is a piece.               *)
LEMMA FlowsOn ==
  ASSUME NEW ms, NEW td, NEW w, NEW st, NEW live, NEW fewer, fewer \subseteq live, Flows(ms, td, w, st, live)
  PROVE  Flows(ms, td, w, st, fewer)
  BY DEF Flows

(* What is taken off the front, by a clear, is no gap.                     *)
LEMMA Forward ==
  ASSUME NEW ms, NEW td, NEW w, NEW st \in [Runs -> 0..(Chunks + 1)], NEW live, Flows(ms, td, w, st, live),
         NEW ms2, NEW td2, NEW w2, InOrder(ms2, td2, w2),
         \A r \in Runs, n \in 1..Chunks :
           /\ Known(ms2, td2, w2, r, n) => Known(ms, td, w, r, n)
           /\ Known(ms, td, w, r, n) /\ ~Known(ms2, td2, w2, r, n) =>
                \A m \in 1..Chunks : Known(ms2, td2, w2, r, m) => n < m
  PROVE  Flows(ms2, td2, w2, st, live)
<1>0. Chunks \in Nat \ {0}
  BY StreamAssumption
<1> SUFFICES ASSUME NEW r \in Runs, NEW m \in 1..Chunks, NEW n \in 1..Chunks, Known(ms2, td2, w2, r, m)
             PROVE  /\ m < st[r]
                    /\ Known(ms2, td2, w2, r, n) => \A o \in m..n : Known(ms2, td2, w2, r, o)
                    /\ r \in live => Known(ms2, td2, w2, r, st[r] - 1)
  BY DEF Flows
<1> DEFINE Old(i) == Known(ms, td, w, r, i)
           New(i) == Known(ms2, td2, w2, r, i)
<1>1. /\ Old(m) /\ m < st[r] /\ \A i \in 1..Chunks : New(i) => Old(i) /\ i < st[r]
      /\ r \in live => Old(st[r] - 1)
      /\ \A i \in 1..Chunks : Old(i) => \A o \in m..i : Old(o)
      /\ \A i \in 1..Chunks : Old(i) /\ ~New(i) => i < m
      /\ New(m)
  BY DEF Flows
<1> HIDE DEF Old, New
<1>2. ASSUME New(n), NEW o \in m..n PROVE New(o)
  <2>1. o \in 1..Chunks /\ ~(o < m) /\ Old(n)
    BY <1>0, <1>1, <1>2
  <2> QED
    BY <1>1, <1>2, <2>1
<1>3. ASSUME r \in live PROVE New(st[r] - 1)
  <2>1. st[r] \in Nat /\ st[r] - 1 <= Chunks
    BY <1>0
  <2>2. st[r] - 1 \in 1..Chunks /\ ~(st[r] - 1 < m)
    BY <1>0, <1>1, <2>1
  <2> QED
    BY <1>1, <1>3, <2>2
<1> QED
  BY <1>1, <1>2, <1>3 DEF New

(* What is cut off with the link would have come later.                    *)
LEMMA CutOff ==
  ASSUME NEW ms, NEW td, NEW w, NEW st, NEW live, Flows(ms, td, w, st, live),
         NEW w2, InOrder(ms, td, w2),
         \A r \in Runs, n \in 1..Chunks :
           /\ In(w2, r, n) => In(w, r, n)
           /\ In(w, r, n) /\ ~In(w2, r, n) => \A m \in 1..Chunks : In(w2, r, m) => m < n
  PROVE  Flows(ms, td, w2, st, {})
<1>0. Chunks \in Nat \ {0}
  BY StreamAssumption
<1> SUFFICES ASSUME NEW r \in Runs, NEW m \in 1..Chunks, NEW n \in 1..Chunks, Known(ms, td, w2, r, m)
             PROVE  /\ m < st[r]
                    /\ Known(ms, td, w2, r, n) => \A o \in m..n : Known(ms, td, w2, r, o)
  BY DEF Flows
<1>1. Known(ms, td, w, r, m) /\ m < st[r]
  BY DEF Flows, Known
<1>2. ASSUME Known(ms, td, w2, r, n), NEW o \in m..n PROVE Known(ms, td, w2, r, o)
  <2>1. o \in 1..Chunks /\ Known(ms, td, w, r, o)
    BY <1>0, <1>1, <1>2 DEF Flows, Known
  <2>2. CASE Seen(ms, r, o) \/ In(td, r, o)
    BY <2>2 DEF Known
  <2>3. CASE In(w, r, o) /\ ~In(w2, r, o)
    <3>1. ~In(w2, r, n)
      BY <1>0, <1>2, <2>1, <2>3
    <3>2. Seen(ms, r, n) \/ In(td, r, n)
      BY <1>2, <3>1 DEF Known
    <3>3. n < o
      BY <2>1, <2>3, <3>2 DEF Flows, InOrder
    <3> QED
      BY <1>0, <3>3
  <2> QED
    BY <2>1, <2>2, <2>3 DEF Known
<1> QED
  BY <1>1, <1>2

(* What a screen shows that got something more.                            *)
LEMMA SeenExtended ==
  ASSUME NEW ms, NEW u, NEW i, NEW j, NEW e, Extended(ms, u, i, j, e)
  PROVE  /\ \A r, n : Seen(u, r, n) <=> Seen(ms, r, n) \/ e = <<r, n>>
         /\ SeenOrdered(ms) /\ (\A r \in Runs, m, n \in 1..Chunks : Seen(ms, r, m) /\ e = <<r, n>> => m < n)
              => SeenOrdered(u)
<1>1. /\ i \in DOMAIN u /\ j \in DOMAIN u[i].parts /\ u[i].parts[j] = e
      /\ i \in Nat /\ j \in Nat /\ DOMAIN ms \subseteq 1..i /\ DOMAIN ms \subseteq DOMAIN u
      /\ \A k \in DOMAIN ms : \A l \in DOMAIN ms[k].parts :
           /\ l \in DOMAIN u[k].parts /\ u[k].parts[l] = ms[k].parts[l] /\ l \in Nat
           /\ k < i \/ (k = i /\ l < j)
      /\ \A k \in DOMAIN u : \A l \in DOMAIN u[k].parts :
           (k = i /\ l = j) \/ (k \in DOMAIN ms /\ l \in DOMAIN ms[k].parts)
  BY DEF Extended
<1>2. ASSUME NEW r, NEW n PROVE Seen(u, r, n) <=> Seen(ms, r, n) \/ e = <<r, n>>
  BY <1>1 DEF Seen
<1>3. ASSUME SeenOrdered(ms), \A r \in Runs, m, n \in 1..Chunks : Seen(ms, r, m) /\ e = <<r, n>> => m < n
      PROVE  SeenOrdered(u)
  <2> SUFFICES ASSUME NEW r \in Runs, NEW m \in 1..Chunks, NEW n \in 1..Chunks,
                      NEW i1 \in DOMAIN u, NEW i2 \in DOMAIN u,
                      NEW j1 \in DOMAIN u[i1].parts, NEW j2 \in DOMAIN u[i2].parts,
                      u[i1].parts[j1] = <<r, m>>, u[i2].parts[j2] = <<r, n>>,
                      i1 < i2 \/ (i1 = i2 /\ j1 < j2)
               PROVE  m < n
    BY DEF SeenOrdered
  <2>1. CASE i1 = i /\ j1 = j
    <3>1. i2 = i /\ j2 = j
      BY <1>1, <2>1
    <3> QED
      BY <1>1, <2>1, <3>1
  <2>2. CASE ~(i1 = i /\ j1 = j)
    <3>1. i1 \in DOMAIN ms /\ j1 \in DOMAIN ms[i1].parts /\ ms[i1].parts[j1] = <<r, m>> /\ Seen(ms, r, m)
      BY <1>1, <2>2 DEF Seen
    <3>2. CASE i2 = i /\ j2 = j
      BY <1>1, <1>3, <3>1, <3>2
    <3>3. CASE ~(i2 = i /\ j2 = j)
      <4>1. i2 \in DOMAIN ms /\ j2 \in DOMAIN ms[i2].parts /\ ms[i2].parts[j2] = <<r, n>>
        BY <1>1, <3>3
      <4> QED
        BY <1>3, <3>1, <4>1 DEF SeenOrdered
    <3> QED
      BY <3>2, <3>3
  <2> QED
    BY <2>1, <2>2
<1> QED
  BY <1>2, <1>3

(* An empty one shows nothing.                                             *)
LEMMA SeenEmpty == (\A r, n : ~Seen(<<>>, r, n)) /\ SeenOrdered(<<>>)
  BY InEmpty DEF Seen, SeenOrdered

(* What it shows when an event is handled.                                 *)
LEMMA SeenHandled ==
  ASSUME NEW u \in Screens, NEW p \in Packets
  PROVE  LET ms == Handled(u, p).messages
         IN  /\ SeenOrdered(u.messages) /\ (\A r \in Runs, m, n \in 1..Chunks :
                                             Seen(u.messages, r, m) /\ Part(p, r, n) => m < n)
                  => SeenOrdered(ms)
             /\ \/ p.kind # "cleared" /\ \A r, n : Seen(ms, r, n) <=> Seen(u.messages, r, n) \/ Part(p, r, n)
                \/ p.kind = "cleared" /\ \A r, n : ~Seen(ms, r, n)
<1> DEFINE ms == Handled(u, p).messages
<1>1. CASE p.kind = "response"
  <2>1. ms = Appended(u.messages, p) /\ u.messages \in Seq(Messages)
    BY <1>1, HandledFacts, ScreenFacts
  <2> HIDE DEF ms
  <2>2. PICK j : Extended(u.messages, ms, Len(ms), j, <<p.run, p.part>>)
    BY <1>1, <2>1, Answered
  <2>3. \A r, n : Part(p, r, n) <=> <<p.run, p.part>> = <<r, n>>
    BY <1>1 DEF Part
  <2> QED
    BY <1>1, <2>2, <2>3, SeenExtended DEF ms
<1>2. CASE p.kind = "cleared"
  <2>1. ms = <<>>
    BY <1>2, HandledFacts
  <2> QED
    BY <1>2, <2>1, SeenEmpty
<1>3. CASE p.kind \notin {"response", "cleared"}
  <2>1. ms = u.messages
    BY <1>3, HandledFacts
  <2> QED
    BY <1>3, <2>1 DEF Part
<1> QED
  BY <1>1, <1>2, <1>3

(* A callback of React shows what comes off the wire.                      *)
LEMMA Shows1 ==
  ASSUME NEW u \in Screens, NEW w \in Seq(Packets), w # <<>>, NEW st \in [Runs -> 0..(Chunks + 1)], NEW live,
         Flows(u.messages, <<>>, w, st, live)
  PROVE  Flows(Handled(u, Head(w)).messages, <<>>, Tail(w), st, live)
<1> DEFINE p == Head(w)
           ms == u.messages
           ms2 == Handled(u, p).messages
           w2 == Tail(w)
<1>1. p \in Packets
  BY Taking
<1>2. /\ \A r, n : In(w, r, n) <=> In(w2, r, n) \/ Part(p, r, n)
      /\ Ordered(w) =>
           /\ Ordered(w2)
           /\ \A r \in Runs, m, n \in 1..Chunks : Part(p, r, m) /\ In(w2, r, n) => m < n
  BY InTaken
<1>3. InOrder(ms, <<>>, w)
  BY DEF Flows
<1>4. /\ SeenOrdered(ms) /\ (\A r \in Runs, m, n \in 1..Chunks : Seen(ms, r, m) /\ Part(p, r, n) => m < n)
           => SeenOrdered(ms2)
      /\ \/ \A r, n : Seen(ms2, r, n) <=> Seen(ms, r, n) \/ Part(p, r, n)
         \/ p.kind = "cleared" /\ \A r, n : ~Seen(ms2, r, n)
  BY <1>1, SeenHandled
<1>5. p.kind = "cleared" => \A r, n : ~Part(p, r, n)
  BY DEF Part
<1> HIDE DEF p, ms, ms2, w2
<1>6. InOrder(ms2, <<>>, w2)
  BY <1>2, <1>3, <1>4, InEmpty DEF InOrder
<1>7. ASSUME NEW r \in Runs, NEW n \in 1..Chunks
      PROVE  /\ Known(ms2, <<>>, w2, r, n) => Known(ms, <<>>, w, r, n)
             /\ Known(ms, <<>>, w, r, n) /\ ~Known(ms2, <<>>, w2, r, n) =>
                  \A m \in 1..Chunks : Known(ms2, <<>>, w2, r, m) => n < m
  <2>1. CASE \A i, k : Seen(ms2, i, k) <=> Seen(ms, i, k) \/ Part(p, i, k)
    BY <1>2, <2>1 DEF Known
  <2>2. CASE p.kind = "cleared" /\ \A i, k : ~Seen(ms2, i, k)
    BY <1>2, <1>3, <1>5, <2>2, InEmpty DEF Known, InOrder
  <2> QED
    BY <1>4, <2>1, <2>2
<1>8. Flows(ms, <<>>, w, st, live)
  BY DEF ms
<1>9. Flows(ms2, <<>>, w2, st, live)
  BY <1>6, <1>7, <1>8, Forward
<1> QED
  BY <1>9 DEF ms2, w2, p

(* A callback of Swift leaves it for the main actor.                       *)
LEMMA Leaves ==
  ASSUME NEW ms, NEW S, NEW td \in Seq(S), Packets \subseteq S, NEW w \in Seq(Packets), w # <<>>,
         NEW st \in [Runs -> 0..(Chunks + 1)], NEW live, Flows(ms, td, w, st, live)
  PROVE  Flows(ms, Append(td, Head(w)), Tail(w), st, live)
<1> DEFINE p == Head(w)
           td2 == Append(td, p)
           w2 == Tail(w)
<1>1. p \in S
  BY Taking
<1>2. /\ \A r, n : In(w, r, n) <=> In(w2, r, n) \/ Part(p, r, n)
      /\ Ordered(w) =>
           /\ Ordered(w2)
           /\ \A r \in Runs, m, n \in 1..Chunks : Part(p, r, m) /\ In(w2, r, n) => m < n
  BY InTaken
<1>3. InOrder(ms, td, w)
  BY DEF Flows
<1>4. /\ \A r, n : In(td2, r, n) <=> In(td, r, n) \/ Part(p, r, n)
      /\ Ordered(td) /\ (\A r \in Runs, m, n \in 1..Chunks : In(td, r, m) /\ Part(p, r, n) => m < n)
           => Ordered(td2)
  BY <1>1, InAppended
<1> HIDE DEF p, td2, w2
<1>6. InOrder(ms, td2, w2)
  BY <1>2, <1>3, <1>4 DEF InOrder
<1>7. ASSUME NEW r \in Runs, NEW n \in 1..Chunks
      PROVE  Known(ms, td2, w2, r, n) <=> Known(ms, td, w, r, n)
  BY <1>2, <1>4 DEF Known
<1>9. Flows(ms, td2, w2, st, live)
  BY <1>6, <1>7, Forward
<1> QED
  BY <1>9 DEF w2, p, td2

(* The main actor shows it.                                                *)
LEMMA Shows2 ==
  ASSUME NEW u \in Screens, NEW S, NEW td \in Seq(S), td # <<>>, Head(td) \in Packets, NEW w,
         NEW st \in [Runs -> 0..(Chunks + 1)], NEW live, Flows(u.messages, td, w, st, live)
  PROVE  Flows(Handled(u, Head(td)).messages, Tail(td), w, st, live)
<1> DEFINE p == Head(td)
           ms == u.messages
           ms2 == Handled(u, p).messages
           td2 == Tail(td)
<1>2. /\ \A r, n : In(td, r, n) <=> In(td2, r, n) \/ Part(p, r, n)
      /\ Ordered(td) =>
           /\ Ordered(td2)
           /\ \A r \in Runs, m, n \in 1..Chunks : Part(p, r, m) /\ In(td2, r, n) => m < n
  BY InTaken
<1>3. InOrder(ms, td, w)
  BY DEF Flows
<1>4. /\ SeenOrdered(ms) /\ (\A r \in Runs, m, n \in 1..Chunks : Seen(ms, r, m) /\ Part(p, r, n) => m < n)
           => SeenOrdered(ms2)
      /\ \/ \A r, n : Seen(ms2, r, n) <=> Seen(ms, r, n) \/ Part(p, r, n)
         \/ p.kind = "cleared" /\ \A r, n : ~Seen(ms2, r, n)
  BY SeenHandled
<1>5. p.kind = "cleared" => \A r, n : ~Part(p, r, n)
  BY DEF Part
<1>8. Flows(ms, td, w, st, live)
  OBVIOUS
<1> HIDE DEF p, ms, ms2, td2
<1>6. InOrder(ms2, td2, w)
  BY <1>2, <1>3, <1>4 DEF InOrder
<1>7. ASSUME NEW r \in Runs, NEW n \in 1..Chunks
      PROVE  /\ Known(ms2, td2, w, r, n) => Known(ms, td, w, r, n)
             /\ Known(ms, td, w, r, n) /\ ~Known(ms2, td2, w, r, n) =>
                  \A m \in 1..Chunks : Known(ms2, td2, w, r, m) => n < m
  <2>1. CASE \A i, k : Seen(ms2, i, k) <=> Seen(ms, i, k) \/ Part(p, i, k)
    BY <1>2, <2>1 DEF Known
  <2>2. CASE p.kind = "cleared" /\ \A i, k : ~Seen(ms2, i, k)
    BY <1>2, <1>3, <1>5, <2>2 DEF Known, InOrder
  <2> QED
    BY <1>4, <2>1, <2>2
<1>9. Flows(ms2, td2, w, st, live)
  BY <1>6, <1>7, <1>8, Forward
<1> QED
  BY <1>9 DEF ms2, td2, p

(* What is no chunk changes nothing.                                       *)
LEMMA Quietly ==
  ASSUME NEW ms, NEW td, NEW w, NEW st \in [Runs -> 0..(Chunks + 1)], NEW live, Flows(ms, td, w, st, live),
         NEW ms2, NEW td2, NEW w2, SeenOrdered(ms2), Ordered(td2), Ordered(w2),
         \A r \in Runs, n \in 1..Chunks :
           /\ Seen(ms2, r, n) <=> Seen(ms, r, n)
           /\ In(td2, r, n) <=> In(td, r, n)
           /\ In(w2, r, n) <=> In(w, r, n)
  PROVE  Flows(ms2, td2, w2, st, live)
<1>1. InOrder(ms, td, w)
  BY DEF Flows
<1>2. InOrder(ms2, td2, w2)
  BY <1>1 DEF InOrder
<1>3. \A r \in Runs, n \in 1..Chunks : Known(ms2, td2, w2, r, n) <=> Known(ms, td, w, r, n)
  BY DEF Known
<1> QED
  BY <1>2, <1>3, Forward

(* The user's message is no chunk.                                         *)
LEMMA SaidFlows ==
  ASSUME NEW ms \in Seq(Messages), NEW td, NEW w, NEW st \in [Runs -> 0..(Chunks + 1)], NEW live,
         Flows(ms, td, w, st, live), NEW r \in Typed
  PROVE  Flows(Append(ms, Message("user", <<<<r, 0>>>>, FALSE)), td, w, st, live)
<1> DEFINE u == Append(ms, Message("user", <<<<r, 0>>>>, FALSE))
<1>1. Extended(ms, u, Len(u), 1, <<r, 0>>)
  BY Said
<1> HIDE DEF u
<1>2. \A q, n : n \in 1..Chunks => <<r, 0>> # <<q, n>>
  BY StreamAssumption
<1>3. SeenOrdered(ms) /\ Ordered(td) /\ Ordered(w)
  BY DEF Flows, InOrder
<1>4. SeenOrdered(u) /\ \A q \in Runs, n \in 1..Chunks : Seen(u, q, n) <=> Seen(ms, q, n)
  BY <1>1, <1>2, <1>3, SeenExtended
<1>5. Flows(u, td, w, st, live)
  BY <1>3, <1>4, Quietly
<1> QED
  BY <1>5 DEF u

(* Nor is what is neither on a wire nor among the tasks a chunk.           *)
LEMMA JoinedFlows ==
  ASSUME NEW ms, NEW S, NEW td \in Seq(S), NEW w \in Seq(Packets), NEW st \in [Runs -> 0..(Chunks + 1)], NEW live,
         Flows(ms, td, w, st, live)
  PROVE  /\ \A ps \in Seq(Packets) : (\A i \in DOMAIN ps : ps[i].kind # "response") => Flows(ms, td, w \o ps, st, live)
         /\ \A p \in Packets : p.kind # "response" => Flows(ms, td, Append(w, p), st, live)
         /\ \A p \in S : p.kind # "response" => Flows(ms, Append(td, p), w, st, live)
<1>1. SeenOrdered(ms) /\ Ordered(td) /\ Ordered(w)
  BY DEF Flows, InOrder
<1>2. ASSUME NEW ps \in Seq(Packets), \A i \in DOMAIN ps : ps[i].kind # "response"
      PROVE  Flows(ms, td, w \o ps, st, live)
  <2>1. Ordered(w \o ps) /\ \A r, n : In(w \o ps, r, n) <=> In(w, r, n)
    BY <1>1, <1>2, InJoined
  <2> QED
    BY <1>1, <2>1, Quietly
<1>3. ASSUME NEW p \in Packets, p.kind # "response"
      PROVE  Flows(ms, td, Append(w, p), st, live)
  <2>1. \A r, n : ~Part(p, r, n)
    BY <1>3 DEF Part
  <2>2. Ordered(Append(w, p)) /\ \A r, n : In(Append(w, p), r, n) <=> In(w, r, n)
    BY <1>1, <2>1, InAppended
  <2> QED
    BY <1>1, <2>2, Quietly
<1>4. ASSUME NEW p \in S, p.kind # "response"
      PROVE  Flows(ms, Append(td, p), w, st, live)
  <2>1. \A r, n : ~Part(p, r, n)
    BY <1>4 DEF Part
  <2>2. Ordered(Append(td, p)) /\ \A r, n : In(Append(td, p), r, n) <=> In(td, r, n)
    BY <1>1, <2>1, InAppended
  <2> QED
    BY <1>1, <2>2, Quietly
<1> QED
  BY <1>2, <1>3, <1>4

(* A task that is no event is run.                                         *)
LEMMA LookFlows ==
  ASSUME NEW ms, NEW S, NEW td \in Seq(S), td # <<>>, Head(td).kind # "response", NEW w,
         NEW st \in [Runs -> 0..(Chunks + 1)], NEW live, Flows(ms, td, w, st, live)
  PROVE  Flows(ms, Tail(td), w, st, live)
<1>1. SeenOrdered(ms) /\ Ordered(td) /\ Ordered(w)
  BY DEF Flows, InOrder
<1>2. \A r, n : ~Part(Head(td), r, n)
  BY DEF Part
<1>3. Ordered(Tail(td)) /\ \A r, n : In(Tail(td), r, n) <=> In(td, r, n)
  BY <1>1, <1>2, InTaken
<1> QED
  BY <1>1, <1>3, Quietly

(* The screen is emptied, the wire is cut, or is no more.                  *)
LEMMA EmptiedFlows ==
  ASSUME NEW ms, NEW td, NEW w \in Seq(Packets), NEW st \in [Runs -> 0..(Chunks + 1)], NEW live,
         Flows(ms, td, w, st, live)
  PROVE  /\ Flows(<<>>, td, w, st, live)
         /\ Flows(ms, td, <<>>, st, {})
         /\ \A l \in 0..Len(w) : Flows(ms, td, SubSeq(w, 1, l), st, {})
<1>1. InOrder(ms, td, w)
  BY DEF Flows
<1>2. InOrder(<<>>, td, w)
  BY <1>1, SeenEmpty DEF InOrder
<1>3. Flows(<<>>, td, w, st, live)
  <2>1. \A r \in Runs, n \in 1..Chunks :
           /\ Known(<<>>, td, w, r, n) => Known(ms, td, w, r, n)
           /\ Known(ms, td, w, r, n) /\ ~Known(<<>>, td, w, r, n) =>
                \A m \in 1..Chunks : Known(<<>>, td, w, r, m) => n < m
    BY <1>1, SeenEmpty DEF Known, InOrder
  <2> QED
    BY <1>2, <2>1, Forward
<1>4. Flows(ms, td, <<>>, st, {})
  <2>1. InOrder(ms, td, <<>>)
    BY <1>1, InEmpty DEF InOrder
  <2> QED
    BY <2>1, InEmpty, CutOff
<1>5. ASSUME NEW l \in 0..Len(w) PROVE Flows(ms, td, SubSeq(w, 1, l), st, {})
  <2> DEFINE w2 == SubSeq(w, 1, l)
  <2>1. /\ \A r, n : In(w2, r, n) => In(w, r, n)
        /\ Ordered(w) =>
             /\ Ordered(w2)
             /\ \A r \in Runs, m, n \in 1..Chunks : In(w2, r, m) /\ In(w, r, n) /\ ~In(w2, r, n) => m < n
    BY InCut
  <2> HIDE DEF w2
  <2>2. InOrder(ms, td, w2)
    BY <1>1, <2>1 DEF InOrder
  <2>3. Flows(ms, td, w2, st, {})
    BY <1>1, <2>1, <2>2, CutOff DEF InOrder
  <2> QED
    BY <2>3 DEF w2
<1> QED
  BY <1>3, <1>4, <1>5

(* A run says its next chunk, and the link carries it.                     *)
LEMMA EmitFlows ==
  ASSUME NEW ms, NEW td, NEW w \in Seq(Packets), NEW st \in [Runs -> 0..(Chunks + 1)], NEW live,
         Flows(ms, td, w, st, live), NEW r \in live, r \in Runs, st[r] \in 1..Chunks,
         NEW p \in Packets, p.kind = "response", p.run = r, p.part = st[r]
  PROVE  Flows(ms, td, Append(w, p), [st EXCEPT ![r] = @ + 1], live)
<1> DEFINE k == st[r]
           w2 == Append(w, p)
           st2 == [st EXCEPT ![r] = @ + 1]
<1>0. Chunks \in Nat \ {0} /\ k \in Nat /\ k \in 1..Chunks
  BY StreamAssumption
<1>1. /\ \A q, n : In(w2, q, n) <=> In(w, q, n) \/ Part(p, q, n)
      /\ Ordered(w) /\ (\A q \in Runs, m, n \in 1..Chunks : In(w, q, m) /\ Part(p, q, n) => m < n)
           => Ordered(w2)
  BY InAppended
<1>2. \A q, n : Part(p, q, n) <=> q = r /\ n = k
  BY DEF Part
<1>3. st2[r] = k + 1 /\ \A q \in Runs : q # r => st2[q] = st[q]
  OBVIOUS
<1>4. InOrder(ms, td, w) /\ \A m \in 1..Chunks : Known(ms, td, w, r, m) => m < k
  BY DEF Flows
<1> HIDE DEF w2, st2, k
<1>5. InOrder(ms, td, w2)
  BY <1>1, <1>2, <1>4 DEF InOrder, Known
<1>6. \A q \in Runs, n \in 1..Chunks : Known(ms, td, w2, q, n) <=> Known(ms, td, w, q, n) \/ (q = r /\ n = k)
  BY <1>1, <1>2 DEF Known
<1>7. ASSUME NEW q \in Runs, NEW m \in 1..Chunks, NEW n \in 1..Chunks
      PROVE  /\ Known(ms, td, w2, q, m) => m < st2[q]
             /\ Known(ms, td, w2, q, m) /\ Known(ms, td, w2, q, n) => \A o \in m..n : Known(ms, td, w2, q, o)
             /\ q \in live /\ Known(ms, td, w2, q, m) => Known(ms, td, w2, q, st2[q] - 1)
  <2>1. CASE q = r
    <3> DEFINE Old(i) == Known(ms, td, w, r, i)
               New(i) == Known(ms, td, w2, r, i)
    <3>1. /\ Old(m) => Old(k - 1)
          /\ \A i \in 1..Chunks : Old(m) /\ Old(i) => \A o \in m..i : Old(o)
      BY <2>1 DEF Flows, k
    <3>2. \A i \in 1..Chunks : (New(i) <=> Old(i) \/ i = k) /\ (Old(i) => i < k)
      BY <1>4, <1>6
    <3> HIDE DEF Old, New
    <3>3. New(m) => m < k + 1
      BY <1>0, <3>2
    <3>4. New(k) /\ k + 1 - 1 = k
      BY <1>0, <3>2
    <3>5. ASSUME New(m), New(n), NEW o \in m..n PROVE New(o)
      <4>1. o \in 1..Chunks /\ o <= k /\ n <= k
        BY <1>0, <3>2, <3>5
      <4>2. CASE o = k
        BY <3>4, <4>2
      <4>3. CASE o # k
        <5>1. m # k /\ o <= k - 1
          BY <1>0, <3>5, <4>1, <4>3
        <5>2. Old(m) /\ Old(k - 1) /\ k - 1 \in 1..Chunks /\ o \in m..(k - 1)
          BY <1>0, <3>1, <3>2, <3>5, <4>1, <5>1
        <5>3. Old(o)
          BY <3>1, <5>2
        <5> QED
          BY <3>2, <4>1, <5>3
      <4> QED
        BY <4>2, <4>3
    <3>6. st2[q] = k + 1 /\ st2[q] - 1 = k
      BY <1>0, <1>3, <2>1
    <3>7. /\ New(m) => m < st2[q]
          /\ New(m) /\ New(n) => \A o \in m..n : New(o)
          /\ New(st2[q] - 1)
      BY <3>3, <3>4, <3>5, <3>6
    <3> QED
      BY <2>1, <3>7 DEF New
  <2>2. CASE q # r
    <3>1. \A i : i \in 1..Chunks => (Known(ms, td, w2, q, i) <=> Known(ms, td, w, q, i))
      BY <1>6, <2>2
    <3>2. st2[q] = st[q]
      BY <1>3, <2>2
    <3>3. /\ Known(ms, td, w, q, m) => m < st[q]
          /\ Known(ms, td, w, q, m) /\ Known(ms, td, w, q, n) => \A o \in m..n : Known(ms, td, w, q, o)
          /\ q \in live /\ Known(ms, td, w, q, m) => Known(ms, td, w, q, st[q] - 1)
      BY DEF Flows
    <3>4. \A o \in m..n : o \in 1..Chunks
      BY <1>0
    <3>5. m < st[q] => st[q] - 1 \in 1..Chunks
      BY <1>0
    <3> QED
      BY <3>1, <3>2, <3>3, <3>4, <3>5
  <2> QED
    BY <2>1, <2>2
<1>8. Flows(ms, td, w2, st2, live)
  BY <1>5, <1>7 DEF Flows
<1> QED
  BY <1>8 DEF w2, st2

(* A run goes on unheard: no link carries it, or it has said nothing yet.  *)
LEMMA UnheardFlows ==
  ASSUME NEW ms, NEW td, NEW w, NEW st \in [Runs -> 0..(Chunks + 1)], NEW live,
         Flows(ms, td, w, st, live), NEW r \in Runs, r \notin live \/ st[r] = 0
  PROVE  Flows(ms, td, w, [st EXCEPT ![r] = @ + 1], live)
<1> DEFINE st2 == [st EXCEPT ![r] = @ + 1]
<1>0. st2[r] = st[r] + 1 /\ \A q \in Runs : q # r => st2[q] = st[q]
  OBVIOUS
<1>1. Chunks \in Nat \ {0} /\ st[r] \in Nat
  BY StreamAssumption
<1> HIDE DEF st2
<1>2. ASSUME NEW q \in Runs, NEW m \in 1..Chunks, NEW n \in 1..Chunks, Known(ms, td, w, q, m)
      PROVE  /\ m < st2[q]
             /\ Known(ms, td, w, q, n) => \A o \in m..n : Known(ms, td, w, q, o)
             /\ q \in live => Known(ms, td, w, q, st2[q] - 1)
  <2>1. /\ m < st[q]
        /\ Known(ms, td, w, q, n) => \A o \in m..n : Known(ms, td, w, q, o)
        /\ q \in live => Known(ms, td, w, q, st[q] - 1)
    BY <1>2 DEF Flows
  <2>2. CASE q = r
    BY <1>0, <1>1, <2>1, <2>2
  <2>3. CASE q # r
    BY <1>0, <2>1, <2>3
  <2> QED
    BY <2>2, <2>3
<1>3. Flows(ms, td, w, st2, live)
  BY <1>2 DEF Flows
<1> QED
  BY <1>3 DEF st2

(* A run that has said nothing is heard by nobody, so it may be live.      *)
LEMMA SilentFlows ==
  ASSUME NEW ms, NEW td, NEW w, NEW st \in [Runs -> 0..(Chunks + 1)], NEW live, NEW more,
         Flows(ms, td, w, st, live), \A r \in Runs : r \in more => r \in live \/ st[r] = 0
  PROVE  Flows(ms, td, w, st, more)
<1>1. ASSUME NEW r \in Runs, NEW m \in 1..Chunks, Known(ms, td, w, r, m), r \in more
      PROVE  Known(ms, td, w, r, st[r] - 1)
  <2>1. m < st[r] /\ st[r] \in Nat
    BY <1>1, StreamAssumption DEF Flows
  <2>2. r \in live
    BY <1>1, <2>1, StreamAssumption
  <2> QED
    BY <1>1, <2>2 DEF Flows
<1> QED
  BY <1>1 DEF Flows

-----------------------------------------------------------------------------
(***************************************************************************)
(* The invariant: types, how far the runs are, and the way of the chunks.  *)
(***************************************************************************)
Stages == {"idle", "queued", "done", "lost"}
LinkTyped   == socket \in Nat /\ wire \in Seq(Packets)
ScreenTyped == ui \in Screens /\ todo \in Seq(Packets \cup Looks) /\ (~Swift => todo = <<>>)
ServerTyped ==
  /\ stage \in [Tasks -> Stages] /\ before \in [Tasks -> Tasks \cup {None}] /\ tail \in Tasks \cup {None}
  /\ step \in [Runs -> 0..(Chunks + 1)] /\ home \in [Tasks -> Nat]
Typing == TypeOK /\ LinkTyped /\ ScreenTyped /\ ServerTyped

(* To these runs the link that is up still carries what they say.          *)
Heard == {r \in Runs : link = "up" /\ home[r] = socket}
Piece == Flows(ui.messages, todo, wire, step, Heard)

(* No task is ahead of the sockets; what was not sent says nothing; what   *)
(* is pending is not sent.                                                 *)
Untouched ==
  /\ \A t \in Tasks : home[t] <= socket
  /\ \A r \in Runs : stage[r] \in {"idle", "lost"} => step[r] = 0
  /\ pending # None => stage[pending] = "idle"
PieceInv == Typing /\ Piece /\ Untouched

(* The events that are no chunk are packets.                               *)
LEMMA EventFacts ==
  /\ \A k \in {"connect", "disconnect", "inactive", "version", "connect_error", "cleared", "error"} :
       Event(k) \in Packets /\ Event(k).kind = k
  /\ \A b \in BOOLEAN : Light(b) \in Packets /\ Light(b).kind = "working"
  /\ \A r \in Runs : [kind |-> "token", run |-> r] \in Packets
  /\ \A p \in Packets : p.kind # "observe"
  /\ \A q \in Looks : q.kind = "observe" /\ q \notin Packets
<1>1. /\ \A k \in {"connect", "disconnect", "inactive", "version", "connect_error", "cleared", "error"} :
           Event(k) \in Packets /\ Event(k).kind = k
      /\ \A b \in BOOLEAN : Light(b) \in Packets /\ Light(b).kind = "working"
  BY DEF Event, Light, Packets
<1>2. \A r \in Runs : [kind |-> "token", run |-> r] \in Packets
  BY DEF Packets
<1>3. \A p \in Packets : p.kind # "observe"
  BY DEF Packets
<1>4. \A q \in Looks : q.kind = "observe"
  BY DEF Looks
<1> QED
  BY <1>1, <1>2, <1>3, <1>4

(* A chunk is a packet.                                                    *)
LEMMA ChunkFacts ==
  ASSUME NEW r \in Runs, NEW k \in 1..Chunks
  PROVE  LET p == [kind |-> "response", run |-> r, part |-> k, done |-> k = Chunks]
         IN  p \in Packets /\ p.kind = "response" /\ p.run = r /\ p.part = k
<1> DEFINE p == [kind |-> "response", run |-> r, part |-> k, done |-> k = Chunks]
<1>1. p \in [kind : {"response"}, run : Runs, part : 1..Chunks, done : BOOLEAN]
  OBVIOUS
<1>2. p.done <=> p.part = Chunks
  OBVIOUS
<1>3. p \in {q \in [kind : {"response"}, run : Runs, part : 1..Chunks, done : BOOLEAN] : q.done <=> q.part = Chunks}
  BY <1>1, <1>2
<1> QED
  BY <1>3 DEF Packets

(* A task of the main actor is an event or a look at the status.           *)
LEMMA TaskFacts ==
  ASSUME NEW td \in Seq(Packets \cup Looks), td # <<>>
  PROVE  /\ Head(td).kind = "observe" => Head(td) \in Looks
         /\ Head(td).kind # "observe" => Head(td) \in Packets
         /\ Tail(td) \in Seq(Packets \cup Looks)
  BY Taking, EventFacts

(* What publishing adds.                                                   *)
LEMMA PublishFacts ==
  ASSUME NEW td \in Seq(Packets \cup Looks), NEW u \in Screens
  PROVE  /\ Publish(td, u) \in Seq(Packets \cup Looks) /\ (~Swift => Publish(td, u) = td)
         /\ Publish(td, u) = td \/ \E q \in Looks : Publish(td, u) = Append(td, q)
<1> DEFINE q == [kind |-> "observe", on |-> u.status = "connected"]
<1>1. q \in Looks
  BY DEF Looks
<1>2. Publish(td, u) = td \/ Publish(td, u) = Append(td, q)
  BY DEF Publish
<1>3. Append(td, q) \in Seq(Packets \cup Looks)
  BY <1>1, AppendProperties
<1> QED
  BY <1>1, <1>2, <1>3 DEF Publish

(* An event arrives that is no chunk.                                      *)
LEMMA ArrivesKeeps ==
  ASSUME Typing, NEW p \in Packets, Arrives(p), client' = client
  PROVE  ScreenTyped'
<1>1. CASE Swift
  <2>1. todo' = Append(todo, p) /\ ui' = ui
    BY <1>1 DEF Arrives
  <2>2. todo' \in Seq(Packets \cup Looks)
    BY <2>1, AppendProperties DEF Typing, ScreenTyped
  <2> QED
    BY <1>1, <2>1, <2>2 DEF Typing, ScreenTyped, Swift
<1>2. CASE ~Swift
  <2>1. ui' = Handled(ui, p) /\ todo' = todo
    BY <1>2 DEF Arrives
  <2> QED
    BY <1>2, <2>1, HandledFacts DEF Typing, ScreenTyped, Swift
<1> QED
  BY <1>1, <1>2

(* And a piece stays a piece.                                              *)
LEMMA ArrivesFlows ==
  ASSUME Typing, NEW p \in Packets, p.kind \notin {"response", "cleared"}, Arrives(p), NEW w, NEW live,
         w \in Seq(Packets), Flows(ui.messages, todo, w, step, live)
  PROVE  Flows(ui'.messages, todo', w, step, live)
<1>1. CASE Swift
  <2>1. todo' = Append(todo, p) /\ ui' = ui
    BY <1>1 DEF Arrives
  <2>2. todo \in Seq(Packets \cup Looks) /\ step \in [Runs -> 0..(Chunks + 1)] /\ p \in Packets \cup Looks
    BY DEF Typing, ScreenTyped, ServerTyped
  <2>3. Flows(ui.messages, Append(todo, p), w, step, live)
    BY <2>2, JoinedFlows
  <2> QED
    BY <2>1, <2>3
<1>2. CASE ~Swift
  <2>1. ui' = Handled(ui, p) /\ todo' = todo
    BY <1>2 DEF Arrives
  <2>2. ui'.messages = ui.messages
    BY <2>1, HandledFacts DEF Typing, ScreenTyped
  <2> QED
    BY <2>1, <2>2
<1> QED
  BY <1>1, <1>2

(* A task is put into the queue, or lost.                                  *)
LEMMA Sending ==
  ASSUME PieceInv, NEW t \in Tasks, stage[t] = "idle", AtServer(t), UNCHANGED <<link, socket>>
  PROVE  /\ ServerTyped' /\ wire' \in Seq(Packets) /\ step' = step
         /\ stage'[t] # "idle" /\ \A u \in Tasks \ {t} : stage'[u] = stage[u]
         /\ \A u \in Tasks : home'[u] <= socket
         /\ \A r \in Runs : stage'[r] \in {"idle", "lost"} => step'[r] = 0
         /\ Flows(ui.messages, todo, wire', step', Heard')
<1>0. /\ Typing /\ Untouched /\ ServerTyped /\ wire \in Seq(Packets) /\ socket \in Nat
      /\ todo \in Seq(Packets \cup Looks)
  BY DEF PieceInv, Typing, LinkTyped, ScreenTyped
<1>1. CASE link = "up"
  <2>1. Enqueue(t)
    BY <1>1 DEF AtServer
  <2>2. /\ stage' = [stage EXCEPT ![t] = "queued"] /\ before' = [before EXCEPT ![t] = tail]
        /\ home' = [home EXCEPT ![t] = socket] /\ tail' = t /\ step' = step
        /\ wire' = IF t \in Runs /\ tail = None THEN Append(wire, Light(TRUE)) ELSE wire
    BY <2>1 DEF Enqueue
  <2>3. ServerTyped'
    BY <1>0, <2>2 DEF ServerTyped, Stages
  <2>4. \A u \in Tasks : home'[u] = IF u = t THEN socket ELSE home[u]
    BY <1>0, <2>2 DEF ServerTyped
  <2>5. \A u \in Tasks : stage'[u] = IF u = t THEN "queued" ELSE stage[u]
    BY <1>0, <2>2 DEF ServerTyped
  <2>6. \A u \in Tasks : home'[u] <= socket
    BY <1>0, <2>4 DEF Untouched
  <2>7. \A r \in Runs : r \in Heard' => r \in Heard \/ step[r] = 0
    BY <1>0, <2>4 DEF Heard, Untouched, Runs, Tasks
  <2>8. Flows(ui.messages, todo, wire, step, Heard')
    <3>1. Flows(ui.messages, todo, wire, step, Heard)
      BY DEF PieceInv, Piece
    <3>2. step \in [Runs -> 0..(Chunks + 1)]
      BY <1>0 DEF ServerTyped
    <3> QED
      BY <2>7, <3>1, <3>2, SilentFlows
  <2>9. Light(TRUE) \in Packets /\ Light(TRUE).kind # "response"
    BY EventFacts
  <2>10. Append(wire, Light(TRUE)) \in Seq(Packets)
    BY <1>0, <2>9, AppendProperties
  <2>11. Flows(ui.messages, todo, Append(wire, Light(TRUE)), step, Heard')
    BY <1>0, <2>8, <2>9, JoinedFlows DEF ServerTyped
  <2>12. \A r \in Runs : stage'[r] \in {"idle", "lost"} => step'[r] = 0
    BY <1>0, <2>2, <2>5 DEF Untouched, Tasks
  <2>13. wire' \in Seq(Packets) /\ Flows(ui.messages, todo, wire', step', Heard')
    <3>1. CASE t \in Runs /\ tail = None
      BY <2>2, <2>10, <2>11, <3>1
    <3>2. CASE ~(t \in Runs /\ tail = None)
      BY <1>0, <2>2, <2>8, <3>2
    <3> QED
      BY <3>1, <3>2
  <2>14. stage'[t] # "idle" /\ \A u \in Tasks \ {t} : stage'[u] = stage[u]
    BY <2>5
  <2> QED
    BY <2>2, <2>3, <2>6, <2>12, <2>13, <2>14
<1>2. CASE link # "up"
  <2>1. stage' = [stage EXCEPT ![t] = "lost"] /\ UNCHANGED <<before, step, home, tail, wire>>
    BY <1>2 DEF AtServer
  <2>2. ServerTyped'
    BY <1>0, <2>1 DEF ServerTyped, Stages
  <2>3. \A u \in Tasks : stage'[u] = IF u = t THEN "lost" ELSE stage[u]
    BY <1>0, <2>1 DEF ServerTyped
  <2>4. \A r \in Runs : stage'[r] \in {"idle", "lost"} => step'[r] = 0
    BY <1>0, <2>1, <2>3 DEF Untouched, Tasks
  <2>5. Heard' = Heard
    BY <2>1 DEF Heard
  <2> QED
    BY <1>0, <2>1, <2>2, <2>3, <2>4, <2>5 DEF Untouched, PieceInv, Piece
<1> QED
  BY <1>1, <1>2

(* The user's message on the screen.                                       *)
LEMMA SaidFacts ==
  ASSUME NEW u \in Screens, NEW r \in Typed, NEW v,
         v = [u EXCEPT !.messages = Append(@, Message("user", <<<<r, 0>>>>, FALSE)),
                       !.thought = {}, !.streaming = TRUE]
  PROVE  /\ v \in Screens /\ v.messages = Append(u.messages, Message("user", <<<<r, 0>>>>, FALSE))
         /\ v.streaming = TRUE /\ v.status = u.status
<1> DEFINE ms == Append(u.messages, Message("user", <<<<r, 0>>>>, FALSE))
<1>1. u = [status |-> u.status, messages |-> u.messages, streaming |-> u.streaming,
           working |-> u.working, thought |-> u.thought]
  BY ScreenFacts
<1>2. v = [u EXCEPT !.messages = ms, !.thought = {}, !.streaming = TRUE]
  OBVIOUS
<1>3. ms \in Seq(Messages)
  BY ScreenFacts, Said
<1> HIDE DEF ms
<1>4. v = [status |-> u.status, messages |-> ms, streaming |-> TRUE, working |-> u.working, thought |-> {}]
  BY <1>1, <1>2
<1>5. v \in Screens
  BY <1>3, <1>4, ScreenFacts DEF Screens
<1> QED
  BY <1>4, <1>5 DEF ms

(* A message is sent, or dropped.                                          *)
LEMMA SendingMessage ==
  ASSUME PieceInv, NEW r \in Typed, stage[r] = "idle", SendMessage(r), UNCHANGED <<link, socket>>
  PROVE  /\ ServerTyped' /\ wire' \in Seq(Packets) /\ ui' \in Screens /\ step' = step
         /\ \A u \in Tasks \ {r} : stage'[u] = stage[u]
         /\ \A u \in Tasks : home'[u] <= socket
         /\ \A q \in Runs : stage'[q] \in {"idle", "lost"} => step'[q] = 0
         /\ Flows(ui'.messages, todo, wire', step', Heard')
<1>0. r \in Tasks /\ r \in Runs /\ ui \in Screens /\ ui.messages \in Seq(Messages) /\ ServerTyped /\ Untouched
      /\ wire \in Seq(Packets) /\ todo \in Seq(Packets \cup Looks)
  BY ScreenFacts DEF Tasks, Runs, PieceInv, Typing, ScreenTyped, LinkTyped
<1>1. CASE Connected
  <2> DEFINE ms == Append(ui.messages, Message("user", <<<<r, 0>>>>, FALSE))
  <2>1. ui' = [ui EXCEPT !.messages = Append(@, Message("user", <<<<r, 0>>>>, FALSE)),
                         !.thought = {}, !.streaming = TRUE]
        /\ AtServer(r)
    BY <1>1 DEF SendMessage
  <2>4. ui' \in Screens /\ ui'.messages = ms
    BY <1>0, <2>1, SaidFacts
  <2> HIDE DEF ms
  <2>5. /\ ServerTyped' /\ wire' \in Seq(Packets) /\ step' = step
        /\ \A u \in Tasks \ {r} : stage'[u] = stage[u]
        /\ \A u \in Tasks : home'[u] <= socket
        /\ \A q \in Runs : stage'[q] \in {"idle", "lost"} => step'[q] = 0
        /\ Flows(ui.messages, todo, wire', step', Heard')
    BY <1>0, <2>1, Sending
  <2>6. Flows(ms, todo, wire', step', Heard')
    BY <1>0, <2>5, SaidFlows DEF ServerTyped, ms
  <2> QED
    BY <2>4, <2>5, <2>6
<1>2. CASE ~Connected
  <2>1. stage' = [stage EXCEPT ![r] = "lost"] /\ UNCHANGED <<ui, before, step, home, tail, wire>>
    BY <1>2 DEF SendMessage
  <2>2. ServerTyped'
    BY <1>0, <2>1 DEF ServerTyped, Stages
  <2>3. \A u \in Tasks : stage'[u] = IF u = r THEN "lost" ELSE stage[u]
    BY <1>0, <2>1 DEF ServerTyped
  <2>4. \A q \in Runs : stage'[q] \in {"idle", "lost"} => step'[q] = 0
    BY <1>0, <2>1, <2>3 DEF Untouched, Tasks
  <2>5. Heard' = Heard
    BY <2>1 DEF Heard
  <2> QED
    BY <1>0, <2>1, <2>2, <2>3, <2>4, <2>5 DEF Untouched, PieceInv, Piece
<1> QED
  BY <1>1, <1>2

Links == {"none", "opening", "up", "broken", "closed"}
(* What the invariant says.                                                *)
LEMMA Unpacked ==
  ASSUME PieceInv
  PROVE  /\ Typing /\ Piece /\ Untouched /\ client \in Clients /\ link \in Links /\ pending \in Typed \cup {None}
         /\ socket \in Nat /\ wire \in Seq(Packets) /\ ui \in Screens /\ todo \in Seq(Packets \cup Looks)
         /\ (~Swift => todo = <<>>) /\ ServerTyped /\ step \in [Runs -> 0..(Chunks + 1)]
         /\ Packets \subseteq Packets \cup Looks
         /\ Flows(ui.messages, todo, wire, step, Heard)
<1>1. Packets \subseteq Packets \cup Looks
  OBVIOUS
<1> QED
  BY <1>1 DEF PieceInv, Typing, TypeOK, LinkTyped, ScreenTyped, ServerTyped, Piece, Links

(* What there is to show after a step.                                     *)
LEMMA Packed ==
  ASSUME PieceInv, client' = client, link' \in Links, pending' \in Typed \cup {None},
         socket' \in Nat, wire' \in Seq(Packets), ScreenTyped', ServerTyped',
         Flows(ui'.messages, todo', wire', step', Heard'), Untouched'
  PROVE  PieceInv'
<1>1. TypeOK'
  BY DEF PieceInv, Typing, TypeOK, ScreenTyped, ServerTyped, Links
<1> QED
  BY <1>1 DEF PieceInv, Typing, Piece, LinkTyped

(* A step of the client leaves the server's part as it is.                 *)
LEMMA ServerSame ==
  ASSUME PieceInv, UNCHANGED server
  PROVE  /\ ServerTyped' /\ step' = step /\ home' = home /\ stage' = stage
         /\ link' = link /\ socket' = socket => Heard' = Heard
         /\ pending' = pending /\ (socket' = socket \/ socket' = socket + 1) => Untouched'
<1>0. ServerTyped /\ Untouched /\ socket \in Nat /\ \A t \in Tasks : home[t] \in Nat
  BY Unpacked DEF ServerTyped
<1>1. step' = step /\ home' = home /\ stage' = stage /\ before' = before /\ tail' = tail
  BY DEF server
<1>2. ServerTyped'
  BY <1>0, <1>1 DEF ServerTyped
<1>3. link' = link /\ socket' = socket => Heard' = Heard
  BY <1>1 DEF Heard
<1>4. ASSUME pending' = pending, socket' = socket \/ socket' = socket + 1
      PROVE  Untouched'
  <2>1. \A t \in Tasks : home'[t] <= socket'
    BY <1>0, <1>1, <1>4 DEF Untouched
  <2> QED
    BY <1>0, <1>1, <1>4, <2>1 DEF Untouched
<1> QED
  BY <1>1, <1>2, <1>3, <1>4

(* A packet is taken off the wire.                                         *)
LEMMA ReceiveKeeps == ASSUME PieceInv, Receive PROVE PieceInv'
<1>1. /\ wire # <<>> /\ wire' = Tail(wire) /\ Arrives(Head(wire))
      /\ UNCHANGED <<client, link, socket, pending, server>>
  BY DEF Receive
<1>2. Head(wire) \in Packets /\ wire' \in Seq(Packets)
  BY <1>1, Unpacked, Taking
<1>3. ServerTyped' /\ step' = step /\ Heard' = Heard /\ Untouched'
  BY <1>1, ServerSame
<1>4. ScreenTyped'
  BY <1>1, <1>2, Unpacked, ArrivesKeeps
<1>5. Flows(ui'.messages, todo', wire', step, Heard)
  <2>1. CASE Swift
    <3>1. todo' = Append(todo, Head(wire)) /\ ui' = ui
      BY <1>1, <2>1 DEF Arrives
    <3>2. Flows(ui.messages, Append(todo, Head(wire)), Tail(wire), step, Heard)
      BY <1>1, Unpacked, Leaves
    <3> QED
      BY <1>1, <3>1, <3>2
  <2>2. CASE ~Swift
    <3>1. todo' = <<>> /\ todo = <<>> /\ ui' = Handled(ui, Head(wire))
      BY <1>1, <2>2, Unpacked DEF Arrives
    <3>2. Flows(Handled(ui, Head(wire)).messages, <<>>, Tail(wire), step, Heard)
      BY <1>1, <3>1, Unpacked, Shows1
    <3> QED
      BY <1>1, <3>1, <3>2
  <2> QED
    BY <2>1, <2>2
<1> QED
  BY <1>1, <1>2, <1>3, <1>4, <1>5, Unpacked, Packed

(* The link opens: every task belongs to an earlier socket.                *)
LEMMA OpenKeeps == ASSUME PieceInv, Open PROVE PieceInv'
<1>1. /\ link' = "up" /\ socket' = socket + 1 /\ wire' = <<Event("connect")>>
      /\ UNCHANGED <<client, todo, ui, pending, server>>
  BY DEF Open
<1>2. Event("connect") \in Packets /\ Event("connect").kind = "connect"
  BY EventFacts
<1>3. wire' = Append(<<>>, Event("connect")) /\ wire' \in Seq(Packets) /\ <<>> \in Seq(Packets)
  BY <1>1, <1>2
<1>4. ServerTyped' /\ step' = step /\ home' = home /\ Untouched'
  BY <1>1, ServerSame
<1>5. Heard' = {}
  <2>1. ASSUME NEW r \in Runs PROVE home[r] # socket + 1
    <3>1. home[r] <= socket /\ home[r] \in Nat /\ socket \in Nat
      BY Unpacked DEF Untouched, ServerTyped, Tasks
    <3> QED
      BY <3>1
  <2> QED
    BY <1>1, <1>4, <2>1 DEF Heard
<1>6. Flows(ui.messages, todo, <<>>, step, {})
  BY Unpacked, EmptiedFlows
<1>7. Flows(ui.messages, todo, wire', step, {})
  BY <1>2, <1>3, <1>6, Unpacked, JoinedFlows
<1>8. ScreenTyped'
  BY <1>1, Unpacked DEF ScreenTyped, Swift
<1>9. link' \in Links /\ socket' \in Nat
  BY <1>1, Unpacked DEF Links
<1> QED
  BY <1>1, <1>3, <1>4, <1>5, <1>7, <1>8, <1>9, Unpacked, Packed

(* An attempt fails.                                                       *)
LEMMA RefuseKeeps == ASSUME PieceInv, Refuse PROVE PieceInv'
<1>1. /\ link = "opening" /\ link' \in {"opening", "none"} /\ Arrives(Event("connect_error"))
      /\ UNCHANGED <<client, socket, wire, pending, server>>
  BY DEF Refuse
<1>2. Event("connect_error") \in Packets /\ Event("connect_error").kind = "connect_error"
  BY EventFacts
<1>3. ServerTyped' /\ step' = step /\ Untouched'
  BY <1>1, ServerSame
<1>4. Heard = {} /\ Heard' = {}
  BY <1>1 DEF Heard
<1>5. ScreenTyped'
  BY <1>1, <1>2, Unpacked, ArrivesKeeps
<1>6. Flows(ui'.messages, todo', wire, step, Heard)
  BY <1>1, <1>2, Unpacked, ArrivesFlows
<1>7. link' \in Links
  BY <1>1 DEF Links
<1> QED
  BY <1>1, <1>3, <1>4, <1>5, <1>6, <1>7, Unpacked, Packed

(* The link breaks: what is cut off comes last.                            *)
LEMMA BreakKeeps == ASSUME PieceInv, Break PROVE PieceInv'
<1>1. /\ link' = "broken" /\ UNCHANGED <<client, socket, todo, ui, pending, server>>
  BY DEF Break
<1>2. PICK n \in 0..Len(wire) : wire' = SubSeq(wire, 1, n)
  BY DEF Break
<1>3. wire' \in Seq(Packets)
  BY <1>2, Unpacked, Cutting
<1>4. ServerTyped' /\ step' = step /\ Untouched'
  BY <1>1, ServerSame
<1>5. Heard' = {}
  BY <1>1 DEF Heard
<1>6. Flows(ui.messages, todo, wire', step, {})
  BY <1>2, Unpacked, EmptiedFlows
<1>7. ScreenTyped' /\ link' \in Links
  BY <1>1, Unpacked DEF ScreenTyped, Swift, Links
<1> QED
  BY <1>1, <1>3, <1>4, <1>5, <1>6, <1>7, Unpacked, Packed

(* The server closes it and says why.                                      *)
LEMMA CloseKeeps == ASSUME PieceInv, Close PROVE PieceInv'
<1>1. /\ link' = "closed" /\ UNCHANGED <<client, socket, todo, ui, pending, server>>
  BY DEF Close
<1>2. PICK why \in {"inactive", "version"} : wire' = Append(wire, Event(why))
  BY DEF Close
<1>3. Event(why) \in Packets /\ Event(why).kind # "response"
  BY EventFacts
<1>4. wire' \in Seq(Packets)
  BY <1>2, <1>3, Unpacked, AppendProperties
<1>5. ServerTyped' /\ step' = step /\ Untouched'
  BY <1>1, ServerSame
<1>6. Heard' = {} /\ {} \subseteq Heard
  BY <1>1 DEF Heard
<1>7. Flows(ui.messages, todo, wire', step, Heard)
  BY <1>2, <1>3, Unpacked, JoinedFlows
<1>8. Flows(ui.messages, todo, wire', step, {})
  BY <1>6, <1>7, FlowsOn
<1>9. ScreenTyped' /\ link' \in Links
  BY <1>1, Unpacked DEF ScreenTyped, Swift, Links
<1> QED
  BY <1>1, <1>4, <1>5, <1>6, <1>8, <1>9, Unpacked, Packed

(* The client notices.                                                     *)
LEMMA NoticeKeeps == ASSUME PieceInv, Notice PROVE PieceInv'
<1>1. /\ link \in {"broken", "closed"} /\ link' \in {"opening", "none"} /\ Arrives(Event("disconnect"))
      /\ UNCHANGED <<client, socket, wire, pending, server>>
  BY DEF Notice
<1>2. Event("disconnect") \in Packets /\ Event("disconnect").kind = "disconnect"
  BY EventFacts
<1>3. ServerTyped' /\ step' = step /\ Untouched'
  BY <1>1, ServerSame
<1>4. Heard = {} /\ Heard' = {}
  BY <1>1 DEF Heard
<1>5. ScreenTyped'
  BY <1>1, <1>2, Unpacked, ArrivesKeeps
<1>6. Flows(ui'.messages, todo', wire, step, Heard)
  BY <1>1, <1>2, Unpacked, ArrivesFlows
<1>7. link' \in Links
  BY <1>1 DEF Links
<1> QED
  BY <1>1, <1>3, <1>4, <1>5, <1>6, <1>7, Unpacked, Packed

(* A run says a token or its next chunk.                                   *)
LEMMA EmitNextKeeps ==
  ASSUME PieceInv, NEW r \in Runs, EmitNext(r), UNCHANGED <<client, link, socket, todo, ui, pending>>
  PROVE  PieceInv'
<1>0. r \in Tasks /\ step[r] \in 0..(Chunks + 1) /\ Chunks \in Nat \ {0} /\ home[r] \in Nat
  BY Unpacked, StreamAssumption DEF Tasks, ServerTyped
<1>1. /\ step[r] <= Chunks /\ step' = [step EXCEPT ![r] = @ + 1]
      /\ UNCHANGED <<stage, before, home, tail>> /\ stage[r] = "queued"
  BY DEF EmitNext, Ready
<1>2. ServerTyped'
  <2>1. step' \in [Runs -> 0..(Chunks + 1)]
    BY <1>0, <1>1, Unpacked
  <2> QED
    BY <1>1, <2>1, Unpacked DEF ServerTyped
<1>3. Heard' = Heard
  BY <1>1 DEF Heard
<1>4. Untouched'
  <2>1. \A q \in Runs : stage'[q] \in {"idle", "lost"} => step'[q] = 0
    BY <1>1, Unpacked DEF Untouched, ServerTyped
  <2> QED
    BY <1>1, <2>1, Unpacked DEF Untouched
<1>5. wire' \in Seq(Packets) /\ Flows(ui.messages, todo, wire', step', Heard)
  <2>1. CASE link = "up" /\ home[r] = socket /\ step[r] = 0
    <3> DEFINE p == [kind |-> "token", run |-> r]
    <3>1. wire' = wire \o <<p>>
      BY <1>1, <2>1 DEF EmitNext, Send
    <3>2. p \in Packets /\ p.kind # "response"
      BY EventFacts
    <3> HIDE DEF p
    <3>3. wire' = Append(wire, p) /\ wire' \in Seq(Packets)
      <4>1. Append(wire, p) = wire \o <<p>>
        BY <3>2, Unpacked, AppendIsConcat
      <4> QED
        BY <3>1, <3>2, <4>1, Unpacked, AppendProperties
    <3>4. Flows(ui.messages, todo, Append(wire, p), step, Heard)
      BY <3>2, Unpacked, JoinedFlows
    <3> QED
      BY <1>1, <2>1, <3>3, <3>4, Unpacked, UnheardFlows
  <2>2. CASE link = "up" /\ home[r] = socket /\ step[r] # 0
    <3> DEFINE p == [kind |-> "response", run |-> r, part |-> step[r], done |-> step[r] = Chunks]
    <3>1. wire' = wire \o <<p>>
      BY <1>1, <2>2 DEF EmitNext, Send
    <3>2. step[r] \in 1..Chunks /\ r \in Heard
      BY <1>0, <1>1, <2>2 DEF Heard
    <3>3. p \in Packets /\ p.kind = "response" /\ p.run = r /\ p.part = step[r]
      BY <3>2, ChunkFacts
    <3> HIDE DEF p
    <3>4. wire' = Append(wire, p) /\ wire' \in Seq(Packets)
      <4>1. Append(wire, p) = wire \o <<p>>
        BY <3>3, Unpacked, AppendIsConcat
      <4> QED
        BY <3>1, <3>3, <4>1, Unpacked, AppendProperties
    <3>5. Flows(ui.messages, todo, Append(wire, p), [step EXCEPT ![r] = @ + 1], Heard)
      BY <3>2, <3>3, Unpacked, EmitFlows
    <3> QED
      BY <1>1, <3>4, <3>5
  <2>3. CASE ~(link = "up" /\ home[r] = socket)
    <3>1. wire' = wire /\ r \notin Heard
      BY <1>1, <2>3 DEF EmitNext, Send, Heard
    <3> QED
      BY <1>1, <3>1, Unpacked, UnheardFlows
  <2> QED
    BY <2>1, <2>2, <2>3
<1> QED
  BY <1>2, <1>3, <1>4, <1>5, Unpacked, Packed DEF ScreenTyped, Swift

(* The end of a run or of a clear, and what it tells the client.           *)
LEMMA EndKeeps ==
  ASSUME PieceInv, NEW t \in Tasks, stage[t] = "queued", stage' = [stage EXCEPT ![t] = "done"],
         tail' \in {tail, None}, UNCHANGED <<before, step, home>>,
         NEW ps \in Seq(Packets), \A i \in DOMAIN ps : ps[i].kind # "response", wire' \in {wire, wire \o ps},
         UNCHANGED <<client, link, socket, todo, ui, pending>>
  PROVE  PieceInv'
<1>1. ServerTyped'
  BY Unpacked DEF ServerTyped, Stages
<1>2. Heard' = Heard
  BY DEF Heard
<1>3. \A u \in Tasks : stage'[u] = IF u = t THEN "done" ELSE stage[u]
  BY Unpacked DEF ServerTyped
<1>4. Untouched'
  <2>1. \A q \in Runs : stage'[q] \in {"idle", "lost"} => step'[q] = 0
    BY <1>3, Unpacked DEF Untouched, Tasks
  <2>2. pending # None => stage'[pending] = "idle"
    BY <1>3, Unpacked DEF Untouched, Tasks, Runs
  <2> QED
    BY <2>1, <2>2, Unpacked DEF Untouched
<1>5. wire' \in Seq(Packets) /\ Flows(ui.messages, todo, wire', step, Heard)
  <2>1. wire \o ps \in Seq(Packets)
    BY Unpacked, ConcatProperties
  <2>2. Flows(ui.messages, todo, wire \o ps, step, Heard)
    BY Unpacked, JoinedFlows
  <2> QED
    BY <2>1, <2>2, Unpacked
<1> QED
  BY <1>1, <1>2, <1>4, <1>5, Unpacked, Packed DEF ScreenTyped, Swift

(* What is no chunk and no clear.                                          *)
Plain(ps) == \A i \in DOMAIN ps : ps[i].kind \notin {"response", "cleared"}
(* A run says nothing else at its end.                                     *)
LEMMA EndSays ==
  ASSUME PieceInv, NEW r \in Runs, EndRun(r)
  PROVE  \E ps \in Seq(Packets) : Plain(ps) /\ wire' = wire \o ps
<1> DEFINE d == Drained(r)
           e == <<Event("error")>>
           z == <<>>
<1>1. ASSUME NEW p \in Packets, p.kind \notin {"response", "cleared"} PROVE <<p>> \in Seq(Packets) /\ Plain(<<p>>)
  BY <1>1 DEF Plain
<1>2. z \in Seq(Packets) /\ Plain(z) /\ wire = wire \o z
  BY Unpacked, InEmpty, EmptySeq, ConcatEmptySeq DEF Plain
<1>3. e \in Seq(Packets) /\ Plain(e)
  BY <1>1, EventFacts
<1>4. d \in Seq(Packets) /\ Plain(d)
  <2>1. <<Light(FALSE)>> \in Seq(Packets) /\ Plain(<<Light(FALSE)>>)
    BY <1>1, EventFacts
  <2> QED
    BY <1>2, <2>1 DEF Drained
<1>5. wire' = wire \/ wire' = wire \o d \/ wire' = wire \o (e \o d)
  BY DEF EndRun, Send
<1> HIDE DEF d, e, z
<1>6. (e \o d) \in Seq(Packets) /\ Plain(e \o d)
  <2> DEFINE ps == e \o d
  <2>1. /\ ps \in Seq(Packets) /\ Len(d) \in Nat /\ DOMAIN d = 1..Len(d) /\ DOMAIN ps = 1..(Len(e) + Len(d))
        /\ Len(e) \in Nat /\ DOMAIN e = 1..Len(e)
        /\ \A i \in 1..Len(e) : ps[i] = e[i]
        /\ \A i \in 1..Len(d) : ps[Len(e) + i] = d[i]
    BY <1>3, <1>4, Joining
  <2> HIDE DEF ps
  <2>2. ASSUME NEW i \in DOMAIN ps, i \notin 1..Len(e) PROVE i - Len(e) \in 1..Len(d) /\ Len(e) + (i - Len(e)) = i
    BY <2>1, <2>2
  <2>3. \A i \in DOMAIN ps : ps[i].kind \notin {"response", "cleared"}
    BY <1>3, <1>4, <2>1, <2>2 DEF Plain
  <2> QED
    BY <2>1, <2>3 DEF Plain, ps
<1> QED
  BY <1>2, <1>4, <1>5, <1>6

(* The server's steps.                                                     *)
LEMMA ServeKeeps == ASSUME PieceInv, Serve PROVE PieceInv'
<1>0. UNCHANGED <<client, link, socket, todo, ui, pending>>
  BY DEF Serve
<1>1. ASSUME NEW r \in Runs, EmitNext(r) PROVE PieceInv'
  BY <1>0, <1>1, EmitNextKeeps
<1>2. ASSUME NEW r \in Runs, EndRun(r) PROVE PieceInv'
  <2>1. /\ r \in Tasks /\ stage[r] = "queued" /\ stage' = [stage EXCEPT ![r] = "done"]
        /\ tail' \in {tail, None} /\ UNCHANGED <<before, step, home>>
    BY <1>2 DEF EndRun, Ready, Ended, Tasks
  <2>2. PICK ps \in Seq(Packets) : Plain(ps) /\ wire' = wire \o ps
    BY <1>2, EndSays
  <2>3. \A i \in DOMAIN ps : ps[i].kind # "response"
    BY <2>2 DEF Plain
  <2> QED
    BY <1>0, <2>1, <2>2, <2>3, EndKeeps
<1>3. ASSUME NEW c \in Clears, EndClear(c) PROVE PieceInv'
  <2> DEFINE ps == <<Event("cleared")>>
  <2>1. /\ c \in Tasks /\ stage[c] = "queued" /\ stage' = [stage EXCEPT ![c] = "done"]
        /\ tail' \in {tail, None} /\ UNCHANGED <<before, step, home>>
        /\ wire' \in {wire, Append(wire, Event("cleared"))}
    BY <1>3 DEF EndClear, Ready, Tasks
  <2>2. Event("cleared") \in Packets /\ Event("cleared").kind # "response"
    BY EventFacts
  <2>3. ps \in Seq(Packets) /\ \A i \in DOMAIN ps : ps[i].kind # "response"
    BY <2>2
  <2>4. wire' \in {wire, wire \o ps}
    <3>1. Append(wire, Event("cleared")) = wire \o ps
      BY <2>2, Unpacked, AppendIsConcat
    <3> QED
      BY <2>1, <3>1
  <2> HIDE DEF ps
  <2> QED
    BY <1>0, <2>1, <2>3, <2>4, EndKeeps
<1> QED
  BY <1>1, <1>2, <1>3 DEF Serve

(* A task comes in while the screen stays as it is.                        *)
LEMMA ComingIn ==
  ASSUME PieceInv, NEW t \in Tasks, Fresh(t), AtServer(t), t # pending,
         UNCHANGED <<client, link, socket, todo, ui, pending>>
  PROVE  PieceInv'
<1>1. stage[t] = "idle"
  BY DEF Fresh
<1>2. /\ ServerTyped' /\ wire' \in Seq(Packets) /\ step' = step
      /\ \A u \in Tasks \ {t} : stage'[u] = stage[u]
      /\ \A u \in Tasks : home'[u] <= socket
      /\ \A r \in Runs : stage'[r] \in {"idle", "lost"} => step'[r] = 0
      /\ Flows(ui.messages, todo, wire', step', Heard')
  BY <1>1, Sending
<1>3. pending # None => stage'[pending] = "idle"
  BY <1>2, Unpacked DEF Untouched, Tasks, Runs
<1>4. Untouched'
  BY <1>2, <1>3 DEF Untouched
<1>5. ScreenTyped'
  BY Unpacked DEF ScreenTyped, Swift
<1> QED
  BY <1>2, <1>4, <1>5, Unpacked, Packed

(* A follow-up of the server.                                              *)
LEMMA FollowUpKeeps == ASSUME PieceInv, NEW f \in FollowUps, FollowUp(f) PROVE PieceInv'
<1>1. /\ Fresh(f) /\ link = "up" /\ Enqueue(f) /\ UNCHANGED <<client, link, socket, todo, ui, pending>>
  BY DEF FollowUp
<1>2. AtServer(f) /\ f \in Tasks /\ f # pending
  BY <1>1, Unpacked, StreamAssumption DEF AtServer, Tasks, Runs
<1> QED
  BY <1>1, <1>2, ComingIn

(* A clear of the user.                                                    *)
LEMMA ClearContextKeeps == ASSUME PieceInv, NEW c \in Clears, ClearContext(c) PROVE PieceInv'
<1>1. c \in Tasks /\ c # pending
  BY Unpacked, StreamAssumption DEF Tasks, Runs
<1> QED
  BY <1>1, ComingIn DEF ClearContext

(* A message is sent; the status loop or nobody looks at the screen then.  *)
LEMMA SendKeeps ==
  ASSUME PieceInv, NEW r \in Typed, stage[r] = "idle", SendMessage(r), pending' \in {pending, None}, pending' # r,
         ScreenTyped', todo' = todo \/ \E q \in Looks : todo' = Append(todo, q),
         UNCHANGED <<client, link, socket>>
  PROVE  PieceInv'
<1>1. /\ ServerTyped' /\ wire' \in Seq(Packets) /\ ui' \in Screens /\ step' = step
      /\ \A u \in Tasks \ {r} : stage'[u] = stage[u]
      /\ \A u \in Tasks : home'[u] <= socket
      /\ \A q \in Runs : stage'[q] \in {"idle", "lost"} => step'[q] = 0
      /\ Flows(ui'.messages, todo, wire', step', Heard')
  BY SendingMessage
<1>2. pending' # None => stage'[pending'] = "idle"
  BY <1>1, Unpacked DEF Untouched, Tasks, Runs
<1>3. Untouched'
  BY <1>1, <1>2 DEF Untouched
<1>4. Flows(ui'.messages, todo', wire', step', Heard')
  <2>1. CASE todo' = todo
    BY <1>1, <2>1
  <2>2. ASSUME NEW q \in Looks, todo' = Append(todo, q) PROVE Flows(ui'.messages, todo', wire', step', Heard')
    <3>1. q \in Packets \cup Looks /\ q.kind # "response"
      BY EventFacts
    <3>2. step' \in [Runs -> 0..(Chunks + 1)]
      BY <1>1 DEF ServerTyped
    <3> QED
      BY <1>1, <2>2, <3>1, <3>2, Unpacked, JoinedFlows
  <2> QED
    BY <2>1, <2>2
<1> QED
  BY <1>1, <1>3, <1>4, Unpacked, Packed

(* The status loop of the iPad sends what is pending.                      *)
LEMMA ObserveKeeps == ASSUME PieceInv, Observe PROVE PieceInv'
<1>1. /\ todo # <<>> /\ Head(todo).kind = "observe" /\ todo' = Tail(todo)
      /\ UNCHANGED <<client, link, socket>>
  BY DEF Observe
<1>2. todo' \in Seq(Packets \cup Looks) /\ Swift
  BY <1>1, Unpacked, TaskFacts
<1>3. CASE SendMessage(pending) /\ pending # None /\ pending' = None
  <2>1. pending \in Typed /\ stage[pending] = "idle"
    BY <1>3, Unpacked DEF Untouched
  <2>2. /\ ServerTyped' /\ wire' \in Seq(Packets) /\ ui' \in Screens /\ step' = step
        /\ \A u \in Tasks : home'[u] <= socket
        /\ \A q \in Runs : stage'[q] \in {"idle", "lost"} => step'[q] = 0
        /\ Flows(ui'.messages, todo, wire', step', Heard')
    BY <1>1, <1>3, <2>1, SendingMessage
  <2>3. Flows(ui'.messages, Tail(todo), wire', step', Heard')
    <3>1. step' \in [Runs -> 0..(Chunks + 1)] /\ Head(todo).kind # "response"
      BY <1>1, <2>2 DEF ServerTyped
    <3> QED
      BY <1>1, <2>2, <3>1, Unpacked, LookFlows
  <2>4. Untouched'
    BY <1>1, <1>3, <2>2 DEF Untouched
  <2>5. ScreenTyped'
    BY <1>1, <1>2, <2>2 DEF ScreenTyped, Swift
  <2> QED
    BY <1>1, <1>3, <2>2, <2>3, <2>4, <2>5, Unpacked, Packed
<1>4. CASE UNCHANGED <<pending, ui, server, wire>>
  <2>1. ServerTyped' /\ step' = step /\ Heard' = Heard /\ Untouched'
    BY <1>1, <1>4, ServerSame
  <2>2. Flows(ui.messages, Tail(todo), wire, step, Heard)
    BY <1>1, Unpacked, LookFlows
  <2>3. ScreenTyped'
    BY <1>1, <1>2, <1>4, Unpacked DEF ScreenTyped, Swift
  <2> QED
    BY <1>1, <1>4, <2>1, <2>2, <2>3, Unpacked, Packed
<1> QED
  BY <1>3, <1>4 DEF Observe

(* The main actor handles an event, and may disconnect.                    *)
LEMMA RunTaskKeeps == ASSUME PieceInv, RunTask PROVE PieceInv'
<1> DEFINE p    == Head(todo)
           lost == p.kind = "inactive" /\ link # "none"
           rest == IF lost THEN Append(Tail(todo), Event("disconnect")) ELSE Tail(todo)
<1>1. /\ todo # <<>> /\ p.kind # "observe"
      /\ ui' = Handled(ui, p) /\ todo' = IF p.kind = "token" THEN rest ELSE Publish(rest, ui')
      /\ link' = IF lost THEN "none" ELSE link
      /\ wire' = IF lost THEN <<>> ELSE wire
      /\ UNCHANGED <<client, socket, pending, server>>
  BY DEF RunTask
<1>2. p \in Packets /\ Tail(todo) \in Seq(Packets \cup Looks) /\ Swift
  BY <1>1, Unpacked, TaskFacts
<1>3. ui' \in Screens
  BY <1>1, <1>2, Unpacked, HandledFacts
<1>4. /\ Event("disconnect") \in Packets \cup Looks /\ Event("disconnect").kind # "response"
      /\ \A q \in Looks : q \in Packets \cup Looks /\ q.kind # "response"
  BY EventFacts
<1>5. rest \in Seq(Packets \cup Looks)
  BY <1>2, <1>4, AppendProperties
<1>6. ServerTyped' /\ step' = step /\ home' = home /\ Untouched'
  BY <1>1, ServerSame
<1>7. Flows(ui'.messages, Tail(todo), wire, step, Heard)
  <2>1. Flows(Handled(ui, Head(todo)).messages, Tail(todo), wire, step, Heard)
    BY <1>1, <1>2, Unpacked, Shows2
  <2> QED
    BY <1>1, <2>1
<1>8. Flows(ui'.messages, rest, wire, step, Heard)
  <2>1. Flows(ui'.messages, Append(Tail(todo), Event("disconnect")), wire, step, Heard)
    BY <1>2, <1>4, <1>7, Unpacked, JoinedFlows
  <2> QED
    BY <1>7, <2>1
<1> HIDE DEF rest, lost, p
<1>9. todo' = rest \/ \E q \in Looks : todo' = Append(rest, q)
  BY <1>1, <1>3, <1>5, PublishFacts
<1>10. todo' \in Seq(Packets \cup Looks) /\ Flows(ui'.messages, todo', wire, step, Heard)
  <2>1. CASE todo' = rest
    BY <1>5, <1>8, <2>1
  <2>2. ASSUME NEW q \in Looks, todo' = Append(rest, q)
        PROVE  todo' \in Seq(Packets \cup Looks) /\ Flows(ui'.messages, todo', wire, step, Heard)
    BY <1>4, <1>5, <1>8, <2>2, Unpacked, JoinedFlows, AppendProperties
  <2> QED
    BY <1>9, <2>1, <2>2
<1>11. wire' \in Seq(Packets) /\ link' \in Links /\ Flows(ui'.messages, todo', wire', step, Heard')
  <2>1. CASE lost
    <3>1. Heard' = {} /\ link' \in Links /\ wire' = <<>>
      BY <1>1, <2>1 DEF Heard, Links
    <3>2. Flows(ui'.messages, todo', <<>>, step, {})
      BY <1>10, Unpacked, EmptiedFlows
    <3> QED
      BY <3>1, <3>2, EmptySeq
  <2>2. CASE ~lost
    <3>1. Heard' = Heard /\ link' \in Links /\ wire' = wire
      BY <1>1, <1>6, <2>2, Unpacked DEF Heard
    <3> QED
      BY <1>10, <3>1, Unpacked
  <2> QED
    BY <2>1, <2>2
<1>12. ScreenTyped'
  BY <1>1, <1>2, <1>3, <1>10 DEF ScreenTyped, Swift
<1> QED
  BY <1>1, <1>6, <1>11, <1>12, Unpacked, Packed

(* A new connection, or none.                                              *)
LEMMA Disconnected ==
  ASSUME PieceInv, link' \in {"opening", "none"}, wire' = <<>>, ui' \in Screens,
         ui'.messages = ui.messages \/ ui'.messages = <<>>, todo' = Publish(todo, ui'),
         pending' = pending \/ (pending' \in Typed /\ stage[pending'] = "idle"),
         UNCHANGED <<client, socket, server>>
  PROVE  PieceInv'
<1>1. ServerTyped' /\ step' = step /\ home' = home /\ stage' = stage
  BY ServerSame
<1>2. Heard' = {} /\ link' \in Links
  BY DEF Heard, Links
<1>3. Flows(ui'.messages, todo, <<>>, step, {})
  <2>1. Flows(ui'.messages, todo, wire, step, Heard)
    BY Unpacked, EmptiedFlows
  <2> QED
    BY <2>1, Unpacked, EmptiedFlows
<1>4. /\ todo' \in Seq(Packets \cup Looks) /\ (~Swift => todo' = todo)
      /\ todo' = todo \/ \E q \in Looks : todo' = Append(todo, q)
  BY Unpacked, PublishFacts
<1>5. Flows(ui'.messages, todo', <<>>, step, {})
  <2>1. CASE todo' = todo
    BY <1>3, <2>1
  <2>2. ASSUME NEW q \in Looks, todo' = Append(todo, q) PROVE Flows(ui'.messages, todo', <<>>, step, {})
    <3>1. q \in Packets \cup Looks /\ q.kind # "response" /\ <<>> \in Seq(Packets)
      BY EventFacts, EmptySeq
    <3>2. todo \in Seq(Packets \cup Looks) /\ step \in [Runs -> 0..(Chunks + 1)]
      BY Unpacked
    <3>3. ASSUME NEW w \in Seq(Packets), NEW ms, Flows(ms, todo, w, step, {})
          PROVE  Flows(ms, Append(todo, q), w, step, {})
      BY <3>1, <3>2, <3>3, JoinedFlows
    <3> QED
      BY <1>3, <2>2, <3>1, <3>3
  <2> QED
    BY <1>4, <2>1, <2>2
<1>6. ScreenTyped'
  BY <1>4, Unpacked DEF ScreenTyped, Swift
<1>7. Untouched'
  BY <1>1, Unpacked DEF Untouched
<1> QED
  BY <1>1, <1>2, <1>5, <1>6, <1>7, Unpacked, Packed, EmptySeq

(* What connect() does.                                                    *)
LEMMA ConnectFacts ==
  ASSUME PieceInv, Connect
  PROVE  /\ link' = "opening" /\ wire' = <<>> /\ ui' \in Screens /\ ui'.messages = ui.messages
         /\ todo' = Publish(todo, ui') /\ UNCHANGED <<client, socket, server>>
<1>1. ui' = [ui EXCEPT !.status = "connecting"] /\ "connecting" \in Statuses /\ ui \in Screens
  BY Unpacked DEF Connect, Statuses
<1>2. ui' \in Screens /\ ui'.messages = ui.messages
  BY <1>1, StatusFacts
<1> QED
  BY <1>2 DEF Connect

(* The user connects again.                                                *)
LEMMA ReconnectKeeps == ASSUME PieceInv, Reconnect PROVE PieceInv'
  BY ConnectFacts, Disconnected DEF Reconnect

(* The user of the iPad disconnects.                                       *)
LEMMA DisconnectKeeps == ASSUME PieceInv, Disconnect PROVE PieceInv'
<1> DEFINE u == Forgot(ui)
           v == Dark(u)
<1>1. /\ link' = "none" /\ wire' = <<>> /\ ui' = [v EXCEPT !.status = "disconnected"]
      /\ todo' = Publish(todo, ui') /\ UNCHANGED <<client, socket, pending, server>>
  BY DEF Disconnect
<1>2. u \in Screens /\ u.messages = <<>>
  BY Unpacked, ForgotFacts
<1> HIDE DEF u
<1>3. v \in Screens /\ v.messages = <<>> /\ "disconnected" \in Statuses
  BY <1>2, DarkFacts DEF Statuses
<1> HIDE DEF v
<1>4. ui' \in Screens /\ ui'.messages = <<>>
  BY <1>1, <1>3, StatusFacts
<1> QED
  BY <1>1, <1>4, Disconnected

(* The user's message is sent, or waits for a connection.                  *)
LEMMA SubmitKeeps == ASSUME PieceInv, NEW r \in Typed, Submit(r) PROVE PieceInv'
<1>1. Fresh(r) /\ pending # r /\ stage[r] = "idle"
  BY DEF Submit, Fresh
<1>2. CASE ui.status = "connected"
  <2>1. /\ SendMessage(r) /\ todo' = IF Connected THEN Publish(todo, ui') ELSE todo
        /\ UNCHANGED <<client, link, socket, pending>>
    BY <1>2 DEF Submit
  <2>2. ui' \in Screens
    BY <1>1, <2>1, SendingMessage
  <2>3. /\ todo' \in Seq(Packets \cup Looks) /\ (~Swift => todo' = todo)
        /\ todo' = todo \/ \E q \in Looks : todo' = Append(todo, q)
    BY <2>1, <2>2, Unpacked, PublishFacts
  <2>4. ScreenTyped'
    BY <2>1, <2>2, <2>3, Unpacked DEF ScreenTyped, Swift
  <2> QED
    BY <1>1, <2>1, <2>3, <2>4, SendKeeps
<1>3. CASE ui.status # "connected"
  <2>1. pending' = r /\ Connect
    BY <1>3 DEF Submit
  <2> QED
    BY <1>1, <2>1, ConnectFacts, Disconnected
<1> QED
  BY <1>2, <1>3

(* The web host sends what waited.                                         *)
LEMMA SendPendingKeeps == ASSUME PieceInv, SendPending PROVE PieceInv'
<1>1. /\ pending # None /\ SendMessage(pending) /\ pending' = None
      /\ UNCHANGED <<client, link, socket, todo>>
  BY DEF SendPending, Due
<1>2. pending \in Typed /\ stage[pending] = "idle"
  BY <1>1, Unpacked DEF Untouched
<1>3. ui' \in Screens
  BY <1>1, <1>2, SendingMessage
<1>4. ScreenTyped'
  BY <1>1, <1>3, Unpacked DEF ScreenTyped, Swift
<1> QED
  BY <1>1, <1>2, <1>4, SendKeeps

-----------------------------------------------------------------------------
(***************************************************************************)
(* The theorems about the chunks.                                          *)
(***************************************************************************)
(* It holds when the program starts.                                       *)
LEMMA PieceStart == Init => PieceInv
<1> SUFFICES ASSUME Init PROVE PieceInv
  OBVIOUS
<1>1. Chunks \in Nat \ {0} /\ None \notin Tasks
  BY StreamAssumption
<1>2. ui = [status |-> "connecting", messages |-> <<>>, streaming |-> FALSE, working |-> FALSE, thought |-> {}]
  BY DEF Init
<1>3. ui \in Screens /\ ui.messages = <<>>
  BY <1>2, EmptySeq DEF Screens
<1>4. ServerTyped
  BY <1>1 DEF Init, ServerTyped, Stages
<1>5. Typing
  BY <1>3, <1>4, EmptySeq DEF Init, Typing, TypeOK, LinkTyped, ScreenTyped, ServerTyped
<1>6. Flows(<<>>, <<>>, <<>>, step, Heard)
  BY SeenEmpty, InEmpty DEF Flows, InOrder, Known
<1>7. Untouched
  BY DEF Init, Untouched, Tasks, Runs
<1> QED
  BY <1>3, <1>5, <1>6, <1>7 DEF Init, PieceInv, Piece

(* Every step keeps it.                                                    *)
LEMMA PieceStep == PieceInv /\ [Next]_vars => PieceInv'
<1> SUFFICES ASSUME PieceInv, [Next]_vars PROVE PieceInv'
  OBVIOUS
<1>1. CASE Receive \/ Observe \/ RunTask \/ SendPending \/ Serve
  BY <1>1, ReceiveKeeps, ObserveKeeps, RunTaskKeeps, SendPendingKeeps, ServeKeeps
<1>2. CASE Link
  BY <1>2, OpenKeeps, RefuseKeeps, BreakKeeps, CloseKeeps, NoticeKeeps DEF Link
<1>3. CASE User
  BY <1>3, SubmitKeeps, ReconnectKeeps, DisconnectKeeps, ClearContextKeeps DEF User
<1>4. CASE \E f \in FollowUps : FollowUp(f)
  BY <1>4, FollowUpKeeps
<1>5. CASE UNCHANGED vars
  <2>1. /\ UNCHANGED <<client, link, socket, wire, todo, ui, pending>> /\ UNCHANGED server
    BY <1>5 DEF vars
  <2>2. ServerTyped' /\ step' = step /\ Heard' = Heard /\ Untouched'
    BY <2>1, ServerSame
  <2> QED
    BY <2>1, <2>2, Unpacked, Packed DEF ScreenTyped, Swift
<1> QED
  BY <1>1, <1>2, <1>3, <1>4, <1>5 DEF Next

(* Of what the screen shows, nothing is missing in between: what comes     *)
(* later on the way is behind all of it.                                   *)
LEMMA PieceShown == PieceInv => NothingSkippedOrRepeated
<1> SUFFICES ASSUME PieceInv, NEW r \in Runs, NEW m \in 1..Chunks, NEW n \in 1..Chunks
             PROVE  /\ \A i, k \in DOMAIN ui.messages :
                         \A j \in DOMAIN ui.messages[i].parts, l \in DOMAIN ui.messages[k].parts :
                           Shows(i, j, r, m) /\ Shows(k, l, r, n) /\ (i < k \/ (i = k /\ j < l)) => m < n
                    /\ Shown(r, m) /\ Shown(r, n) => \A o \in m..n : Shown(r, o)
  BY DEF NothingSkippedOrRepeated
<1>0. Chunks \in Nat
  BY StreamAssumption
<1>1. Flows(ui.messages, todo, wire, step, Heard)
  BY Unpacked
<1>2. SeenOrdered(ui.messages)
  BY <1>1 DEF Flows, InOrder
<1>3. \A o \in 1..Chunks : Shown(r, o) <=> Seen(ui.messages, r, o)
  <2>1. \A o \in 1..Chunks : o > 0
    BY <1>0
  <2> QED
    BY <2>1 DEF Shown, Shows, Seen
<1>4. ASSUME Seen(ui.messages, r, m), Seen(ui.messages, r, n), NEW o \in m..n PROVE Seen(ui.messages, r, o)
  <2>1. o \in 1..Chunks /\ ~(n < o)
    BY <1>0
  <2>2. Known(ui.messages, todo, wire, r, m) /\ Known(ui.messages, todo, wire, r, n)
    BY <1>4 DEF Known
  <2>3. Known(ui.messages, todo, wire, r, o)
    BY <1>1, <2>2 DEF Flows
  <2> QED
    BY <1>1, <1>4, <2>1, <2>3 DEF Flows, InOrder, Known
<1>5. \A o \in m..n : o \in 1..Chunks
  BY <1>0
<1> QED
  BY <1>2, <1>3, <1>4, <1>5 DEF SeenOrdered, Shows

(* Client, link, packets, tasks, screen and queue keep their types; Typing  *)
(* has TypeOK as its first part.                                           *)
THEOREM StreamTyped == Spec => []Typing
<1>1. PieceInv => Typing
  BY DEF PieceInv
<1> QED
  BY PieceStart, PieceStep, <1>1, PTL DEF Spec

(* What the screen shows of a run is a piece of what the run said.         *)
THEOREM NothingIsSkippedOrRepeated == Spec => []NothingSkippedOrRepeated
  BY PieceStart, PieceStep, PieceShown, PTL DEF Spec

-----------------------------------------------------------------------------
(***************************************************************************)
(* Whose chunks they are: on the wire (w) and on the screen (ms).          *)
(***************************************************************************)
Says(p, r)      == p.kind = "response" /\ p.run = r
OnWire(w, r)    == \E i \in DOMAIN w : Says(w[i], r)
On(ms, i, r, n) == \E j \in DOMAIN ms[i].parts : ms[i].parts[j] = <<r, n>>
OnScreen(ms, r) == \E n \in 1..Chunks : Seen(ms, r, n)
AnswersOf(ms, i) == {r \in Typed : \E n \in 1..Chunks : On(ms, i, r, n)}

(* Something of r comes before the k-th packet, on the wire or the screen. *)
Sooner(ms, w, r, k) == OnScreen(ms, r) \/ \E i \in DOMAIN w : i < k /\ Says(w[i], r)

(* Until the last chunk of a run that goes on nobody else says anything.   *)
Uninterrupted(ms, w, live) ==
  \A r \in Runs : \A k \in DOMAIN w :
    Sooner(ms, w, r, k) /\ (r \in live \/ \E j \in DOMAIN w : k <= j /\ Says(w[j], r)) => Says(w[k], r)
(* Who speaks after a run of the same socket does so when that is over.    *)
InTurns(ms, w, mine, failed) ==
  \A r, s \in Runs : r # s => \A j \in DOMAIN w : Says(w[j], s) /\ Sooner(ms, w, r, j) /\ r \in mine =>
    r \in failed \/ Seen(ms, r, Chunks) \/ \E k \in DOMAIN w : k < j /\ Part(w[k], r, Chunks)

(* The first packet is taken and shown.                                    *)
LEMMA TurnTaken ==
  ASSUME NEW ms, NEW w \in Seq(Packets), w # <<>>, NEW live, NEW mine, NEW failed, NEW ms2,
         Uninterrupted(ms, w, live), InTurns(ms, w, mine, failed),
         \A r \in Runs : OnScreen(ms2, r) => OnScreen(ms, r) \/ Says(Head(w), r),
         \A r \in Runs : Seen(ms, r, Chunks) \/ Part(Head(w), r, Chunks) => Seen(ms2, r, Chunks)
  PROVE  Uninterrupted(ms2, Tail(w), live) /\ InTurns(ms2, Tail(w), mine, failed)
<1> DEFINE u == Tail(w)
           l == Len(w)
<1>1. /\ l \in Nat \ {0} /\ DOMAIN w = 1..l /\ DOMAIN u = 1..(l - 1)
      /\ Head(w) = w[1] /\ \A i \in 1..(l - 1) : u[i] = w[i + 1]
  BY Taking
<1> HIDE DEF u, l
<1>2. /\ 1 \in DOMAIN w
      /\ \A i \in DOMAIN u : i \in Nat /\ i + 1 \in DOMAIN w /\ u[i] = w[i + 1] /\ 1 < i + 1
      /\ \A i \in DOMAIN w : i = 1 \/ (i \in Nat /\ i - 1 \in DOMAIN u /\ u[i - 1] = w[i])
  BY <1>1
<1>3. ASSUME NEW r \in Runs, NEW k \in DOMAIN u, Sooner(ms2, u, r, k) PROVE Sooner(ms, w, r, k + 1)
  <2>1. CASE OnScreen(ms2, r)
    BY <1>1, <1>2, <2>1 DEF Sooner
  <2>2. CASE \E i \in DOMAIN u : i < k /\ Says(u[i], r)
    <3>1. PICK i \in DOMAIN u : i < k /\ Says(u[i], r)
      BY <2>2
    <3>2. i + 1 \in DOMAIN w /\ i + 1 < k + 1 /\ Says(w[i + 1], r)
      BY <1>2, <3>1
    <3> QED
      BY <3>2 DEF Sooner
  <2> QED
    BY <1>3, <2>1, <2>2 DEF Sooner
<1>4. Uninterrupted(ms2, u, live)
  <2> SUFFICES ASSUME NEW r \in Runs, NEW k \in DOMAIN u, Sooner(ms2, u, r, k),
                      r \in live \/ \E j \in DOMAIN u : k <= j /\ Says(u[j], r)
               PROVE  Says(u[k], r)
    BY DEF Uninterrupted
  <2>1. Sooner(ms, w, r, k + 1) /\ k + 1 \in DOMAIN w /\ u[k] = w[k + 1]
    BY <1>2, <1>3
  <2>2. r \in live \/ \E j \in DOMAIN w : k + 1 <= j /\ Says(w[j], r)
    <3>1. ASSUME NEW j \in DOMAIN u, k <= j, Says(u[j], r) PROVE \E i \in DOMAIN w : k + 1 <= i /\ Says(w[i], r)
      <4>1. j + 1 \in DOMAIN w /\ k + 1 <= j + 1 /\ Says(w[j + 1], r)
        BY <1>2, <3>1
      <4> QED
        BY <4>1
    <3> QED
      BY <3>1
  <2> QED
    BY <2>1, <2>2 DEF Uninterrupted
<1>5. InTurns(ms2, u, mine, failed)
  <2> SUFFICES ASSUME NEW r \in Runs, NEW s \in Runs, r # s, NEW j \in DOMAIN u, Says(u[j], s),
                      Sooner(ms2, u, r, j), r \in mine, r \notin failed, ~Seen(ms2, r, Chunks)
               PROVE  \E k \in DOMAIN u : k < j /\ Part(u[k], r, Chunks)
    BY DEF InTurns
  <2>1. Sooner(ms, w, r, j + 1) /\ j + 1 \in DOMAIN w /\ Says(w[j + 1], s)
    BY <1>2, <1>3
  <2>2. PICK k \in DOMAIN w : k < j + 1 /\ Part(w[k], r, Chunks)
    BY <2>1 DEF InTurns
  <2>3. k # 1
    BY <1>1, <2>2
  <2>4. k - 1 \in DOMAIN u /\ u[k - 1] = w[k] /\ k - 1 < j
    BY <1>2, <2>2, <2>3
  <2> QED
    BY <2>2, <2>4
<1> QED
  BY <1>4, <1>5 DEF u

(* The wire is cut: the link carries nothing more.                         *)
LEMMA TurnCut ==
  ASSUME NEW ms, NEW w \in Seq(Packets), NEW live, NEW mine, NEW failed, NEW l \in 0..Len(w),
         Uninterrupted(ms, w, live), InTurns(ms, w, mine, failed)
  PROVE  LET u == SubSeq(w, 1, l)
         IN  /\ Uninterrupted(ms, u, {}) /\ InTurns(ms, u, mine, failed)
             /\ \A i \in DOMAIN u : i \in DOMAIN w /\ u[i] = w[i]
<1> DEFINE u == SubSeq(w, 1, l)
<1>1. Len(w) \in Nat /\ DOMAIN w = 1..Len(w) /\ DOMAIN u = 1..l /\ \A i \in 1..l : u[i] = w[i]
  BY Cutting
<1> HIDE DEF u
<1>2. /\ \A i \in DOMAIN u : i \in DOMAIN w /\ u[i] = w[i]
      /\ \A i \in DOMAIN u, k \in DOMAIN w : k < i => k \in DOMAIN u
  BY <1>1
<1>3. \A r \in Runs, k \in DOMAIN u : Sooner(ms, u, r, k) => Sooner(ms, w, r, k)
  BY <1>2 DEF Sooner
<1>4. Uninterrupted(ms, u, {})
  BY <1>2, <1>3 DEF Uninterrupted
<1>5. InTurns(ms, u, mine, failed)
  BY <1>2, <1>3 DEF InTurns
<1> QED
  BY <1>2, <1>4, <1>5 DEF u

(* Of the live runs some stay live; if there is more to come (t), it is    *)
(* only those that have said nothing.                                      *)
Withdrawn(ms, w, t, live, live2) ==
  \A r \in Runs : r \in live2 => r \in live /\ (OnScreen(ms, r) \/ OnWire(w, r) => t = <<>>)

(* What is no chunk follows, while no run is in the middle of its answer.  *)
LEMMA TurnJoined ==
  ASSUME NEW ms, NEW w \in Seq(Packets), NEW live, NEW live2, NEW mine, NEW failed,
         NEW t \in Seq(Packets), \A i \in DOMAIN t : t[i].kind # "response",
         Uninterrupted(ms, w, live), InTurns(ms, w, mine, failed),
         Withdrawn(ms, w, t, live, live2)
  PROVE  /\ Uninterrupted(ms, w \o t, live2) /\ InTurns(ms, w \o t, mine, failed)
         /\ \A r : OnWire(w \o t, r) <=> OnWire(w, r)
<1> DEFINE u == w \o t
           l == Len(w)
<1>1. /\ l \in Nat /\ Len(t) \in Nat /\ DOMAIN w = 1..l /\ DOMAIN t = 1..Len(t)
      /\ DOMAIN u = 1..(l + Len(t)) /\ \A i \in 1..l : u[i] = w[i]
      /\ \A i \in 1..Len(t) : u[l + i] = t[i]
  BY Joining
<1>2. t = <<>> => Len(t) = 0
  BY EmptySeq
<1> HIDE DEF u, l
<1>3. /\ \A i \in DOMAIN w : i \in DOMAIN u /\ u[i] = w[i]
      /\ \A i \in DOMAIN u : (i \in DOMAIN w /\ u[i] = w[i]) \/ (i > l /\ t # <<>> /\ u[i].kind # "response")
      /\ \A i \in DOMAIN w, k \in DOMAIN u : k <= i => k \in DOMAIN w
  <2>1. ASSUME NEW i \in DOMAIN u, ~(i \in DOMAIN w) PROVE i > l /\ t # <<>> /\ u[i].kind # "response"
    <3>1. i - l \in DOMAIN t /\ l + (i - l) = i /\ i > l
      BY <1>1, <2>1
    <3>2. t # <<>>
      BY <1>1, <1>2, <3>1
    <3> QED
      BY <1>1, <3>1, <3>2
  <2> QED
    BY <1>1, <2>1
<1>4. \A r : OnWire(u, r) <=> OnWire(w, r)
  BY <1>3 DEF OnWire, Says
<1>5. \A r \in Runs, k \in DOMAIN u : Sooner(ms, u, r, k) =>
        (OnScreen(ms, r) \/ OnWire(w, r)) /\ (k \in DOMAIN w => Sooner(ms, w, r, k))
  BY <1>3 DEF Sooner, OnWire, Says
<1>6. Uninterrupted(ms, u, live2)
  <2> SUFFICES ASSUME NEW r \in Runs, NEW k \in DOMAIN u, Sooner(ms, u, r, k),
                      r \in live2 \/ \E j \in DOMAIN u : k <= j /\ Says(u[j], r)
               PROVE  Says(u[k], r)
    BY DEF Uninterrupted
  <2>1. CASE r \in live2
    BY <1>3, <1>5, <2>1 DEF Uninterrupted, Withdrawn
  <2>2. CASE \E j \in DOMAIN u : k <= j /\ Says(u[j], r)
    <3>1. PICK j \in DOMAIN u : k <= j /\ Says(u[j], r)
      BY <2>2
    <3>2. j \in DOMAIN w /\ Says(w[j], r) /\ k \in DOMAIN w
      BY <1>3, <3>1 DEF Says
    <3> QED
      BY <1>3, <1>5, <3>1, <3>2 DEF Uninterrupted
  <2> QED
    BY <2>1, <2>2
<1>7. InTurns(ms, u, mine, failed)
  <2> SUFFICES ASSUME NEW r \in Runs, NEW s \in Runs, r # s, NEW j \in DOMAIN u, Says(u[j], s),
                      Sooner(ms, u, r, j), r \in mine, r \notin failed, ~Seen(ms, r, Chunks)
               PROVE  \E k \in DOMAIN u : k < j /\ Part(u[k], r, Chunks)
    BY DEF InTurns
  <2>1. j \in DOMAIN w /\ Says(w[j], s) /\ Sooner(ms, w, r, j)
    BY <1>3, <1>5 DEF Says
  <2>2. PICK k \in DOMAIN w : k < j /\ Part(w[k], r, Chunks)
    BY <2>1 DEF InTurns
  <2> QED
    BY <1>3, <2>2
<1> QED
  BY <1>4, <1>6, <1>7 DEF u

(* Only q is in the middle of its answer: the other live runs have said    *)
(* nothing, and those of the socket that spoke before are over.            *)
Alone(ms, w, q, live, live2) ==
  /\ OnScreen(ms, q) \/ OnWire(w, q) => q \in live
  /\ \A r \in Runs : r \in live2 => r = q \/ ~(OnScreen(ms, r) \/ OnWire(w, r))
Over(ms, w, q, mine, failed) ==
  \A r \in Runs : r # q /\ (OnScreen(ms, r) \/ OnWire(w, r)) /\ r \in mine =>
    r \in failed \/ Seen(ms, r, Chunks) \/ In(w, r, Chunks)

(* Then it says a chunk.                                                   *)
LEMMA TurnSaid ==
  ASSUME NEW ms, NEW w \in Seq(Packets), NEW live, NEW live2, NEW mine, NEW failed,
         NEW p \in Packets, p.kind = "response",
         Uninterrupted(ms, w, live), InTurns(ms, w, mine, failed),
         Alone(ms, w, p.run, live, live2), Over(ms, w, p.run, mine, failed)
  PROVE  /\ Uninterrupted(ms, Append(w, p), live2) /\ InTurns(ms, Append(w, p), mine, failed)
         /\ \A r : OnWire(Append(w, p), r) <=> OnWire(w, r) \/ r = p.run
<1> DEFINE u == Append(w, p)
           l == Len(w)
           q == p.run
<1>1. /\ l \in Nat /\ DOMAIN w = 1..l /\ DOMAIN u = 1..(l + 1)
      /\ u[l + 1] = p /\ \A i \in 1..l : u[i] = w[i]
  BY Appending
<1> HIDE DEF u, l
<1>2. Says(p, q) /\ \A r : Says(p, r) => r = q
  BY DEF Says
<1> HIDE DEF q
<1>3. /\ \A i \in DOMAIN w : i \in DOMAIN u /\ u[i] = w[i] /\ i < l + 1 /\ i # l + 1
      /\ l + 1 \in DOMAIN u
      /\ \A i \in DOMAIN u : (i \in DOMAIN w /\ u[i] = w[i]) \/ (i = l + 1 /\ u[i] = p)
      /\ \A i \in DOMAIN w, k \in DOMAIN u : k <= i => k \in DOMAIN w
      /\ \A i \in DOMAIN w : ~(l + 1 <= i) /\ ~(l + 1 < i)
      /\ ~(l + 1 < l + 1)
  BY <1>1
<1>4. \A r : OnWire(u, r) <=> OnWire(w, r) \/ r = q
  BY <1>2, <1>3 DEF OnWire
<1>5. \A r \in Runs, k \in DOMAIN u : Sooner(ms, u, r, k) =>
        (OnScreen(ms, r) \/ OnWire(w, r)) /\ (k \in DOMAIN w => Sooner(ms, w, r, k))
  <2> SUFFICES ASSUME NEW r \in Runs, NEW k \in DOMAIN u, Sooner(ms, u, r, k)
               PROVE  (OnScreen(ms, r) \/ OnWire(w, r)) /\ (k \in DOMAIN w => Sooner(ms, w, r, k))
    OBVIOUS
  <2>1. ASSUME NEW i \in DOMAIN u, i < k, Says(u[i], r) PROVE i \in DOMAIN w /\ Says(w[i], r)
    BY <1>3, <2>1
  <2> QED
    BY <2>1 DEF Sooner, OnWire
<1>6. Uninterrupted(ms, u, live2)
  <2> SUFFICES ASSUME NEW r \in Runs, NEW k \in DOMAIN u, Sooner(ms, u, r, k),
                      r \in live2 \/ \E j \in DOMAIN u : k <= j /\ Says(u[j], r)
               PROVE  Says(u[k], r)
    BY DEF Uninterrupted
  <2>1. CASE r = q
    <3>1. r \in live
      BY <1>5, <2>1 DEF q, Alone
    <3>2. CASE k \in DOMAIN w
      BY <1>3, <1>5, <3>1, <3>2 DEF Uninterrupted
    <3>3. CASE k = l + 1
      BY <1>1, <1>2, <2>1, <3>3
    <3> QED
      BY <1>3, <3>2, <3>3
  <2>2. CASE r # q
    <3>1. r \notin live2
      BY <1>5, <2>2 DEF q, Alone
    <3>2. PICK j \in DOMAIN u : k <= j /\ Says(u[j], r)
      BY <3>1
    <3>3. j \in DOMAIN w /\ Says(w[j], r) /\ k \in DOMAIN w
      BY <1>2, <1>3, <2>2, <3>2
    <3> QED
      BY <1>3, <1>5, <3>2, <3>3 DEF Uninterrupted
  <2> QED
    BY <2>1, <2>2
<1>7. InTurns(ms, u, mine, failed)
  <2> SUFFICES ASSUME NEW r \in Runs, NEW s \in Runs, r # s, NEW j \in DOMAIN u, Says(u[j], s),
                      Sooner(ms, u, r, j), r \in mine, r \notin failed, ~Seen(ms, r, Chunks)
               PROVE  \E k \in DOMAIN u : k < j /\ Part(u[k], r, Chunks)
    BY DEF InTurns
  <2>1. CASE j \in DOMAIN w
    <3>1. Says(w[j], s) /\ Sooner(ms, w, r, j)
      BY <1>3, <1>5, <2>1
    <3>2. PICK k \in DOMAIN w : k < j /\ Part(w[k], r, Chunks)
      BY <2>1, <3>1 DEF InTurns
    <3> QED
      BY <1>3, <3>2
  <2>2. CASE j = l + 1
    <3>1. s = q
      BY <1>1, <1>2, <2>2
    <3>2. In(w, r, Chunks)
      BY <1>5, <3>1 DEF q, Over
    <3> QED
      BY <1>3, <2>2, <3>2 DEF In
  <2> QED
    BY <1>3, <2>1, <2>2
<1> QED
  BY <1>4, <1>6, <1>7 DEF u, q

(* No message that is still open shows the last chunk of a run.            *)
Unended(ms) == \A i \in DOMAIN ms : ms[i].streaming => \A r \in Runs : ~On(ms, i, r, Chunks)
(* Every answer is on a message of its own, or follows one that failed.    *)
Whole(ms, failed) ==
  \A i, k \in DOMAIN ms :
    /\ i = k => \A r, s \in AnswersOf(ms, i) : r = s \/ r \in failed \/ s \in failed
    /\ i # k => AnswersOf(ms, i) \cap AnswersOf(ms, k) = {}
(* The input is closed, and the last message open, until it is complete.   *)
Awaited(ms, streaming, open) ==
  \A r \in Typed : OnScreen(ms, r) /\ r \in open =>
    streaming /\ ms # <<>> /\ r \in AnswersOf(ms, Len(ms)) /\ Streams(ms[Len(ms)])

(* The answers on a screen that got something more.                        *)
LEMMA AnswersExtended ==
  ASSUME NEW ms, NEW u, NEW i, NEW j, NEW e, Extended(ms, u, i, j, e)
  PROVE  /\ i \in DOMAIN u /\ DOMAIN ms \subseteq DOMAIN u /\ \A k \in DOMAIN u : k = i \/ (k \in DOMAIN ms /\ u[k] = ms[k])
         /\ \A k \in DOMAIN u : \A r, n : On(u, k, r, n) <=> (k \in DOMAIN ms /\ On(ms, k, r, n)) \/ (k = i /\ e = <<r, n>>)
<1>1. /\ i \in DOMAIN u /\ j \in DOMAIN u[i].parts /\ u[i].parts[j] = e
      /\ DOMAIN ms \subseteq DOMAIN u
      /\ \A k \in DOMAIN ms : \A l \in DOMAIN ms[k].parts :
           l \in DOMAIN u[k].parts /\ u[k].parts[l] = ms[k].parts[l]
      /\ \A k \in DOMAIN u : \A l \in DOMAIN u[k].parts :
           (k = i /\ l = j) \/ (k \in DOMAIN ms /\ l \in DOMAIN ms[k].parts)
      /\ \A k \in DOMAIN ms : k # i => u[k] = ms[k]
  BY DEF Extended
<1>2. ASSUME NEW k \in DOMAIN u, k # i PROVE k \in DOMAIN ms /\ u[k] = ms[k]
  <2>1. i \in Nat /\ DOMAIN u = 1..i
    BY DEF Extended
  <2>2. k \in DOMAIN ms
    BY <1>2 DEF Extended
  <2> QED
    BY <1>1, <1>2, <2>2
<1>3. ASSUME NEW k \in DOMAIN u, NEW r, NEW n
      PROVE  On(u, k, r, n) <=> (k \in DOMAIN ms /\ On(ms, k, r, n)) \/ (k = i /\ e = <<r, n>>)
  BY <1>1 DEF On
<1> QED
  BY <1>1, <1>2, <1>3

(* What is seen is seen on some message.                                   *)
LEMMA SeenOn ==
  ASSUME NEW ms
  PROVE  /\ \A r, n : Seen(ms, r, n) <=> \E i \in DOMAIN ms : On(ms, i, r, n)
         /\ \A r \in Typed : OnScreen(ms, r) <=> \E i \in DOMAIN ms : r \in AnswersOf(ms, i)
  BY DEF Seen, On, OnScreen, AnswersOf

(* The user's message is no answer.                                        *)
LEMMA AnswersSaid ==
  ASSUME NEW ms \in Seq(Messages), NEW r \in Typed
  PROVE  LET u == Append(ms, Message("user", <<<<r, 0>>>>, FALSE))
         IN  /\ AnswersOf(u, Len(u)) = {} /\ \A q \in Runs : OnScreen(u, q) <=> OnScreen(ms, q)
             /\ \A q \in Runs : Seen(u, q, Chunks) <=> Seen(ms, q, Chunks)
             /\ Unended(ms) => Unended(u)
             /\ \A failed : Whole(ms, failed) => Whole(u, failed)
<1> DEFINE u == Append(ms, Message("user", <<<<r, 0>>>>, FALSE))
           l == Len(u)
<1>1. Extended(ms, u, l, 1, <<r, 0>>) /\ l \notin DOMAIN ms /\ ~u[l].streaming
  BY Said
<1> HIDE DEF u, l
<1>2. /\ l \in DOMAIN u /\ DOMAIN ms \subseteq DOMAIN u /\ \A k \in DOMAIN u : k = l \/ (k \in DOMAIN ms /\ u[k] = ms[k])
      /\ \A k \in DOMAIN u : \A q, n :
           On(u, k, q, n) <=> (k \in DOMAIN ms /\ On(ms, k, q, n)) \/ (k = l /\ <<r, 0>> = <<q, n>>)
  BY <1>1, AnswersExtended
<1>3. /\ \A q, n : n \in 1..Chunks => <<r, 0>> # <<q, n>>
      /\ Chunks \in 1..Chunks
  BY StreamAssumption
<1>4. \A k \in DOMAIN u : \A q, n : n \in 1..Chunks => (On(u, k, q, n) <=> k \in DOMAIN ms /\ On(ms, k, q, n))
  BY <1>2, <1>3
<1>5. AnswersOf(u, l) = {} /\ \A k \in DOMAIN ms : AnswersOf(u, k) = AnswersOf(ms, k)
  BY <1>1, <1>2, <1>4 DEF AnswersOf
<1>6. \A q, n : n \in 1..Chunks => (Seen(u, q, n) <=> Seen(ms, q, n))
  BY <1>2, <1>4, SeenOn
<1>7. \A q \in Runs : OnScreen(u, q) <=> OnScreen(ms, q)
  BY <1>6 DEF OnScreen
<1>8. Unended(ms) => Unended(u)
  BY <1>1, <1>2, <1>3, <1>4 DEF Unended
<1>9. ASSUME NEW failed, Whole(ms, failed) PROVE Whole(u, failed)
  <2> SUFFICES ASSUME NEW i \in DOMAIN u, NEW k \in DOMAIN u
               PROVE  /\ i = k => \A q, s \in AnswersOf(u, i) : q = s \/ q \in failed \/ s \in failed
                      /\ i # k => AnswersOf(u, i) \cap AnswersOf(u, k) = {}
    BY DEF Whole
  <2>1. CASE i = l \/ k = l
    BY <1>5, <2>1
  <2>2. CASE i # l /\ k # l
    <3>1. i \in DOMAIN ms /\ k \in DOMAIN ms /\ AnswersOf(u, i) = AnswersOf(ms, i) /\ AnswersOf(u, k) = AnswersOf(ms, k)
      BY <1>2, <1>5, <2>2
    <3> QED
      BY <1>9, <3>1 DEF Whole
  <2> QED
    BY <2>1, <2>2
<1> QED
  BY <1>3, <1>5, <1>6, <1>7, <1>8, <1>9 DEF u, l

(* A chunk goes to the answer it belongs to, or begins one.                *)
LEMMA AnswersAnswered ==
  ASSUME NEW ms \in Seq(Messages), NEW p \in Packets, p.kind = "response", NEW failed, NEW open,
         Unended(ms), Whole(ms, failed),
         p.run \in Typed /\ OnScreen(ms, p.run) =>
           ms # <<>> /\ p.run \in AnswersOf(ms, Len(ms)) /\ Streams(ms[Len(ms)]),
         p.run \in Typed /\ ms # <<>> =>
           \A s \in AnswersOf(ms, Len(ms)) : s = p.run \/ s \in failed \/ Seen(ms, s, Chunks),
         p.run \in open => ~p.done,
         \A r \in Typed : r # p.run /\ OnScreen(ms, r) => r \notin open
  PROVE  LET u == Appended(ms, p)
         IN  /\ Unended(u) /\ Whole(u, failed) /\ Awaited(u, ~p.done, open) /\ u # <<>>
             /\ \A r \in AnswersOf(u, Len(u)) : r = p.run \/ (ms # <<>> /\ r \in AnswersOf(ms, Len(ms)))
             /\ \A r \in Runs : OnScreen(u, r) => OnScreen(ms, r) \/ r = p.run
             /\ \A r \in Runs : Seen(ms, r, Chunks) \/ Part(p, r, Chunks) => Seen(u, r, Chunks)
<1> DEFINE u == Appended(ms, p)
           l == Len(u)
           m == Len(ms)
           q == p.run
           e == <<p.run, p.part>>
<1>0. q \in Runs /\ p.part \in 1..Chunks /\ (p.done <=> p.part = Chunks) /\ p.done \in BOOLEAN /\ Chunks \in 1..Chunks
  BY StreamAssumption DEF Packets
<1>1. /\ \E j : Extended(ms, u, l, j, e)
      /\ u[l].role = "assistant" /\ u[l].streaming = ~p.done
      /\ ms # <<>> => m \in DOMAIN ms
      /\ l \in DOMAIN ms <=> ms # <<>> /\ Streams(ms[m])
      /\ l \in DOMAIN ms => l = m
  BY Answered
<1> HIDE DEF u, l, m
<1>2. /\ l \in DOMAIN u /\ DOMAIN ms \subseteq DOMAIN u /\ \A k \in DOMAIN u : k = l \/ (k \in DOMAIN ms /\ u[k] = ms[k])
      /\ \A k \in DOMAIN u : \A r, n : On(u, k, r, n) <=> (k \in DOMAIN ms /\ On(ms, k, r, n)) \/ (k = l /\ e = <<r, n>>)
  BY <1>1, AnswersExtended
<1>3. \A k \in DOMAIN u : \A r, n : On(u, k, r, n) <=> (k \in DOMAIN ms /\ On(ms, k, r, n)) \/ (k = l /\ r = q /\ n = p.part)
  <2>1. \A r, n : e = <<r, n>> <=> r = q /\ n = p.part
    OBVIOUS
  <2> HIDE DEF e, q
  <2> QED
    BY <1>2, <2>1
<1> HIDE DEF e, q
<1>4. \A k \in DOMAIN u : \A r \in Typed :
        r \in AnswersOf(u, k) <=> (k \in DOMAIN ms /\ r \in AnswersOf(ms, k)) \/ (k = l /\ r = q)
  BY <1>0, <1>2, <1>3 DEF AnswersOf
<1>6. \A x, k : AnswersOf(x, k) \subseteq Typed
  BY DEF AnswersOf
<1>7. Unended(u)
  <2> SUFFICES ASSUME NEW k \in DOMAIN u, u[k].streaming, NEW r \in Runs PROVE ~On(u, k, r, Chunks)
    BY DEF Unended
  <2>1. CASE k = l
    <3>1. p.part # Chunks
      BY <1>0, <1>1, <2>1
    <3>2. k \in DOMAIN ms => ms[k].streaming
      BY <1>1, <2>1 DEF Streams
    <3> QED
      BY <1>2, <1>3, <3>1, <3>2 DEF Unended
  <2>2. CASE k # l
    BY <1>2, <2>2 DEF Unended
  <2> QED
    BY <2>1, <2>2
<1>8. Whole(u, failed)
  <2> SUFFICES ASSUME NEW i \in DOMAIN u, NEW k \in DOMAIN u
               PROVE  /\ i = k => \A r, s \in AnswersOf(u, i) : r = s \/ r \in failed \/ s \in failed
                      /\ i # k => AnswersOf(u, i) \cap AnswersOf(u, k) = {}
    BY DEF Whole
  <2>1. ASSUME NEW s \in AnswersOf(ms, l), l \in DOMAIN ms, q \in Typed, s # q PROVE s \in failed
    <3>1. ms # <<>> /\ l = m /\ ms[l].streaming
      BY <1>1, <2>1 DEF Streams
    <3>2. s \in failed \/ Seen(ms, s, Chunks)
      BY <2>1, <3>1 DEF q, m
    <3>3. ASSUME Seen(ms, s, Chunks) PROVE FALSE
      <4>1. PICK n \in DOMAIN ms : On(ms, n, s, Chunks)
        BY <3>3, SeenOn
      <4>2. s \in Typed /\ s \in Runs /\ s \in AnswersOf(ms, n)
        BY <1>0, <1>6, <2>1, <4>1 DEF AnswersOf, Runs
      <4>3. n = l
        BY <2>1, <4>2 DEF Whole
      <4> QED
        BY <3>1, <4>1, <4>2, <4>3 DEF Unended
    <3> QED
      BY <3>2, <3>3
  <2>2. ASSUME i = k, NEW r \in AnswersOf(u, i), NEW s \in AnswersOf(u, i), r # s
        PROVE  r \in failed \/ s \in failed
    <3>1. r \in Typed /\ s \in Typed
      BY <1>6
    <3>2. CASE i \in DOMAIN ms /\ r \in AnswersOf(ms, i) /\ s \in AnswersOf(ms, i)
      BY <2>2, <3>2 DEF Whole
    <3>3. CASE i = l /\ r = q
      <4>1. i \in DOMAIN ms /\ s \in AnswersOf(ms, i)
        BY <1>4, <2>2, <3>1, <3>3
      <4> QED
        BY <2>1, <2>2, <3>1, <3>3, <4>1
    <3>4. CASE i = l /\ s = q
      <4>1. i \in DOMAIN ms /\ r \in AnswersOf(ms, i)
        BY <1>4, <2>2, <3>1, <3>4
      <4> QED
        BY <2>1, <2>2, <3>1, <3>4, <4>1
    <3> QED
      BY <1>4, <3>1, <3>2, <3>3, <3>4
  <2>3. ASSUME q \in Typed, NEW n \in DOMAIN ms, q \in AnswersOf(ms, n) PROVE n = l
    <3>1. OnScreen(ms, q)
      BY <2>3, SeenOn
    <3>2. ms # <<>> /\ q \in AnswersOf(ms, m) /\ Streams(ms[m])
      BY <2>3, <3>1 DEF q, m
    <3>3. l \in DOMAIN ms /\ l = m
      BY <1>1, <3>2
    <3> QED
      BY <2>3, <3>2, <3>3 DEF Whole
  <2>4. ASSUME i # k, NEW x \in AnswersOf(u, i), x \in AnswersOf(u, k) PROVE FALSE
    <3>1. x \in Typed
      BY <1>6
    <3>2. CASE i \in DOMAIN ms /\ x \in AnswersOf(ms, i) /\ k \in DOMAIN ms /\ x \in AnswersOf(ms, k)
      BY <2>4, <3>2 DEF Whole
    <3>3. CASE i = l /\ x = q
      BY <1>4, <2>3, <2>4, <3>1, <3>3
    <3>4. CASE k = l /\ x = q
      BY <1>4, <2>3, <2>4, <3>1, <3>4
    <3> QED
      BY <1>4, <2>4, <3>1, <3>2, <3>3, <3>4
  <2> QED
    BY <2>2, <2>4
<1>9. u # <<>>
  BY <1>2, InEmpty
<1>10. \A r, n : Seen(u, r, n) <=> Seen(ms, r, n) \/ (r = q /\ n = p.part)
  BY <1>2, <1>3, SeenOn
<1>11. \A r \in Runs : OnScreen(u, r) => OnScreen(ms, r) \/ r = q
  BY <1>10 DEF OnScreen
<1>12. \A r \in Runs : Seen(ms, r, Chunks) \/ Part(p, r, Chunks) => Seen(u, r, Chunks)
  BY <1>10 DEF Part, q
<1>13. Awaited(u, ~p.done, open)
  <2> SUFFICES ASSUME NEW r \in Typed, OnScreen(u, r), r \in open
               PROVE  ~p.done /\ u # <<>> /\ r \in AnswersOf(u, l) /\ Streams(u[l])
    BY DEF Awaited, l
  <2>1. r = q
    BY <1>11 DEF Runs, q
  <2>2. ~p.done
    BY <2>1 DEF q
  <2> QED
    BY <1>1, <1>2, <1>4, <1>9, <2>1, <2>2 DEF Streams
<1>14. \A r \in AnswersOf(u, l) : r = q \/ (ms # <<>> /\ r \in AnswersOf(ms, m))
  BY <1>1, <1>2, <1>4, <1>6
<1> QED
  BY <1>7, <1>8, <1>9, <1>11, <1>12, <1>13, <1>14 DEF u, l, q, m

-----------------------------------------------------------------------------
(***************************************************************************)
(* The queue, while no clear has broken its chain: f numbers the tasks as  *)
(* they were put into it.  One that waits behind others waits for the last *)
(* of them; only the first has begun.                                      *)
(***************************************************************************)
Chain(f, stg, bef, stp, tl) ==
  /\ \A t, u \in Tasks : stg[t] = "queued" /\ stg[u] = "queued" /\ t # u =>
       /\ f[t] # f[u]
       /\ t \in Runs /\ stp[t] > 0 => f[t] < f[u]
       /\ f[u] < f[t] =>
            bef[t] # None /\ stg[bef[t]] = "queued" /\ f[u] <= f[bef[t]] /\ f[bef[t]] < f[t]
  /\ tl = None => \A t \in Tasks : stg[t] # "queued"
  /\ tl # None => stg[tl] = "queued" /\ \A t \in Tasks : stg[t] = "queued" => f[t] <= f[tl]
InTurn == \E f \in [Tasks -> Nat] : Chain(f, stage, before, step, tail)

(* What may run is the first in the queue.                                 *)
LEMMA First ==
  ASSUME PieceInv, NEW f \in [Tasks -> Nat], Chain(f, stage, before, step, tail), NEW t \in Tasks, Ready(t),
         NEW u \in Tasks, stage[u] = "queued", u # t
  PROVE  f[t] < f[u] /\ (u \in Runs => step[u] = 0)
<1>1. stage[t] = "queued" /\ (before[t] # None => stage[before[t]] = "done")
  BY DEF Ready
<1>2. ~(f[u] < f[t]) /\ f[u] # f[t] /\ (u \in Runs /\ step[u] > 0 => f[u] < f[t])
  BY <1>1 DEF Chain
<1>3. f[u] \in Nat /\ f[t] \in Nat /\ (u \in Runs => step[u] \in Nat)
  BY Unpacked, StreamAssumption
<1> QED
  BY <1>2, <1>3

(* While a task runs, every other run that has begun has ended.            *)
LEMMA Serial ==
  ASSUME PieceInv, InTurn, NEW t \in Tasks, Ready(t), NEW r \in Runs, r # t, step[r] > 0
  PROVE  stage[r] = "done"
<1>1. PICK f \in [Tasks -> Nat] : Chain(f, stage, before, step, tail)
  BY DEF InTurn
<1>2. r \in Tasks /\ stage[r] \in Stages /\ ~(step[r] = 0)
  BY Unpacked, StreamAssumption DEF Tasks, ServerTyped
<1>3. stage[r] # "queued"
  BY <1>1, <1>2, First
<1>4. stage[r] \notin {"idle", "lost"}
  BY <1>2, Unpacked DEF Untouched
<1> QED
  BY <1>2, <1>3, <1>4 DEF Stages

(* A task joins it at the end.                                             *)
LEMMA ChainGrows ==
  ASSUME PieceInv, InTurn, NEW t \in Tasks, stage[t] = "idle", Enqueue(t)
  PROVE  InTurn'
<1>1. PICK f \in [Tasks -> Nat] : Chain(f, stage, before, step, tail)
  BY DEF InTurn
<1> DEFINE n == IF tail = None THEN 0 ELSE f[tail] + 1
           g == [f EXCEPT ![t] = n]
<1>2. /\ stage' = [stage EXCEPT ![t] = "queued"] /\ before' = [before EXCEPT ![t] = tail]
      /\ tail' = t /\ step' = step
  BY DEF Enqueue
<1>3. /\ \A u \in Tasks : stage'[u] = IF u = t THEN "queued" ELSE stage[u]
      /\ \A u \in Tasks : before'[u] = IF u = t THEN tail ELSE before[u]
      /\ tail \in Tasks \cup {None} /\ \A u \in Tasks : before[u] \in Tasks \cup {None}
      /\ t # None /\ \A r \in Runs : step[r] \in Nat
  BY <1>2, Unpacked, StreamAssumption DEF ServerTyped
<1>4. n \in Nat /\ (tail # None => tail # t /\ f[tail] \in Nat /\ f[tail] < n)
  BY <1>1, <1>3 DEF Chain
<1>5. g \in [Tasks -> Nat] /\ \A u \in Tasks : g[u] = IF u = t THEN n ELSE f[u]
  BY <1>4
<1>6. t \in Runs => step[t] = 0
  BY Unpacked DEF Untouched
<1>7. ASSUME NEW u \in Tasks, stage[u] = "queued"
      PROVE  /\ u # t /\ tail # None /\ stage[tail] = "queued" /\ f[u] <= f[tail]
             /\ f[u] \in Nat /\ f[u] < n
  <2>1. u # t /\ tail # None /\ stage[tail] = "queued" /\ f[u] <= f[tail] /\ f[u] \in Nat
    BY <1>1, <1>7 DEF Chain
  <2> QED
    BY <1>4, <2>1
<1> HIDE DEF n, g
<1>8. ASSUME NEW u \in Tasks, NEW v \in Tasks, stage'[u] = "queued", stage'[v] = "queued", u # v
      PROVE  /\ g[u] # g[v]
             /\ u \in Runs /\ step'[u] > 0 => g[u] < g[v]
             /\ g[v] < g[u] =>
                  before'[u] # None /\ stage'[before'[u]] = "queued" /\ g[v] <= g[before'[u]] /\ g[before'[u]] < g[u]
  <2>1. CASE u = t
    <3>1. v # t /\ stage[v] = "queued" /\ g[v] = f[v] /\ g[u] = n
      BY <1>3, <1>5, <1>8, <2>1
    <3>2. tail # None /\ stage[tail] = "queued" /\ f[v] <= f[tail] /\ f[v] \in Nat /\ f[v] < n
      BY <1>7, <3>1
    <3>3. before'[u] = tail /\ tail \in Tasks /\ tail # t /\ stage'[tail] = "queued" /\ g[tail] = f[tail]
      BY <1>3, <1>4, <1>5, <2>1, <3>2
    <3> QED
      BY <1>2, <1>3, <1>4, <1>6, <2>1, <3>1, <3>2, <3>3
  <2>2. CASE v = t
    <3>1. u # t /\ stage[u] = "queued" /\ g[u] = f[u] /\ g[v] = n
      BY <1>3, <1>5, <1>8, <2>2
    <3>2. f[u] \in Nat /\ f[u] < n
      BY <1>7, <3>1
    <3> QED
      BY <1>4, <3>1, <3>2
  <2>3. CASE u # t /\ v # t
    <3>1. stage[u] = "queued" /\ stage[v] = "queued" /\ g[u] = f[u] /\ g[v] = f[v] /\ before'[u] = before[u]
      BY <1>3, <1>5, <1>8, <2>3
    <3>2. /\ f[u] # f[v]
          /\ u \in Runs /\ step[u] > 0 => f[u] < f[v]
          /\ f[v] < f[u] =>
               before[u] # None /\ stage[before[u]] = "queued" /\ f[v] <= f[before[u]] /\ f[before[u]] < f[u]
      BY <1>1, <1>8, <3>1 DEF Chain
    <3>3. before[u] # None /\ stage[before[u]] = "queued" =>
            before[u] # t /\ stage'[before[u]] = "queued" /\ g[before[u]] = f[before[u]]
      BY <1>3, <1>5
    <3> QED
      BY <1>2, <3>1, <3>2, <3>3
  <2> QED
    BY <2>1, <2>2, <2>3
<1>9. tail' # None /\ stage'[tail'] = "queued" /\ \A u \in Tasks : stage'[u] = "queued" => g[u] <= g[tail']
  <2>1. ASSUME NEW u \in Tasks, stage'[u] = "queued" PROVE g[u] <= g[t]
    <3>1. CASE u = t
      BY <1>4, <1>5, <3>1
    <3>2. CASE u # t
      BY <1>3, <1>4, <1>5, <1>7, <2>1, <3>2
    <3> QED
      BY <3>1, <3>2
  <2> QED
    BY <1>2, <1>3, <2>1
<1>10. Chain(g, stage', before', step', tail')
  BY <1>8, <1>9 DEF Chain
<1> QED
  BY <1>5, <1>10 DEF InTurn

(* The first leaves it.                                                    *)
LEMMA ChainEnds ==
  ASSUME PieceInv, InTurn, NEW t \in Tasks, Ready(t), Ended(t)
  PROVE  InTurn'
<1>1. PICK f \in [Tasks -> Nat] : Chain(f, stage, before, step, tail)
  BY DEF InTurn
<1>2. /\ stage' = [stage EXCEPT ![t] = "done"] /\ tail' = IF tail = t THEN None ELSE tail
      /\ before' = before /\ step' = step /\ stage[t] = "queued"
  BY DEF Ended, Ready
<1>3. /\ \A u \in Tasks : stage'[u] = IF u = t THEN "done" ELSE stage[u]
      /\ tail \in Tasks \cup {None} /\ \A u \in Tasks : before[u] \in Tasks \cup {None} /\ f[u] \in Nat
  BY <1>2, Unpacked DEF ServerTyped
<1>4. \A u \in Tasks : stage'[u] = "queued" => u # t /\ stage[u] = "queued" /\ f[t] < f[u]
  BY <1>1, <1>3, First
<1>5. ASSUME NEW u \in Tasks, NEW v \in Tasks, stage'[u] = "queued", stage'[v] = "queued", u # v
      PROVE  /\ f[u] # f[v]
             /\ u \in Runs /\ step'[u] > 0 => f[u] < f[v]
             /\ f[v] < f[u] =>
                  before'[u] # None /\ stage'[before'[u]] = "queued" /\ f[v] <= f[before'[u]] /\ f[before'[u]] < f[u]
  <2>1. /\ f[u] # f[v]
        /\ u \in Runs /\ step[u] > 0 => f[u] < f[v]
        /\ f[v] < f[u] =>
             before[u] # None /\ stage[before[u]] = "queued" /\ f[v] <= f[before[u]] /\ f[before[u]] < f[u]
    BY <1>1, <1>4, <1>5 DEF Chain
  <2>2. ASSUME f[v] < f[u] PROVE stage'[before[u]] = "queued"
    <3>1. before[u] \in Tasks /\ stage[before[u]] = "queued" /\ f[v] <= f[before[u]] /\ f[t] < f[v]
      BY <1>3, <1>4, <1>5, <2>1, <2>2
    <3>2. before[u] # t
      BY <1>3, <3>1
    <3> QED
      BY <1>3, <3>1, <3>2
  <2> QED
    BY <1>2, <2>1, <2>2
<1>6. /\ tail' = None => \A u \in Tasks : stage'[u] # "queued"
      /\ tail' # None => stage'[tail'] = "queued" /\ \A u \in Tasks : stage'[u] = "queued" => f[u] <= f[tail']
  <2>1. CASE tail = t
    <3>1. ASSUME NEW u \in Tasks, stage'[u] = "queued" PROVE FALSE
      <4>1. f[t] < f[u] /\ f[u] <= f[t] /\ f[u] \in Nat /\ f[t] \in Nat
        <5>1. tail # None
          BY <2>1, StreamAssumption
        <5> QED
          BY <1>1, <1>3, <1>4, <2>1, <3>1, <5>1 DEF Chain
      <4> QED
        BY <4>1
    <3> QED
      BY <1>2, <2>1, <3>1
  <2>2. CASE tail = None
    BY <1>1, <1>2, <1>4, <2>2 DEF Chain
  <2>3. CASE tail # t /\ tail # None
    BY <1>1, <1>2, <1>3, <1>4, <2>3 DEF Chain
  <2> QED
    BY <2>1, <2>2, <2>3
<1>7. Chain(f, stage', before', step', tail')
  BY <1>5, <1>6 DEF Chain
<1> QED
  BY <1>7 DEF InTurn

(* The first goes on, or a task is lost that was not in it.                *)
LEMMA ChainSteps ==
  ASSUME PieceInv, InTurn, NEW r \in Runs, EmitNext(r)
  PROVE  InTurn'
<1>1. PICK f \in [Tasks -> Nat] : Chain(f, stage, before, step, tail)
  BY DEF InTurn
<1>2. /\ Ready(r) /\ r \in Tasks /\ step' = [step EXCEPT ![r] = @ + 1] /\ UNCHANGED <<stage, before, tail>>
      /\ \A q \in Runs : q # r => step'[q] = step[q]
  BY Unpacked DEF EmitNext, Tasks
<1>3. \A u \in Tasks : stage[u] = "queued" /\ u # r => f[r] < f[u]
  BY <1>1, <1>2, First
<1>4. Chain(f, stage', before', step', tail')
  BY <1>1, <1>2, <1>3 DEF Chain
<1> QED
  BY <1>4 DEF InTurn

(* A task is lost that was not in it.                                      *)
LEMMA ChainLoses ==
  ASSUME PieceInv, InTurn, NEW t \in Tasks, stage[t] = "idle",
         stage' = [stage EXCEPT ![t] = "lost"], UNCHANGED <<before, step, tail>>
  PROVE  InTurn'
<1>1. PICK f \in [Tasks -> Nat] : Chain(f, stage, before, step, tail)
  BY DEF InTurn
<1>2. /\ \A u \in Tasks : stage'[u] = "queued" <=> stage[u] = "queued"
      /\ tail \in Tasks \cup {None} /\ \A u \in Tasks : before[u] \in Tasks \cup {None}
  BY Unpacked DEF ServerTyped
<1>3. Chain(f, stage', before', step', tail')
  BY <1>1, <1>2 DEF Chain
<1> QED
  BY <1>3 DEF InTurn

-----------------------------------------------------------------------------
(***************************************************************************)
(* The invariant of the web client.                                        *)
(***************************************************************************)
Unbroken == client = "web" /\ \A c \in Clears : stage[c] # "done"
Sent(t)  == stage[t] \in {"queued", "done"}
Here     == link \notin {"none", "opening"}

(* Runs in the middle of an answer that the link carries, and runs whose   *)
(* answer will go on: of the present socket, and those that failed.        *)
Live       == {r \in Runs : link = "up" /\ home[r] = socket /\ stage[r] = "queued" /\ step[r] > 1}
OpenRuns   == {r \in Runs : OnWire(wire, r) \/ (r \in Live /\ step[r] <= Chunks)}
Mine       == {r \in Runs : home[r] = socket}
FailedRuns == {r \in Runs : Failed(r)}

OnLink  == \A r \in Runs : OnWire(wire, r) => home[r] = socket /\ Sent(r) /\ Here
NoClear == \A i \in DOMAIN wire : wire[i].kind # "cleared"
(* While something is pending, nothing was sent on the present link; and   *)
(* once something was, the last message is no answer of an earlier one.    *)
Waiting == Here /\ pending # None => \A r \in Typed : Sent(r) => home[r] # socket
Latest  == Here /\ ui.messages # <<>> => \A r \in AnswersOf(ui.messages, Len(ui.messages)), s \in Typed :
             Sent(s) /\ home[s] = socket => home[r] = socket
Turns ==
  /\ InTurn /\ OnLink /\ NoClear
  /\ Uninterrupted(ui.messages, wire, Live) /\ InTurns(ui.messages, wire, Mine, FailedRuns)
AnswersInv ==
  /\ Turns /\ Waiting /\ Latest
  /\ Unended(ui.messages) /\ Whole(ui.messages, FailedRuns)
  /\ Awaited(ui.messages, ui.streaming, OpenRuns)

(* On the web an event is handled as it arrives.                           *)
LEMMA WebFacts ==
  ASSUME PieceInv, client = "web"
  PROVE  ~Swift /\ todo = <<>> /\ \A p : Arrives(p) => ui' = Handled(ui, p)
  BY Unpacked DEF Swift, Arrives

(* What is heard is known, and was said.                                   *)
LEMMA HeardKnown ==
  ASSUME PieceInv, NEW r \in Runs, OnScreen(ui.messages, r) \/ OnWire(wire, r)
  PROVE  \E n \in 1..Chunks : Known(ui.messages, todo, wire, r, n)
<1>1. CASE OnScreen(ui.messages, r)
  BY <1>1 DEF OnScreen, Known
<1>2. CASE OnWire(wire, r)
  <2>1. PICK i \in DOMAIN wire : Says(wire[i], r)
    BY <1>2 DEF OnWire
  <2>2. wire[i] \in Packets /\ wire[i].kind = "response" /\ wire[i].run = r
    BY <2>1, Unpacked, ElementOfSeq DEF Says
  <2>3. wire[i].part \in 1..Chunks
    BY <2>2 DEF Packets
  <2>4. In(wire, r, wire[i].part)
    BY <2>2 DEF In, Part
  <2> QED
    BY <2>3, <2>4 DEF Known
<1> QED
  BY <1>1, <1>2

(* And a run that is heard has said a chunk.                               *)
LEMMA HeardSaid ==
  ASSUME PieceInv, NEW r \in Runs, OnScreen(ui.messages, r) \/ OnWire(wire, r)
  PROVE  step[r] > 1
<1>1. Flows(ui.messages, todo, wire, step, Heard) /\ step[r] \in Nat
  BY Unpacked, StreamAssumption
<1>2. PICK n \in 1..Chunks : Known(ui.messages, todo, wire, r, n)
  BY HeardKnown
<1>3. n < step[r]
  BY <1>1, <1>2 DEF Flows
<1> QED
  BY <1>1, <1>3, StreamAssumption

(* Fewer live runs; more of the present socket that have said nothing.     *)
LEMMA TurnSame ==
  ASSUME NEW ms, NEW w, NEW live, NEW mine, NEW failed, NEW live2, NEW mine2, NEW failed2,
         Uninterrupted(ms, w, live), InTurns(ms, w, mine, failed),
         live2 \subseteq live, failed \subseteq failed2,
         \A r \in Runs : r \in mine2 => r \in mine \/ ~(OnScreen(ms, r) \/ OnWire(w, r))
  PROVE  Uninterrupted(ms, w, live2) /\ InTurns(ms, w, mine2, failed2)
<1>1. Uninterrupted(ms, w, live2)
  BY DEF Uninterrupted
<1>2. \A r, k : Sooner(ms, w, r, k) => OnScreen(ms, r) \/ OnWire(w, r)
  BY DEF Sooner, OnWire
<1>3. InTurns(ms, w, mine2, failed2)
  BY <1>2 DEF InTurns
<1> QED
  BY <1>1, <1>3

(* No chunks are on the wire.                                              *)
LEMMA TurnQuiet ==
  ASSUME NEW ms, NEW w, \A i \in DOMAIN w : w[i].kind # "response", NEW mine, NEW failed
  PROVE  Uninterrupted(ms, w, {}) /\ InTurns(ms, w, mine, failed) /\ \A r : ~OnWire(w, r)
  BY DEF Uninterrupted, InTurns, OnWire, Says

(* The screen shows what it showed.                                        *)
LEMMA Framed ==
  ASSUME AnswersInv, Turns', ui'.messages = ui.messages, FailedRuns \subseteq FailedRuns',
         \A r \in Typed : OnScreen(ui.messages, r) /\ r \in OpenRuns' =>
           r \in OpenRuns /\ ui'.streaming = ui.streaming,
         Waiting', Latest'
  PROVE  AnswersInv'
<1>1. Unended(ui'.messages) /\ Unended(ui.messages)
  BY DEF AnswersInv
<1>2. Whole(ui'.messages, FailedRuns')
  BY DEF AnswersInv, Whole
<1>3. Awaited(ui'.messages, ui'.streaming, OpenRuns')
  BY DEF AnswersInv, Awaited
<1> QED
  BY <1>1, <1>2, <1>3 DEF AnswersInv

(* The link goes down, or is down: nothing more is said on it.             *)
LEMMA LinkDown ==
  ASSUME PieceInv, AnswersInv, UNCHANGED <<server, socket>>, link' # "up", ui'.messages = ui.messages,
         Uninterrupted(ui.messages, wire', {}), InTurns(ui.messages, wire', Mine, FailedRuns), NoClear',
         \A r \in Runs : OnWire(wire', r) => OnWire(wire, r) /\ Here' /\ ui'.streaming = ui.streaming,
         Here' => Here /\ pending' = pending
  PROVE  AnswersInv'
<1>1. step' = step /\ home' = home /\ stage' = stage /\ before' = before /\ tail' = tail /\ socket' = socket
  BY DEF server
<1>2. InTurn'
  BY <1>1 DEF AnswersInv, Turns, InTurn
<1>3. Live' = {} /\ Mine' = Mine /\ FailedRuns' = FailedRuns
  BY <1>1 DEF Live, Mine, FailedRuns, Failed
<1>4. OnLink'
  BY <1>1 DEF AnswersInv, Turns, OnLink, Sent
<1>5. Turns'
  BY <1>2, <1>3, <1>4 DEF Turns
<1>6. ASSUME NEW r \in Typed, r \in OpenRuns' PROVE r \in OpenRuns /\ ui'.streaming = ui.streaming
  <2>1. r \in Runs /\ OnWire(wire', r)
    BY <1>3, <1>6 DEF OpenRuns
  <2> QED
    BY <2>1 DEF OpenRuns
<1>7. Waiting' /\ Latest'
  BY <1>1 DEF AnswersInv, Waiting, Latest, Sent
<1> QED
  BY <1>3, <1>5, <1>6, <1>7, Framed

(* The link breaks.                                                        *)
LEMMA BreakAnswers == ASSUME PieceInv, AnswersInv, Break PROVE AnswersInv'
<1>1. /\ link = "up" /\ link' = "broken" /\ UNCHANGED <<client, socket, todo, ui, pending, server>>
  BY DEF Break
<1>2. PICK n \in 0..Len(wire) : wire' = SubSeq(wire, 1, n)
  BY DEF Break
<1>3. Uninterrupted(ui.messages, wire, Live) /\ InTurns(ui.messages, wire, Mine, FailedRuns) /\ NoClear
  BY DEF AnswersInv, Turns
<1>4. /\ Uninterrupted(ui.messages, wire', {}) /\ InTurns(ui.messages, wire', Mine, FailedRuns)
      /\ \A i \in DOMAIN wire' : i \in DOMAIN wire /\ wire'[i] = wire[i]
  BY <1>2, <1>3, Unpacked, TurnCut
<1>5. NoClear'
  BY <1>3, <1>4 DEF NoClear
<1>6. \A r \in Runs : OnWire(wire', r) => OnWire(wire, r)
  BY <1>4 DEF OnWire
<1>7. Here' /\ Here
  BY <1>1 DEF Here
<1> QED
  BY <1>1, <1>4, <1>5, <1>6, <1>7, LinkDown

(* The server closes it.                                                   *)
LEMMA CloseAnswers == ASSUME PieceInv, AnswersInv, Close PROVE AnswersInv'
<1>1. /\ link = "up" /\ link' = "closed" /\ UNCHANGED <<client, socket, todo, ui, pending, server>>
  BY DEF Close
<1>2. PICK why \in {"inactive", "version"} : wire' = Append(wire, Event(why))
  BY DEF Close
<1> DEFINE t == <<Event(why)>>
<1>3. Event(why) \in Packets /\ Event(why).kind \notin {"response", "cleared"}
  BY EventFacts
<1>4. t \in Seq(Packets) /\ \A i \in DOMAIN t : t[i].kind # "response"
  BY <1>3
<1>5. wire' = wire \o t
  BY <1>2, <1>3, Unpacked, AppendIsConcat
<1> HIDE DEF t
<1>6. Uninterrupted(ui.messages, wire, Live) /\ InTurns(ui.messages, wire, Mine, FailedRuns) /\ NoClear
  BY DEF AnswersInv, Turns
<1>7. /\ Uninterrupted(ui.messages, wire \o t, {}) /\ InTurns(ui.messages, wire \o t, Mine, FailedRuns)
      /\ \A r : OnWire(wire \o t, r) <=> OnWire(wire, r)
  <2> DEFINE none == {}
  <2>1. wire \in Seq(Packets) /\ Withdrawn(ui.messages, wire, t, Live, none)
    BY Unpacked DEF Withdrawn
  <2> HIDE DEF none
  <2>2. /\ Uninterrupted(ui.messages, wire \o t, none) /\ InTurns(ui.messages, wire \o t, Mine, FailedRuns)
        /\ \A r : OnWire(wire \o t, r) <=> OnWire(wire, r)
    BY <1>4, <1>6, <2>1, TurnJoined
  <2> QED
    BY <2>2 DEF none
<1>8. NoClear'
  <2>1. /\ Len(wire) \in Nat /\ DOMAIN wire = 1..Len(wire) /\ DOMAIN wire' = 1..(Len(wire) + 1)
        /\ wire'[Len(wire) + 1] = Event(why) /\ \A i \in 1..Len(wire) : wire'[i] = wire[i]
    BY <1>2, <1>3, Unpacked, Appending
  <2> QED
    BY <1>3, <1>6, <2>1 DEF NoClear
<1>9. Here' /\ Here
  BY <1>1 DEF Here
<1> QED
  BY <1>1, <1>5, <1>7, <1>8, <1>9, LinkDown

(* The client notices.                                                     *)
LEMMA NoticeAnswers == ASSUME PieceInv, AnswersInv, client = "web", Notice PROVE AnswersInv'
<1>1. /\ link \in {"broken", "closed"} /\ link' \in {"opening", "none"} /\ Arrives(Event("disconnect"))
      /\ wire = <<>> /\ UNCHANGED <<client, socket, wire, pending, server>>
  BY DEF Notice
<1>2. Event("disconnect") \in Packets /\ Event("disconnect").kind = "disconnect"
  BY EventFacts
<1>3. ui'.messages = ui.messages
  BY <1>1, <1>2, WebFacts, Unpacked, HandledFacts
<1>4. /\ Uninterrupted(ui.messages, wire', {}) /\ InTurns(ui.messages, wire', Mine, FailedRuns)
      /\ (\A r : ~OnWire(wire', r)) /\ NoClear'
  BY <1>1, InEmpty, TurnQuiet DEF NoClear
<1>5. ~Here'
  BY <1>1 DEF Here
<1> QED
  BY <1>1, <1>3, <1>4, <1>5, LinkDown

(* An attempt fails.                                                       *)
LEMMA RefuseAnswers == ASSUME PieceInv, AnswersInv, client = "web", Refuse PROVE AnswersInv'
<1>1. /\ link = "opening" /\ link' \in {"opening", "none"} /\ Arrives(Event("connect_error"))
      /\ UNCHANGED <<client, socket, wire, pending, server>>
  BY DEF Refuse
<1>2. Event("connect_error") \in Packets /\ Event("connect_error").kind = "connect_error"
  BY EventFacts
<1>3. ui'.messages = ui.messages
  BY <1>1, <1>2, WebFacts, Unpacked, HandledFacts
<1>4. ~Here' /\ ~Here
  BY <1>1 DEF Here
<1>5. /\ Uninterrupted(ui.messages, wire, Live) /\ InTurns(ui.messages, wire, Mine, FailedRuns) /\ NoClear
      /\ \A r \in Runs : ~OnWire(wire, r)
  BY <1>4 DEF AnswersInv, Turns, OnLink
<1>6. Uninterrupted(ui.messages, wire, {})
  BY <1>5, TurnSame
<1> QED
  BY <1>1, <1>3, <1>4, <1>5, <1>6, LinkDown DEF NoClear

(* connect() drops what is on the wire.                                    *)
LEMMA ConnectAnswers == ASSUME PieceInv, AnswersInv, Connect PROVE AnswersInv'
<1>1. /\ link' = "opening" /\ wire' = <<>> /\ ui'.messages = ui.messages
      /\ UNCHANGED <<client, socket, server>>
  BY ConnectFacts
<1>2. /\ Uninterrupted(ui.messages, wire', {}) /\ InTurns(ui.messages, wire', Mine, FailedRuns)
      /\ (\A r : ~OnWire(wire', r)) /\ NoClear'
  BY <1>1, InEmpty, TurnQuiet DEF NoClear
<1>3. ~Here'
  BY <1>1 DEF Here
<1> QED
  BY <1>1, <1>2, <1>3, LinkDown

(* On a new link nothing was sent.                                         *)
LEMMA OpenAnswers == ASSUME PieceInv, AnswersInv, Open PROVE AnswersInv'
<1>1. /\ link' = "up" /\ socket' = socket + 1 /\ wire' = <<Event("connect")>>
      /\ UNCHANGED <<client, todo, ui, pending, server>>
  BY DEF Open
<1>2. step' = step /\ home' = home /\ stage' = stage /\ before' = before /\ tail' = tail /\ ui' = ui
  BY <1>1 DEF server
<1>3. ASSUME NEW t \in Tasks PROVE home'[t] # socket'
  <2>1. home[t] <= socket /\ home[t] \in Nat /\ socket \in Nat
    BY Unpacked DEF Untouched, ServerTyped
  <2> QED
    BY <1>1, <1>2, <2>1
<1>4. Live' = {} /\ Mine' = {} /\ FailedRuns' = FailedRuns
  BY <1>2, <1>3 DEF Live, Mine, FailedRuns, Failed, Tasks
<1>5. Event("connect").kind = "connect"
  BY DEF Event
<1>6. DOMAIN wire' = {1} /\ wire'[1].kind = "connect"
  BY <1>1, <1>5
<1>7. /\ Uninterrupted(ui'.messages, wire', Live') /\ InTurns(ui'.messages, wire', Mine', FailedRuns')
      /\ (\A r : ~OnWire(wire', r)) /\ NoClear'
  BY <1>4, <1>6, TurnQuiet DEF NoClear
<1>8. Turns'
  BY <1>2, <1>7 DEF AnswersInv, Turns, InTurn, OnLink
<1>9. Waiting' /\ Latest'
  BY <1>3 DEF Waiting, Latest, Tasks, Runs
<1>10. OpenRuns' = {}
  BY <1>4, <1>7 DEF OpenRuns
<1> QED
  BY <1>2, <1>4, <1>8, <1>9, <1>10, Framed

(* An event of the server comes in.                                        *)
LEMMA ReceiveAnswers == ASSUME PieceInv, AnswersInv, client = "web", Receive PROVE AnswersInv'
<1> DEFINE p == Head(wire)
           ms == ui.messages
<1>1. /\ wire # <<>> /\ wire' = Tail(wire) /\ ui' = Handled(ui, p)
      /\ UNCHANGED <<client, link, socket, pending, server>>
  BY WebFacts DEF Receive
<1>2. /\ p \in Packets /\ p = wire[1] /\ wire' \in Seq(Packets) /\ Len(wire) \in Nat \ {0}
      /\ DOMAIN wire = 1..Len(wire) /\ DOMAIN wire' = 1..(Len(wire) - 1)
      /\ \A i \in 1..(Len(wire) - 1) : wire'[i] = wire[i + 1]
  BY <1>1, Unpacked, Taking
<1>3. /\ step' = step /\ home' = home /\ stage' = stage /\ before' = before /\ tail' = tail /\ socket' = socket
      /\ pending' = pending /\ link' = link
  BY <1>1 DEF server
<1>4. /\ InTurn /\ OnLink /\ NoClear /\ Waiting /\ Latest /\ Unended(ms) /\ Whole(ms, FailedRuns)
      /\ Uninterrupted(ms, wire, Live) /\ InTurns(ms, wire, Mine, FailedRuns)
      /\ Awaited(ms, ui.streaming, OpenRuns)
  BY DEF AnswersInv, Turns
<1>5. Live' = Live /\ Mine' = Mine /\ FailedRuns' = FailedRuns
  BY <1>3 DEF Live, Mine, FailedRuns, Failed
<1>6. 1 \in DOMAIN wire /\ \A i \in DOMAIN wire' : i + 1 \in DOMAIN wire /\ wire'[i] = wire[i + 1] /\ 1 <= i + 1
  BY <1>2
<1>7. InTurn' /\ NoClear' /\ p.kind # "cleared" /\ Waiting'
  <2>1. InTurn' /\ Waiting'
    BY <1>3, <1>4 DEF InTurn, Waiting, Here, Sent
  <2> QED
    BY <1>2, <1>4, <1>6, <2>1 DEF NoClear
<1>8. \A r \in Runs : OnWire(wire', r) => OnWire(wire, r) /\ \E j \in DOMAIN wire : 1 <= j /\ Says(wire[j], r)
  BY <1>6 DEF OnWire
<1>9. OnLink'
  BY <1>3, <1>4, <1>8 DEF OnLink, Sent, Here
<1>10. OpenRuns' \subseteq OpenRuns
  BY <1>3, <1>5, <1>8 DEF OpenRuns
(* On the screen and not yet over: so the first packet is its own.         *)
<1>11. ASSUME NEW r \in Runs, OnScreen(ms, r), r \in OpenRuns' PROVE Says(p, r)
  <2>1. Sooner(ms, wire, r, 1)
    BY <1>11 DEF Sooner
  <2>2. r \in Live \/ \E j \in DOMAIN wire : 1 <= j /\ Says(wire[j], r)
    BY <1>5, <1>8, <1>11 DEF OpenRuns
  <2> QED
    BY <1>2, <1>4, <1>6, <2>1, <2>2 DEF Uninterrupted
<1>12. CASE p.kind # "response"
  <2>1. ui'.messages = ms
    BY <1>1, <1>2, <1>7, <1>12, Unpacked, HandledFacts
  <2>2. Uninterrupted(ms, wire', Live) /\ InTurns(ms, wire', Mine, FailedRuns)
    <3>1. \A r \in Runs : Seen(ms, r, Chunks) \/ Part(p, r, Chunks) => Seen(ms, r, Chunks)
      BY <1>12 DEF Part
    <3> QED
      BY <1>1, <1>4, <3>1, Unpacked, TurnTaken
  <2>3. Turns'
    BY <1>5, <1>7, <1>9, <2>1, <2>2 DEF Turns
  <2>4. Latest'
    BY <1>3, <1>4, <2>1 DEF Latest, Sent, Here
  <2>5. \A r \in Typed : ~(OnScreen(ms, r) /\ r \in OpenRuns')
    BY <1>11, <1>12 DEF Says, Runs
  <2> QED
    BY <1>5, <1>7, <2>1, <2>3, <2>4, <2>5, Framed
<1>13. CASE p.kind = "response"
  <2> DEFINE u == Appended(ms, p)
             q == p.run
  <2>1. ui'.messages = u /\ ui'.streaming = ~p.done /\ ms \in Seq(Messages)
    BY <1>1, <1>2, <1>13, Unpacked, HandledFacts, ScreenFacts
  <2>2. /\ q \in Runs /\ p.part \in 1..Chunks /\ (p.done <=> p.part = Chunks) /\ Says(p, q) /\ OnWire(wire, q)
        /\ \A r : Says(p, r) => r = q
    BY <1>2, <1>6, <1>13 DEF Packets, Says, OnWire
  <2>3. home[q] = socket /\ Sent(q) /\ Here
    BY <1>4, <2>2 DEF OnLink
  <2>4. q \in Typed /\ OnScreen(ms, q) => ms # <<>> /\ q \in AnswersOf(ms, Len(ms)) /\ Streams(ms[Len(ms)])
    BY <1>4, <2>2 DEF Awaited, OpenRuns
  (* Another one whose answer is on the last message has ended.            *)
  <2>5. ASSUME q \in Typed, ms # <<>>, NEW s \in AnswersOf(ms, Len(ms)), s # q
        PROVE  s \in FailedRuns \/ Seen(ms, s, Chunks)
    <3>1. s \in Typed /\ s \in Runs /\ home[s] = socket
      BY <1>4, <2>3, <2>5 DEF Latest, AnswersOf, Runs
    <3>2. OnScreen(ms, s)
      <4>1. Len(ms) \in DOMAIN ms
        BY <2>1, <2>5, LenProperties, EmptySeq
      <4> QED
        BY <2>5, <3>1, <4>1, SeenOn
    <3>3. Sooner(ms, wire, s, 1) /\ s \in Mine
      BY <3>1, <3>2 DEF Sooner, Mine
    <3>4. ~(\E k \in DOMAIN wire : k < 1 /\ Part(wire[k], s, Chunks))
      BY <1>2
    <3> QED
      BY <1>2, <1>4, <1>6, <2>2, <2>5, <3>1, <3>3, <3>4 DEF InTurns
  (* While it goes on this chunk is not its last.                          *)
  <2>6. q \in OpenRuns' => ~p.done
    <3> SUFFICES ASSUME q \in OpenRuns', p.done PROVE FALSE
      OBVIOUS
    <3>0. /\ Flows(ms, todo, wire, step, Heard) /\ Chunks \in Nat \ {0} /\ step[q] \in Nat
      BY <2>2, Unpacked, StreamAssumption
    <3>1. Part(p, q, Chunks) /\ Chunks \in 1..Chunks
      BY <1>13, <2>2, <3>0 DEF Part
    <3>2. ASSUME NEW i \in DOMAIN wire', Says(wire'[i], q) PROVE FALSE
      <4>1. wire'[i] \in Packets /\ wire'[i].part \in 1..Chunks /\ Part(wire'[i], q, wire'[i].part)
        <5>1. wire'[i] \in Packets
          BY <1>2, ElementOfSeq
        <5> QED
          BY <3>2, <5>1 DEF Says, Part, Packets
      <4>2. Ordered(wire) /\ 1 < i + 1 /\ i + 1 \in DOMAIN wire /\ wire[i + 1] = wire'[i] /\ wire[1] = p
        BY <1>2, <1>6, <3>0 DEF Flows, InOrder
      <4>3. Chunks < wire'[i].part
        BY <1>6, <2>2, <3>1, <4>1, <4>2 DEF Ordered
      <4> QED
        BY <3>0, <4>1, <4>3
    <3>3. step[q] <= Chunks
      BY <1>3, <3>2 DEF OpenRuns, OnWire
    <3>4. Known(ms, todo, wire, q, Chunks)
      BY <1>2, <1>6, <3>1 DEF Known, In
    <3>5. Chunks < step[q]
      BY <2>2, <3>0, <3>1, <3>4 DEF Flows
    <3> QED
      BY <3>0, <3>3, <3>5
  <2>7. \A r \in Typed : r # q /\ OnScreen(ms, r) => r \notin OpenRuns'
    BY <1>11, <2>2 DEF Runs
  <2>8. /\ Unended(u) /\ Whole(u, FailedRuns) /\ Awaited(u, ~p.done, OpenRuns') /\ u # <<>>
        /\ \A r \in AnswersOf(u, Len(u)) : r = q \/ (ms # <<>> /\ r \in AnswersOf(ms, Len(ms)))
        /\ \A r \in Runs : OnScreen(u, r) => OnScreen(ms, r) \/ r = q
        /\ \A r \in Runs : Seen(ms, r, Chunks) \/ Part(p, r, Chunks) => Seen(u, r, Chunks)
    BY <1>2, <1>4, <1>13, <2>1, <2>4, <2>5, <2>6, <2>7, AnswersAnswered
  <2> HIDE DEF u, q
  <2>9. Uninterrupted(u, wire', Live) /\ InTurns(u, wire', Mine, FailedRuns)
    BY <1>1, <1>4, <2>2, <2>8, Unpacked, TurnTaken
  <2>10. Turns'
    BY <1>5, <1>7, <1>9, <2>1, <2>9 DEF Turns
  <2>11. Latest'
    <3> SUFFICES ASSUME NEW r \in AnswersOf(u, Len(u)), NEW s \in Typed, Sent(s), home[s] = socket
                 PROVE  home[r] = socket
      BY <1>3, <2>1 DEF Latest, Sent
    <3>1. CASE r = q
      BY <2>3, <3>1
    <3>2. CASE ms # <<>> /\ r \in AnswersOf(ms, Len(ms))
      BY <1>4, <2>3, <3>2 DEF Latest
    <3> QED
      BY <2>8, <3>1, <3>2
  <2> QED
    BY <1>5, <1>7, <2>1, <2>8, <2>10, <2>11 DEF AnswersInv
<1> QED
  BY <1>12, <1>13

-----------------------------------------------------------------------------
(***************************************************************************)
(* What the server does.                                                   *)
(***************************************************************************)
(* It says no chunk.                                                       *)
LEMMA QuietTurns ==
  ASSUME PieceInv, AnswersInv, UNCHANGED <<link, socket>>,
         NEW t \in Seq(Packets), Plain(t), wire' = wire \o t,
         InTurn', FailedRuns \subseteq FailedRuns',
         \A r \in Runs : r \in Live' =>
           /\ r \in Live /\ (step'[r] <= Chunks => step[r] <= Chunks)
           /\ t = <<>> \/ ~(OnScreen(ui.messages, r) \/ OnWire(wire, r)),
         \A r \in Runs : r \in Mine' => r \in Mine \/ ~(OnScreen(ui.messages, r) \/ OnWire(wire, r)),
         \A r \in Runs : OnWire(wire, r) => home'[r] = home[r] /\ Sent(r)'
  PROVE  /\ OnLink' /\ NoClear' /\ OpenRuns' \subseteq OpenRuns
         /\ Uninterrupted(ui.messages, wire', Live') /\ InTurns(ui.messages, wire', Mine', FailedRuns')
<1>1. /\ Uninterrupted(ui.messages, wire, Live) /\ InTurns(ui.messages, wire, Mine, FailedRuns)
      /\ OnLink /\ NoClear
  BY DEF AnswersInv, Turns
<1>2. wire \in Seq(Packets)
  BY Unpacked
<1>3. InTurns(ui.messages, wire, Mine', FailedRuns')
  <2> DEFINE same == Live
  <2>1. same \subseteq Live
    OBVIOUS
  <2> HIDE DEF same
  <2> QED
    BY <1>1, <2>1, TurnSame
<1>4. /\ Uninterrupted(ui.messages, wire \o t, Live') /\ InTurns(ui.messages, wire \o t, Mine', FailedRuns')
      /\ \A r : OnWire(wire \o t, r) <=> OnWire(wire, r)
  <2> DEFINE now == Live
             then == Live'
             mine == Mine'
             failed == FailedRuns'
             ms == ui.messages
  <2>1. /\ \A i \in DOMAIN t : t[i].kind # "response"
        /\ Withdrawn(ms, wire, t, now, then)
        /\ Uninterrupted(ms, wire, now) /\ InTurns(ms, wire, mine, failed)
    BY <1>1, <1>3 DEF Withdrawn, Plain
  <2> HIDE DEF now, then, mine, failed, ms
  <2>2. /\ Uninterrupted(ms, wire \o t, then) /\ InTurns(ms, wire \o t, mine, failed)
        /\ \A r : OnWire(wire \o t, r) <=> OnWire(wire, r)
    BY <1>2, <2>1, TurnJoined
  <2> QED
    BY <2>2 DEF then, mine, failed, ms
<1>5. OnLink'
  BY <1>1, <1>4 DEF OnLink, Here
<1>6. NoClear'
  <2> DEFINE l == Len(wire)
             w == wire \o t
  <2>1. /\ l \in Nat /\ Len(t) \in Nat /\ DOMAIN wire = 1..l /\ DOMAIN t = 1..Len(t)
        /\ DOMAIN w = 1..(l + Len(t)) /\ \A i \in 1..l : w[i] = wire[i]
        /\ \A i \in 1..Len(t) : w[l + i] = t[i]
    BY <1>2, Joining
  <2>2. wire' = w
    OBVIOUS
  <2> HIDE DEF l, w
  <2>3. ASSUME NEW i \in DOMAIN w PROVE w[i].kind # "cleared"
    <3>1. CASE i \in 1..l
      BY <1>1, <2>1, <3>1 DEF NoClear
    <3>2. CASE i \notin 1..l
      <4>1. i - l \in DOMAIN t /\ l + (i - l) = i
        BY <2>1, <3>2
      <4> QED
        BY <2>1, <4>1 DEF Plain
    <3> QED
      BY <3>1, <3>2
  <2> QED
    BY <2>2, <2>3 DEF NoClear
<1>7. ASSUME NEW r \in OpenRuns' PROVE r \in OpenRuns
  <2>1. CASE OnWire(wire', r)
    BY <1>4, <2>1 DEF OpenRuns
  <2>2. CASE r \in Live' /\ step'[r] <= Chunks
    BY <1>7, <2>2 DEF OpenRuns
  <2> QED
    BY <1>7, <2>1, <2>2 DEF OpenRuns
<1> QED
  BY <1>4, <1>5, <1>6, <1>7

(* A packet on the wire.                                                   *)
LEMMA SaysOne ==
  ASSUME NEW p \in Packets, p.kind \notin {"response", "cleared"}, NEW w \in Seq(Packets)
  PROVE  <<p>> \in Seq(Packets) /\ Plain(<<p>>) /\ Append(w, p) = w \o <<p>>
<1>1. <<p>> \in Seq(Packets) /\ Plain(<<p>>)
  BY DEF Plain
<1> QED
  BY <1>1, AppendIsConcat

(* A run emits a token or a chunk.                                         *)
LEMMA EmitNextAnswers ==
  ASSUME PieceInv, AnswersInv, NEW r \in Runs, EmitNext(r), UNCHANGED <<client, link, socket, todo, ui, pending>>,
         client = "web"
  PROVE  AnswersInv'
<1> DEFINE ms == ui.messages
<1>1. /\ Ready(r) /\ step[r] <= Chunks /\ step' = [step EXCEPT ![r] = @ + 1]
      /\ UNCHANGED <<stage, before, home, tail>> /\ stage[r] = "queued"
  BY DEF EmitNext, Ready
<1>2. /\ step'[r] = step[r] + 1 /\ \A q \in Runs : q # r => step'[q] = step[q]
      /\ step[r] \in Nat /\ r \in Tasks /\ Chunks \in Nat \ {0} /\ wire \in Seq(Packets)
  BY <1>1, Unpacked, StreamAssumption DEF Tasks
<1>3. /\ InTurn /\ OnLink /\ NoClear /\ Waiting /\ Latest
      /\ Uninterrupted(ms, wire, Live) /\ InTurns(ms, wire, Mine, FailedRuns)
  BY DEF AnswersInv, Turns
<1>4. InTurn' /\ Waiting' /\ Latest'
  BY <1>1, <1>3, ChainSteps DEF Waiting, Latest, Here, Sent
<1>5. Mine' = Mine /\ FailedRuns' = FailedRuns
  <2>1. \A q \in Runs : Failed(q)' <=> Failed(q)
    BY <1>1, <1>2 DEF Failed
  <2> QED
    BY <1>1, <2>1 DEF Mine, FailedRuns
(* Another one that has begun has ended.                                   *)
<1>6. ASSUME NEW q \in Runs, q # r, step[q] > 0 PROVE stage[q] = "done"
  BY <1>1, <1>2, <1>3, <1>6, Serial
<1>7. \A q \in Runs : (q \in Live \/ q \in Live') => q = r
  <2>1. ASSUME NEW q \in Runs, q # r, step[q] > 1, stage[q] = "queued" PROVE FALSE
    <3>1. step[q] > 0
      BY <2>1, Unpacked, StreamAssumption
    <3> QED
      BY <1>6, <2>1, <3>1
  <2> QED
    BY <1>1, <1>2, <2>1 DEF Live
<1>8. \A q \in Runs : OnWire(wire, q) => home'[q] = home[q] /\ Sent(q)'
  BY <1>1, <1>3 DEF OnLink, Sent
<1>9. ASSUME OnLink', NoClear', \A q \in Typed : OnScreen(ms, q) /\ q \in OpenRuns' => q \in OpenRuns,
             Uninterrupted(ms, wire', Live'), InTurns(ms, wire', Mine', FailedRuns')
      PROVE  AnswersInv'
  <2>1. Turns'
    BY <1>4, <1>9 DEF Turns
  <2> QED
    BY <1>4, <1>5, <1>9, <2>1, Framed
<1>10. CASE link = "up" /\ home[r] = socket /\ step[r] = 0
  <2> DEFINE p == [kind |-> "token", run |-> r]
             t == <<p>>
  <2>1. wire' = wire \o t
    BY <1>1, <1>10 DEF EmitNext, Send
  <2>2. p \in Packets /\ p.kind \notin {"response", "cleared"}
    BY EventFacts
  <2> HIDE DEF p
  <2>3. t \in Seq(Packets) /\ Plain(t)
    BY <1>2, <2>2, SaysOne
  <2> HIDE DEF t
  <2>4. \A q \in Runs : q \notin Live'
    BY <1>2, <1>7, <1>10 DEF Live
  <2>5. /\ OnLink' /\ NoClear' /\ OpenRuns' \subseteq OpenRuns
        /\ Uninterrupted(ms, wire', Live') /\ InTurns(ms, wire', Mine', FailedRuns')
    BY <1>4, <1>5, <1>8, <2>1, <2>3, <2>4, QuietTurns
  <2> QED
    BY <1>9, <2>5
<1>11. CASE ~(link = "up" /\ home[r] = socket)
  <2> DEFINE t == <<>>
  <2>1. wire' = wire \o t /\ t \in Seq(Packets) /\ Plain(t)
    BY <1>1, <1>2, <1>11, InEmpty, EmptySeq, ConcatEmptySeq DEF EmitNext, Send, Plain
  <2> HIDE DEF t
  <2>2. \A q \in Runs : q \notin Live'
    BY <1>1, <1>7, <1>11 DEF Live
  <2>3. /\ OnLink' /\ NoClear' /\ OpenRuns' \subseteq OpenRuns
        /\ Uninterrupted(ms, wire', Live') /\ InTurns(ms, wire', Mine', FailedRuns')
    BY <1>4, <1>5, <1>8, <2>1, <2>2, QuietTurns
  <2> QED
    BY <1>9, <2>3
<1>12. CASE link = "up" /\ home[r] = socket /\ step[r] # 0
  <2> DEFINE p == [kind |-> "response", run |-> r, part |-> step[r], done |-> step[r] = Chunks]
             u == Append(wire, p)
  <2>1. wire' = wire \o <<p>>
    BY <1>1, <1>12 DEF EmitNext, Send
  <2>2. p \in Packets /\ p.kind = "response" /\ p.run = r
    <3>1. step[r] \in 1..Chunks
      BY <1>1, <1>2, <1>12
    <3> QED
      BY <3>1, ChunkFacts
  <2> HIDE DEF p
  <2>3. wire' = u
    BY <1>2, <2>1, <2>2, AppendIsConcat
  (* What r said before makes it live.                                     *)
  <2>4. OnScreen(ms, r) \/ OnWire(wire, r) => r \in Live
    <3>1. OnScreen(ms, r) \/ OnWire(wire, r) => step[r] > 1
      BY HeardSaid
    <3> QED
      BY <1>1, <1>12, <3>1 DEF Live
  (* Who spoke before on this socket has said everything.                  *)
  <2>5. ASSUME NEW q \in Runs, q # r, OnScreen(ms, q) \/ OnWire(wire, q), q \in Mine
        PROVE  q \in FailedRuns \/ Seen(ms, q, Chunks) \/ In(wire, q, Chunks)
    <3>1. step[q] > 1 /\ step[q] \in 0..(Chunks + 1)
      BY <2>5, HeardSaid, Unpacked
    <3>2. stage[q] = "done"
      BY <1>6, <2>5, <3>1
    <3>3. CASE step[q] <= Chunks
      BY <3>2, <3>3 DEF FailedRuns, Failed
    <3>4. CASE step[q] = Chunks + 1
      <4>1. q \in Heard /\ Flows(ms, todo, wire, step, Heard) /\ todo = <<>>
        BY <1>12, <2>5, WebFacts, Unpacked DEF Heard, Mine
      <4>2. PICK n \in 1..Chunks : Known(ms, todo, wire, q, n)
        BY <2>5, HeardKnown
      <4>3. Known(ms, todo, wire, q, step[q] - 1) /\ step[q] - 1 = Chunks
        BY <1>2, <3>4, <4>1, <4>2 DEF Flows
      <4> QED
        BY <4>1, <4>3, InEmpty DEF Known
    <3> QED
      BY <1>2, <3>1, <3>3, <3>4
  <2>6. /\ Uninterrupted(ms, u, Live') /\ InTurns(ms, u, Mine, FailedRuns)
        /\ \A q : OnWire(u, q) <=> OnWire(wire, q) \/ q = r
    <3> DEFINE now == Live
               then == Live'
               mine == Mine
               failed == FailedRuns
    <3>1. /\ Alone(ms, wire, p.run, now, then) /\ Over(ms, wire, p.run, mine, failed)
          /\ Uninterrupted(ms, wire, now) /\ InTurns(ms, wire, mine, failed)
      BY <1>3, <1>7, <2>2, <2>4, <2>5 DEF Alone, Over
    <3> HIDE DEF now, then, mine, failed, u, ms
    <3>2. /\ Uninterrupted(ms, Append(wire, p), then) /\ InTurns(ms, Append(wire, p), mine, failed)
          /\ \A q : OnWire(Append(wire, p), q) <=> OnWire(wire, q) \/ q = p.run
      BY <1>2, <2>2, <3>1, TurnSaid
    <3> QED
      BY <2>2, <3>2 DEF then, mine, failed, u
  <2>7. OnLink'
    BY <1>1, <1>3, <1>12, <2>3, <2>6 DEF OnLink, Sent, Here
  <2>8. NoClear'
    <3>1. /\ Len(wire) \in Nat /\ DOMAIN wire = 1..Len(wire) /\ DOMAIN u = 1..(Len(wire) + 1)
          /\ u[Len(wire) + 1] = p /\ \A i \in 1..Len(wire) : u[i] = wire[i]
      BY <1>2, <2>2, Appending
    <3> HIDE DEF u
    <3> QED
      BY <1>3, <2>2, <2>3, <3>1 DEF NoClear
  <2>9. ASSUME NEW q \in Typed, OnScreen(ms, q), q \in OpenRuns' PROVE q \in OpenRuns
    <3>1. CASE q = r
      BY <1>1, <2>4, <2>9, <3>1 DEF OpenRuns
    <3>2. CASE q # r
      BY <1>7, <2>3, <2>6, <2>9, <3>2 DEF OpenRuns
    <3> QED
      BY <3>1, <3>2
  <2> QED
    BY <1>5, <1>9, <2>3, <2>6, <2>7, <2>8, <2>9
<1> QED
  BY <1>10, <1>11, <1>12

(* A run ends: it was the one that spoke, and nobody else does yet.        *)
LEMMA EndRunAnswers ==
  ASSUME PieceInv, AnswersInv, NEW r \in Runs, EndRun(r), UNCHANGED <<client, link, socket, todo, ui, pending>>
  PROVE  AnswersInv'
<1>1. /\ Ready(r) /\ Ended(r) /\ r \in Tasks /\ stage[r] = "queued"
      /\ stage' = [stage EXCEPT ![r] = "done"] /\ step' = step /\ home' = home
  BY DEF EndRun, Ended, Ready, Tasks
<1>2. \A t \in Tasks : stage'[t] = IF t = r THEN "done" ELSE stage[t]
  BY <1>1, Unpacked DEF ServerTyped
<1>3. InTurn /\ OnLink /\ Waiting /\ Latest
  BY DEF AnswersInv, Turns
<1>4. InTurn'
  BY <1>1, <1>3, ChainEnds
<1>5. \A t \in Tasks : Sent(t)' <=> Sent(t)
  BY <1>1, <1>2 DEF Sent
<1>6. Waiting' /\ Latest'
  BY <1>1, <1>3, <1>5 DEF Waiting, Latest, Here, Tasks, Runs
<1>7. FailedRuns \subseteq FailedRuns' /\ Mine' = Mine
  BY <1>1, <1>2 DEF FailedRuns, Failed, Mine, Tasks
<1>8. ASSUME NEW q \in Runs, q \in Live' PROVE FALSE
  <2>1. stage'[q] = "queued" /\ step[q] > 1 /\ q \in Tasks
    BY <1>1, <1>8 DEF Live, Tasks
  <2>2. q # r /\ stage[q] = "queued"
    BY <1>2, <2>1
  <2>3. step[q] > 0
    BY <2>1, Unpacked, StreamAssumption
  <2> QED
    BY <1>1, <1>3, <2>2, <2>3, Serial
<1>9. PICK t \in Seq(Packets) : Plain(t) /\ wire' = wire \o t
  BY EndSays
<1>10. \A q \in Runs : OnWire(wire, q) => home'[q] = home[q] /\ Sent(q)'
  BY <1>1, <1>3, <1>5 DEF OnLink, Tasks
<1>11. /\ OnLink' /\ NoClear' /\ OpenRuns' \subseteq OpenRuns
       /\ Uninterrupted(ui.messages, wire', Live') /\ InTurns(ui.messages, wire', Mine', FailedRuns')
  BY <1>4, <1>7, <1>8, <1>9, <1>10, QuietTurns
<1>12. Turns'
  BY <1>4, <1>11 DEF Turns
<1> QED
  BY <1>6, <1>7, <1>11, <1>12, Framed

(* A task is sent, and the queue or nobody takes it.                       *)
LEMMA JoinTurns ==
  ASSUME PieceInv, AnswersInv, NEW t \in Tasks, stage[t] = "idle", UNCHANGED <<link, socket>>,
         AtServer(t) \/ (stage' = [stage EXCEPT ![t] = "lost"] /\ UNCHANGED <<before, step, home, tail, wire>>)
  PROVE  /\ InTurn' /\ OnLink' /\ NoClear' /\ OpenRuns' \subseteq OpenRuns /\ FailedRuns \subseteq FailedRuns'
         /\ Uninterrupted(ui.messages, wire', Live') /\ InTurns(ui.messages, wire', Mine', FailedRuns')
         /\ \A u \in Tasks \ {t} : (Sent(u)' <=> Sent(u)) /\ home'[u] = home[u]
<1>0. /\ InTurn /\ OnLink /\ wire \in Seq(Packets) /\ ServerTyped /\ home \in [Tasks -> Nat]
      /\ (t \in Runs => step[t] = 0) /\ step \in [Runs -> 0..(Chunks + 1)]
  BY Unpacked DEF AnswersInv, Turns, ServerTyped, Untouched
<1>1. CASE Enqueue(t)
  <2>1. /\ stage' = [stage EXCEPT ![t] = "queued"] /\ home' = [home EXCEPT ![t] = socket] /\ step' = step
        /\ wire' = IF t \in Runs /\ tail = None THEN Append(wire, Light(TRUE)) ELSE wire
    BY <1>1 DEF Enqueue
  <2>2. \A u \in Tasks : u # t => stage'[u] = stage[u] /\ home'[u] = home[u]
    BY <1>0, <2>1 DEF ServerTyped
  <2>3. \A u \in Tasks \ {t} : (Sent(u)' <=> Sent(u)) /\ home'[u] = home[u]
    BY <2>2 DEF Sent
  <2>4. InTurn'
    BY <1>0, <1>1, ChainGrows
  <2>5. t \in Runs => ~OnScreen(ui.messages, t) /\ ~OnWire(wire, t)
    <3>1. ASSUME t \in Runs, OnScreen(ui.messages, t) \/ OnWire(wire, t) PROVE FALSE
      <4>1. step[t] > 1
        BY <3>1, HeardSaid
      <4> QED
        BY <1>0, <3>1, <4>1
    <3> QED
      BY <3>1
  <2>6. FailedRuns \subseteq FailedRuns'
    <3>1. ASSUME NEW q \in FailedRuns PROVE q \in FailedRuns'
      <4>1. q \in Tasks /\ q \in Runs /\ q # t /\ stage[q] = "done"
        BY DEF FailedRuns, Failed, Tasks
      <4> QED
        BY <2>1, <2>2, <4>1 DEF FailedRuns, Failed
    <3> QED
      BY <3>1
  <2>7. \A q \in Runs : q \in Live' => q \in Live /\ step[q] = step'[q] /\ stage[q] = "queued"
    <3>1. ASSUME NEW q \in Runs, q \in Live' PROVE q \in Live /\ stage[q] = "queued"
      <4>1. q # t
        BY <1>0, <2>1, <3>1 DEF Live
      <4> QED
        BY <2>1, <2>2, <3>1, <4>1 DEF Live, Tasks
    <3> QED
      BY <2>1, <3>1
  <2>8. \A q \in Runs : q \in Mine' => q \in Mine \/ ~(OnScreen(ui.messages, q) \/ OnWire(wire, q))
    BY <2>2, <2>5 DEF Mine, Tasks
  <2>9. \A q \in Runs : OnWire(wire, q) => home'[q] = home[q] /\ Sent(q)'
    BY <1>0, <2>3, <2>5 DEF OnLink, Tasks
  (* The light goes on only when the queue is empty.                       *)
  <2>10. PICK s \in Seq(Packets) :
           /\ Plain(s) /\ wire' = wire \o s
           /\ \A q \in Runs : q \in Live' => s = <<>>
    <3>1. CASE t \in Runs /\ tail = None
      <4> DEFINE p == Light(TRUE)
      <4>1. p \in Packets /\ p.kind \notin {"response", "cleared"}
        BY EventFacts
      <4>2. wire' = Append(wire, p)
        BY <2>1, <3>1
      <4> HIDE DEF p
      <4>3. <<p>> \in Seq(Packets) /\ Plain(<<p>>) /\ Append(wire, p) = wire \o <<p>>
        BY <1>0, <4>1, SaysOne
      <4>4. \A q \in Runs : q \notin Live'
        <5>1. \A q \in Tasks : stage[q] # "queued"
          BY <1>0, <3>1 DEF InTurn, Chain
        <5> QED
          BY <2>7, <5>1 DEF Tasks
      <4> QED
        BY <4>2, <4>3, <4>4
    <3>2. CASE ~(t \in Runs /\ tail = None)
      <4> DEFINE s == <<>>
      <4>1. s \in Seq(Packets) /\ Plain(s) /\ wire = wire \o s /\ wire' = wire
        BY <1>0, <2>1, <3>2, InEmpty, EmptySeq, ConcatEmptySeq DEF Plain
      <4> QED
        BY <4>1
    <3> QED
      BY <3>1, <3>2
  <2>11. \A q \in Runs : q \in Live' =>
           q \in Live /\ (step'[q] <= Chunks => step[q] <= Chunks)
           /\ (s = <<>> \/ ~(OnScreen(ui.messages, q) \/ OnWire(wire, q)))
    BY <2>7, <2>10
  <2>12. /\ OnLink' /\ NoClear' /\ OpenRuns' \subseteq OpenRuns
         /\ Uninterrupted(ui.messages, wire', Live') /\ InTurns(ui.messages, wire', Mine', FailedRuns')
    BY <2>4, <2>6, <2>8, <2>9, <2>10, <2>11, QuietTurns
  <2> QED
    BY <2>3, <2>4, <2>6, <2>12
<1>2. CASE ~Enqueue(t)
  <2>1. stage' = [stage EXCEPT ![t] = "lost"] /\ UNCHANGED <<before, step, home, tail, wire>>
    BY <1>2 DEF AtServer
  <2>2. \A u \in Tasks : stage'[u] = IF u = t THEN "lost" ELSE stage[u]
    BY <1>0, <2>1 DEF ServerTyped
  <2>3. \A u \in Tasks : (Sent(u)' <=> Sent(u)) /\ home'[u] = home[u]
    BY <2>1, <2>2 DEF Sent
  <2>4. InTurn'
    BY <1>0, <2>1, ChainLoses
  <2>5. \A q \in Runs : (q \in Live' <=> q \in Live) /\ (Failed(q)' <=> Failed(q))
    <3>1. \A q \in Runs : /\ q \in Tasks /\ (stage'[q] = "queued" <=> stage[q] = "queued")
                          /\ stage'[q] = "done" <=> stage[q] = "done"
      BY <2>2 DEF Tasks
    <3> QED
      BY <2>1, <3>1 DEF Live, Failed
  <2>6. FailedRuns' = FailedRuns /\ Mine' = Mine
    BY <2>1, <2>5 DEF FailedRuns, Mine
  <2> DEFINE s == <<>>
  <2>7. s \in Seq(Packets) /\ Plain(s) /\ wire' = wire \o s
    BY <1>0, <2>1, InEmpty, EmptySeq, ConcatEmptySeq DEF Plain
  <2>8. \A q \in Runs : q \in Live' =>
          q \in Live /\ (step'[q] <= Chunks => step[q] <= Chunks)
          /\ (s = <<>> \/ ~(OnScreen(ui.messages, q) \/ OnWire(wire, q)))
    BY <2>1, <2>5
  <2> HIDE DEF s
  <2>9. \A q \in Runs : OnWire(wire, q) => home'[q] = home[q] /\ Sent(q)'
    BY <1>0, <2>3 DEF OnLink, Tasks
  <2>10. /\ OnLink' /\ NoClear' /\ OpenRuns' \subseteq OpenRuns
         /\ Uninterrupted(ui.messages, wire', Live') /\ InTurns(ui.messages, wire', Mine', FailedRuns')
    BY <2>4, <2>6, <2>7, <2>8, <2>9, QuietTurns
  <2> QED
    BY <2>3, <2>4, <2>6, <2>10
<1> QED
  BY <1>1, <1>2

(* A follow-up or a clear comes in, while the screen stays as it is.       *)
LEMMA ComingInAnswers ==
  ASSUME PieceInv, AnswersInv, NEW t \in Tasks, t \notin Typed, Fresh(t), AtServer(t),
         UNCHANGED <<client, link, socket, todo, ui, pending>>
  PROVE  AnswersInv'
<1>1. stage[t] = "idle" /\ Typed \subseteq Tasks \ {t}
  BY DEF Fresh, Tasks, Runs
<1>2. /\ InTurn' /\ OnLink' /\ NoClear' /\ OpenRuns' \subseteq OpenRuns /\ FailedRuns \subseteq FailedRuns'
      /\ Uninterrupted(ui.messages, wire', Live') /\ InTurns(ui.messages, wire', Mine', FailedRuns')
      /\ \A u \in Tasks \ {t} : (Sent(u)' <=> Sent(u)) /\ home'[u] = home[u]
  BY <1>1, JoinTurns
<1>3. \A u \in Typed : (Sent(u)' <=> Sent(u)) /\ home'[u] = home[u]
  BY <1>1, <1>2
<1>4. Waiting'
  BY <1>3 DEF AnswersInv, Waiting, Here
<1>5. Latest'
  BY <1>3 DEF AnswersInv, Latest, Here, AnswersOf
<1>6. Turns'
  BY <1>2 DEF Turns
<1> QED
  BY <1>2, <1>4, <1>5, <1>6, Framed

(* A follow-up of the server.                                              *)
LEMMA FollowUpAnswers == ASSUME PieceInv, AnswersInv, NEW f \in FollowUps, FollowUp(f) PROVE AnswersInv'
<1>1. /\ Fresh(f) /\ link = "up" /\ Enqueue(f) /\ UNCHANGED <<client, link, socket, todo, ui, pending>>
  BY DEF FollowUp
<1>2. AtServer(f) /\ f \in Tasks /\ f \notin Typed
  BY <1>1, StreamAssumption DEF AtServer, Tasks, Runs
<1> QED
  BY <1>1, <1>2, ComingInAnswers

(* A clear of the user, which has not run yet.                             *)
LEMMA ClearContextAnswers == ASSUME PieceInv, AnswersInv, NEW c \in Clears, ClearContext(c) PROVE AnswersInv'
<1>1. c \in Tasks /\ c \notin Typed
  BY StreamAssumption DEF Tasks, Runs
<1> QED
  BY <1>1, ComingInAnswers DEF ClearContext

(* The same screen, but for a message of the user.                         *)
LEMMA TurnShown ==
  ASSUME NEW ms, NEW ms2, NEW w, NEW live, NEW mine, NEW failed,
         Uninterrupted(ms, w, live), InTurns(ms, w, mine, failed),
         \A r \in Runs : (OnScreen(ms2, r) <=> OnScreen(ms, r)) /\ (Seen(ms2, r, Chunks) <=> Seen(ms, r, Chunks))
  PROVE  Uninterrupted(ms2, w, live) /\ InTurns(ms2, w, mine, failed)
<1>1. \A r \in Runs : \A k : Sooner(ms2, w, r, k) <=> Sooner(ms, w, r, k)
  BY DEF Sooner
<1>2. Uninterrupted(ms2, w, live)
  BY <1>1 DEF Uninterrupted
<1>3. InTurns(ms2, w, mine, failed)
  BY <1>1 DEF InTurns
<1> QED
  BY <1>2, <1>3

(* A message is sent, while nobody is in the middle of an answer.          *)
LEMMA SendAnswers ==
  ASSUME PieceInv, AnswersInv, NEW r \in Typed, stage[r] = "idle", SendMessage(r), pending' = None,
         Connected => \A q \in Typed : ~(OnScreen(ui.messages, q) /\ q \in OpenRuns),
         UNCHANGED <<client, link, socket>>
  PROVE  AnswersInv'
<1> DEFINE ms == ui.messages
<1>1. r \in Tasks /\ Waiting' /\ ui \in Screens /\ ms \in Seq(Messages)
  BY Unpacked, ScreenFacts DEF Tasks, Runs, Waiting
<1>2. AtServer(r) \/ (stage' = [stage EXCEPT ![r] = "lost"] /\ UNCHANGED <<before, step, home, tail, wire>>)
  BY DEF SendMessage
<1>3. /\ InTurn' /\ OnLink' /\ NoClear' /\ OpenRuns' \subseteq OpenRuns /\ FailedRuns \subseteq FailedRuns'
      /\ Uninterrupted(ms, wire', Live') /\ InTurns(ms, wire', Mine', FailedRuns')
      /\ \A u \in Tasks \ {r} : (Sent(u)' <=> Sent(u)) /\ home'[u] = home[u]
  BY <1>1, <1>2, JoinTurns
<1>4. Unended(ms) /\ Whole(ms, FailedRuns)
  BY DEF AnswersInv
<1>5. CASE Connected
  <2> DEFINE u == Append(ms, Message("user", <<<<r, 0>>>>, FALSE))
  <2>1. ui'.messages = u /\ ui'.streaming = TRUE
    BY <1>1, <1>5, SaidFacts DEF SendMessage
  <2>2. /\ AnswersOf(u, Len(u)) = {} /\ \A q \in Runs : OnScreen(u, q) <=> OnScreen(ms, q)
        /\ \A q \in Runs : Seen(u, q, Chunks) <=> Seen(ms, q, Chunks)
        /\ Unended(u) /\ \A failed : Whole(ms, failed) => Whole(u, failed)
    BY <1>1, <1>4, AnswersSaid
  <2> HIDE DEF u, ms
  <2>3. Uninterrupted(u, wire', Live') /\ InTurns(u, wire', Mine', FailedRuns')
    BY <1>3, <2>2, TurnShown
  <2>4. Turns'
    BY <1>3, <2>1, <2>3 DEF Turns
  <2>5. Whole(u, FailedRuns')
    <3>1. Whole(ms, FailedRuns')
      BY <1>3, <1>4 DEF Whole
    <3> QED
      BY <2>2, <3>1
  <2>6. Awaited(u, TRUE, OpenRuns')
    BY <1>3, <1>5, <2>2 DEF Awaited, Runs, ms
  <2>7. Latest'
    BY <2>1, <2>2 DEF Latest
  <2> QED
    BY <1>1, <2>1, <2>2, <2>4, <2>5, <2>6, <2>7 DEF AnswersInv
<1>6. CASE ~Connected
  <2>1. stage' = [stage EXCEPT ![r] = "lost"] /\ UNCHANGED <<ui, before, step, home, tail, wire>>
    BY <1>6 DEF SendMessage
  <2>2. \A q \in Typed : Sent(q)' => Sent(q)
    BY <2>1, Unpacked DEF Sent, ServerTyped, Tasks, Runs
  <2>3. Latest'
    BY <2>1, <2>2 DEF AnswersInv, Latest, Here
  <2>4. Turns'
    BY <1>3, <2>1 DEF Turns
  <2> QED
    BY <1>1, <1>3, <2>1, <2>3, <2>4, Framed
<1> QED
  BY <1>5, <1>6

(* The input is open: nobody is in the middle of an answer.                *)
LEMMA SubmitAnswers ==
  ASSUME PieceInv, AnswersInv, client = "web", NEW r \in Typed, Submit(r)
  PROVE  AnswersInv'
<1>1. ~Swift /\ Fresh(r) /\ CanSend /\ ~Due /\ stage[r] = "idle"
  BY DEF Submit, Swift, Fresh
<1>2. CASE ui.status = "connected"
  <2>1. SendMessage(r) /\ UNCHANGED <<client, link, socket, pending>>
    BY <1>2 DEF Submit
  <2>2. pending' = None
    BY <1>1, <1>2, <2>1 DEF Due
  <2>3. ~ui.streaming
    BY <1>1, <1>2 DEF CanSend, Offline
  <2>4. \A q \in Typed : ~(OnScreen(ui.messages, q) /\ q \in OpenRuns)
    BY <2>3 DEF AnswersInv, Awaited
  <2> QED
    BY <1>1, <2>1, <2>2, <2>4, SendAnswers
<1>3. CASE ui.status # "connected"
  BY <1>3, ConnectAnswers DEF Submit
<1> QED
  BY <1>2, <1>3

(* What is pending is the first that is sent on its link.                  *)
LEMMA SendPendingAnswers == ASSUME PieceInv, AnswersInv, SendPending PROVE AnswersInv'
<1>1. /\ pending # None /\ SendMessage(pending) /\ pending' = None
      /\ UNCHANGED <<client, link, socket>>
  BY DEF SendPending, Due
<1>2. pending \in Typed /\ stage[pending] = "idle"
  BY <1>1, Unpacked DEF Untouched
<1>3. ASSUME Connected, NEW q \in Typed, q \in OpenRuns PROVE FALSE
  <2>1. home[q] = socket /\ Sent(q)
    <3>1. CASE OnWire(wire, q)
      BY <3>1 DEF AnswersInv, Turns, OnLink, Runs
    <3>2. CASE q \in Live
      BY <3>2 DEF Live, Sent
    <3> QED
      BY <1>3, <3>1, <3>2 DEF OpenRuns
  <2>2. Here
    BY <1>3 DEF Connected, Here
  <2> QED
    BY <1>1, <2>1, <2>2 DEF AnswersInv, Waiting
<1> QED
  BY <1>1, <1>2, <1>3, SendAnswers

-----------------------------------------------------------------------------
(***************************************************************************)
(* The theorem about the answers.                                          *)
(***************************************************************************)
(* A clear that has run has run, and the client is who it is.              *)
LEMMA Lasting ==
  ASSUME PieceInv, [Next]_vars
  PROVE  client' = client /\ \A t \in Tasks : stage[t] = "done" => stage'[t] = "done"
<1>0. stage \in [Tasks -> Stages] /\ (pending # None => pending \in Typed /\ stage[pending] = "idle")
  BY Unpacked DEF ServerTyped, Untouched
<1>1. CASE UNCHANGED <<client, server>>
  BY <1>1 DEF server
<1>2. ASSUME NEW t \in Tasks, stage[t] = "idle", AtServer(t) \/ stage' = [stage EXCEPT ![t] = "lost"]
      PROVE  \A u \in Tasks : stage[u] = "done" => stage'[u] = "done"
  BY <1>0, <1>2 DEF AtServer, Enqueue
<1>3. ASSUME NEW r \in Typed, stage[r] = "idle", SendMessage(r)
      PROVE  \A u \in Tasks : stage[u] = "done" => stage'[u] = "done"
  BY <1>2, <1>3 DEF SendMessage, Tasks, Runs
<1>4. CASE Receive \/ RunTask \/ Link \/ Reconnect \/ Disconnect \/ UNCHANGED vars
  BY <1>1, <1>4 DEF Receive, RunTask, Link, Open, Refuse, Break, Close, Notice, Reconnect, Connect, Disconnect, vars
<1>5. CASE Observe
  BY <1>0, <1>1, <1>3, <1>5 DEF Observe
<1>6. CASE SendPending
  BY <1>0, <1>3, <1>6 DEF SendPending, Due
<1>7. CASE Serve
  <2>1. client' = client
    BY <1>7 DEF Serve
  <2>2. ASSUME NEW r \in Runs, EmitNext(r) \/ EndRun(r) PROVE \A u \in Tasks : stage[u] = "done" => stage'[u] = "done"
    BY <1>0, <2>2 DEF EmitNext, EndRun, Ended
  <2>3. ASSUME NEW c \in Clears, EndClear(c) PROVE \A u \in Tasks : stage[u] = "done" => stage'[u] = "done"
    BY <1>0, <2>3 DEF EndClear
  <2> QED
    BY <1>7, <2>1, <2>2, <2>3 DEF Serve
<1>8. CASE \E f \in FollowUps : FollowUp(f)
  BY <1>2, <1>8 DEF FollowUp, Fresh, AtServer, Tasks, Runs
<1>9. CASE \E c \in Clears : ClearContext(c)
  BY <1>2, <1>9 DEF ClearContext, Fresh, Tasks
<1>10. ASSUME NEW r \in Typed, Submit(r)
       PROVE  client' = client /\ \A t \in Tasks : stage[t] = "done" => stage'[t] = "done"
  <2>1. stage[r] = "idle"
    BY <1>10 DEF Submit, Fresh
  <2> QED
    BY <1>1, <1>3, <1>10, <2>1 DEF Submit, Connect
<1> QED
  BY <1>4, <1>5, <1>6, <1>7, <1>8, <1>9, <1>10 DEF Next, User

WholeInv == Unbroken => AnswersInv

(* The invariant holds when the program starts.                            *)
LEMMA AnswersStart == Init => WholeInv
<1> SUFFICES ASSUME Init PROVE AnswersInv
  BY DEF WholeInv
<1>0. PieceInv
  BY PieceStart
<1>1. /\ ui.messages = <<>> /\ wire = <<>> /\ link = "opening" /\ tail = None
      /\ \A t \in Tasks : stage[t] = "idle"
  BY DEF Init
<1>2. (\A i \in DOMAIN ui.messages : FALSE) /\ \A i \in DOMAIN wire : FALSE
  BY <1>1, InEmpty
<1>3. \A r : ~OnScreen(ui.messages, r) /\ ~OnWire(wire, r)
  BY <1>2 DEF OnScreen, Seen, OnWire
<1>4. InTurn
  <2> DEFINE f == [t \in Tasks |-> 0]
  <2>1. f \in [Tasks -> Nat] /\ Chain(f, stage, before, step, tail)
    BY <1>1 DEF Chain
  <2> QED
    BY <2>1 DEF InTurn
<1>5. Uninterrupted(ui.messages, wire, Live) /\ InTurns(ui.messages, wire, Mine, FailedRuns) /\ NoClear /\ OnLink
  BY <1>2, <1>3 DEF Uninterrupted, InTurns, NoClear, OnLink
<1>6. Waiting /\ Latest
  BY <1>1 DEF Waiting, Latest, Here
<1>7. Unended(ui.messages) /\ Whole(ui.messages, FailedRuns)
  BY <1>2 DEF Unended, Whole
<1>8. Awaited(ui.messages, ui.streaming, OpenRuns)
  BY <1>3 DEF Awaited
<1> QED
  BY <1>4, <1>5, <1>6, <1>7, <1>8 DEF AnswersInv, Turns

(* Every step keeps it.                                                    *)
LEMMA AnswersStep == PieceInv /\ WholeInv /\ [Next]_vars => WholeInv'
<1> SUFFICES ASSUME PieceInv, WholeInv, [Next]_vars, Unbroken' PROVE AnswersInv'
  BY DEF WholeInv
<1>1. client = "web" /\ \A c \in Clears : c \in Tasks /\ stage[c] # "done" /\ stage'[c] # "done"
  BY Lasting DEF Unbroken, Tasks
<1>2. AnswersInv
  BY <1>1 DEF WholeInv, Unbroken
<1>3. ~Swift /\ todo = <<>>
  BY <1>1, WebFacts
<1>4. CASE Receive
  BY <1>1, <1>2, <1>4, ReceiveAnswers
<1>5. CASE Link
  BY <1>1, <1>2, <1>5, OpenAnswers, RefuseAnswers, BreakAnswers, CloseAnswers, NoticeAnswers DEF Link
<1>6. CASE Serve
  <2>1. UNCHANGED <<client, link, socket, todo, ui, pending>>
    BY <1>6 DEF Serve
  <2>2. ASSUME NEW c \in Clears, EndClear(c) PROVE FALSE
    <3>1. stage'[c] = "done"
      BY <1>1, <2>2, Unpacked DEF EndClear, ServerTyped
    <3> QED
      BY <1>1, <3>1
  <2> QED
    BY <1>1, <1>2, <1>6, <2>1, <2>2, EmitNextAnswers, EndRunAnswers DEF Serve
<1>7. CASE User
  <2>1. CASE \E r \in Typed : Submit(r)
    BY <1>1, <1>2, <2>1, SubmitAnswers
  <2>2. CASE Reconnect
    BY <1>2, <2>2, ConnectAnswers DEF Reconnect
  <2>3. CASE \E c \in Clears : ClearContext(c)
    BY <1>2, <2>3, ClearContextAnswers
  <2> QED
    BY <1>3, <1>7, <2>1, <2>2, <2>3 DEF User, Disconnect
<1>8. CASE \E f \in FollowUps : FollowUp(f)
  BY <1>2, <1>8, FollowUpAnswers
<1>9. CASE SendPending
  BY <1>2, <1>9, SendPendingAnswers
<1>10. CASE UNCHANGED vars
  <2>1. /\ client' = client /\ link' = link /\ socket' = socket /\ wire' = wire /\ ui' = ui /\ pending' = pending
        /\ stage' = stage /\ before' = before /\ step' = step /\ home' = home /\ tail' = tail
    BY <1>10 DEF vars, server
  <2>2. Live' = Live /\ Mine' = Mine /\ FailedRuns' = FailedRuns
    BY <2>1 DEF Live, Mine, FailedRuns, Failed
  <2>3. OpenRuns' = OpenRuns
    BY <2>1, <2>2 DEF OpenRuns
  <2>4. InTurn' /\ OnLink' /\ NoClear' /\ Waiting' /\ Latest'
    BY <1>2, <2>1 DEF AnswersInv, Turns, InTurn, OnLink, NoClear, Waiting, Latest, Sent, Here
  <2> QED
    BY <1>2, <2>1, <2>2, <2>3, <2>4 DEF AnswersInv, Turns
<1> QED
  BY <1>3, <1>4, <1>5, <1>6, <1>7, <1>8, <1>9, <1>10 DEF Next, Observe, RunTask

(* It keeps the answers on messages of their own.                          *)
LEMMA AnswersShown == PieceInv /\ WholeInv => AnswersStayWhole
<1> SUFFICES ASSUME PieceInv, AnswersInv, NEW i \in DOMAIN ui.messages, NEW k \in DOMAIN ui.messages
             PROVE  IF i = k THEN \A r, s \in Answers(i) : r = s \/ Failed(r) \/ Failed(s)
                    ELSE Answers(i) \cap Answers(k) = {}
  BY DEF AnswersStayWhole, WholeInv, Unbroken
<1>1. \A l \in DOMAIN ui.messages : Answers(l) = AnswersOf(ui.messages, l)
  <2>1. \A n \in 1..Chunks : n > 0
    BY StreamAssumption
  <2> QED
    BY <2>1 DEF Answers, AnswersOf, On, Shows
<1>2. Whole(ui.messages, FailedRuns)
  BY DEF AnswersInv
<1>3. \A r \in FailedRuns : Failed(r)
  BY DEF FailedRuns
<1> QED
  BY <1>1, <1>2, <1>3 DEF Whole

(* In the web client an answer is on one message, and on one of its own.   *)
THEOREM AnswersStayOnTheirOwn == Spec => []AnswersStayWhole
<1>1. PieceInv /\ WholeInv /\ [Next]_vars => PieceInv' /\ WholeInv'
  BY PieceStep, AnswersStep
<1> QED
  BY PieceStart, AnswersStart, <1>1, AnswersShown, PTL DEF Spec
=============================================================================

------------------------- MODULE RecipeDraftProofs -------------------------
(***************************************************************************)
(* Proofs about RecipeDraft: for any number of recipes and of calls that   *)
(* overlap as they like, and whichever writes fail, a confirmed edit that  *)
(* was made alone is kept, no setter that reads behind a deletion undoes   *)
(* it, and the screen shows what is stored.                                *)
(***************************************************************************)
EXTENDS RecipeDraft, SequenceTheorems, TLAPS

-----------------------------------------------------------------------------
(***************************************************************************)
(* Sequences of calls and of requests.                                     *)
(***************************************************************************)
IsSequence(s) == \E S : s \in Seq(S)

(* The positions of a sequence.                                            *)
LEMMA SequenceFacts ==
  ASSUME NEW s, IsSequence(s)
  PROVE  Len(s) \in Nat /\ DOMAIN s = 1..Len(s)
  BY LenProperties DEF IsSequence

(* A call or a request is added. *)
LEMMA Added ==
  ASSUME NEW s, IsSequence(s), NEW e
  PROVE  /\ IsSequence(Append(s, e)) /\ Len(s) \in Nat
         /\ DOMAIN Append(s, e) = 1..(Len(s) + 1) /\ DOMAIN s = 1..Len(s)
         /\ Append(s, e)[Len(s) + 1] = e
         /\ \A i \in 1..Len(s) : Append(s, e)[i] = s[i]
<1>1. PICK S : s \in Seq(S)
  BY DEF IsSequence
<1>2. s \in Seq(S \cup {e}) /\ e \in S \cup {e}
  BY <1>1
<1>3. Append(s, e) \in Seq(S \cup {e})
  BY <1>2
<1>4. /\ Len(s) \in Nat /\ Len(Append(s, e)) = Len(s) + 1
      /\ \A i \in 1..Len(s) : Append(s, e)[i] = s[i]
      /\ Append(s, e)[Len(s) + 1] = e
  BY <1>2, AppendProperties
<1> QED
  BY <1>3, <1>4, SequenceFacts, <1>1 DEF IsSequence

(* A call changes. *)
LEMMA Changed ==
  ASSUME NEW s, IsSequence(s), NEW c \in DOMAIN s, NEW e
  PROVE  /\ IsSequence([s EXCEPT ![c] = e]) /\ DOMAIN [s EXCEPT ![c] = e] = DOMAIN s
         /\ [s EXCEPT ![c] = e][c] = e
         /\ \A i \in DOMAIN s : i # c => [s EXCEPT ![c] = e][i] = s[i]
<1>1. PICK S : s \in Seq(S)
  BY DEF IsSequence
<1>2. s \in Seq(S \cup {e}) /\ c \in 1..Len(s)
  BY <1>1
<1>3. [s EXCEPT ![c] = e] \in Seq(S \cup {e})
  BY <1>2, ExceptSeq
<1> QED
  BY <1>3 DEF IsSequence

(* The oldest request is answered, and others follow. *)
Follows(s, t, u) ==
  /\ IsSequence(u) /\ 1 \in DOMAIN s /\ Head(s) = s[1]
  /\ DOMAIN s \subseteq Nat \ {0} /\ DOMAIN u \subseteq Nat \ {0}
  /\ \A i \in DOMAIN u :
       \/ i + 1 \in DOMAIN s /\ u[i] = s[i + 1]
       \/ i - (Len(s) - 1) \in DOMAIN t /\ u[i] = t[i - (Len(s) - 1)]
  /\ \A i \in DOMAIN s : i # 1 => i - 1 \in DOMAIN u /\ u[i - 1] = s[i]
  /\ \A j \in DOMAIN t : Len(s) - 1 + j \in DOMAIN u /\ u[Len(s) - 1 + j] = t[j]
  /\ Len(s) \in Nat

(* The head of the requests is answered and what it causes is appended.    *)
LEMMA Answered ==
  ASSUME NEW s, IsSequence(s), s # <<>>, NEW t, IsSequence(t)
  PROVE  Follows(s, t, Tail(s) \o t)
<1> DEFINE u == Tail(s) \o t
           n == Len(s)
<1>1. PICK S : s \in Seq(S)
  BY DEF IsSequence
<1>2. PICK T : t \in Seq(T)
  BY DEF IsSequence
<1>3. s \in Seq(S \cup T) /\ t \in Seq(S \cup T)
  BY <1>1, <1>2
<1>4. /\ Head(s) = s[1] /\ Tail(s) \in Seq(S \cup T) /\ n \in Nat \ {0} /\ Len(Tail(s)) = n - 1
      /\ \A i \in 1..(n - 1) : Tail(s)[i] = s[i + 1]
  BY <1>3, HeadTailProperties, EmptySeq, LenProperties
<1>5. /\ u \in Seq(S \cup T) /\ Len(u) = n - 1 + Len(t) /\ Len(t) \in Nat
      /\ \A i \in 1..(n - 1 + Len(t)) : u[i] = IF i <= n - 1 THEN Tail(s)[i] ELSE t[i - (n - 1)]
  <2>1. /\ u \in Seq(S \cup T) /\ Len(u) = Len(Tail(s)) + Len(t) /\ Len(t) \in Nat
        /\ \A i \in 1..(Len(Tail(s)) + Len(t)) :
             u[i] = IF i <= Len(Tail(s)) THEN Tail(s)[i] ELSE t[i - Len(Tail(s))]
    BY <1>3, <1>4, ConcatProperties, LenProperties
  <2> QED
    BY <1>4, <2>1
<1>6. DOMAIN u = 1..(n - 1 + Len(t)) /\ DOMAIN s = 1..n /\ DOMAIN t = 1..Len(t)
  BY <1>3, <1>5, LenProperties
<1> HIDE DEF u, n
<1>7. ASSUME NEW i \in DOMAIN u
      PROVE  \/ i < n /\ i + 1 \in DOMAIN s /\ u[i] = s[i + 1]
             \/ i >= n /\ i - (n - 1) \in DOMAIN t /\ u[i] = t[i - (n - 1)]
  <2>1. CASE i < n
    <3>1. i \in 1..(n - 1) /\ i <= n - 1 /\ i + 1 \in 1..n
      BY <1>4, <1>6, <2>1
    <3> QED
      BY <1>4, <1>5, <1>6, <2>1, <3>1
  <2>2. CASE ~(i < n)
    <3> DEFINE j == i - (n - 1)
    <3>0. n \in Nat /\ Len(t) \in Nat /\ i \in Nat /\ i <= n - 1 + Len(t) /\ ~(i < n)
      BY <1>4, <1>5, <1>6, <2>2
    <3>1. ~(i <= n - 1) /\ j \in 1..Len(t) /\ i = n - 1 + j /\ i >= n
      BY <3>0
    <3>2. u[i] = t[j]
      BY <1>5, <1>6, <3>1
    <3> QED
      BY <1>6, <3>1, <3>2
  <2> QED
    BY <2>1, <2>2
<1>8. ASSUME NEW i \in DOMAIN s, i # 1 PROVE i - 1 \in DOMAIN u /\ u[i - 1] = s[i]
  <2> DEFINE h == i - 1
  <2>1. h \in 1..(n - 1) /\ h <= n - 1 /\ h + 1 = i /\ h \in 1..(n - 1 + Len(t))
    BY <1>4, <1>5, <1>6, <1>8
  <2> HIDE DEF h
  <2>2. u[h] = s[i]
    BY <1>4, <1>5, <2>1
  <2> QED
    BY <1>6, <2>1, <2>2 DEF h
<1>9. ASSUME NEW j \in DOMAIN t PROVE n - 1 + j \in DOMAIN u /\ u[n - 1 + j] = t[j]
  <2> DEFINE h == n - 1 + j
  <2>1. h \in 1..(n - 1 + Len(t)) /\ ~(h <= n - 1) /\ h - (n - 1) = j
    BY <1>4, <1>5, <1>6
  <2> HIDE DEF h
  <2>2. u[h] = t[j]
    BY <1>5, <2>1
  <2> QED
    BY <1>6, <2>1, <2>2 DEF h
<1>10. DOMAIN u \subseteq Nat \ {0}
  BY <1>4, <1>5, <1>6
<1>11. IsSequence(u)
  BY <1>5 DEF IsSequence
<1>12. IsSequence(u) /\ 1 \in DOMAIN s /\ Head(s) = s[1] /\ DOMAIN s \subseteq Nat \ {0} /\ n \in Nat
  BY <1>4, <1>6, <1>11
<1>13. Follows(s, t, u)
  BY <1>7, <1>8, <1>9, <1>10, <1>12 DEF Follows, n
<1> QED
  BY <1>13 DEF u

(* The oldest request is answered, and no other follows. *)
LEMMA Shortened ==
  ASSUME NEW s, IsSequence(s), s # <<>>
  PROVE  /\ IsSequence(Tail(s)) /\ 1 \in DOMAIN s /\ Head(s) = s[1] /\ DOMAIN s \subseteq Nat \ {0}
         /\ \A i \in DOMAIN Tail(s) : i \in Nat /\ i + 1 \in DOMAIN s /\ i + 1 # 1 /\ Tail(s)[i] = s[i + 1]
         /\ \A i \in DOMAIN s : i # 1 => i - 1 \in DOMAIN Tail(s) /\ Tail(s)[i - 1] = s[i]
<1>1. PICK S : s \in Seq(S)
  BY DEF IsSequence
<1>2. /\ Head(s) = s[1] /\ Tail(s) \in Seq(S) /\ Len(s) \in Nat \ {0} /\ Len(Tail(s)) = Len(s) - 1
      /\ \A i \in 1..(Len(s) - 1) : Tail(s)[i] = s[i + 1]
  BY <1>1, HeadTailProperties, EmptySeq, LenProperties
<1>3. DOMAIN s = 1..Len(s) /\ DOMAIN Tail(s) = 1..(Len(s) - 1)
  BY <1>1, <1>2, LenProperties
<1> DEFINE n == Len(s)
           u == Tail(s)
<1> HIDE DEF n, u
<1>4. \A i \in DOMAIN u : i \in Nat /\ i + 1 \in DOMAIN s /\ i + 1 # 1 /\ u[i] = s[i + 1]
  BY <1>2, <1>3 DEF n, u
<1>5. ASSUME NEW i \in DOMAIN s, i # 1 PROVE i - 1 \in DOMAIN u /\ u[i - 1] = s[i]
  <2> DEFINE h == i - 1
  <2>0. n \in Nat \ {0} /\ DOMAIN s = 1..n /\ DOMAIN u = 1..(n - 1)
    BY <1>2, <1>3 DEF n, u
  <2>1. h \in 1..(n - 1) /\ h + 1 = i
    BY <2>0, <1>5
  <2> HIDE DEF h
  <2>2. h \in DOMAIN u
    BY <2>0, <2>1
  <2> QED
    BY <1>4, <2>1, <2>2 DEF h
<1>6. DOMAIN s \subseteq Nat \ {0} /\ 1 \in DOMAIN s
  BY <1>2, <1>3
<1>7. IsSequence(u)
  BY <1>2 DEF IsSequence, u
<1> QED
  BY <1>2, <1>4, <1>5, <1>6, <1>7 DEF u

-----------------------------------------------------------------------------
(***************************************************************************)
(* What calls and requests look like, and how they belong together.        *)
(***************************************************************************)
Removals == {"delete", "discard"}

WillRefuse(k) == k.tool = "edit" /\ Refused(k.field, k.edit)

IsCall(k) ==
  /\ k = [tool |-> k.tool, recipe |-> k.recipe, state |-> k.state, seen |-> k.seen,
          field |-> k.field, edit |-> k.edit, value |-> k.value, behind |-> k.behind, reading |-> k.reading]
  /\ k.recipe \in Recipes /\ k.state \in {"running", "ok", "failed", "refused"}
  /\ "photo" \notin DOMAIN k.seen
  /\ \/ k.tool = "create" /\ k.field = "name"
     \/ k.tool = "set" /\ k.field \in Plain
     \/ k.tool = "edit" /\ k.field \in Lists
     \/ k.tool = "photo" /\ (k.field = "photo" \/ (k.field = None /\ k.state = "refused"))
     \/ k.tool \in {"save", "load", "click"} /\ k.field = None
     \/ k.tool \in Removals /\ k.field = None /\ k.state \in {"running", "ok", "failed"}
  /\ k.state = "refused" => k.field = None \/ WillRefuse(k)

(* The requests a tool makes, and the one it begins with. *)
Makes(kind, tool) ==
  \/ kind = "get" /\ tool \in {"set", "edit", "save", "photo"}
  \/ kind = "put" /\ tool \in {"create", "set", "edit", "save", "photo"}
  \/ kind = "delete" /\ tool \in Removals
MakesFirst(kind, tool) == Makes(kind, tool) /\ (kind = "put" => tool = "create")

Runs(cs, c) == c \in DOMAIN cs /\ cs[c].state = "running"
Fits(cs, q) ==
  IF q.kind = "load" THEN q.call = 0 ELSE Runs(cs, q.call) /\ Makes(q.kind, cs[q.call].tool)
IsFirst(cs, q) == q.kind # "load" /\ MakesFirst(q.kind, cs[q.call].tool)

(* A call that runs has one request.  The first requests of the calls are  *)
(* in the order of the calls.                                              *)
Belong(cs, rs) ==
  /\ \A i \in DOMAIN rs : Fits(cs, rs[i])
  /\ \A c \in DOMAIN cs : Runs(cs, c) => \E i \in DOMAIN rs : rs[i].call = c
  /\ \A i, j \in DOMAIN rs : rs[i].call = rs[j].call /\ rs[i].call # 0 => i = j
  /\ \A i, j \in DOMAIN rs :
       i < j /\ IsFirst(cs, rs[i]) /\ IsFirst(cs, rs[j]) => rs[i].call < rs[j].call

(* A call that starts is the last one; it makes one request or none. *)
LEMMA StartBelongs ==
  ASSUME NEW cs, NEW rs, IsSequence(cs), IsSequence(rs), Belong(cs, rs),
         NEW k, k.state = "running", NEW q, q.call = Len(cs) + 1, q.kind # "load",
         MakesFirst(q.kind, k.tool)
  PROVE  Belong(Append(cs, k), Append(rs, q))
<1> DEFINE n == Len(cs)
           m == Len(rs)
           ds == Append(cs, k)
           us == Append(rs, q)
<1>1. /\ n \in Nat /\ DOMAIN ds = 1..(n + 1) /\ DOMAIN cs = 1..n
      /\ ds[n + 1] = k /\ \A i \in DOMAIN cs : ds[i] = cs[i]
  BY Added
<1>2. /\ m \in Nat /\ DOMAIN us = 1..(m + 1) /\ DOMAIN rs = 1..m
      /\ us[m + 1] = q /\ \A i \in DOMAIN rs : us[i] = rs[i]
  BY Added
<1>3. q.call = n + 1
  OBVIOUS
<1> HIDE DEF n, m, ds, us
<1>4. /\ DOMAIN ds = DOMAIN cs \cup {n + 1} /\ n + 1 \notin DOMAIN cs /\ n + 1 # 0
      /\ \A c \in DOMAIN cs : c # 0 /\ c \in Nat /\ c < n + 1
  BY <1>1
<1>5. /\ DOMAIN us = DOMAIN rs \cup {m + 1} /\ m + 1 \notin DOMAIN rs
      /\ \A i \in DOMAIN rs : i \in Nat /\ i < m + 1
  BY <1>2
<1>6. ASSUME NEW i \in DOMAIN rs
      PROVE  /\ us[i] = rs[i] /\ Fits(ds, rs[i]) /\ rs[i].call # n + 1
             /\ IsFirst(ds, rs[i]) => IsFirst(cs, rs[i]) /\ rs[i].call < n + 1
  <2>1. us[i] = rs[i]
    BY <1>2
  <2>2. Fits(cs, rs[i])
    BY DEF Belong
  <2>3. CASE rs[i].kind = "load"
    BY <2>1, <2>2, <2>3, <1>4 DEF Fits, IsFirst
  <2>4. CASE rs[i].kind # "load"
    <3>1. rs[i].call \in DOMAIN cs /\ Runs(cs, rs[i].call) /\ Makes(rs[i].kind, cs[rs[i].call].tool)
      BY <2>2, <2>4 DEF Fits, Runs
    <3>2. rs[i].call \in DOMAIN ds /\ ds[rs[i].call] = cs[rs[i].call] /\ rs[i].call # n + 1
          /\ rs[i].call < n + 1
      BY <3>1, <1>1, <1>4
    <3> QED
      BY <2>1, <2>4, <3>1, <3>2 DEF Fits, Runs, IsFirst
  <2> QED
    BY <2>3, <2>4
<1>7. Fits(ds, q)
  BY <1>1, <1>3, <1>4 DEF Fits, Runs, MakesFirst
<1>8. \A i \in DOMAIN us : Fits(ds, us[i])
  BY <1>2, <1>5, <1>6, <1>7
<1>9. ASSUME NEW c \in DOMAIN ds, Runs(ds, c) PROVE \E i \in DOMAIN us : us[i].call = c
  <2>1. CASE c = n + 1
    BY <1>2, <1>3, <1>5, <2>1
  <2>2. CASE c \in DOMAIN cs
    <3>1. Runs(cs, c)
      BY <1>1, <1>9, <2>2 DEF Runs
    <3>2. PICK i \in DOMAIN rs : rs[i].call = c
      BY <2>2, <3>1 DEF Belong
    <3> QED
      BY <1>5, <1>6, <3>2
  <2> QED
    BY <1>4, <2>1, <2>2
<1>10. ASSUME NEW i \in DOMAIN us, NEW j \in DOMAIN us, us[i].call = us[j].call, us[i].call # 0
       PROVE  i = j
  <2>1. CASE i \in DOMAIN rs /\ j \in DOMAIN rs
    BY <1>6, <1>10, <2>1 DEF Belong
  <2>2. CASE i = m + 1 \/ j = m + 1
    BY <1>2, <1>3, <1>5, <1>6, <1>10, <2>2
  <2> QED
    BY <1>5, <2>1, <2>2
<1>11. ASSUME NEW i \in DOMAIN us, NEW j \in DOMAIN us, i < j, IsFirst(ds, us[i]), IsFirst(ds, us[j])
       PROVE  us[i].call < us[j].call
  <2>1. i \in DOMAIN rs
    BY <1>2, <1>5, <1>11
  <2>2. CASE j \in DOMAIN rs
    <3>1. us[i] = rs[i] /\ us[j] = rs[j] /\ IsFirst(cs, rs[i]) /\ IsFirst(cs, rs[j])
      BY <1>6, <1>11, <2>1, <2>2
    <3> QED
      BY <1>11, <2>1, <2>2, <3>1 DEF Belong
  <2>3. CASE j = m + 1
    BY <1>2, <1>3, <1>6, <1>11, <2>1, <2>3
  <2> QED
    BY <1>5, <2>2, <2>3
<1> QED
  BY <1>8, <1>9, <1>10, <1>11 DEF Belong, ds, us

(* A call that makes no request leaves the others as they are. *)
LEMMA IdleBelongs ==
  ASSUME NEW cs, NEW rs, IsSequence(cs), Belong(cs, rs), NEW k, k.state # "running"
  PROVE  Belong(Append(cs, k), rs)
<1> DEFINE n == Len(cs)
           ds == Append(cs, k)
<1>1. /\ n \in Nat /\ DOMAIN ds = 1..(n + 1) /\ DOMAIN cs = 1..n
      /\ ds[n + 1] = k /\ \A i \in DOMAIN cs : ds[i] = cs[i]
  BY Added
<1> HIDE DEF n, ds
<1>2. \A c : Runs(ds, c) <=> Runs(cs, c)
  BY <1>1 DEF Runs
<1>3. \A i \in DOMAIN rs : Fits(ds, rs[i]) /\ (IsFirst(ds, rs[i]) => IsFirst(cs, rs[i]))
  <2> SUFFICES ASSUME NEW i \in DOMAIN rs
               PROVE  Fits(ds, rs[i]) /\ (IsFirst(ds, rs[i]) => IsFirst(cs, rs[i]))
    OBVIOUS
  <2>1. Fits(cs, rs[i])
    BY DEF Belong
  <2>2. rs[i].kind # "load" => ds[rs[i].call] = cs[rs[i].call]
    BY <1>1, <2>1 DEF Fits, Runs
  <2> QED
    BY <1>2, <2>1, <2>2 DEF Fits, IsFirst
<1>4. DOMAIN cs \subseteq DOMAIN ds
  BY <1>1
<1>5. \A c \in DOMAIN ds : Runs(ds, c) => \E i \in DOMAIN rs : rs[i].call = c
  BY <1>2 DEF Belong, Runs
<1> QED
  BY <1>3, <1>5 DEF Belong, ds

(* The oldest request is answered: its call c goes on with a put or ends   *)
(* and makes the screen reload.                                            *)
LEMMA AnswerBelongs ==
  ASSUME NEW cs, NEW rs, IsSequence(cs), IsSequence(rs), Belong(cs, rs), rs # <<>>,
         NEW c \in DOMAIN cs, c = Head(rs).call, c # 0, NEW k, k.tool = cs[c].tool,
         NEW t, IsSequence(t),
         \/ /\ k.state = "running" /\ DOMAIN t = {1}
            /\ t[1].call = c /\ t[1].kind = "put" /\ k.tool \in {"set", "edit", "save", "photo"}
         \/ k.state # "running" /\ \A j \in DOMAIN t : t[j].kind = "load" /\ t[j].call = 0
  PROVE  Belong([cs EXCEPT ![c] = k], Tail(rs) \o t)
<1> DEFINE ds == [cs EXCEPT ![c] = k]
           us == Tail(rs) \o t
<1>1. /\ DOMAIN ds = DOMAIN cs /\ ds[c] = k /\ \A d \in DOMAIN cs : d # c => ds[d] = cs[d]
      /\ \A d \in DOMAIN cs : ds[d].tool = cs[d].tool
  BY Changed
<1>2. Follows(rs, t, us)
  BY Answered
<1> HIDE DEF ds, us
<1>3. 1 \in DOMAIN rs /\ rs[1].call = c
  BY <1>2 DEF Follows
(* The requests that stay are of other calls, the others of c or of none. *)
<1>4. ASSUME NEW i \in DOMAIN rs, i # 1
      PROVE  /\ rs[i].call # c /\ Fits(ds, rs[i])
             /\ IsFirst(ds, rs[i]) => IsFirst(cs, rs[i])
  <2>1. Fits(cs, rs[i]) /\ rs[i].call # c
    BY <1>3, <1>4 DEF Belong
  <2> QED
    BY <1>1, <2>1 DEF Fits, IsFirst, Runs
<1>5. ASSUME NEW j \in DOMAIN t
      PROVE  /\ Fits(ds, t[j]) /\ ~IsFirst(ds, t[j])
             /\ t[j].call # 0 => t[j].call = c /\ j = 1
  BY <1>1 DEF Fits, IsFirst, MakesFirst, Makes, Runs
<1>6. ASSUME NEW i \in DOMAIN us
      PROVE  /\ i \in Nat
             /\ \/ i + 1 \in DOMAIN rs /\ us[i] = rs[i + 1] /\ us[i].call # c
                \/ /\ i - (Len(rs) - 1) \in DOMAIN t /\ us[i] = t[i - (Len(rs) - 1)]
                   /\ us[i].call # 0 => us[i].call = c /\ i = Len(rs)
             /\ Fits(ds, us[i])
             /\ IsFirst(ds, us[i]) => i + 1 \in DOMAIN rs /\ us[i] = rs[i + 1] /\ IsFirst(cs, us[i])
  <2>1. i \in Nat \ {0} /\ Len(rs) \in Nat
    BY <1>2 DEF Follows
  <2>2. CASE i + 1 \in DOMAIN rs /\ us[i] = rs[i + 1]
    <3>1. i + 1 # 1
      BY <2>1
    <3> QED
      BY <1>4, <2>1, <2>2, <3>1
  <2>3. CASE i - (Len(rs) - 1) \in DOMAIN t /\ us[i] = t[i - (Len(rs) - 1)]
    BY <1>5, <2>1, <2>3
  <2> QED
    BY <1>2, <2>2, <2>3 DEF Follows
<1>7. ASSUME NEW d \in DOMAIN ds, Runs(ds, d) PROVE \E i \in DOMAIN us : us[i].call = d
  <2>1. CASE d = c
    <3>1. 1 \in DOMAIN t /\ t[1].call = c
      BY <1>1, <1>7, <2>1 DEF Runs
    <3> QED
      BY <1>2, <2>1, <3>1 DEF Follows
  <2>2. CASE d # c
    <3>1. PICK i \in DOMAIN rs : rs[i].call = d
      BY <1>1, <1>7, <2>2 DEF Belong, Runs
    <3>2. i # 1
      BY <1>3, <2>2, <3>1
    <3> QED
      BY <1>2, <3>1, <3>2 DEF Follows
  <2> QED
    BY <2>1, <2>2
<1>8. ASSUME NEW i \in DOMAIN us, NEW j \in DOMAIN us, us[i].call = us[j].call, us[i].call # 0
      PROVE  i = j
  <2>1. CASE us[i].call = c
    BY <1>6, <1>8, <2>1
  <2>2. CASE us[i].call # c
    <3>1. /\ i + 1 \in DOMAIN rs /\ us[i] = rs[i + 1] /\ i \in Nat
          /\ j + 1 \in DOMAIN rs /\ us[j] = rs[j + 1] /\ j \in Nat
      BY <1>6, <1>8, <2>2
    <3>2. i + 1 = j + 1
      BY <1>8, <3>1 DEF Belong
    <3> QED
      BY <3>1, <3>2
  <2> QED
    BY <2>1, <2>2
<1>9. ASSUME NEW i \in DOMAIN us, NEW j \in DOMAIN us, i < j, IsFirst(ds, us[i]), IsFirst(ds, us[j])
      PROVE  us[i].call < us[j].call
  <2>1. /\ i \in Nat /\ i + 1 \in DOMAIN rs /\ us[i] = rs[i + 1] /\ IsFirst(cs, us[i])
        /\ j \in Nat /\ j + 1 \in DOMAIN rs /\ us[j] = rs[j + 1] /\ IsFirst(cs, us[j])
    BY <1>6, <1>9
  <2>2. i + 1 < j + 1
    BY <1>9, <2>1
  <2> QED
    BY <2>1, <2>2 DEF Belong
<1> QED
  BY <1>6, <1>7, <1>8, <1>9 DEF Belong, ds, us

(* A reload is answered. *)
LEMMA ReloadBelongs ==
  ASSUME NEW cs, NEW rs, IsSequence(cs), IsSequence(rs), Belong(cs, rs), rs # <<>>,
         Head(rs).kind = "load"
  PROVE  Belong(cs, Tail(rs))
<1> DEFINE us == Tail(rs)
<1>1. /\ 1 \in DOMAIN rs /\ rs[1].kind = "load" /\ DOMAIN rs \subseteq Nat \ {0}
      /\ \A i \in DOMAIN us : i \in Nat /\ i + 1 \in DOMAIN rs /\ i + 1 # 1 /\ us[i] = rs[i + 1]
      /\ \A i \in DOMAIN rs : i # 1 => i - 1 \in DOMAIN us /\ us[i - 1] = rs[i]
  BY Shortened
<1>2. 0 \notin DOMAIN cs
  BY SequenceFacts
<1> HIDE DEF us
<1>3. rs[1].call = 0
  BY <1>1 DEF Belong, Fits
<1>4. \A i \in DOMAIN us : Fits(cs, us[i])
  BY <1>1 DEF Belong
<1>5. ASSUME NEW c \in DOMAIN cs, Runs(cs, c) PROVE \E i \in DOMAIN us : us[i].call = c
  <2>1. PICK i \in DOMAIN rs : rs[i].call = c
    BY <1>5 DEF Belong
  <2>2. i # 1
    BY <1>2, <1>3, <2>1
  <2> QED
    BY <1>1, <2>1, <2>2
<1>6. ASSUME NEW i \in DOMAIN us, NEW j \in DOMAIN us, us[i].call = us[j].call, us[i].call # 0
      PROVE  i = j
  <2>1. i + 1 = j + 1 /\ i \in Nat /\ j \in Nat
    BY <1>1, <1>6 DEF Belong
  <2> QED
    BY <2>1
<1>7. ASSUME NEW i \in DOMAIN us, NEW j \in DOMAIN us, i < j, IsFirst(cs, us[i]), IsFirst(cs, us[j])
      PROVE  us[i].call < us[j].call
  <2>1. i + 1 < j + 1
    BY <1>1, <1>7
  <2> QED
    BY <1>1, <1>7, <2>1 DEF Belong
<1> QED
  BY <1>4, <1>5, <1>6, <1>7 DEF Belong, us

(* The spread of objects, and an object of one field. *)
LEMMA OverFacts ==
  ASSUME NEW new, NEW old
  PROVE  /\ DOMAIN Over(new, old) = DOMAIN new \cup DOMAIN old
         /\ \A f \in DOMAIN new \cup DOMAIN old :
              Over(new, old)[f] = IF f \in DOMAIN new THEN new[f] ELSE old[f]
  BY DEF Over

(* An object of one field.                                                 *)
LEMMA FieldFacts ==
  ASSUME NEW f, NEW x
  PROVE  DOMAIN Field(f, x) = {f} /\ Field(f, x)[f] = x
  BY DEF Field

(* The blank recipe has every field but the photo; nothing has none.       *)
LEMMA BlankFacts ==
  ASSUME RecipeAssumption
  PROVE  /\ DOMAIN Blank = Plain \cup Lists /\ "name" \in DOMAIN Blank /\ "photo" \notin DOMAIN Blank
         /\ DOMAIN Nothing = {} /\ Blank # Nothing
<1>1. DOMAIN Blank = Plain \cup Lists
  BY DEF Blank
<1>2. "name" \in Plain /\ "photo" \notin Plain /\ "photo" \notin Lists
  BY DEF RecipeAssumption
<1>3. DOMAIN Nothing = {}
  BY DEF Nothing
<1> QED
  BY <1>1, <1>2, <1>3

-----------------------------------------------------------------------------
(***************************************************************************)
(* The state, and its steps: a call begins, a request is answered.         *)
(***************************************************************************)
(* Of two calls on a recipe that run, the later knows of the earlier.      *)
Beside(cs) ==
  \A c, d : Runs(cs, c) /\ Runs(cs, d) /\ c < d /\ cs[c].recipe = cs[d].recipe
              => c \in cs[d].behind

WellFormed ==
  /\ IsSequence(calls) /\ IsSequence(requests)
  /\ Belong(calls, requests) /\ Beside(calls)
  /\ \A c \in DOMAIN calls : IsCall(calls[c])
  /\ drafts = [r \in Recipes |-> drafts[r]] /\ stored = [r \in Recipes |-> stored[r]]
  /\ \A r \in Recipes : "photo" \notin DOMAIN drafts[r]
  /\ \A r \in Recipes : stored[r] # Nothing => "name" \in DOMAIN stored[r]
  /\ \A i \in DOMAIN requests : requests[i].kind = "put" => "name" \in DOMAIN requests[i].value

Shows(v, f, x) == f \in DOMAIN v /\ v[f] = x

Begins(k, q) ==
  /\ IsCall(k) /\ k.behind = Running \cap On(k.recipe) /\ k.reading = Reading \cap On(k.recipe)
  /\ calls' = Append(calls, k) /\ UNCHANGED <<stored, list>>
  /\ \/ k.state # "running" /\ requests' = requests
     \/ /\ k.state = "running" /\ requests' = Append(requests, q)
        /\ q.call = Len(calls) + 1 /\ q.kind # "load" /\ MakesFirst(q.kind, k.tool)
        /\ q.kind = "put" => q.value = k.seen /\ "name" \in DOMAIN q.value
  /\ drafts' = [drafts EXCEPT ![k.recipe] = IF k.tool \in {"create", "set"} THEN k.seen ELSE @]
  /\ k.tool = "create" => On(k.recipe) = {} /\ Shows(k.seen, k.field, k.value)
  /\ k.tool = "set" => k.seen = Over(Field(k.field, k.value), drafts[k.recipe])
  /\ k.tool \in {"edit", "save"} => k.seen = drafts[k.recipe]
  /\ selected' = selected \/ k.tool \in {"load", "click"}
  /\ k.state = "ok" => k.tool \in {"load", "click"}
  /\ k.tool = "create" => k.seen = [Blank EXCEPT !["name"] = Id]
  /\ k.tool \in {"create", "set"} => k.value = Id
  /\ k.tool = "edit" => k.edit \in Edits
  /\ k.tool = "photo" => k.value \in {staged, None} /\ (k.field = "photo" => k.value = staged)
  /\ k.tool \notin {"create", "set", "edit", "save"} => k.seen = Nothing

(* Every handler begins a call. *)
LEMMA HandlersBegin ==
  ASSUME WellFormed, Handlers
  PROVE  \E k, q : Begins(k, q)
<1> DEFINE Req(kind, v) == [kind |-> kind, call |-> Len(calls) + 1, value |-> v]
<1> PICK r \in Recipes :
      \/ Create(r) \/ Save(r) \/ SetPhoto(r)
      \/ \E f \in Plain : Set(r, f)
      \/ \E f \in Lists, e \in Edits : Edit(r, f, e)
      \/ \E tool \in {"delete", "discard"} : Delete(r, tool)
      \/ \E tool \in {"load", "click"} : Select(r, tool)
  BY DEF Handlers
<1>0. /\ "photo" \notin DOMAIN Nothing /\ "photo" \notin DOMAIN drafts[r]
      /\ drafts = [drafts EXCEPT ![r] = @] /\ DOMAIN drafts = Recipes
  <2>1. drafts = [s \in Recipes |-> drafts[s]] /\ "photo" \notin DOMAIN drafts[r]
    BY DEF WellFormed
  <2>2. "photo" \notin DOMAIN Nothing
    BY BlankFacts, RecipeAssumption
  <2> QED
    BY <2>1, <2>2
<1>1. CASE Create(r)
  <2> DEFINE draft == [Blank EXCEPT !["name"] = Id]
             k == Call("create", r, "running", draft, "name", None, Id)
  <2>1. /\ DOMAIN draft = Plain \cup Lists /\ draft["name"] = Id
        /\ "name" \in DOMAIN draft /\ "photo" \notin DOMAIN draft
    BY BlankFacts, RecipeAssumption
  <2>2. /\ calls' = Append(calls, k) /\ requests' = Append(requests, Req("put", draft))
        /\ drafts' = [drafts EXCEPT ![r] = draft] /\ On(r) = {}
        /\ UNCHANGED <<stored, list, selected>>
    BY <1>1 DEF Create, Ask, Id, screen
  <2>5. draft = [Blank EXCEPT !["name"] = Id]
    OBVIOUS
  <2> HIDE DEF draft
  <2>3. IsCall(k)
    BY <2>1 DEF IsCall, Call
  <2>4. Begins(k, Req("put", draft))
    BY <2>1, <2>2, <2>3, <2>5 DEF Begins, Call, MakesFirst, Makes, Shows, Id
  <2> QED
    BY <2>4
<1>2. ASSUME NEW f \in Plain, Set(r, f) PROVE \E k, q : Begins(k, q)
  <2> DEFINE draft == Over(Field(f, Id), drafts[r])
             k == Call("set", r, "running", draft, f, None, Id)
  <2>1. "photo" \notin DOMAIN draft
    <3>1. f # "photo"
      BY RecipeAssumption DEF RecipeAssumption
    <3>2. DOMAIN draft = {f} \cup DOMAIN drafts[r]
      BY DEF Over, Field
    <3> QED
      BY <1>0, <3>1, <3>2
  <2>2. /\ calls' = Append(calls, k) /\ requests' = Append(requests, Req("get", Nothing))
        /\ drafts' = [drafts EXCEPT ![r] = draft] /\ UNCHANGED <<stored, list, selected>>
    BY <1>2 DEF Set, Ask, Id, screen
  <2>3. draft = Over(Field(f, Id), drafts[r])
    OBVIOUS
  <2> HIDE DEF draft
  <2>4. IsCall(k)
    BY <2>1 DEF IsCall, Call
  <2>5. Begins(k, Req("get", Nothing))
    BY <2>2, <2>3, <2>4 DEF Begins, Call, MakesFirst, Makes, Id
  <2> QED
    BY <2>5
<1>3. ASSUME NEW f \in Lists, NEW e \in Edits, Edit(r, f, e) PROVE \E k, q : Begins(k, q)
  <2> DEFINE k == Call("edit", r, "running", drafts[r], f, e, None)
  <2>1. IsCall(k)
    BY <1>0 DEF IsCall, Call
  <2>2. Begins(k, Req("get", Nothing))
    BY <1>0, <1>3, <2>1 DEF Edit, Ask, Id, screen, Begins, Call, MakesFirst, Makes
  <2> QED
    BY <2>2
<1>4. CASE Save(r)
  <2> DEFINE k == Call("save", r, "running", drafts[r], None, None, None)
  <2>1. IsCall(k)
    BY <1>0 DEF IsCall, Call
  <2>2. Begins(k, Req("get", Nothing))
    BY <1>0, <1>4, <2>1 DEF Save, Ask, Id, screen, Begins, Call, MakesFirst, Makes
  <2> QED
    BY <2>2
<1>5. ASSUME NEW tool \in {"delete", "discard"}, Delete(r, tool) PROVE \E k, q : Begins(k, q)
  <2> DEFINE k == Call(tool, r, "running", Nothing, None, None, None)
  <2>1. IsCall(k)
    BY <1>0 DEF IsCall, Call, Removals
  <2>2. Begins(k, Req("delete", Nothing))
    BY <1>0, <1>5, <2>1 DEF Delete, Ask, Id, screen, Begins, Call, MakesFirst, Makes, Removals
  <2> QED
    BY <2>2
<1>6. CASE SetPhoto(r)
  <2> DEFINE k == Call("photo", r, "running", Nothing, "photo", None, staged)
             l == Call("photo", r, "refused", Nothing, None, None, None)
  <2>1. IsCall(k) /\ IsCall(l)
    BY <1>0 DEF IsCall, Call
  <2>2. CASE staged = 0
    <3>1. Begins(l, 0)
      BY <1>0, <1>6, <2>1, <2>2, RecipeAssumption DEF SetPhoto, screen, Begins, Call, RecipeAssumption
    <3> QED
      BY <3>1
  <2>3. CASE staged # 0
    <3>1. Begins(k, Req("get", Nothing))
      BY <1>0, <1>6, <2>1, <2>3 DEF SetPhoto, Ask, Id, screen, Begins, Call, MakesFirst, Makes
    <3> QED
      BY <3>1
  <2> QED
    BY <2>2, <2>3
<1>7. ASSUME NEW tool \in {"load", "click"}, Select(r, tool) PROVE \E k, q : Begins(k, q)
  <2> DEFINE k == Call(tool, r, "ok", Nothing, None, None, None)
  <2>1. IsCall(k)
    BY <1>0 DEF IsCall, Call
  <2>2. Begins(k, 0)
    BY <1>0, <1>7, <2>1 DEF Select, screen, Begins, Call
  <2> QED
    BY <2>2
<1> QED
  BY <1>1, <1>2, <1>3, <1>4, <1>5, <1>6, <1>7

(* A call that begins. *)
LEMMA BeginsKeeps ==
  ASSUME WellFormed, NEW k, NEW q, Begins(k, q)
  PROVE  WellFormed'
<1> DEFINE n == Len(calls)
           m == Len(requests)
<1>1. /\ IsSequence(calls') /\ n \in Nat /\ DOMAIN calls' = 1..(n + 1) /\ DOMAIN calls = 1..n
      /\ calls'[n + 1] = k /\ \A i \in DOMAIN calls : calls'[i] = calls[i]
  BY Added DEF WellFormed, Begins
<1> HIDE DEF n
<1>2. \A c \in DOMAIN calls' : IsCall(calls'[c])
  BY <1>1 DEF WellFormed, Begins
<1>3. IsSequence(requests') /\ Belong(calls', requests')
  <2>1. CASE k.state # "running"
    BY <2>1, IdleBelongs DEF WellFormed, Begins
  <2>2. CASE k.state = "running"
    <3>1. /\ calls' = Append(calls, k) /\ requests' = Append(requests, q)
          /\ q.call = Len(calls) + 1 /\ q.kind # "load" /\ MakesFirst(q.kind, k.tool)
      BY <2>2 DEF Begins
    <3>2. IsSequence(calls) /\ IsSequence(requests) /\ Belong(calls, requests)
      BY DEF WellFormed
    <3>3. Belong(calls', requests')
      BY <2>2, <3>1, <3>2, StartBelongs
    <3>4. IsSequence(requests')
      BY <3>1, <3>2, Added
    <3> QED
      BY <3>3, <3>4
  <2> QED
    BY <2>1, <2>2
<1>4. Beside(calls)'
  <2> SUFFICES ASSUME NEW c, NEW d, Runs(calls', c), Runs(calls', d), c < d,
                      calls'[c].recipe = calls'[d].recipe
               PROVE  c \in calls'[d].behind
    BY DEF Beside
  <2>1. c \in DOMAIN calls /\ calls'[c] = calls[c]
    BY <1>1 DEF Runs
  <2>2. CASE d \in DOMAIN calls
    BY <1>1, <2>1, <2>2 DEF WellFormed, Beside, Runs
  <2>3. CASE d = n + 1
    BY <1>1, <2>1, <2>3 DEF Begins, Running, On, Runs
  <2> QED
    BY <1>1, <2>2, <2>3 DEF Runs
<1>5. /\ drafts' = [r \in Recipes |-> drafts'[r]] /\ stored' = [r \in Recipes |-> stored'[r]]
      /\ \A r \in Recipes : "photo" \notin DOMAIN drafts'[r]
      /\ \A r \in Recipes : stored'[r] # Nothing => "name" \in DOMAIN stored'[r]
  BY DEF WellFormed, Begins, IsCall
<1>6. ASSUME NEW i \in DOMAIN requests', requests'[i].kind = "put"
      PROVE  "name" \in DOMAIN requests'[i].value
  <2>1. CASE requests' = requests
    BY <1>6, <2>1 DEF WellFormed
  <2>2. CASE requests' = Append(requests, q)
    <3>1. /\ m \in Nat /\ DOMAIN requests' = 1..(m + 1) /\ DOMAIN requests = 1..m
          /\ requests'[m + 1] = q /\ \A j \in DOMAIN requests : requests'[j] = requests[j]
      BY <2>2, Added DEF WellFormed
    <3> HIDE DEF m
    <3>2. CASE i \in DOMAIN requests
      BY <1>6, <3>1, <3>2 DEF WellFormed
    <3>3. CASE i = m + 1
      <4>1. requests'[i] = q /\ q.kind = "put"
        BY <1>6, <3>1, <3>3
      <4>2. requests' # requests
        BY <3>1
      <4> QED
        BY <4>1, <4>2 DEF Begins
    <3> QED
      BY <3>1, <3>2, <3>3
  <2> QED
    BY <2>1, <2>2 DEF Begins
<1> QED
  BY <1>1, <1>2, <1>3, <1>4, <1>5, <1>6 DEF WellFormed

(* A call keeps all but its state and its value.                           *)
Becomes(k, l) ==
  /\ IsCall(l) /\ l.tool = k.tool /\ l.recipe = k.recipe /\ l.seen = k.seen
  /\ l.field = k.field /\ l.edit = k.edit /\ l.behind = k.behind /\ l.reading = k.reading

(* An answer touches the draft and the stored recipe of its call only.     *)
Touches(r) ==
  /\ drafts' = [drafts EXCEPT ![r] = drafts'[r]] /\ "photo" \notin DOMAIN drafts'[r]
  /\ stored' = [stored EXCEPT ![r] = stored'[r]]
  /\ stored'[r] # Nothing => "name" \in DOMAIN stored'[r]

(* The oldest request is answered to the call c, which becomes k, and the  *)
(* requests t follow.                                                      *)
Goes(c, k, t) ==
  /\ requests # <<>> /\ c = Head(requests).call /\ Head(requests).kind # "load"
  /\ calls' = [calls EXCEPT ![c] = k] /\ Becomes(calls[c], k)
  /\ requests' = Tail(requests) \o t /\ IsSequence(t)
  /\ \/ /\ k.state = "running" /\ DOMAIN t = {1} /\ t[1].call = c /\ t[1].kind = "put"
        /\ k.tool \in {"set", "edit", "save", "photo"} /\ "name" \in DOMAIN t[1].value
     \/ k.state # "running" /\ \A j \in DOMAIN t : t[j].kind = "load" /\ t[j].call = 0
  /\ Touches(k.recipe)
  /\ stored' = stored \/ \E j \in DOMAIN t : t[j].kind = "load"
  /\ list' = list

Base(old) == IF old = Nothing THEN Blank ELSE old

(* What its read makes of a call: what it has set aside, and what it goes  *)
(* on to write.                                                            *)
SetReads(k, t) ==
  /\ k.tool = "set" /\ drafts' = drafts
  /\ IF stored[k.recipe] = Nothing THEN k.state = "ok"
     ELSE k.state = "running" /\ t[1].value = Over(k.seen, stored[k.recipe])
EditReads(c, k, t) ==
  /\ k.tool = "edit" /\ ~WillRefuse(k)
  /\ k.value = Edited(k.field, k.edit, Over(Over(k.seen, stored[k.recipe]), Blank)[k.field], c)
  /\ drafts'[k.recipe] = Over(Field(k.field, k.value), k.seen)
  /\ IF stored[k.recipe] = Nothing THEN k.state = "ok"
     ELSE k.state = "running" /\ t[1].value = Over(drafts'[k.recipe], stored[k.recipe])
SaveReads(k, t) ==
  /\ k.tool = "save" /\ drafts' = drafts
  /\ k.state = "running" /\ t[1].value = Over(k.seen, Base(stored[k.recipe]))
PhotoReads(k, t) ==
  /\ k.tool = "photo" /\ k.field = "photo" /\ drafts' = drafts /\ k.state = "running"
  /\ t[1].value = Over(Field("photo", k.value), Over(drafts[k.recipe], Base(stored[k.recipe])))

Reads(c, k, t) ==
  /\ Goes(c, k, t) /\ Head(requests).kind = "get"
  /\ stored' = stored /\ selected' = selected
  /\ \/ k.value = calls[c].value /\ (SetReads(k, t) \/ SaveReads(k, t) \/ PhotoReads(k, t))
     \/ WillRefuse(k) /\ k.state = "refused" /\ drafts' = drafts
     \/ EditReads(c, k, t)
Writes(c, k, t) ==
  /\ Goes(c, k, t) /\ Head(requests).kind = "put" /\ k.state = "ok" /\ k.value = calls[c].value
  /\ stored'[k.recipe] = Head(requests).value
  /\ drafts'[k.recipe] = IF k.tool = "save" THEN Nothing ELSE drafts[k.recipe]
  /\ selected' = IF k.tool = "create" THEN k.recipe ELSE selected
Fails(c, k, t) ==
  /\ Goes(c, k, t) /\ Head(requests).kind \in {"put", "delete"} /\ k.state = "failed" /\ k.value = calls[c].value
  /\ UNCHANGED <<stored, drafts, selected>>
Deletes(c, k, t) ==
  /\ Goes(c, k, t) /\ Head(requests).kind = "delete" /\ k.state = "ok"
  /\ stored'[k.recipe] = Nothing /\ selected' = selected
  /\ drafts'[k.recipe] = IF k.tool = "delete" THEN Nothing ELSE drafts[k.recipe]
Reloads ==
  /\ requests # <<>> /\ Head(requests).kind = "load" /\ requests' = Tail(requests)
  /\ UNCHANGED <<stored, drafts, calls>> /\ list' = Present
  /\ selected \in Present => selected' = selected

(* The oldest request and its call. *)
LEMMA HeadFacts ==
  ASSUME WellFormed, requests # <<>>, Head(requests).kind # "load",
         NEW c, c = Head(requests).call
  PROVE  /\ 1 \in DOMAIN requests /\ Head(requests) = requests[1]
         /\ c \in DOMAIN calls /\ c \in Nat /\ c # 0
         /\ calls[c].state = "running" /\ Makes(Head(requests).kind, calls[c].tool)
         /\ IsCall(calls[c]) /\ calls[c].recipe \in Recipes
<1>1. IsSequence(requests) /\ IsSequence(calls)
  BY DEF WellFormed
<1>2. 1 \in DOMAIN requests /\ Head(requests) = requests[1]
  BY <1>1, Shortened
<1>3. Fits(calls, requests[1])
  BY <1>2 DEF WellFormed, Belong
<1>4. Runs(calls, c) /\ Makes(Head(requests).kind, calls[c].tool)
  BY <1>2, <1>3 DEF Fits
<1>5. c \in DOMAIN calls /\ calls[c].state = "running"
  BY <1>4 DEF Runs
<1>6. DOMAIN calls = 1..Len(calls) /\ Len(calls) \in Nat
  BY <1>1, SequenceFacts
<1> QED
  BY <1>2, <1>4, <1>5, <1>6 DEF WellFormed, IsCall

(* The empty sequence and the sequence of one element.                     *)
LEMMA ShortSequences ==
  /\ IsSequence(<<>>) /\ DOMAIN <<>> = {}
  /\ \A x : IsSequence(<<x>>) /\ DOMAIN <<x>> = {1} /\ <<x>>[1] = x
<1>1. IsSequence(<<>>)
  <2>1. <<>> \in Seq({})
    OBVIOUS
  <2> QED
    BY <2>1 DEF IsSequence
<1>2. ASSUME NEW x PROVE IsSequence(<<x>>) /\ DOMAIN <<x>> = {1} /\ <<x>>[1] = x
  <2>1. <<x>> \in Seq({x}) /\ DOMAIN <<x>> = 1..1 /\ 1..1 = {1} /\ <<x>>[1] = x
    OBVIOUS
  <2>2. IsSequence(<<x>>)
    BY <2>1 DEF IsSequence
  <2> QED
    BY <2>1, <2>2
<1> QED
  BY <1>1, <1>2

(* Answers keep calls and requests together. *)
LEMMA GoesKeeps ==
  ASSUME WellFormed, NEW c, NEW k, NEW t, Goes(c, k, t)
  PROVE  WellFormed'
<1>1. /\ c \in DOMAIN calls /\ c # 0 /\ calls[c].state = "running" /\ c = Head(requests).call
      /\ requests # <<>>
  BY HeadFacts DEF Goes
<1>2. IsSequence(calls) /\ IsSequence(requests) /\ Belong(calls, requests)
  BY DEF WellFormed
<1>3. /\ IsSequence(calls') /\ DOMAIN calls' = DOMAIN calls /\ calls'[c] = k
      /\ \A d \in DOMAIN calls : d # c => calls'[d] = calls[d]
  BY <1>1, <1>2, Changed DEF Goes
<1>4. Follows(requests, t, requests')
  BY <1>1, <1>2, Answered DEF Goes
<1>5. Belong(calls', requests')
  <2>1. /\ calls' = [calls EXCEPT ![c] = k] /\ requests' = Tail(requests) \o t
        /\ k.tool = calls[c].tool /\ IsSequence(t)
    BY DEF Goes, Becomes
  <2>2. \/ /\ k.state = "running" /\ DOMAIN t = {1}
           /\ t[1].call = c /\ t[1].kind = "put" /\ k.tool \in {"set", "edit", "save", "photo"}
        \/ k.state # "running" /\ \A j \in DOMAIN t : t[j].kind = "load" /\ t[j].call = 0
    BY DEF Goes
  <2> QED
    BY <1>1, <1>2, <2>1, <2>2, AnswerBelongs
<1>6. \A d \in DOMAIN calls' : IsCall(calls'[d])
  BY <1>3 DEF WellFormed, Goes, Becomes
<1>7. Beside(calls)'
  <2>1. ASSUME NEW d, Runs(calls', d)
        PROVE  /\ Runs(calls, d) /\ calls'[d].recipe = calls[d].recipe
               /\ calls'[d].behind = calls[d].behind
    BY <1>1, <1>3, <2>1 DEF Runs, Goes, Becomes
  <2> QED
    BY <2>1 DEF WellFormed, Beside
<1>8. /\ drafts' = [r \in Recipes |-> drafts'[r]] /\ stored' = [r \in Recipes |-> stored'[r]]
      /\ \A r \in Recipes : "photo" \notin DOMAIN drafts'[r]
      /\ \A r \in Recipes : stored'[r] # Nothing => "name" \in DOMAIN stored'[r]
  <2>1. k.recipe \in Recipes /\ Touches(k.recipe)
    BY DEF Goes, Becomes, IsCall
  <2> QED
    BY <2>1 DEF WellFormed, Touches
<1>9. ASSUME NEW i \in DOMAIN requests', requests'[i].kind = "put"
      PROVE  "name" \in DOMAIN requests'[i].value
  <2>1. CASE i + 1 \in DOMAIN requests /\ requests'[i] = requests[i + 1]
    BY <1>9, <2>1 DEF WellFormed
  <2>2. CASE i - (Len(requests) - 1) \in DOMAIN t /\ requests'[i] = t[i - (Len(requests) - 1)]
    BY <1>9, <2>2 DEF Goes
  <2> QED
    BY <1>4, <2>1, <2>2 DEF Follows
<1>10. IsSequence(requests')
  BY <1>4 DEF Follows
<1> QED
  BY <1>3, <1>5, <1>6, <1>7, <1>8, <1>9, <1>10 DEF WellFormed

(* A reload of the list keeps the state well-formed.                       *)
LEMMA ReloadsKeeps ==
  ASSUME WellFormed, Reloads
  PROVE  WellFormed'
<1>1. /\ IsSequence(calls) /\ IsSequence(requests) /\ Belong(calls, requests)
      /\ requests # <<>> /\ Head(requests).kind = "load"
      /\ requests' = Tail(requests) /\ UNCHANGED <<stored, drafts, calls>>
  BY DEF WellFormed, Reloads
<1>2. Belong(calls, requests')
  BY <1>1, ReloadBelongs
<1>3. /\ IsSequence(requests')
      /\ \A i \in DOMAIN requests' : i + 1 \in DOMAIN requests /\ requests'[i] = requests[i + 1]
  BY <1>1, Shortened
<1>4. \A i \in DOMAIN requests' : requests'[i].kind = "put" => "name" \in DOMAIN requests'[i].value
  BY <1>3 DEF WellFormed
<1> QED
  BY <1>1, <1>2, <1>3, <1>4 DEF WellFormed

(* Requests that follow after others. *)
LEMMA TailFacts ==
  ASSUME WellFormed, requests # <<>>
  PROVE  /\ Tail(requests) = Tail(requests) \o <<>>
         /\ \A s, t : IsSequence(s) /\ IsSequence(t) =>
              (Tail(requests) \o s) \o t = Tail(requests) \o (s \o t)
<1>1. IsSequence(Tail(requests))
  BY Shortened DEF WellFormed
<1>2. PICK S : Tail(requests) \in Seq(S)
  BY <1>1 DEF IsSequence
<1>3. Tail(requests) = Tail(requests) \o <<>>
  BY <1>2, ConcatEmptySeq
<1>4. ASSUME NEW s, NEW t, IsSequence(s), IsSequence(t)
      PROVE  (Tail(requests) \o s) \o t = Tail(requests) \o (s \o t)
  <2>1. PICK T : s \in Seq(T)
    BY <1>4 DEF IsSequence
  <2>2. PICK U : t \in Seq(U)
    BY <1>4 DEF IsSequence
  <2> DEFINE V == S \cup T \cup U
  <2>3. Tail(requests) \in Seq(V) /\ s \in Seq(V) /\ t \in Seq(V)
    BY <1>2, <2>1, <2>2
  <2> HIDE DEF V
  <2> QED
    BY <2>3, ConcatAssociative
<1> QED
  BY <1>3, <1>4

(* Where the elements of a concatenation come from.                        *)
LEMMA Joined ==
  ASSUME NEW s, NEW t, IsSequence(s), IsSequence(t)
  PROVE  /\ IsSequence(s \o t)
         /\ \A j \in DOMAIN (s \o t) : \/ \E i \in DOMAIN s : (s \o t)[j] = s[i]
                                       \/ \E i \in DOMAIN t : (s \o t)[j] = t[i]
         /\ s # <<>> => 1 \in DOMAIN (s \o t) /\ (s \o t)[1] = s[1]
<1>1. PICK S : s \in Seq(S)
  BY DEF IsSequence
<1>2. PICK T : t \in Seq(T)
  BY DEF IsSequence
<1> DEFINE u == s \o t
<1>3. s \in Seq(S \cup T) /\ t \in Seq(S \cup T)
  BY <1>1, <1>2
<1>4. /\ u \in Seq(S \cup T) /\ Len(u) = Len(s) + Len(t) /\ Len(s) \in Nat /\ Len(t) \in Nat
      /\ DOMAIN u = 1..(Len(s) + Len(t)) /\ DOMAIN s = 1..Len(s) /\ DOMAIN t = 1..Len(t)
      /\ \A i \in 1..(Len(s) + Len(t)) : u[i] = IF i <= Len(s) THEN s[i] ELSE t[i - Len(s)]
      /\ s # <<>> => Len(s) # 0
  BY <1>3, ConcatProperties, LenProperties, EmptySeq
<1> HIDE DEF u
<1>5. ASSUME NEW j \in DOMAIN u
      PROVE  (\E i \in DOMAIN s : u[j] = s[i]) \/ (\E i \in DOMAIN t : u[j] = t[i])
  <2>1. CASE j <= Len(s)
    BY <1>4, <2>1
  <2>2. CASE ~(j <= Len(s))
    <3>1. j - Len(s) \in DOMAIN t /\ u[j] = t[j - Len(s)]
      BY <1>4, <2>2
    <3> QED
      BY <3>1
  <2> QED
    BY <2>1, <2>2
<1>6. s # <<>> => 1 \in DOMAIN u /\ u[1] = s[1]
  BY <1>4
<1>7. IsSequence(u)
  BY <1>4 DEF IsSequence
<1> QED
  BY <1>5, <1>6, <1>7 DEF u

(* A call after an answer: its state changes. *)
LEMMA StateChanges ==
  ASSUME NEW k, IsCall(k), NEW s \in {"running", "ok", "failed", "refused"},
         s = "refused" => WillRefuse(k),
         k.tool \in Removals => s # "refused",
         k.field = None => k.tool # "photo",
         NEW l, l = [k EXCEPT !.state = s]
  PROVE  Becomes(k, l) /\ l.state = s /\ l.value = k.value
<1>1. l = [tool |-> k.tool, recipe |-> k.recipe, state |-> s, seen |-> k.seen,
           field |-> k.field, edit |-> k.edit, value |-> k.value, behind |-> k.behind, reading |-> k.reading]
  BY DEF IsCall
<1>2. /\ l.state = s /\ l.tool = k.tool /\ l.recipe = k.recipe /\ l.seen = k.seen
      /\ l.field = k.field /\ l.edit = k.edit /\ l.behind = k.behind /\ l.reading = k.reading /\ l.value = k.value
  BY <1>1
<1>3. WillRefuse(l) <=> WillRefuse(k)
  BY <1>2 DEF WillRefuse
<1>4. IsCall(l)
  BY <1>1, <1>2, <1>3 DEF IsCall, Removals
<1> QED
  BY <1>2, <1>4 DEF Becomes

(* Every answer of the store is one of these. *)
LEMMA StorageAnswers ==
  ASSUME WellFormed, Storage
  PROVE  \/ Reloads
         \/ \E c, k, t : Reads(c, k, t) \/ Writes(c, k, t) \/ Fails(c, k, t) \/ Deletes(c, k, t)
<1> DEFINE c == Head(requests).call
           r == calls[c].recipe
<1>0. ASSUME requests # <<>>, Head(requests).kind # "load"
      PROVE  /\ 1 \in DOMAIN requests /\ Head(requests) = requests[1]
             /\ c \in DOMAIN calls /\ calls[c].state = "running" /\ IsCall(calls[c])
             /\ Makes(Head(requests).kind, calls[c].tool)
             /\ r \in Recipes /\ calls = [d \in DOMAIN calls |-> calls[d]]
             /\ "photo" \notin DOMAIN drafts[r] /\ "photo" \notin DOMAIN Nothing
             /\ drafts = [s \in Recipes |-> drafts[s]] /\ stored = [s \in Recipes |-> stored[s]]
             /\ stored[r] # Nothing => "name" \in DOMAIN stored[r]
             /\ calls[c].tool = "photo" => calls[c].field = "photo" /\ calls[c].field # None
  <2>1. /\ 1 \in DOMAIN requests /\ Head(requests) = requests[1]
        /\ c \in DOMAIN calls /\ calls[c].state = "running" /\ IsCall(calls[c])
        /\ Makes(Head(requests).kind, calls[c].tool) /\ r \in Recipes
    BY <1>0, HeadFacts
  <2>2. calls = [d \in DOMAIN calls |-> calls[d]]
    BY DEF WellFormed, IsSequence
  <2>3. "photo" \notin DOMAIN Nothing
    BY BlankFacts, RecipeAssumption
  <2>4. calls[c].tool = "photo" => calls[c].field = "photo" /\ calls[c].field # None
    BY <2>1, RecipeAssumption DEF IsCall, RecipeAssumption, Removals
  <2> QED
    BY <2>1, <2>2, <2>3, <2>4 DEF WellFormed
<1>1. CASE Put
  <2> DEFINE k == [calls[c] EXCEPT !.state = "ok"]
             t == Reload
  <2>1. /\ requests # <<>> /\ Head(requests).kind = "put"
        /\ stored' = [stored EXCEPT ![r] = Head(requests).value]
        /\ drafts' = [drafts EXCEPT ![r] = IF calls[c].tool = "save" THEN Nothing ELSE @]
        /\ selected' = IF calls[c].tool = "create" THEN r ELSE selected
        /\ calls' = [calls EXCEPT ![c] = k]
        /\ requests' = Tail(requests) \o t /\ list' = list
    BY <1>1 DEF Put, Written, Ends
  <2>2. Becomes(calls[c], k) /\ k.state = "ok" /\ k.value = calls[c].value
    BY <1>0, <2>1, StateChanges
  <2>3. IsSequence(t) /\ DOMAIN t = {1} /\ t[1].kind = "load" /\ t[1].call = 0
    BY ShortSequences DEF Reload, Then
  <2>4. "name" \in DOMAIN Head(requests).value
    BY <1>0, <2>1 DEF WellFormed
  <2> HIDE DEF k, t
  <2>5. /\ drafts'[r] = (IF calls[c].tool = "save" THEN Nothing ELSE drafts[r])
        /\ stored'[r] = Head(requests).value /\ Touches(r)
    BY <1>0, <2>1, <2>4 DEF Touches
  <2>6. k.tool = calls[c].tool /\ k.recipe = r
    BY <2>2 DEF Becomes
  <2> HIDE DEF r
  <2>7. Goes(c, k, t)
    BY <2>1, <2>2, <2>3, <2>5, <2>6 DEF Goes
  <2>8. Writes(c, k, t)
    BY <2>1, <2>2, <2>5, <2>6, <2>7 DEF Writes
  <2> QED
    BY <2>8
<1>2. CASE WriteFails
  <2> DEFINE k == [calls[c] EXCEPT !.state = "failed"]
             t == <<>>
  <2>1. /\ requests # <<>> /\ Head(requests).kind \in {"put", "delete"}
        /\ UNCHANGED <<stored, drafts, selected, list>>
        /\ calls' = [calls EXCEPT ![c] = k] /\ requests' = Tail(requests)
    BY <1>2 DEF WriteFails, EndsWithoutPut, Ends, screen
  <2>2. requests' = Tail(requests) \o t
    BY <2>1, TailFacts
  <2>4. Becomes(calls[c], k) /\ k.state = "failed" /\ k.value = calls[c].value
    BY <1>0, <2>1, StateChanges
  <2>5. IsSequence(t) /\ DOMAIN t = {}
    BY ShortSequences
  <2> HIDE DEF k, t
  <2>6. Touches(r)
    BY <1>0, <2>1 DEF Touches
  <2>7. k.recipe = r
    BY <2>4 DEF Becomes
  <2> HIDE DEF r
  <2>8. Goes(c, k, t)
    BY <2>1, <2>2, <2>4, <2>5, <2>6, <2>7 DEF Goes
  <2>9. Fails(c, k, t)
    BY <2>1, <2>4, <2>8 DEF Fails
  <2> QED
    BY <2>9
<1>3. CASE Deleted
  <2> DEFINE k == [calls[c] EXCEPT !.state = "ok"]
             u == IF calls[c].tool = "discard" THEN Reload ELSE <<>>
             t == Reload \o u
  <2>1. /\ requests # <<>> /\ Head(requests).kind = "delete"
        /\ stored' = [stored EXCEPT ![r] = Nothing]
        /\ drafts' = [drafts EXCEPT ![r] = IF calls[c].tool = "delete" THEN Nothing ELSE @]
        /\ requests' = (Tail(requests) \o Reload) \o u
        /\ calls' = [calls EXCEPT ![c] = k] /\ UNCHANGED <<selected, list>>
    BY <1>3 DEF Deleted, Ends, screen
  <2>2. /\ IsSequence(Reload) /\ IsSequence(u) /\ Reload # <<>>
        /\ Reload[1].kind = "load"
        /\ \A j \in DOMAIN Reload : Reload[j].kind = "load" /\ Reload[j].call = 0
        /\ \A j \in DOMAIN u : u[j].kind = "load" /\ u[j].call = 0
    BY ShortSequences DEF Reload, Then
  <2>3. Becomes(calls[c], k) /\ k.state = "ok" /\ k.value = calls[c].value
    BY <1>0, <2>1, StateChanges
  <2> HIDE DEF k, u
  <2>4. /\ IsSequence(t) /\ 1 \in DOMAIN t /\ t[1].kind = "load"
        /\ \A j \in DOMAIN t : t[j].kind = "load" /\ t[j].call = 0
    BY <2>2, Joined
  <2>5. requests' = Tail(requests) \o t
    BY <2>1, <2>2, TailFacts
  <2> HIDE DEF t
  <2>6. /\ stored'[r] = Nothing /\ Touches(r)
        /\ drafts'[r] = IF calls[c].tool = "delete" THEN Nothing ELSE drafts[r]
    BY <1>0, <2>1 DEF Touches
  <2>7. k.recipe = r /\ k.tool = calls[c].tool
    BY <2>3 DEF Becomes
  <2> HIDE DEF r
  <2>8. Goes(c, k, t)
    BY <2>1, <2>3, <2>4, <2>5, <2>6, <2>7 DEF Goes
  <2>9. Deletes(c, k, t)
    BY <2>1, <2>3, <2>6, <2>7, <2>8 DEF Deletes
  <2> QED
    BY <2>9
<1>4. CASE Load
  <2>1. Present = {} => selected \notin Present
    OBVIOUS
  <2> QED
    BY <1>4 DEF Load, Reloads
<1>5. CASE Read
  <2>1. /\ requests # <<>> /\ Head(requests).kind = "get" /\ AfterRead(c)
        /\ UNCHANGED <<stored, selected, list>>
    BY <1>5 DEF Read, screen
  <2>2. calls[c].tool \in {"set", "edit", "save", "photo"}
    BY <1>0, <2>1 DEF Makes, Removals
  <2> DEFINE old == stored[r]
             base == IF old = Nothing THEN Blank ELSE old
             q(v) == [kind |-> "put", call |-> c, value |-> v]
  <2>3. Base(old) = base /\ "name" \in DOMAIN base /\ (old # Nothing => "name" \in DOMAIN old)
    BY <1>0, <2>1, BlankFacts, RecipeAssumption DEF Base
  <2>4. /\ IsSequence(<<>>) /\ DOMAIN <<>> = {}
        /\ \A v : IsSequence(<<q(v)>>) /\ DOMAIN <<q(v)>> = {1} /\ <<q(v)>>[1] = q(v)
    BY ShortSequences
  <2>5. /\ requests' = Tail(requests) => requests' = Tail(requests) \o <<>>
        /\ calls' = calls => calls' = [calls EXCEPT ![c] = calls[c]]
        /\ Becomes(calls[c], calls[c])
    BY <1>0, <2>1, TailFacts DEF Becomes
  <2>6. drafts' = drafts => Touches(r)
    BY <1>0, <2>1 DEF Touches
  (* The call goes on to write v. *)
  <2>7. ASSUME NEW v, calls' = calls, requests' = Tail(requests) \o <<q(v)>>, drafts' = drafts,
               "name" \in DOMAIN v
        PROVE  Goes(c, calls[c], <<q(v)>>)
    <3>1. /\ q(v).call = c /\ q(v).kind = "put" /\ q(v).value = v
      OBVIOUS
    <3> HIDE DEF q, r, c
    <3>2. /\ c = Head(requests).call /\ calls[c].recipe = r
      BY DEF c, r
    <3>3. calls[c].state = "running"
      BY <1>0, <2>1
    <3> QED
      BY <2>1, <2>2, <2>4, <2>5, <2>6, <2>7, <3>1, <3>2, <3>3 DEF Goes
  (* The call ends as k. *)
  <2>8. ASSUME NEW k, calls' = [calls EXCEPT ![c] = k], Becomes(calls[c], k), k.state # "running",
               requests' = Tail(requests) \o <<>>, Touches(r)
        PROVE  Goes(c, k, <<>>)
    <3>1. k.recipe = r
      BY <2>8 DEF Becomes
    <3> HIDE DEF r, c
    <3>2. c = Head(requests).call
      BY DEF c
    <3> QED
      BY <2>1, <2>4, <2>8, <3>1, <3>2 DEF Goes
  <2>9. CASE calls[c].tool = "set"
    <3>1. CASE old # Nothing
      <4> DEFINE v == Over(calls[c].seen, old)
      <4>1. calls' = calls /\ requests' = Tail(requests) \o <<q(v)>> /\ drafts' = drafts
        BY <2>1, <2>9, <3>1 DEF AfterRead, GoesOnToPut, Then, IsStored
      <4>2. "name" \in DOMAIN v
        BY <2>3, <3>1 DEF Over
      <4>3. v = Over(calls[c].seen, old) /\ <<q(v)>>[1].value = v
        BY <2>4
      <4> HIDE DEF v
      <4>4. Goes(c, calls[c], <<q(v)>>)
        BY <2>7, <4>1, <4>2
      <4>5. SetReads(calls[c], <<q(v)>>)
        BY <1>0, <2>1, <2>9, <3>1, <4>1, <4>3 DEF SetReads
      <4> QED
        BY <2>1, <4>4, <4>5 DEF Reads
    <3>2. CASE old = Nothing
      <4> DEFINE k == [calls[c] EXCEPT !.state = "ok"]
      <4>1. calls' = [calls EXCEPT ![c] = k] /\ requests' = Tail(requests) /\ drafts' = drafts
        BY <2>1, <2>9, <3>2 DEF AfterRead, EndsWithoutPut, Ends, IsStored
      <4>2. Becomes(calls[c], k) /\ k.state = "ok" /\ k.value = calls[c].value
        BY <1>0, <2>1, StateChanges
      <4> HIDE DEF k
      <4>3. Goes(c, k, <<>>)
        BY <2>5, <2>6, <2>8, <4>1, <4>2
      <4>4. SetReads(k, <<>>)
        BY <2>9, <3>2, <4>1, <4>2 DEF SetReads, Becomes
      <4> QED
        BY <2>1, <4>2, <4>3, <4>4 DEF Reads
    <3> QED
      BY <3>1, <3>2
  <2>10. CASE calls[c].tool = "edit" /\ Refused(calls[c].field, calls[c].edit)
    <3> DEFINE k == [calls[c] EXCEPT !.state = "refused"]
    <3>1. calls' = [calls EXCEPT ![c] = k] /\ requests' = Tail(requests) /\ drafts' = drafts
      BY <2>1, <2>10 DEF AfterRead, EndsWithoutPut, Ends
    <3>2. WillRefuse(calls[c])
      BY <2>10 DEF WillRefuse
    <3>3. Becomes(calls[c], k) /\ k.state = "refused"
      BY <1>0, <2>1, <2>10, <3>2, StateChanges DEF Removals
    <3> HIDE DEF k
    <3>4. Goes(c, k, <<>>)
      BY <2>5, <2>6, <2>8, <3>1, <3>3
    <3>5. WillRefuse(k)
      BY <3>2, <3>3 DEF WillRefuse, Becomes
    <3> QED
      BY <2>1, <3>1, <3>3, <3>4, <3>5 DEF Reads
  <2>11. CASE calls[c].tool = "edit" /\ ~Refused(calls[c].field, calls[c].edit)
    <3> DEFINE f == calls[c].field
               next == Edited(f, calls[c].edit, Over(Over(calls[c].seen, old), Blank)[f], c)
               draft == Over(Field(f, next), calls[c].seen)
               state == IF old # Nothing THEN "running" ELSE "ok"
               k == [[calls[c] EXCEPT !.value = next] EXCEPT !.state = state]
               t == IF old # Nothing THEN <<q(Over(draft, old))>> ELSE <<>>
    <3>1. /\ drafts' = [drafts EXCEPT ![r] = draft]
          /\ calls' = [calls EXCEPT ![c].value = next,
                                    ![c].state = IF old # Nothing THEN @ ELSE "ok"]
          /\ requests' = Tail(requests) \o t
      BY <2>1, <2>11 DEF AfterRead, IsStored, Then
    <3>2. draft = Over(Field(f, next), calls[c].seen) /\ "photo" \notin DOMAIN draft
      <4>1. f # "photo" /\ "photo" \notin DOMAIN calls[c].seen
        BY <1>0, <2>1, <2>11, RecipeAssumption DEF IsCall, Removals, RecipeAssumption
      <4> HIDE DEF next, f
      <4>2. "photo" \notin DOMAIN draft
        BY <4>1 DEF Over, Field
      <4> QED
        BY <4>2
    <3>0. next = Edited(f, calls[c].edit, Over(Over(calls[c].seen, old), Blank)[f], c)
      OBVIOUS
    <3> HIDE DEF next, draft
    <3>3. calls' = [calls EXCEPT ![c] = k]
      BY <1>0, <2>1, <3>1 DEF IsCall
    <3>4. Becomes(calls[c], k) /\ k.state = state /\ k.value = next
      <4>1. /\ IsCall(calls[c]) /\ state \in {"running", "ok", "failed", "refused"}
            /\ state # "refused" /\ calls[c].tool \notin Removals /\ calls[c].tool # "photo"
        BY <1>0, <2>1, <2>11 DEF Removals
      <4> DEFINE p == calls[c]
      <4>2. k = [[p EXCEPT !.value = next] EXCEPT !.state = state]
        OBVIOUS
      <4>3. /\ IsCall(p) /\ state \in {"running", "ok", "failed", "refused"}
            /\ state # "refused" /\ p.tool \notin Removals /\ p.tool # "photo"
        BY <4>1
      <4> HIDE DEF state, k, p
      <4>4. Becomes(p, k) /\ k.state = state /\ k.value = next
        <5>1. k = [tool |-> p.tool, recipe |-> p.recipe, state |-> state, seen |-> p.seen,
                   field |-> p.field, edit |-> p.edit, value |-> next, behind |-> p.behind, reading |-> p.reading]
          BY <4>2, <4>3 DEF IsCall
        <5>2. /\ k.state = state /\ k.tool = p.tool /\ k.recipe = p.recipe /\ k.seen = p.seen
              /\ k.field = p.field /\ k.edit = p.edit /\ k.behind = p.behind /\ k.reading = p.reading /\ k.value = next
          BY <5>1
        <5>3. IsCall(k)
          BY <4>3, <5>1, <5>2 DEF IsCall
        <5> QED
          BY <5>2, <5>3 DEF Becomes
      <4> QED
        BY <4>4 DEF p
    <3>5. /\ IsSequence(t)
          /\ old # Nothing => /\ DOMAIN t = {1} /\ t[1].call = c /\ t[1].kind = "put"
                              /\ t[1].value = Over(draft, old)
          /\ old = Nothing => DOMAIN t = {}
      BY <2>4
    <3>6. drafts'[r] = draft /\ Touches(r)
      BY <1>0, <2>1, <2>3, <3>1, <3>2 DEF Touches
    <3>7. old # Nothing => "name" \in DOMAIN Over(draft, old)
      BY <2>3 DEF Over
    <3> HIDE DEF k, t
    <3>8. /\ k.tool = "edit" /\ k.recipe = r /\ k.field = f /\ k.seen = calls[c].seen
          /\ k.edit = calls[c].edit
      BY <2>11, <3>4 DEF Becomes
    <3>9. Goes(c, k, t)
      <4> HIDE DEF r
      <4> QED
        BY <2>1, <3>1, <3>3, <3>4, <3>5, <3>6, <3>7, <3>8 DEF Goes
    <3>10. ~WillRefuse(k)
      BY <2>11, <3>4 DEF WillRefuse, Becomes
    <3>11. EditReads(c, k, t)
      BY <2>1, <3>0, <3>2, <3>4, <3>5, <3>6, <3>8, <3>10 DEF EditReads
    <3> QED
      BY <2>1, <3>9, <3>11 DEF Reads
  <2>12. CASE calls[c].tool = "save"
    <3> DEFINE v == Over(calls[c].seen, base)
    <3>1. calls' = calls /\ requests' = Tail(requests) \o <<q(v)>> /\ drafts' = drafts
      BY <2>1, <2>12 DEF AfterRead, GoesOnToPut, Then
    <3>2. "name" \in DOMAIN v
      BY <2>3 DEF Over
    <3>3. v = Over(calls[c].seen, base) /\ <<q(v)>>[1].value = v
      BY <2>4
    <3> HIDE DEF v
    <3>4. Goes(c, calls[c], <<q(v)>>)
      BY <2>7, <3>1, <3>2
    <3>5. SaveReads(calls[c], <<q(v)>>)
      BY <1>0, <2>1, <2>3, <2>12, <3>1, <3>3 DEF SaveReads
    <3> QED
      BY <2>1, <3>4, <3>5 DEF Reads
  <2>13. CASE calls[c].tool = "photo"
    <3> DEFINE v == Over(Field("photo", calls[c].value), Over(drafts[r], base))
    <3>1. calls' = calls /\ requests' = Tail(requests) \o <<q(v)>> /\ drafts' = drafts
      BY <2>1, <2>13 DEF AfterRead, GoesOnToPut, Then
    <3>2. "name" \in DOMAIN v
      BY <2>3 DEF Over
    <3>3. /\ v = Over(Field("photo", calls[c].value), Over(drafts[r], base))
          /\ <<q(v)>>[1].value = v
      BY <2>4
    <3> HIDE DEF v
    <3>4. Goes(c, calls[c], <<q(v)>>)
      BY <2>7, <3>1, <3>2
    <3>5. PhotoReads(calls[c], <<q(v)>>)
      BY <1>0, <2>1, <2>3, <2>13, <3>1, <3>3 DEF PhotoReads
    <3> QED
      BY <2>1, <3>4, <3>5 DEF Reads
  <2> QED
    BY <2>2, <2>9, <2>10, <2>11, <2>12, <2>13
<1> QED
  BY <1>1, <1>2, <1>3, <1>4, <1>5 DEF Storage

(* Every step is one of these, or leaves alone what the proofs are about.  *)
LEMMA Steps ==
  ASSUME WellFormed, [Next]_vars
  PROVE  \/ \E k, q : Begins(k, q)
         \/ Reloads
         \/ \E c, k, t : Reads(c, k, t) \/ Writes(c, k, t) \/ Fails(c, k, t) \/ Deletes(c, k, t)
         \/ UNCHANGED <<drafts, stored, calls, requests, list, selected>>
<1>1. CASE Handlers
  BY <1>1, HandlersBegin
<1>2. CASE Storage
  BY <1>2, StorageAnswers
<1>3. CASE StagePhoto \/ UNCHANGED vars
  BY <1>3 DEF StagePhoto, vars, screen
<1> QED
  BY <1>1, <1>2, <1>3 DEF Next

(* The shelf in the beginning is well-formed.                              *)
LEMMA InitWellFormed == Init => WellFormed
<1> SUFFICES ASSUME Init PROVE WellFormed
  OBVIOUS
<1> DEFINE q == [kind |-> "load", call |-> 0, value |-> Nothing]
<1>1. /\ calls = <<>> /\ requests = <<q>>
      /\ drafts = [r \in Recipes |-> Nothing]
      /\ stored = [r \in Recipes |-> IF r \in Shelf THEN Blank ELSE Nothing]
  BY DEF Init
<1>2. /\ IsSequence(calls) /\ DOMAIN calls = {}
      /\ IsSequence(requests) /\ DOMAIN requests = {1} /\ requests[1] = q
  BY <1>1, ShortSequences
<1>3. q.kind = "load" /\ q.call = 0
  OBVIOUS
<1> HIDE DEF q
<1>4. Belong(calls, requests)
  BY <1>2, <1>3 DEF Belong, Fits, Runs
<1>5. Beside(calls)
  BY <1>2 DEF Beside, Runs
<1>6. "photo" \notin DOMAIN Nothing /\ "name" \in DOMAIN Blank
  BY BlankFacts, RecipeAssumption
<1>7. /\ drafts = [r \in Recipes |-> drafts[r]] /\ stored = [r \in Recipes |-> stored[r]]
      /\ \A r \in Recipes : "photo" \notin DOMAIN drafts[r]
      /\ \A r \in Recipes : stored[r] # Nothing => "name" \in DOMAIN stored[r]
  BY <1>1, <1>6
<1>8. \A i \in DOMAIN requests : requests[i].kind # "put"
  BY <1>2, <1>3
<1> QED
  BY <1>2, <1>4, <1>5, <1>7, <1>8 DEF WellFormed

(* Every step keeps the state well-formed.                                 *)
LEMMA StepKeepsWellFormed == WellFormed /\ [Next]_vars => WellFormed'
<1> SUFFICES ASSUME WellFormed, [Next]_vars PROVE WellFormed'
  OBVIOUS
<1>1. ASSUME NEW k, NEW q, Begins(k, q) PROVE WellFormed'
  BY <1>1, BeginsKeeps
<1>2. CASE Reloads
  BY <1>2, ReloadsKeeps
<1>3. ASSUME NEW c, NEW k, NEW t,
             Reads(c, k, t) \/ Writes(c, k, t) \/ Fails(c, k, t) \/ Deletes(c, k, t)
      PROVE  WellFormed'
  BY <1>3, GoesKeeps DEF Reads, Writes, Fails, Deletes
<1>4. CASE UNCHANGED <<drafts, stored, calls, requests, list, selected>>
  BY <1>4 DEF WellFormed
<1> QED
  BY <1>1, <1>2, <1>3, <1>4, Steps

-----------------------------------------------------------------------------
(***************************************************************************)
(* What is pending, and how a step changes it.                             *)
(***************************************************************************)
Pending == {requests[i] : i \in DOMAIN requests}

(* A request that is open belongs to a running call, and every running call has one.*)
LEMMA PendingFacts ==
  ASSUME WellFormed
  PROVE  /\ \A p \in Pending : p.kind # "load" =>
              /\ p.call \in DOMAIN calls /\ calls[p.call].state = "running"
              /\ Makes(p.kind, calls[p.call].tool)
              /\ p.kind = "put" => "name" \in DOMAIN p.value
         /\ \A p \in Pending : p.kind = "load" => p.call = 0
         /\ \A c \in DOMAIN calls : calls[c].state = "running" =>
              \E p \in Pending : p.call = c /\ p.kind # "load"
         /\ \A c \in DOMAIN calls : c \in Nat /\ c # 0
<1>1. \A c \in DOMAIN calls : c \in Nat /\ c # 0
  BY SequenceFacts DEF WellFormed
<1>2. \A i \in DOMAIN requests : Fits(calls, requests[i])
  BY DEF WellFormed, Belong
<1>3. ASSUME NEW c \in DOMAIN calls, calls[c].state = "running"
      PROVE  \E p \in Pending : p.call = c /\ p.kind # "load"
  <2>1. PICK i \in DOMAIN requests : requests[i].call = c
    BY <1>3 DEF WellFormed, Belong, Runs
  <2>2. requests[i].kind # "load"
    BY <1>1, <1>2, <2>1 DEF Fits
  <2> QED
    BY <2>1, <2>2 DEF Pending
<1>4. ASSUME NEW p \in Pending
      PROVE  /\ p.kind = "load" => p.call = 0
             /\ p.kind # "load" => /\ p.call \in DOMAIN calls /\ calls[p.call].state = "running"
                                   /\ Makes(p.kind, calls[p.call].tool)
                                   /\ p.kind = "put" => "name" \in DOMAIN p.value
  <2>1. PICK i \in DOMAIN requests : p = requests[i]
    BY DEF Pending
  <2> QED
    BY <1>2, <2>1 DEF Fits, Runs, WellFormed
<1> QED
  BY <1>1, <1>3, <1>4

(* The calls and requests after a call has begun.                          *)
LEMMA BeginsFacts ==
  ASSUME WellFormed, NEW k, NEW q, Begins(k, q)
  PROVE  /\ DOMAIN calls' = DOMAIN calls \cup {Id} /\ calls'[Id] = k /\ Id \in Nat /\ Id # 0
         /\ \A c \in DOMAIN calls : calls'[c] = calls[c] /\ c \in Nat /\ c < Id
         /\ k.state = "running" => q.call = Id
         /\ \A p \in Pending' : p \in Pending \/ (p = q /\ k.state = "running")
         /\ \A p \in Pending : p \in Pending'
<1>1. /\ IsSequence(calls') /\ Len(calls) \in Nat /\ DOMAIN calls' = 1..(Len(calls) + 1)
      /\ DOMAIN calls = 1..Len(calls)
      /\ Id = Len(calls) + 1 /\ calls'[Len(calls) + 1] = k
      /\ \A i \in 1..Len(calls) : calls'[i] = calls[i]
  BY Added DEF WellFormed, Begins, Id
<1>2. /\ DOMAIN calls' = DOMAIN calls \cup {Id} /\ calls'[Id] = k /\ Id \in Nat /\ Id # 0
      /\ \A c \in DOMAIN calls : calls'[c] = calls[c] /\ c \in Nat /\ c < Id
  BY <1>1
<1>3. CASE requests' = requests /\ k.state # "running"
  BY <1>2, <1>3 DEF Pending
<1>4. CASE requests' = Append(requests, q) /\ k.state = "running" /\ q.call = Id
  <2>1. /\ Len(requests) \in Nat /\ DOMAIN requests' = 1..(Len(requests) + 1)
        /\ DOMAIN requests = 1..Len(requests)
        /\ requests'[Len(requests) + 1] = q
        /\ \A i \in 1..Len(requests) : requests'[i] = requests[i]
    BY <1>4, Added DEF WellFormed
  <2>2. \A i \in DOMAIN requests' : requests'[i] = q \/ (i \in DOMAIN requests /\ requests'[i] = requests[i])
    BY <2>1
  <2>3. \A i \in DOMAIN requests : i \in DOMAIN requests' /\ requests'[i] = requests[i]
    BY <2>1
  <2> QED
    BY <1>2, <1>4, <2>2, <2>3 DEF Pending
<1>5. \/ requests' = requests /\ k.state # "running"
      \/ requests' = Append(requests, q) /\ k.state = "running" /\ q.call = Id
  BY DEF Begins, Id
<1> QED
  BY <1>3, <1>4, <1>5
(* The calls and requests after a call has gone on.                        *)
LEMMA GoesFacts ==
  ASSUME WellFormed, NEW c, NEW k, NEW t, Goes(c, k, t)
  PROVE  /\ c \in DOMAIN calls /\ calls[c].state = "running" /\ IsCall(calls[c])
         /\ k.recipe \in Recipes /\ Makes(Head(requests).kind, k.tool)
         /\ DOMAIN calls' = DOMAIN calls /\ calls'[c] = k
         /\ \A d \in DOMAIN calls : d # c => calls'[d] = calls[d]
         /\ \A d \in DOMAIN calls : Becomes(calls[d], calls'[d])
         /\ Head(requests) \in Pending /\ Head(requests).call = c
         /\ \A p \in Pending' : \/ p \in Pending /\ p.call # c
                                \/ k.state = "running" /\ p = t[1] /\ p.call = c /\ p.kind = "put"
                                \/ p.kind = "load" /\ p.call = 0
         /\ \A p \in Pending : p.kind = "load" => p \in Pending'
         /\ \A j \in DOMAIN t : t[j] \in Pending'
         /\ \A p \in Pending : /\ p.call # c /\ MakesFirst(Head(requests).kind, k.tool)
                               /\ p.kind # "load" /\ MakesFirst(p.kind, calls[p.call].tool)
                               => c < p.call
         /\ \A r \in Recipes : r # k.recipe => drafts'[r] = drafts[r] /\ stored'[r] = stored[r]
<1> DEFINE h == Head(requests)
<1>1. /\ c \in DOMAIN calls /\ calls[c].state = "running" /\ IsCall(calls[c])
      /\ 1 \in DOMAIN requests /\ h = requests[1] /\ h.call = c
      /\ Makes(h.kind, calls[c].tool) /\ calls[c].recipe \in Recipes
  BY HeadFacts DEF Goes
<1>2. /\ DOMAIN calls' = DOMAIN calls /\ calls'[c] = k
      /\ \A d \in DOMAIN calls : d # c => calls'[d] = calls[d]
  BY <1>1, Changed DEF WellFormed, Goes
<1>3. /\ Becomes(calls[c], k) /\ h.kind # "load"
      /\ \A d \in DOMAIN calls : Becomes(calls[d], calls'[d])
  BY <1>2 DEF WellFormed, Goes, Becomes
<1>4. k.tool = calls[c].tool /\ k.recipe = calls[c].recipe
  BY <1>3 DEF Becomes
<1>5. Follows(requests, t, requests')
  BY Answered DEF WellFormed, Goes
<1>6. \A r \in Recipes : r # k.recipe => drafts'[r] = drafts[r] /\ stored'[r] = stored[r]
  BY DEF WellFormed, Goes, Touches
<1>7. ASSUME NEW p \in Pending'
      PROVE  \/ p \in Pending /\ p.call # c
             \/ k.state = "running" /\ p = t[1] /\ p.call = c /\ p.kind = "put"
             \/ p.kind = "load" /\ p.call = 0
  <2>1. PICK i \in DOMAIN requests' : p = requests'[i]
    BY DEF Pending
  <2>2. CASE i + 1 \in DOMAIN requests /\ requests'[i] = requests[i + 1]
    <3>1. i + 1 # 1 /\ c # 0
      BY <1>1, <1>5, PendingFacts DEF Follows
    <3>2. requests[i + 1].call # c
      BY <1>1, <2>2, <3>1 DEF WellFormed, Belong
    <3> QED
      BY <2>1, <2>2, <3>2 DEF Pending
  <2>3. CASE i - (Len(requests) - 1) \in DOMAIN t /\ requests'[i] = t[i - (Len(requests) - 1)]
    BY <2>1, <2>3 DEF Goes
  <2> QED
    BY <1>5, <2>2, <2>3 DEF Follows
<1>8. ASSUME NEW p \in Pending, p.kind = "load" PROVE p \in Pending'
  <2>1. PICK i \in DOMAIN requests : p = requests[i]
    BY DEF Pending
  <2>2. i # 1
    BY <1>1, <1>3, <1>8, <2>1
  <2>3. i - 1 \in DOMAIN requests' /\ requests'[i - 1] = p
    BY <1>5, <2>1, <2>2 DEF Follows
  <2> QED
    BY <2>3 DEF Pending
<1>9. \A j \in DOMAIN t : t[j] \in Pending'
  BY <1>5 DEF Follows, Pending
<1>10. ASSUME NEW p \in Pending, p.call # c, MakesFirst(h.kind, k.tool),
              p.kind # "load", MakesFirst(p.kind, calls[p.call].tool)
       PROVE  c < p.call
  <2>1. PICK i \in DOMAIN requests : p = requests[i]
    BY DEF Pending
  <2>2. i # 1 /\ 1 < i
    BY <1>1, <1>5, <1>10, <2>1 DEF Follows
  <2>3. IsFirst(calls, requests[1]) /\ IsFirst(calls, requests[i])
    BY <1>1, <1>3, <1>4, <1>10, <2>1 DEF IsFirst
  <2> QED
    BY <1>1, <2>1, <2>2, <2>3 DEF WellFormed, Belong
<1>11. h \in Pending
  BY <1>1 DEF Pending
<1> HIDE DEF h
<1> QED
  BY <1>1, <1>2, <1>3, <1>4, <1>6, <1>7, <1>8, <1>9, <1>10, <1>11 DEF h

-----------------------------------------------------------------------------
(***************************************************************************)
(* A recipe that was deleted, and on which only setters are called, stays  *)
(* deleted.  Nobody had still to read it when the deletion began, so what  *)
(* is written to it stands before the deletion, and what is read of it     *)
(* stands behind, until the deletion is over; then nothing is written.     *)
(***************************************************************************)
Deserted(c) ==
  /\ calls[c].tool \in Removals /\ calls[c].reading = {}
  /\ \A d \in On(calls[c].recipe) : d > c => calls[d].tool \in {"set", "edit", "delete", "discard", "load"}
Ahead(c) ==
  \A i, j \in DOMAIN requests :
    /\ requests[i].kind = "put" /\ requests[i].call \in On(calls[c].recipe) /\ requests[j].call = c
    => i < j
Freed(c) ==
  Deserted(c) /\ calls[c].state \in {"running", "ok"} =>
    /\ \A p \in Pending : p.call \in On(calls[c].recipe) /\ p.kind = "get" => p.call > c
    /\ \A p \in Pending : p.call \in On(calls[c].recipe) /\ p.kind = "put" => calls[c].state = "running"
    /\ Ahead(c)
    /\ calls[c].state = "ok" => stored[calls[c].recipe] = Nothing
FreedInv == \A c \in DOMAIN calls : Freed(c)

(* A call that begins stands last.                                         *)
LEMMA BeginsLast ==
  ASSUME WellFormed, NEW k, NEW q, Begins(k, q)
  PROVE  \A i \in DOMAIN requests' :
           \/ i \in DOMAIN requests /\ requests'[i] = requests[i]
           \/ /\ requests'[i] = q /\ k.state = "running"
              /\ \A j \in DOMAIN requests : j < i
<1>1. CASE requests' = requests
  BY <1>1
<1>2. CASE requests' = Append(requests, q) /\ k.state = "running"
  <2>1. /\ Len(requests) \in Nat /\ DOMAIN requests' = 1..(Len(requests) + 1)
        /\ DOMAIN requests = 1..Len(requests)
        /\ requests'[Len(requests) + 1] = q
        /\ \A i \in 1..Len(requests) : requests'[i] = requests[i]
    BY <1>2, Added DEF WellFormed
  <2> QED
    BY <1>2, <2>1
<1> QED
  BY <1>1, <1>2 DEF Begins

(* A call that begins brings no deleted recipe back.                       *)
LEMMA BeginsKeepsFreed ==
  ASSUME WellFormed, FreedInv, NEW k, NEW q, Begins(k, q)
  PROVE  FreedInv'
<1>1. /\ DOMAIN calls' = DOMAIN calls \cup {Id} /\ calls'[Id] = k /\ Id \in Nat /\ Id # 0
      /\ \A c \in DOMAIN calls : calls'[c] = calls[c] /\ c \in Nat /\ c < Id
      /\ k.state = "running" => q.call = Id
      /\ \A p \in Pending' : p \in Pending \/ (p = q /\ k.state = "running")
  BY BeginsFacts
<1>2. /\ IsCall(k) /\ k.reading = Reading \cap On(k.recipe) /\ stored' = stored
      /\ k.state = "running" => MakesFirst(q.kind, k.tool)
      /\ k.state = "ok" => k.tool \in {"load", "click"}
      /\ k.tool = "create" => On(k.recipe) = {}
  BY DEF Begins
<1>3. /\ \A p \in Pending : p.kind # "load" => p.call \in DOMAIN calls
      /\ \A p \in Pending : p.kind = "load" => p.call = 0
      /\ \A c \in DOMAIN calls : c # 0
      /\ \A i \in DOMAIN requests : requests[i] \in Pending
  BY PendingFacts DEF Pending
<1>4. \A i \in DOMAIN requests' :
        \/ i \in DOMAIN requests /\ requests'[i] = requests[i]
        \/ requests'[i] = q /\ k.state = "running" /\ \A j \in DOMAIN requests : j < i
  BY BeginsLast
<1>5. ASSUME NEW c \in DOMAIN calls', Deserted(c)', calls'[c].state \in {"running", "ok"}
      PROVE  /\ \A p \in Pending' : p.call \in On(calls[c].recipe)' /\ p.kind = "get" => p.call > c
             /\ \A p \in Pending' : p.call \in On(calls[c].recipe)' /\ p.kind = "put" => calls'[c].state = "running"
             /\ Ahead(c)'
             /\ calls'[c].state = "ok" => stored'[calls'[c].recipe] = Nothing
  <2> DEFINE r == calls'[c].recipe
             mine(p) == p.call \in DOMAIN calls' /\ calls'[p.call].recipe = r
  <2>0. /\ calls'[c].tool \in Removals /\ calls'[c].reading = {}
        /\ \A d \in DOMAIN calls' : calls'[d].recipe = r /\ d > c
             => calls'[d].tool \in {"set", "edit", "delete", "discard", "load"}
    BY <1>5 DEF Deserted, On
  <2>1. CASE c \in DOMAIN calls
    <3>1. Deserted(c) /\ calls'[c] = calls[c]
      BY <1>1, <2>0, <2>1 DEF Deserted, On
    <3>2. /\ \A p \in Pending : p.call \in On(r) /\ p.kind = "get" => p.call > c
          /\ \A p \in Pending : p.call \in On(r) /\ p.kind = "put" => calls[c].state = "running"
          /\ Ahead(c)
          /\ calls[c].state = "ok" => stored[r] = Nothing
      BY <1>5, <2>1, <3>1 DEF FreedInv, Freed
    <3>3. ASSUME NEW p \in Pending, mine(p) PROVE p.call \in On(r)
      BY <1>1, <1>3, <3>3 DEF On
    <3>4. ASSUME k.state = "running", mine(q) PROVE q.call > c /\ q.kind # "put"
      <4>1. q.call = Id /\ Id > c /\ k.recipe = r
        BY <1>1, <2>1, <3>4
      <4>2. k.tool \in {"set", "edit", "delete", "discard", "load"}
        BY <1>1, <2>0, <4>1
      <4> QED
        BY <1>2, <3>4, <4>1, <4>2 DEF MakesFirst
    <3>5. ASSUME NEW i \in DOMAIN requests', NEW j \in DOMAIN requests',
                 requests'[i].kind = "put", mine(requests'[i]), requests'[j].call = c
          PROVE  i < j
      <4>1. i \in DOMAIN requests /\ requests'[i] = requests[i]
        BY <1>4, <3>4, <3>5
      <4>2. j \in DOMAIN requests /\ requests'[j] = requests[j]
        <5>1. requests'[j] = q /\ k.state = "running" => c = Id
          BY <1>1, <3>5
        <5> QED
          BY <1>1, <1>4, <2>1, <5>1
      <4>3. requests[i].call \in On(r) /\ On(r) = On(calls[c].recipe)
        BY <1>3, <3>1, <3>3, <3>5, <4>1
      <4>4. requests[i].kind = "put" /\ requests[j].call = c
        BY <3>5, <4>1, <4>2
      <4> HIDE DEF r, mine
      <4> QED
        BY <3>2, <4>1, <4>2, <4>3, <4>4 DEF Ahead
    <3>6. ASSUME NEW p \in Pending', mine(p)
          PROVE  p.kind = "get" => p.call > c
      <4>1. p \in Pending => p.call \in On(r)
        BY <3>3, <3>6
      <4>2. p \in Pending \/ (p = q /\ k.state = "running")
        BY <1>1
      <4> HIDE DEF r
      <4> QED
        BY <3>2, <3>4, <3>6, <4>1, <4>2
    <3>7. ASSUME NEW p \in Pending', mine(p)
          PROVE  p.kind = "put" => calls'[c].state = "running"
      <4>1. p \in Pending => p.call \in On(r)
        BY <3>3, <3>7
      <4>2. p \in Pending \/ (p = q /\ k.state = "running")
        BY <1>1
      <4> HIDE DEF r
      <4> QED
        BY <3>1, <3>2, <3>4, <3>7, <4>1, <4>2
    <3>8. \A p : p.call \in On(calls[c].recipe)' <=> mine(p)
      BY DEF On
    <3>9. Ahead(c)'
      BY <3>5, <3>8 DEF Ahead
    <3>10. calls'[c].state = "ok" => stored'[calls'[c].recipe] = Nothing
      BY <1>2, <3>1, <3>2
    <3> QED
      BY <3>6, <3>7, <3>8, <3>9, <3>10
  <2>2. CASE c = Id
    <3>1. r = k.recipe /\ k.tool \in Removals /\ k.reading = {} /\ k.state = "running"
      BY <1>1, <1>2, <1>5, <2>0, <2>2 DEF Removals
    <3>2. q.kind = "delete"
      BY <1>2, <3>1 DEF MakesFirst, Makes, Removals
    <3>3. ASSUME NEW p \in Pending', mine(p) PROVE p.kind # "get"
      <4>1. CASE p = q
        BY <3>2, <4>1
      <4>2. CASE p \in Pending /\ p.kind = "get"
        <5>1. p.call \in DOMAIN calls /\ calls[p.call].recipe = r
          BY <1>1, <1>3, <3>3, <4>2
        <5>2. PICK i \in DOMAIN requests : p = requests[i]
          BY <4>2 DEF Pending
        <5>3. p.call \in Reading \cap On(k.recipe)
          BY <3>1, <4>2, <5>1, <5>2 DEF Reading, On
        <5> QED
          BY <1>2, <3>1, <5>3
      <4> QED
        BY <1>1, <4>1, <4>2
    <3>4. ASSUME NEW i \in DOMAIN requests', NEW j \in DOMAIN requests',
                 requests'[i].kind = "put", requests'[j].call = c
          PROVE  i < j
      <4>1. i \in DOMAIN requests
        BY <1>4, <3>2, <3>4
      <4>2. CASE j \in DOMAIN requests /\ requests'[j] = requests[j]
        <5>1. Id \in DOMAIN calls \/ Id = 0
          BY <1>3, <2>2, <3>4, <4>2
        <5> QED
          BY <1>1, <5>1
      <4> QED
        BY <1>4, <4>1, <4>2
    <3> QED
      BY <1>1, <2>2, <3>1, <3>3, <3>4 DEF On, Ahead
  <2> QED
    BY <1>1, <2>1, <2>2
<1> QED
  BY <1>5 DEF FreedInv, Freed, On

(* A call that goes on brings no deleted recipe back.                      *)
LEMMA GoesKeepsFreed ==
  ASSUME WellFormed, FreedInv, NEW d, NEW k, NEW t,
         Reads(d, k, t) \/ Writes(d, k, t) \/ Fails(d, k, t) \/ Deletes(d, k, t)
  PROVE  FreedInv'
<1> DEFINE h == Head(requests)
<1>1. /\ Goes(d, k, t) /\ d \in DOMAIN calls /\ calls[d].state = "running" /\ IsCall(calls[d])
      /\ Makes(h.kind, k.tool) /\ k.recipe \in Recipes
      /\ DOMAIN calls' = DOMAIN calls /\ calls'[d] = k
      /\ \A c \in DOMAIN calls : c # d => calls'[c] = calls[c]
      /\ \A c \in DOMAIN calls : Becomes(calls[c], calls'[c])
      /\ h \in Pending /\ h.call = d
  BY GoesFacts DEF Reads, Writes, Fails, Deletes
<1>2. /\ \A p \in Pending' : \/ p \in Pending /\ p.call # d
                             \/ k.state = "running" /\ p = t[1] /\ p.call = d /\ p.kind = "put"
                             \/ p.kind = "load" /\ p.call = 0
      /\ \A p \in Pending : /\ p.call # d /\ MakesFirst(h.kind, k.tool)
                            /\ p.kind # "load" /\ MakesFirst(p.kind, calls[p.call].tool)
                            => d < p.call
      /\ \A r \in Recipes : r # k.recipe => drafts'[r] = drafts[r] /\ stored'[r] = stored[r]
  BY <1>1, GoesFacts
<1>3. /\ \A p \in Pending : p.kind # "load" => Makes(p.kind, calls[p.call].tool)
      /\ \A c \in DOMAIN calls : calls[c].state = "running" =>
           \E p \in Pending : p.call = c /\ p.kind # "load"
      /\ \A c \in DOMAIN calls : c \in Nat /\ c # 0 /\ IsCall(calls[c])
  <2>1. \A c \in DOMAIN calls : IsCall(calls[c])
    BY DEF WellFormed
  <2> QED
    BY <2>1, PendingFacts
<1>p. /\ 1 \in DOMAIN requests /\ h = requests[1] /\ DOMAIN requests \subseteq Nat \ {0}
      /\ DOMAIN requests' \subseteq Nat \ {0}
      /\ \A i \in DOMAIN requests' : \/ i + 1 \in DOMAIN requests /\ requests'[i] = requests[i + 1]
                                     \/ \E m \in DOMAIN t : requests'[i] = t[m]
      /\ \A m \in DOMAIN t : t[m].call = d \/ t[m].call = 0
      /\ \A m \in DOMAIN t : t[m].kind = "put" => k.state = "running" /\ t[m].call = d
  <2>1. Follows(requests, t, requests')
    BY <1>1, Answered DEF WellFormed, Goes
  <2>2. /\ \A m \in DOMAIN t : t[m].call = d \/ t[m].call = 0
        /\ \A m \in DOMAIN t : t[m].kind = "put" => k.state = "running" /\ t[m].call = d
    BY <1>1 DEF Goes
  <2> QED
    BY <2>1, <2>2 DEF Follows
<1> HIDE DEF h
<1>4. \A c \in DOMAIN calls : /\ calls'[c].tool = calls[c].tool /\ calls'[c].recipe = calls[c].recipe
                              /\ calls'[c].reading = calls[c].reading
  BY <1>1 DEF Becomes
<1>5. ASSUME NEW c \in DOMAIN calls', Deserted(c)', calls'[c].state \in {"running", "ok"}
      PROVE  /\ \A p \in Pending' : p.call \in On(calls[c].recipe)' /\ p.kind = "get" => p.call > c
             /\ \A p \in Pending' : p.call \in On(calls[c].recipe)' /\ p.kind = "put" => calls'[c].state = "running"
             /\ Ahead(c)'
             /\ calls'[c].state = "ok" => stored'[calls'[c].recipe] = Nothing
  <2> DEFINE r == calls[c].recipe
  <2>0. /\ c \in DOMAIN calls /\ c \in Nat /\ d \in Nat /\ r \in Recipes /\ r = calls'[c].recipe
        /\ k.tool = calls[d].tool /\ k.recipe = calls[d].recipe
    BY <1>1, <1>3, <1>4, <1>5 DEF IsCall
  <2>1. Deserted(c) /\ calls[c].tool \in Removals /\ calls[c].state \in {"running", "ok"}
    BY <1>1, <1>4, <1>5, <2>0 DEF Deserted, On
  <2>2. /\ \A p \in Pending : p.call \in DOMAIN calls /\ calls[p.call].recipe = r /\ p.kind = "get" => p.call > c
        /\ \A p \in Pending : p.call \in DOMAIN calls /\ calls[p.call].recipe = r /\ p.kind = "put"
                                => calls[c].state = "running"
        /\ \A i, j \in DOMAIN requests :
             /\ requests[i].kind = "put" /\ requests[i].call \in DOMAIN calls
             /\ calls[requests[i].call].recipe = r /\ requests[j].call = c
             => i < j
        /\ calls[c].state = "ok" => stored[r] = Nothing
    BY <2>0, <2>1 DEF FreedInv, Freed, Ahead, On
  (* A call on the recipe goes on to write only if it found the recipe. *)
  <2>3. ASSUME k.recipe = r, k.state = "running" PROVE FALSE
    <3>1. /\ h.kind = "get"
          /\ SetReads(k, t) \/ SaveReads(k, t) \/ PhotoReads(k, t) \/ EditReads(d, k, t)
      BY <2>3 DEF Reads, Writes, Fails, Deletes, h
    <3>2. d > c
      BY <1>1, <2>0, <2>2, <2>3, <3>1
    <3>3. k.tool \in {"set", "edit"}
      <4>1. d \in On(r)
        BY <1>1, <2>0, <2>3 DEF On
      <4>2. calls[d].tool \in {"set", "edit", "delete", "discard", "load"}
        BY <2>1, <3>2, <4>1 DEF Deserted
      <4> QED
        BY <1>1, <2>0, <3>1, <4>2 DEF Makes, Removals
    <3>4. stored[r] # Nothing
      BY <2>3, <3>1, <3>3 DEF SetReads, SaveReads, PhotoReads, EditReads
    <3>5. calls[c].state = "running"
      BY <2>1, <2>2, <3>4
    <3>6. PICK p \in Pending : p.call = c /\ p.kind # "load"
      BY <1>3, <2>0, <3>5
    <3>7. MakesFirst(p.kind, calls[p.call].tool) /\ MakesFirst(h.kind, k.tool)
      BY <1>1, <1>3, <2>1, <3>1, <3>6 DEF MakesFirst, Makes, Removals
    <3>8. d < c
      BY <1>2, <2>0, <3>2, <3>6, <3>7
    <3> QED
      BY <2>0, <3>2, <3>8
  (* The deletion is answered when no write of the recipe is before it.  *)
  <2>4. ASSUME NEW p \in Pending, p.call \in DOMAIN calls, calls[p.call].recipe = r, p.kind = "put"
        PROVE  c # d
    <3>1. PICK i \in DOMAIN requests : p = requests[i]
      BY DEF Pending
    <3>2. requests[1].call = c => i < 1
      BY <1>p, <2>2, <2>4, <3>1
    <3> QED
      BY <1>1, <1>p, <3>1, <3>2
  <2>5. ASSUME NEW p \in Pending', p.call \in DOMAIN calls, calls'[p.call].recipe = r, p.kind \in {"get", "put"}
        PROVE  p \in Pending /\ calls[p.call].recipe = r
    <3>1. CASE p.call = d /\ k.state = "running"
      BY <1>1, <2>3, <2>5, <3>1
    <3> QED
      BY <1>2, <1>4, <2>5, <3>1
  <2>6. \A p \in Pending' : p.call \in DOMAIN calls /\ calls'[p.call].recipe = r /\ p.kind = "get" => p.call > c
    BY <2>2, <2>5
  <2>7. \A p \in Pending' : p.call \in DOMAIN calls /\ calls'[p.call].recipe = r /\ p.kind = "put"
                              => calls'[c].state = "running"
    BY <1>1, <2>0, <2>2, <2>4, <2>5
  <2>8. ASSUME NEW i \in DOMAIN requests', NEW j \in DOMAIN requests',
               requests'[i].kind = "put", requests'[i].call \in DOMAIN calls,
               calls'[requests'[i].call].recipe = r, requests'[j].call = c
        PROVE  i < j
    <3>0. i \in Nat /\ j \in Nat
      BY <1>p
    <3>1. i + 1 \in DOMAIN requests /\ requests'[i] = requests[i + 1]
      BY <1>1, <1>p, <2>3, <2>8
    <3>2. calls[requests[i + 1].call].recipe = r /\ requests[i + 1] \in Pending
      BY <1>4, <2>8, <3>1 DEF Pending
    <3>3. c # d
      BY <2>4, <2>8, <3>1, <3>2
    <3>4. j + 1 \in DOMAIN requests /\ requests'[j] = requests[j + 1]
      BY <1>3, <1>p, <2>0, <2>8, <3>3
    <3>5. i + 1 < j + 1
      BY <2>2, <2>8, <3>1, <3>2, <3>4
    <3> QED
      BY <3>0, <3>5
  <2>9. ASSUME calls'[c].state = "ok" PROVE stored'[r] = Nothing
    <3>1. CASE k.recipe # r
      <4>1. c # d
        BY <2>0, <3>1
      <4> QED
        BY <1>1, <1>2, <2>0, <2>2, <2>9, <3>1, <4>1
    <3>2. CASE k.recipe = r
      <4>1. h.kind # "put"
        <5>1. ASSUME h.kind = "put" PROVE FALSE
          <6>1. calls[c].state = "running" /\ c # d
            BY <1>1, <2>0, <2>2, <2>4, <3>2, <5>1
          <6> QED
            BY <1>1, <2>0, <2>9, <6>1
        <5> QED
          BY <5>1
      <4>2. CASE h.kind = "get"
        <5>1. stored' = stored /\ c # d
          BY <1>1, <2>0, <2>1, <4>2 DEF Reads, Writes, Fails, Deletes, h, Makes, Removals
        <5> QED
          BY <1>1, <2>0, <2>2, <2>9, <5>1
      <4>3. CASE h.kind = "delete" /\ Fails(d, k, t)
        <5>1. stored' = stored /\ c # d
          BY <1>1, <2>9, <4>3 DEF Fails
        <5> QED
          BY <1>1, <2>0, <2>2, <2>9, <5>1
      <4>4. CASE h.kind = "delete" /\ ~Fails(d, k, t)
        BY <3>2, <4>4 DEF Reads, Writes, Deletes, h
      <4> QED
        BY <1>1, <4>1, <4>2, <4>3, <4>4 DEF Makes
    <3> QED
      BY <3>1, <3>2
  <2> QED
    BY <1>1, <2>0, <2>6, <2>7, <2>8, <2>9 DEF On, Ahead
<1> QED
  BY <1>5 DEF FreedInv, Freed, On

(* A reload changes neither the calls nor what is stored, and what is      *)
(* pending then was pending before.                                        *)
LEMMA ReloadsFacts ==
  ASSUME WellFormed, Reloads
  PROVE  /\ \A p \in Pending' : p \in Pending
         /\ \A p \in Pending : p.kind # "load" => p \in Pending'
         /\ \A i \in DOMAIN requests' : i \in Nat /\ i + 1 \in DOMAIN requests /\ requests'[i] = requests[i + 1]
<1>1. /\ IsSequence(requests) /\ requests # <<>> /\ requests' = Tail(requests)
      /\ Head(requests).kind = "load"
  BY DEF WellFormed, Reloads
<1>2. /\ 1 \in DOMAIN requests /\ Head(requests) = requests[1]
      /\ \A i \in DOMAIN requests' : i \in Nat /\ i + 1 \in DOMAIN requests /\ requests'[i] = requests[i + 1]
      /\ \A i \in DOMAIN requests : i # 1 => i - 1 \in DOMAIN requests' /\ requests'[i - 1] = requests[i]
  BY <1>1, Shortened
<1>3. ASSUME NEW p \in Pending' PROVE p \in Pending
  <2>1. PICK i \in DOMAIN requests' : p = requests'[i]
    BY DEF Pending
  <2> QED
    BY <1>2, <2>1 DEF Pending
<1>4. ASSUME NEW p \in Pending, p.kind # "load" PROVE p \in Pending'
  <2>1. PICK i \in DOMAIN requests : p = requests[i]
    BY DEF Pending
  <2>2. i # 1
    BY <1>1, <1>2, <1>4, <2>1
  <2>3. i - 1 \in DOMAIN requests' /\ requests'[i - 1] = p
    BY <1>2, <2>1, <2>2
  <2> QED
    BY <2>3 DEF Pending
<1> QED
  BY <1>2, <1>3, <1>4

(* No step brings a deleted recipe back.                                   *)
LEMMA StepKeepsFreed == WellFormed /\ FreedInv /\ [Next]_vars => FreedInv'
<1> SUFFICES ASSUME WellFormed, FreedInv, [Next]_vars PROVE FreedInv'
  OBVIOUS
<1>1. ASSUME NEW k, NEW q, Begins(k, q) PROVE FreedInv'
  BY <1>1, BeginsKeepsFreed
<1>2. CASE Reloads
  <2>1. /\ UNCHANGED <<stored, calls>> /\ \A p \in Pending' : p \in Pending
        /\ \A i \in DOMAIN requests' : i \in Nat /\ i + 1 \in DOMAIN requests /\ requests'[i] = requests[i + 1]
    BY <1>2, ReloadsFacts DEF Reloads
  <2>2. ASSUME NEW c \in DOMAIN calls, Ahead(c) PROVE Ahead(c)'
    <3> SUFFICES ASSUME NEW i \in DOMAIN requests', NEW j \in DOMAIN requests',
                        requests'[i].kind = "put", requests'[i].call \in On(calls[c].recipe), requests'[j].call = c
                 PROVE  i < j
      BY <2>1 DEF Ahead, On
    <3>1. i + 1 < j + 1
      BY <2>1, <2>2 DEF Ahead
    <3> QED
      BY <2>1, <3>1
  <2> QED
    BY <2>1, <2>2 DEF FreedInv, Freed, Deserted, On
<1>3. ASSUME NEW c, NEW k, NEW t,
             Reads(c, k, t) \/ Writes(c, k, t) \/ Fails(c, k, t) \/ Deletes(c, k, t)
      PROVE  FreedInv'
  BY <1>3, GoesKeepsFreed
<1>4. CASE UNCHANGED <<drafts, stored, calls, requests, list, selected>>
  BY <1>4 DEF FreedInv, Freed, Deserted, On, Pending, Ahead
<1> QED
  BY <1>1, <1>2, <1>3, <1>4, Steps

(* A recipe on which only setters are called after its deletion began, and *)
(* which no call had still to read then, stays deleted                     *)
(* (useRecipeTools.ts:160, 171, 230, 306, 345).                            *)
THEOREM DeletedStaysDeleted == Spec => []SettersNeverResurrect
<1>1. Init => WellFormed /\ FreedInv
  <2>1. Init => DOMAIN calls = {}
    BY ShortSequences DEF Init
  <2> QED
    BY <2>1, InitWellFormed DEF FreedInv
<1>2. WellFormed /\ FreedInv /\ [Next]_vars => (WellFormed /\ FreedInv)'
  BY StepKeepsWellFormed, StepKeepsFreed
<1>3. WellFormed /\ FreedInv => SettersNeverResurrect
  BY DEF FreedInv, Freed, Deserted, Removals, SettersNeverResurrect, SettersOnlyAfter, Present
<1> QED
  BY <1>1, <1>2, <1>3, PTL DEF Spec

-----------------------------------------------------------------------------
(***************************************************************************)
(* The screen.  A create that is pending writes after those that are       *)
(* answered, so the selection is that of the last one.                     *)
(***************************************************************************)
Latest(c) ==
  \A d \in DOMAIN calls : d > c => calls[d].tool \notin {"create", "load", "click", "delete", "discard"}
Created(c) ==
  calls[c].tool = "create" =>
    /\ \A d \in On(calls[c].recipe) : d >= c
    /\ calls[c].state = "ok" /\ Latest(c) =>
         /\ selected = calls[c].recipe /\ stored[calls[c].recipe] # Nothing
         /\ \A p \in Pending : p.kind # "load" /\ calls[p.call].tool = "create" => p.call > c
Listed == (\A p \in Pending : p.kind # "load") => list = Present
ScreenInv == Listed /\ \A c \in DOMAIN calls : Created(c)

(* The screen when a call begins.                                          *)
LEMMA BeginsKeepsScreen ==
  ASSUME WellFormed, ScreenInv, NEW k, NEW q, Begins(k, q)
  PROVE  ScreenInv'
<1>1. /\ DOMAIN calls' = DOMAIN calls \cup {Id} /\ calls'[Id] = k /\ Id \in Nat /\ Id # 0
      /\ \A c \in DOMAIN calls : calls'[c] = calls[c] /\ c \in Nat /\ c < Id
      /\ k.state = "running" => q.call = Id
      /\ \A p \in Pending' : p \in Pending \/ (p = q /\ k.state = "running")
      /\ \A p \in Pending : p \in Pending'
  BY BeginsFacts
<1>2. /\ stored' = stored /\ list' = list
      /\ selected' = selected \/ k.tool \in {"load", "click"}
      /\ k.state = "ok" => k.tool \in {"load", "click"}
      /\ k.tool = "create" => On(k.recipe) = {}
  BY DEF Begins
<1>3. \A p \in Pending : p.kind # "load" => p.call \in DOMAIN calls
  BY PendingFacts
<1>4. Listed'
  BY <1>1, <1>2 DEF ScreenInv, Listed, Present
<1>5. ASSUME NEW c \in DOMAIN calls', calls'[c].tool = "create"
      PROVE  /\ \A d \in DOMAIN calls' : calls'[d].recipe = calls'[c].recipe => d >= c
             /\ calls'[c].state = "ok" /\ Latest(c)' =>
                  /\ selected' = calls'[c].recipe /\ stored'[calls'[c].recipe] # Nothing
                  /\ \A p \in Pending' : p.kind # "load" /\ calls'[p.call].tool = "create" => p.call > c
  <2>1. CASE c \in DOMAIN calls
    <3>1. Created(c) /\ calls'[c] = calls[c] /\ c < Id /\ c \in Nat
      BY <1>1, <2>1 DEF ScreenInv
    <3>2. \A d \in DOMAIN calls' : calls'[d].recipe = calls'[c].recipe => d >= c
      BY <1>1, <1>5, <3>1 DEF Created, On
    <3>3. ASSUME calls'[c].state = "ok", Latest(c)'
          PROVE  /\ selected' = calls'[c].recipe /\ stored'[calls'[c].recipe] # Nothing
                 /\ \A p \in Pending' : p.kind # "load" /\ calls'[p.call].tool = "create" => p.call > c
      <4>1. \A d \in DOMAIN calls' :
              d > c => calls'[d].tool \notin {"create", "load", "click", "delete", "discard"}
        BY <3>3 DEF Latest
      <4>2. k.tool \notin {"load", "click"}
        BY <1>1, <3>1, <4>1
      <4>3. Latest(c)
        BY <1>1, <4>1 DEF Latest
      <4>4. /\ selected = calls[c].recipe /\ stored[calls[c].recipe] # Nothing
            /\ \A p \in Pending : p.kind # "load" /\ calls[p.call].tool = "create" => p.call > c
        BY <1>5, <3>1, <3>3, <4>3 DEF Created
      <4> QED
        BY <1>1, <1>2, <1>3, <3>1, <4>2, <4>4
    <3> QED
      BY <3>2, <3>3
  <2>2. CASE c = Id
    BY <1>1, <1>2, <1>5, <2>2 DEF On
  <2> QED
    BY <1>1, <2>1, <2>2
<1> QED
  BY <1>4, <1>5 DEF ScreenInv, Created, On

(* The screen when a call goes on.                                         *)
LEMMA GoesKeepsScreen ==
  ASSUME WellFormed, ScreenInv, NEW d, NEW k, NEW t,
         Reads(d, k, t) \/ Writes(d, k, t) \/ Fails(d, k, t) \/ Deletes(d, k, t)
  PROVE  ScreenInv'
<1> DEFINE h == Head(requests)
<1>1. /\ Goes(d, k, t) /\ d \in DOMAIN calls /\ calls[d].state = "running"
      /\ Makes(h.kind, k.tool)
      /\ DOMAIN calls' = DOMAIN calls /\ calls'[d] = k
      /\ \A c \in DOMAIN calls : c # d => calls'[c] = calls[c]
      /\ \A c \in DOMAIN calls : Becomes(calls[c], calls'[c])
      /\ h \in Pending /\ h.call = d /\ h.kind # "load"
  BY GoesFacts DEF Reads, Writes, Fails, Deletes, Goes
<1>2. /\ \A p \in Pending' : \/ p \in Pending /\ p.call # d
                             \/ k.state = "running" /\ p = t[1] /\ p.call = d /\ p.kind = "put"
                             \/ p.kind = "load" /\ p.call = 0
      /\ \A p \in Pending : p.kind = "load" => p \in Pending'
      /\ \A j \in DOMAIN t : t[j] \in Pending'
      /\ \A p \in Pending : /\ p.call # d /\ MakesFirst(h.kind, k.tool)
                            /\ p.kind # "load" /\ MakesFirst(p.kind, calls[p.call].tool)
                            => d < p.call
      /\ \A r \in Recipes : r # k.recipe => stored'[r] = stored[r]
  BY <1>1, GoesFacts
<1>3. /\ \A p \in Pending : p.kind # "load" => /\ p.call \in DOMAIN calls /\ Makes(p.kind, calls[p.call].tool)
                                               /\ p.kind = "put" => "name" \in DOMAIN p.value
      /\ \A c \in DOMAIN calls : c \in Nat /\ c # 0
  BY PendingFacts
<1>4. /\ \A c \in DOMAIN calls : /\ calls'[c].tool = calls[c].tool /\ calls'[c].recipe = calls[c].recipe
                                 /\ calls[c].recipe \in Recipes
      /\ k.state = "running" => k.tool # "create"
      /\ list' = list /\ (stored' = stored \/ \E j \in DOMAIN t : t[j].kind = "load")
      /\ "name" \notin DOMAIN Nothing
  <2>1. "name" \notin DOMAIN Nothing
    BY BlankFacts, RecipeAssumption
  <2> QED
    BY <1>1, <2>1 DEF Becomes, Goes, WellFormed, IsCall
<1>5. Listed'
  BY <1>2, <1>4 DEF ScreenInv, Listed, Present
<1>6. ASSUME h.kind = "put", h.kind # "get" PROVE k.state # "running"
  BY <1>6 DEF Reads, Writes, Fails, Deletes, h
<1>7. ASSUME NEW c \in DOMAIN calls, calls[c].tool = "create", calls'[c].state = "ok", Latest(c)'
      PROVE  /\ selected' = calls[c].recipe /\ stored'[calls[c].recipe] # Nothing
             /\ \A p \in Pending' : p.kind # "load" /\ calls[p.call].tool = "create" => p.call > c
  <2>1. Latest(c) /\ Created(c) /\ c \in Nat /\ d \in Nat
    BY <1>1, <1>3, <1>4, <1>7 DEF Latest, ScreenInv
  <2>2. CASE c = d
    <3>1. h.kind = "put" /\ k.tool = "create" /\ k.state = "ok" /\ k.recipe = calls[c].recipe
      BY <1>1, <1>4, <1>7, <2>2 DEF Makes, Removals
    <3>2. Writes(d, k, t)
      BY <3>1 DEF Reads, Writes, Fails, Deletes, h
    <3>3. selected' = calls[c].recipe /\ stored'[calls[c].recipe] # Nothing
      BY <1>1, <1>3, <1>4, <3>1, <3>2 DEF Writes, h
    <3>4. ASSUME NEW p \in Pending', p.kind # "load", calls[p.call].tool = "create" PROVE p.call > c
      <4>1. p \in Pending /\ p.call # d
        BY <1>2, <3>1, <3>4
      <4>2. MakesFirst(p.kind, calls[p.call].tool) /\ MakesFirst(h.kind, k.tool)
        BY <1>3, <3>1, <3>4, <4>1 DEF MakesFirst, Makes
      <4> QED
        BY <1>2, <1>3, <2>1, <2>2, <3>4, <4>1, <4>2
    <3> QED
      BY <3>3, <3>4
  <2>3. CASE c # d
    <3>1. /\ selected = calls[c].recipe /\ stored[calls[c].recipe] # Nothing
          /\ \A p \in Pending : p.kind # "load" /\ calls[p.call].tool = "create" => p.call > c
      BY <1>1, <1>7, <2>1, <2>3 DEF Created
    <3>2. k.tool = calls[d].tool /\ k.recipe = calls[d].recipe
      BY <1>1, <1>4
    <3>3. k.tool # "create"
      <4>1. k.tool = "create" => d > c
        BY <1>1, <3>1, <3>2
      <4> QED
        BY <1>1, <2>1, <3>2, <4>1 DEF Latest
    <3>4. selected' = selected
      BY <3>3 DEF Reads, Writes, Fails, Deletes
    <3>5. stored'[calls[c].recipe] # Nothing
      <4>1. CASE k.recipe # calls[c].recipe
        BY <1>2, <1>4, <3>1, <4>1
      <4>2. CASE k.recipe = calls[c].recipe
        <5>0. d \in On(calls[c].recipe)
          BY <1>1, <3>2, <4>2 DEF On
        <5>1. d > c
          BY <1>7, <2>1, <2>3, <5>0 DEF Created
        <5>2. k.tool \notin Removals
          BY <1>1, <2>1, <3>2, <5>1 DEF Latest, Removals
        <5>3. h.kind # "delete"
          BY <1>1, <5>2 DEF Makes
        <5>4. CASE Writes(d, k, t)
          BY <1>1, <1>3, <1>4, <4>2, <5>4 DEF Writes, h
        <5>5. CASE Reads(d, k, t) \/ Fails(d, k, t)
          BY <3>1, <5>5 DEF Reads, Fails
        <5> QED
          BY <5>3, <5>4, <5>5 DEF Deletes, h
      <4> QED
        BY <4>1, <4>2
    <3>6. \A p \in Pending' : p.kind # "load" /\ calls[p.call].tool = "create" => p.call > c
      BY <1>1, <1>2, <3>1, <3>2, <3>3
    <3> QED
      BY <3>1, <3>4, <3>5, <3>6
  <2> QED
    BY <2>2, <2>3
<1>8. \A c \in DOMAIN calls : calls[c].tool = "create" =>
        \A e \in DOMAIN calls : calls[e].recipe = calls[c].recipe => e >= c
  BY DEF ScreenInv, Created, On
<1>9. ASSUME NEW c \in DOMAIN calls' PROVE Created(c)'
  <2>1. c \in DOMAIN calls
    BY <1>1, <1>9
  <2>2. \A p \in Pending' : p.kind # "load" => p.call \in DOMAIN calls
    BY <1>1, <1>2, <1>3
  <2> QED
    BY <1>1, <1>4, <1>7, <1>8, <2>1, <2>2 DEF Created, On
<1> QED
  BY <1>5, <1>9 DEF ScreenInv

(* The list follows the store, and the selection the recipe created last.  *)
LEMMA StepKeepsScreen == WellFormed /\ ScreenInv /\ [Next]_vars => ScreenInv'
<1> SUFFICES ASSUME WellFormed, ScreenInv, [Next]_vars PROVE ScreenInv'
  OBVIOUS
<1>1. ASSUME NEW k, NEW q, Begins(k, q) PROVE ScreenInv'
  BY <1>1, BeginsKeepsScreen
<1>2. CASE Reloads
  <2>1. /\ UNCHANGED <<stored, calls>> /\ list' = Present /\ \A p \in Pending' : p \in Pending
        /\ selected \in Present => selected' = selected
    BY <1>2, ReloadsFacts DEF Reloads
  <2>2. \A c \in DOMAIN calls : calls[c].recipe \in Recipes
    BY DEF WellFormed, IsCall
  <2>3. Listed'
    BY <2>1 DEF Listed, Present
  <2> QED
    BY <2>1, <2>2, <2>3 DEF ScreenInv, Created, Latest, On, Present
<1>3. ASSUME NEW c, NEW k, NEW t,
             Reads(c, k, t) \/ Writes(c, k, t) \/ Fails(c, k, t) \/ Deletes(c, k, t)
      PROVE  ScreenInv'
  BY <1>3, GoesKeepsScreen
<1>4. CASE UNCHANGED <<drafts, stored, calls, requests, list, selected>>
  BY <1>4 DEF ScreenInv, Listed, Created, Latest, On, Pending, Present
<1> QED
  BY <1>1, <1>2, <1>3, <1>4, Steps

(* When no reload is outstanding the screen lists what is stored, and a    *)
(* recipe the agent created stays selected until something else is chosen  *)
(* or deleted (db/recipes.ts:60, RecipeContext.tsx:52,                     *)
(* useRecipeTools.ts:148).                                                 *)
THEOREM ScreenShowsStorage == Spec => []ScreenFollowsStorage
<1>1. Init => WellFormed /\ ScreenInv
  <2> SUFFICES ASSUME Init PROVE ScreenInv
    BY InitWellFormed
  <2> DEFINE q == [kind |-> "load", call |-> 0, value |-> Nothing]
  <2>1. DOMAIN calls = {} /\ DOMAIN requests = {1} /\ requests[1] = q
    BY ShortSequences DEF Init
  <2>2. q \in Pending /\ q.kind = "load"
    BY <2>1 DEF Pending
  <2> QED
    BY <2>1, <2>2 DEF ScreenInv, Listed
<1>2. WellFormed /\ ScreenInv /\ [Next]_vars => (WellFormed /\ ScreenInv)'
  BY StepKeepsWellFormed, StepKeepsScreen
<1>3. WellFormed /\ ScreenInv => ScreenFollowsStorage
  BY DEF ScreenInv, Listed, Created, Latest, Pending, ScreenFollowsStorage
<1> QED
  BY <1>1, <1>2, <1>3, PTL DEF Spec

-----------------------------------------------------------------------------
(***************************************************************************)
(* Edits.  A call is solo when none ran beside it and no later one undoes  *)
(* its edit.  While it runs nobody else touches its recipe; from then on   *)
(* every call on the recipe carries its edit along: in the draft it has    *)
(* seen, or in the recipe it finds, or in what it is about to write.       *)
(***************************************************************************)
Solo(cs, c) ==
  /\ cs[c].field # None /\ cs[c].behind = {} /\ \A d \in DOMAIN cs : c \notin cs[d].behind
  /\ \A d \in DOMAIN cs : cs[d].recipe = cs[c].recipe /\ d > c =>
       /\ cs[d].tool \notin Removals
       /\ cs[d].field = cs[c].field => WillRefuse(cs[d])

Carries(cs, p, old, f, x) ==
  /\ p.kind # "delete"
  /\ p.kind = "get" /\ cs[p.call].tool # "photo" => Shows(Over(cs[p.call].seen, old), f, x)
  /\ p.kind = "put" => Shows(p.value, f, x)
Confirmed(cs, ps, draft, old, c) ==
  /\ Shows(Over(draft, old), cs[c].field, cs[c].value)
  /\ \A p \in ps : p.kind # "load" /\ cs[p.call].recipe = cs[c].recipe =>
       p.call > c /\ Carries(cs, p, old, cs[c].field, cs[c].value)
Underway(cs, ps, draft, c) ==
  /\ \A p \in ps : p.kind = "put" /\ p.call = c =>
       /\ Shows(p.value, cs[c].field, cs[c].value)
       /\ cs[c].tool # "photo" => Shows(draft, cs[c].field, cs[c].value)
  /\ cs[c].tool = "set" => /\ Shows(draft, cs[c].field, cs[c].value)
                           /\ Shows(cs[c].seen, cs[c].field, cs[c].value)
Held(cs, ps, dr, st, c) ==
  Solo(cs, c) =>
    /\ cs[c].state = "ok" => Confirmed(cs, ps, dr[cs[c].recipe], st[cs[c].recipe], c)
    /\ cs[c].state = "running" => Underway(cs, ps, dr[cs[c].recipe], c)
HeldInv == \A c \in DOMAIN calls : Held(calls, Pending, drafts, stored, c)

(* A field of a spread comes from the new object if that has it.           *)
LEMMA ShowsOver ==
  ASSUME NEW a, NEW b, NEW f, NEW x
  PROVE  /\ Shows(Over(a, b), f, x) <=> IF f \in DOMAIN a THEN a[f] = x ELSE Shows(b, f, x)
         /\ \A g, y : Shows(Over(Field(g, y), b), f, x) <=> IF f = g THEN x = y ELSE Shows(b, f, x)
<1>1. Shows(Over(a, b), f, x) <=> IF f \in DOMAIN a THEN a[f] = x ELSE Shows(b, f, x)
  BY DEF Shows, Over
<1>2. ASSUME NEW g, NEW y
      PROVE  Shows(Over(Field(g, y), b), f, x) <=> IF f = g THEN x = y ELSE Shows(b, f, x)
  BY DEF Shows, Over, Field
<1> QED
  BY <1>1, <1>2

(* Objects that show a field however they are combined. *)
LEMMA ShowsMore ==
  ASSUME NEW a, NEW b, NEW f, NEW x
  PROVE  /\ Shows(a, f, x) => Shows(Over(a, b), f, x)
         /\ Shows(Over(a, b), f, x) => Shows(Over(a, Base(b)), f, x)
         /\ Shows(b, f, x) => Shows(Over(Nothing, b), f, x)
         /\ \A e : Shows(Over(a, b), f, x) /\ Shows(e, f, x) => Shows(Over(a, e), f, x)
         /\ \A g, y : Shows(Over(a, b), f, x) /\ g # f
              => Shows(Over(Over(Field(g, y), a), b), f, x)
<1>1. f \notin DOMAIN Nothing
  BY BlankFacts, RecipeAssumption
<1>2. Shows(a, f, x) => Shows(Over(a, b), f, x)
  BY DEF Shows, Over
<1>3. Shows(Over(a, b), f, x) => Shows(Over(a, Base(b)), f, x)
  BY <1>1 DEF Shows, Over, Base
<1>4. Shows(b, f, x) => Shows(Over(Nothing, b), f, x)
  BY <1>1 DEF Shows, Over
<1>5. \A e : Shows(Over(a, b), f, x) /\ Shows(e, f, x) => Shows(Over(a, e), f, x)
  BY DEF Shows, Over
<1>6. \A g, y : Shows(Over(a, b), f, x) /\ g # f => Shows(Over(Over(Field(g, y), a), b), f, x)
  BY DEF Shows, Over, Field
<1> QED
  BY <1>2, <1>3, <1>4, <1>5, <1>6

(* Beside a solo call no other runs on its recipe. *)
LEMMA SoloRunsAlone ==
  ASSUME WellFormed, NEW c \in DOMAIN calls, Solo(calls, c), calls[c].state = "running",
         NEW d \in DOMAIN calls, calls[d].state = "running", calls[d].recipe = calls[c].recipe
  PROVE  d = c
<1>1. c \in Nat /\ d \in Nat
  BY PendingFacts
<1>2. ~(c < d) /\ ~(d < c)
  BY DEF WellFormed, Beside, Runs, Solo
<1> QED
  BY <1>1, <1>2

(* A call that begins beside confirmed edits carries them along.           *)
LEMMA BeginsKeepsHeld ==
  ASSUME WellFormed, HeldInv, NEW k, NEW q, Begins(k, q)
  PROVE  HeldInv'
<1>1. /\ DOMAIN calls' = DOMAIN calls \cup {Id} /\ calls'[Id] = k /\ Id \in Nat /\ Id # 0
      /\ \A c \in DOMAIN calls : calls'[c] = calls[c] /\ c \in Nat /\ c < Id
      /\ k.state = "running" => q.call = Id
      /\ \A p \in Pending' : p \in Pending \/ (p = q /\ k.state = "running")
  BY BeginsFacts
<1>2. /\ IsCall(k) /\ k.behind = Running \cap On(k.recipe) /\ stored' = stored
      /\ k.state = "running" => /\ MakesFirst(q.kind, k.tool)
                                /\ q.kind = "put" => q.value = k.seen
      /\ k.state = "ok" => k.tool \in {"load", "click"}
      /\ drafts' = [drafts EXCEPT ![k.recipe] = IF k.tool \in {"create", "set"} THEN k.seen ELSE @]
      /\ k.tool = "create" => On(k.recipe) = {} /\ Shows(k.seen, k.field, k.value)
      /\ k.tool = "set" => k.seen = Over(Field(k.field, k.value), drafts[k.recipe])
      /\ k.tool \in {"edit", "save"} => k.seen = drafts[k.recipe]
  BY DEF Begins
<1>3. /\ \A p \in Pending : p.kind # "load" => p.call \in DOMAIN calls /\ calls[p.call].state = "running"
      /\ \A p \in Pending : p.kind = "load" => p.call = 0
      /\ \A c \in DOMAIN calls : calls[c].recipe \in Recipes
      /\ drafts = [r \in Recipes |-> drafts[r]] /\ k.recipe \in Recipes
  BY <1>2, PendingFacts DEF WellFormed, IsCall
<1>4. /\ k.tool \in {"create", "set"} => drafts'[k.recipe] = k.seen
      /\ k.tool \notin {"create", "set"} => drafts'[k.recipe] = drafts[k.recipe]
      /\ \A r \in Recipes : r # k.recipe => drafts'[r] = drafts[r]
  BY <1>2, <1>3
<1>5. ASSUME NEW c \in DOMAIN calls PROVE Held(calls', Pending', drafts', stored', c)
  <2> SUFFICES ASSUME Solo(calls', c)
               PROVE  /\ calls'[c].state = "ok" =>
                           Confirmed(calls', Pending', drafts'[calls'[c].recipe], stored'[calls'[c].recipe], c)
                      /\ calls'[c].state = "running" =>
                           Underway(calls', Pending', drafts'[calls'[c].recipe], c)
    BY DEF Held
  <2> DEFINE r == calls[c].recipe
             f == calls[c].field
             x == calls[c].value
  <2>1. /\ Solo(calls, c) /\ calls'[c] = calls[c] /\ c < Id /\ c \in Nat /\ r \in Recipes
        /\ c \notin k.behind
        /\ k.recipe = r => k.tool \notin Removals /\ (k.field = f => WillRefuse(k))
    BY <1>1, <1>3 DEF Solo
  <2>2. /\ calls[c].state = "ok" => Confirmed(calls, Pending, drafts[r], stored[r], c)
        /\ calls[c].state = "running" => Underway(calls, Pending, drafts[r], c)
    BY <2>1 DEF HeldInv, Held
  <2>3. k.recipe = r => k.tool # "create"
    BY <1>2 DEF On
  <2>4. k.recipe = r /\ k.tool = "set" => k.field # f
    BY <2>1 DEF WillRefuse
  <2>5. \A p \in Pending : p.kind # "load" => calls'[p.call] = calls[p.call]
    BY <1>1, <1>3
  <2>6. ASSUME calls[c].state = "ok" PROVE Confirmed(calls', Pending', drafts'[r], stored'[r], c)
    <3>0. Shows(Over(drafts[r], stored[r]), f, x)
      BY <2>2, <2>6 DEF Confirmed
    <3>1. Shows(Over(drafts'[r], stored'[r]), f, x)
      <4>1. CASE k.recipe = r /\ k.tool = "set"
        <5>1. drafts'[r] = Over(Field(k.field, k.value), drafts[r]) /\ stored' = stored
          BY <1>2, <1>4, <4>1
        <5> HIDE DEF r, f, x
        <5>2. Shows(Over(Over(Field(k.field, k.value), drafts[r]), stored[r]), f, x)
          BY <2>4, <3>0, <4>1, ShowsMore
        <5> QED
          BY <5>1, <5>2
      <4>2. CASE ~(k.recipe = r /\ k.tool = "set")
        <5>1. drafts'[r] = drafts[r] /\ stored' = stored
          BY <1>2, <1>4, <2>1, <2>3, <4>2
        <5> QED
          BY <3>0, <5>1
      <4> QED
        BY <4>1, <4>2
    <3>2. ASSUME NEW p \in Pending', p.kind # "load", calls'[p.call].recipe = r
          PROVE  p.call > c /\ Carries(calls', p, stored'[r], f, x)
      <4>1. CASE p \in Pending
        BY <1>2, <2>2, <2>5, <2>6, <3>2, <4>1 DEF Confirmed, Carries
      <4>2. CASE p = q /\ k.state = "running"
        <5>1. p.call = Id /\ calls'[p.call] = k /\ k.recipe = r /\ Id > c
          BY <1>1, <2>1, <3>2, <4>2
        <5>2. p.kind # "put" /\ p.kind # "delete"
          BY <1>2, <2>1, <2>3, <4>2, <5>1 DEF MakesFirst, Makes
        <5>3. ASSUME p.kind = "get", k.tool # "photo" PROVE Shows(Over(k.seen, stored'[r]), f, x)
          <6>1. k.tool \in {"set", "edit", "save"}
            BY <1>2, <4>2, <5>3 DEF MakesFirst, Makes, Removals
          <6>2. k.seen = drafts'[r]
            BY <1>2, <1>4, <5>1, <6>1
          <6> QED
            BY <3>1, <6>2
        <5> QED
          BY <5>1, <5>2, <5>3 DEF Carries
      <4> QED
        BY <1>1, <3>2, <4>1, <4>2
    <3> QED
      BY <2>1, <3>1, <3>2 DEF Confirmed
  <2>7. ASSUME calls[c].state = "running" PROVE Underway(calls', Pending', drafts'[r], c)
    <3>1. k.recipe # r
      BY <1>2, <2>1, <2>7 DEF Running, On
    <3>2. drafts'[r] = drafts[r]
      BY <1>4, <2>1, <3>1
    <3>3. \A p \in Pending' : p.call = c => p \in Pending
      BY <1>1, <2>1
    <3> QED
      BY <2>1, <2>2, <2>7, <3>2, <3>3 DEF Underway
  <2> QED
    BY <2>1, <2>6, <2>7
<1>6. Held(calls', Pending', drafts', stored', Id)
  <2> SUFFICES ASSUME Solo(calls', Id)
               PROVE  k.state # "ok" /\ (k.state = "running" => Underway(calls', Pending', drafts'[k.recipe], Id))
    BY <1>1 DEF Held
  <2>1. k.state # "ok"
    BY <1>1, <1>2 DEF Solo, IsCall, Removals
  <2>2. ASSUME k.tool \in {"create", "set"}
        PROVE  Shows(drafts'[k.recipe], k.field, k.value) /\ Shows(k.seen, k.field, k.value)
    BY <1>2, <1>4, <2>2, ShowsOver
  <2>3. ASSUME k.state = "running", NEW p \in Pending', p.kind = "put", p.call = Id
        PROVE  Shows(p.value, k.field, k.value) /\ Shows(drafts'[k.recipe], k.field, k.value)
    <3>1. p = q
      BY <1>1, <1>3, <2>3
    <3>2. k.tool = "create" /\ p.value = k.seen
      BY <1>2, <2>3, <3>1 DEF MakesFirst
    <3> QED
      BY <2>2, <3>2
  <2> QED
    BY <1>1, <2>1, <2>2, <2>3 DEF Underway
<1> QED
  BY <1>1, <1>5, <1>6 DEF HeldInv

(* What a call writes carries a confirmed edit of another along.           *)
LEMMA OthersCarry ==
  ASSUME WellFormed, NEW c \in DOMAIN calls, NEW f, NEW x, NEW d, NEW k, NEW t,
         Reads(d, k, t) \/ Writes(d, k, t) \/ Fails(d, k, t),
         Shows(Over(drafts[k.recipe], stored[k.recipe]), f, x),
         Carries(calls, Head(requests), stored[k.recipe], f, x),
         k.field = f => WillRefuse(k)
  PROVE  /\ Shows(Over(drafts'[k.recipe], stored'[k.recipe]), f, x)
         /\ Head(requests).kind = "get" /\ k.state = "running" => Shows(t[1].value, f, x)
         /\ \A b : Shows(Over(b, stored[k.recipe]), f, x) => Shows(Over(b, stored'[k.recipe]), f, x)
<1> DEFINE h == Head(requests)
           r == k.recipe
<1>1. /\ k.tool = calls[d].tool /\ k.seen = calls[d].seen /\ h.call = d
  BY GoesFacts DEF Reads, Writes, Fails, Goes, Becomes
<1>2. CASE Writes(d, k, t)
  <2>1. /\ Shows(stored'[r], f, x) /\ drafts'[r] = (IF k.tool = "save" THEN Nothing ELSE drafts[r])
    BY <1>2 DEF Writes, Carries
  <2>2. \A b : Shows(Over(b, stored[r]), f, x) => Shows(Over(b, stored'[r]), f, x)
    BY <2>1, ShowsMore
  <2>3. Shows(Over(Nothing, stored'[r]), f, x)
    BY <2>1, ShowsMore
  <2> QED
    BY <1>2, <2>1, <2>2, <2>3 DEF Writes
<1>3. CASE Fails(d, k, t)
  BY <1>3 DEF Fails
<1>4. CASE Reads(d, k, t)
  <2>1. /\ h.kind = "get" /\ stored' = stored
        /\ k.tool # "photo" => Shows(Over(k.seen, stored[r]), f, x)
    BY <1>1, <1>4 DEF Reads, Carries
  <2>2. CASE SetReads(k, t)
    BY <2>1, <2>2 DEF SetReads
  <2>3. CASE SaveReads(k, t)
    <3>1. Shows(Over(k.seen, Base(stored[r])), f, x)
      BY <2>1, <2>3, ShowsMore DEF SaveReads
    <3> QED
      BY <2>1, <2>3, <3>1 DEF SaveReads
  <2>4. CASE PhotoReads(k, t)
    <3>1. f # "photo" /\ drafts' = drafts
      BY <2>4 DEF PhotoReads, WillRefuse
    <3>2. Shows(Over(drafts[r], Base(stored[r])), f, x)
      BY ShowsMore
    <3>3. Shows(Over(Field("photo", k.value), Over(drafts[r], Base(stored[r]))), f, x)
      BY <3>1, <3>2, ShowsOver
    <3> QED
      BY <2>1, <2>4, <3>1, <3>3 DEF PhotoReads
  <2>5. CASE k.state = "refused" /\ drafts' = drafts
    BY <2>1, <2>5
  <2>6. CASE EditReads(d, k, t)
    <3>1. k.field # f /\ k.tool # "photo"
      BY <2>6 DEF EditReads
    <3>2. Shows(Over(Over(Field(k.field, k.value), k.seen), stored[r]), f, x)
      BY <2>1, <3>1, ShowsMore
    <3> QED
      BY <2>1, <2>6, <3>2 DEF EditReads
  <2> QED
    BY <1>4, <2>2, <2>3, <2>4, <2>5, <2>6 DEF Reads
<1> QED
  BY <1>2, <1>3, <1>4

(* What a solo call writes shows its own edit.                             *)
LEMMA OwnEditShows ==
  ASSUME WellFormed, NEW d, NEW k, NEW t,
         Reads(d, k, t) \/ Writes(d, k, t) \/ Fails(d, k, t) \/ Deletes(d, k, t),
         calls[d].field # None, Underway(calls, Pending, drafts[k.recipe], d)
  PROVE  /\ k.state = "ok" => Shows(Over(drafts'[k.recipe], stored'[k.recipe]), k.field, k.value)
         /\ k.state = "running" =>
              /\ Shows(t[1].value, k.field, k.value)
              /\ k.tool # "photo" => Shows(drafts'[k.recipe], k.field, k.value)
              /\ k.tool = "set" => Shows(k.seen, k.field, k.value)
<1> DEFINE h == Head(requests)
           r == k.recipe
           f == k.field
           x == k.value
<1>1. /\ d \in DOMAIN calls /\ IsCall(calls[d]) /\ Makes(h.kind, k.tool) /\ h \in Pending /\ h.call = d
      /\ k.tool = calls[d].tool /\ k.field = calls[d].field /\ k.seen = calls[d].seen
      /\ k.recipe = calls[d].recipe /\ k.recipe \in Recipes
  BY GoesFacts DEF Reads, Writes, Fails, Deletes, Goes, Becomes
<1>2. k.tool \notin Removals \cup {"save"}
  BY <1>1 DEF IsCall, Removals
<1>3. CASE Writes(d, k, t)
  <2>1. /\ k.value = calls[d].value /\ h.kind = "put" /\ k.state = "ok"
        /\ stored'[r] = h.value /\ drafts'[r] = drafts[r]
    BY <1>2, <1>3 DEF Writes
  <2>2. Shows(h.value, f, x) /\ (k.tool # "photo" => Shows(drafts[r], f, x))
    BY <1>1, <2>1 DEF Underway
  <2>3. k.tool = "photo" => f \notin DOMAIN drafts[r]
    BY <1>1 DEF IsCall, Removals, WellFormed
  <2>4. Shows(Over(drafts[r], h.value), f, x)
    <3> HIDE DEF h, r, f, x
    <3>1. CASE k.tool = "photo"
      BY <2>2, <2>3, <3>1 DEF Shows, Over
    <3>2. CASE k.tool # "photo"
      BY <2>2, <3>2, ShowsMore
    <3> QED
      BY <3>1, <3>2
  <2> QED
    BY <2>1, <2>4
<1>4. CASE Fails(d, k, t)
  BY <1>4 DEF Fails
<1>5. CASE Deletes(d, k, t)
  BY <1>1, <1>2, <1>5 DEF Deletes, Makes
<1>6. CASE SetReads(k, t) /\ k.value = calls[d].value /\ stored' = stored
  <2>1. Shows(drafts[r], f, x) /\ Shows(k.seen, f, x)
    BY <1>1, <1>6 DEF Underway, SetReads
  <2>2. Shows(Over(drafts[r], stored[r]), f, x) /\ Shows(Over(k.seen, stored[r]), f, x)
    BY <2>1, ShowsMore
  <2> QED
    BY <1>6, <2>1, <2>2 DEF SetReads
<1>7. CASE SaveReads(k, t)
  BY <1>2, <1>7 DEF SaveReads
<1>8. CASE PhotoReads(k, t)
  <2>1. Shows(Over(Field(f, x), Over(drafts[r], Base(stored[r]))), f, x)
    BY ShowsOver
  <2> QED
    BY <1>8, <2>1 DEF PhotoReads
<1>9. CASE k.state = "refused"
  BY <1>9
<1>10. CASE EditReads(d, k, t)
  <2>1. Shows(drafts'[r], f, x) /\ k.tool = "edit"
    BY <1>10, ShowsOver DEF EditReads
  <2>2. Shows(Over(drafts'[r], stored[r]), f, x) /\ Shows(Over(drafts'[r], stored'[r]), f, x)
    BY <2>1, ShowsMore
  <2> QED
    BY <1>10, <2>1, <2>2 DEF EditReads
<1> QED
  BY <1>3, <1>4, <1>5, <1>6, <1>7, <1>8, <1>9, <1>10 DEF Reads

(* A call that goes on confirms its own edit or carries those of others along.*)
LEMMA GoesKeepsHeld ==
  ASSUME WellFormed, HeldInv, NEW d, NEW k, NEW t,
         Reads(d, k, t) \/ Writes(d, k, t) \/ Fails(d, k, t) \/ Deletes(d, k, t)
  PROVE  HeldInv'
<1> DEFINE h == Head(requests)
<1>1. /\ Goes(d, k, t) /\ d \in DOMAIN calls /\ calls[d].state = "running"
      /\ Makes(h.kind, k.tool)
      /\ DOMAIN calls' = DOMAIN calls /\ calls'[d] = k
      /\ \A c \in DOMAIN calls : c # d => calls'[c] = calls[c]
      /\ \A c \in DOMAIN calls : Becomes(calls[c], calls'[c])
      /\ h \in Pending /\ h.call = d /\ h.kind # "load"
  BY GoesFacts DEF Reads, Writes, Fails, Deletes, Goes
<1>2. /\ \A p \in Pending' : \/ p \in Pending /\ p.call # d
                             \/ k.state = "running" /\ p = t[1] /\ p.call = d /\ p.kind = "put"
                             \/ p.kind = "load" /\ p.call = 0
      /\ \A r \in Recipes : r # k.recipe => drafts'[r] = drafts[r] /\ stored'[r] = stored[r]
  BY <1>1, GoesFacts
<1>3. /\ \A p \in Pending : p.kind # "load" => p.call \in DOMAIN calls /\ calls[p.call].state = "running"
      /\ \A c \in DOMAIN calls : c \in Nat /\ c # 0
  BY PendingFacts
<1>4. /\ \A c \in DOMAIN calls : /\ calls'[c].tool = calls[c].tool /\ calls'[c].recipe = calls[c].recipe
                                 /\ calls'[c].field = calls[c].field /\ calls'[c].edit = calls[c].edit
                                 /\ calls'[c].behind = calls[c].behind /\ calls'[c].seen = calls[c].seen
                                 /\ calls[c].recipe \in Recipes
      /\ k.state = "running" => h.kind = "get"
  BY <1>1 DEF Becomes, WellFormed, IsCall, Reads, Writes, Fails, Deletes, h
<1> HIDE DEF h
<1>5. ASSUME NEW c \in DOMAIN calls, Solo(calls', c)
      PROVE  /\ calls'[c].state = "ok" =>
                  Confirmed(calls', Pending', drafts'[calls'[c].recipe], stored'[calls'[c].recipe], c)
             /\ calls'[c].state = "running" =>
                  Underway(calls', Pending', drafts'[calls'[c].recipe], c)
  <2> DEFINE r == calls[c].recipe
             f == calls[c].field
             x == calls[c].value
  <2>1. Solo(calls, c) /\ calls'[c].recipe = r /\ calls'[c].field = f /\ r \in Recipes
    BY <1>1, <1>4, <1>5 DEF Solo, WillRefuse
  <2>2. /\ calls[c].state = "ok" => Confirmed(calls, Pending, drafts[r], stored[r], c)
        /\ calls[c].state = "running" => Underway(calls, Pending, drafts[r], c)
    BY <2>1 DEF HeldInv, Held
  <2>3. CASE c = d
    <3>1. /\ k.recipe = r /\ k.field = f /\ k.tool = calls[c].tool /\ calls'[c] = k
      BY <1>1, <1>4, <2>1, <2>3
    <3>2. /\ k.state = "ok" => Shows(Over(drafts'[r], stored'[r]), k.field, k.value)
          /\ k.state = "running" =>
               /\ Shows(t[1].value, k.field, k.value)
               /\ k.tool # "photo" => Shows(drafts'[r], k.field, k.value)
               /\ k.tool = "set" => Shows(k.seen, k.field, k.value)
      <4>1. calls[d].field # None /\ Underway(calls, Pending, drafts[k.recipe], d)
        BY <1>1, <2>1, <2>2, <2>3, <3>1 DEF Solo
      <4> QED
        BY <3>1, <4>1, OwnEditShows
    <3>3. ASSUME k.state # "running", NEW p \in Pending', p.kind # "load", calls'[p.call].recipe = r
          PROVE  FALSE
      <4>1. p \in Pending /\ p.call # d
        BY <1>2, <3>3
      <4>2. p.call \in DOMAIN calls /\ calls[p.call].state = "running" /\ calls[p.call].recipe = r
        BY <1>3, <1>4, <3>3, <4>1
      <4>3. p.call = c
        BY <1>1, <2>1, <2>3, <4>2, SoloRunsAlone
      <4> QED
        BY <2>3, <4>1, <4>3
    <3>4. ASSUME k.state = "ok" PROVE Confirmed(calls', Pending', drafts'[r], stored'[r], c)
      BY <3>1, <3>2, <3>3, <3>4 DEF Confirmed
    <3>5. ASSUME k.state = "running" PROVE Underway(calls', Pending', drafts'[r], c)
      <4>1. \A p \in Pending' : p.call = c /\ p.kind = "put" => p = t[1]
        BY <1>2, <2>3
      <4>2. k.tool = "set" => k.tool # "photo"
        OBVIOUS
      <4> QED
        BY <3>1, <3>2, <3>5, <4>1, <4>2 DEF Underway
    <3> QED
      BY <2>1, <3>1, <3>4, <3>5
  <2>4. CASE c # d
    <3>1. calls'[c] = calls[c]
      BY <1>1, <2>4
    <3>2. ASSUME calls[c].state = "ok" PROVE Confirmed(calls', Pending', drafts'[r], stored'[r], c)
      <4>0. /\ Shows(Over(drafts[r], stored[r]), f, x)
            /\ \A p \in Pending : p.kind # "load" /\ calls[p.call].recipe = r =>
                 p.call > c /\ Carries(calls, p, stored[r], f, x)
        BY <2>2, <3>2 DEF Confirmed
      <4>1. CASE k.recipe # r
        <5>1. drafts'[r] = drafts[r] /\ stored'[r] = stored[r] /\ calls'[d].recipe # r
          BY <1>1, <1>2, <2>1, <4>1
        <5>2. ASSUME NEW p \in Pending', p.kind # "load", calls'[p.call].recipe = r
              PROVE  p.call > c /\ Carries(calls', p, stored'[r], f, x)
          <6>1. p \in Pending /\ p.call # d
            BY <1>2, <5>1, <5>2
          <6>2. calls'[p.call] = calls[p.call]
            BY <1>1, <1>3, <5>2, <6>1
          <6> QED
            BY <4>0, <5>1, <5>2, <6>1, <6>2 DEF Carries
        <5> QED
          BY <3>1, <4>0, <5>1, <5>2 DEF Confirmed
      <4>2. CASE k.recipe = r
        <5>1. /\ d > c /\ Carries(calls, h, stored[r], f, x) /\ h.kind # "delete"
          BY <1>1, <1>4, <4>0, <4>2 DEF Carries
        <5>2. k.field = f => WillRefuse(k)
          BY <1>1, <1>5, <2>1, <4>2, <5>1 DEF Solo
        <5>3. /\ Shows(Over(drafts'[r], stored'[r]), f, x)
              /\ k.state = "running" => Shows(t[1].value, f, x)
              /\ \A b : Shows(Over(b, stored[r]), f, x) => Shows(Over(b, stored'[r]), f, x)
          <6>1. Reads(d, k, t) \/ Writes(d, k, t) \/ Fails(d, k, t)
            BY <5>1 DEF Deletes, h
          <6>2. /\ Shows(Over(drafts[k.recipe], stored[k.recipe]), f, x)
                /\ Carries(calls, Head(requests), stored[k.recipe], f, x)
            BY <4>0, <4>2, <5>1 DEF h
          <6>3. /\ Shows(Over(drafts'[k.recipe], stored'[k.recipe]), f, x)
                /\ Head(requests).kind = "get" /\ k.state = "running" => Shows(t[1].value, f, x)
                /\ \A b : Shows(Over(b, stored[k.recipe]), f, x) => Shows(Over(b, stored'[k.recipe]), f, x)
            <7> HIDE DEF f, x
            <7> QED
              BY <5>2, <6>1, <6>2, OthersCarry
          <6> QED
            BY <1>4, <4>2, <6>3 DEF h
        <5>4. ASSUME NEW p \in Pending', p.kind # "load", calls'[p.call].recipe = r
              PROVE  p.call > c /\ Carries(calls', p, stored'[r], f, x)
          <6>1. CASE p \in Pending /\ p.call # d
            <7>1. calls'[p.call] = calls[p.call]
              BY <1>1, <1>3, <5>4, <6>1
            <7> QED
              BY <4>0, <5>3, <5>4, <6>1, <7>1 DEF Carries
          <6>2. CASE k.state = "running" /\ p = t[1] /\ p.call = d /\ p.kind = "put"
            BY <5>1, <5>3, <6>2 DEF Carries
          <6> QED
            BY <1>2, <5>4, <6>1, <6>2
        <5> QED
          BY <3>1, <5>3, <5>4 DEF Confirmed
      <4> QED
        BY <4>1, <4>2
    <3>3. ASSUME calls[c].state = "running" PROVE Underway(calls', Pending', drafts'[r], c)
      <4>1. k.recipe # r
        BY <1>1, <1>4, <2>1, <2>4, <3>3, SoloRunsAlone
      <4>2. drafts'[r] = drafts[r]
        BY <1>2, <2>1, <4>1
      <4>3. \A p \in Pending' : p.kind = "put" /\ p.call = c => p \in Pending
        BY <1>2, <2>4
      <4> QED
        BY <2>2, <3>1, <3>3, <4>2, <4>3 DEF Underway
    <3> QED
      BY <2>1, <3>1, <3>2, <3>3
  <2> QED
    BY <2>3, <2>4
<1> QED
  BY <1>1, <1>5 DEF HeldInv, Held

(* No step loses an edit that was made alone.                              *)
LEMMA StepKeepsHeld == WellFormed /\ HeldInv /\ [Next]_vars => HeldInv'
<1> SUFFICES ASSUME WellFormed, HeldInv, [Next]_vars PROVE HeldInv'
  OBVIOUS
<1>1. ASSUME NEW k, NEW q, Begins(k, q) PROVE HeldInv'
  BY <1>1, BeginsKeepsHeld
<1>2. CASE Reloads
  <2>1. UNCHANGED <<stored, calls, drafts>> /\ \A p \in Pending' : p \in Pending
    BY <1>2, ReloadsFacts DEF Reloads
  <2> QED
    BY <2>1 DEF HeldInv, Held, Confirmed, Underway
<1>3. ASSUME NEW c, NEW k, NEW t,
             Reads(c, k, t) \/ Writes(c, k, t) \/ Fails(c, k, t) \/ Deletes(c, k, t)
      PROVE  HeldInv'
  BY <1>3, GoesKeepsHeld
<1>4. CASE UNCHANGED <<drafts, stored, calls, requests, list, selected>>
  BY <1>4 DEF HeldInv, Pending
<1> QED
  BY <1>1, <1>2, <1>3, <1>4, Steps

(* An edit that was confirmed while no other call on its recipe ran is     *)
(* what the agent and the store show, until a later call replaces it       *)
(* (useRecipeTools.ts:128-379).                                            *)
THEOREM ConfirmedEditsSurvive == Spec => []SoloEditsSurvive
<1>1. Init => WellFormed /\ HeldInv
  <2>1. Init => DOMAIN calls = {}
    BY ShortSequences DEF Init
  <2> QED
    BY <2>1, InitWellFormed DEF HeldInv
<1>2. WellFormed /\ HeldInv /\ [Next]_vars => (WellFormed /\ HeldInv)'
  BY StepKeepsWellFormed, StepKeepsHeld
<1>3. WellFormed /\ HeldInv => SoloEditsSurvive
  <2> SUFFICES ASSUME WellFormed, HeldInv, NEW c \in DOMAIN calls, Standing(c), Alone(c)
               PROVE  Kept(c)
    BY DEF SoloEditsSurvive
  <2>1. calls[c].state = "ok" /\ calls[c].field # None
    BY DEF Standing
  <2>2. ASSUME NEW d \in DOMAIN calls, calls[d].recipe = calls[c].recipe, d > c
        PROVE  /\ calls[d].tool \notin Removals
               /\ calls[d].field = calls[c].field => WillRefuse(calls[d])
    <3>1. ~Undoes(d, calls[c].field)
      BY <2>2 DEF Standing, On
    <3>2. IsCall(calls[d])
      BY DEF WellFormed
    <3> QED
      BY <2>1, <3>1, <3>2 DEF Undoes, Removals, IsCall
  <2>3. Solo(calls, c)
    BY <2>1, <2>2 DEF Solo, Alone
  <2>4. Shows(View(calls[c].recipe), calls[c].field, calls[c].value)
    BY <2>1, <2>3 DEF HeldInv, Held, Confirmed, View
  <2> QED
    BY <2>4 DEF Kept, Shows
<1> QED
  BY <1>1, <1>2, <1>3, PTL DEF Spec

-----------------------------------------------------------------------------
(***************************************************************************)
(* The types of the variables: in particular that a text is in a list at   *)
(* most once, so that a remove by text removes one.                        *)
(***************************************************************************)
(* A list whose texts are of the calls U, each at most once.               *)
Texts(s, U) == s \in Seq(U) /\ IsInjective(s)

(* The texts of a list are of other calls as well.                         *)
LEMMA TextsMore ==
  ASSUME NEW U, NEW V, U \subseteq V, NEW s, Texts(s, U)
  PROVE  Texts(s, V)
  BY DEF Texts

(* Of u: it is s with x after the first n elements.                        *)
HasBetween(u, s, n, x) ==
  \A j \in 1..(Len(s) + 1) : u[j] = (IF j = n + 1 THEN x ELSE s[IF j <= n THEN j ELSE j - 1])

(* An element is inserted between those of a list.                         *)
LEMMA InsertFacts ==
  ASSUME NEW U, NEW s \in Seq(U), NEW x, NEW n \in 0..Len(s)
  PROVE  /\ Insert(s, n, x) \in Seq(U \cup {x}) /\ Len(Insert(s, n, x)) = Len(s) + 1
         /\ HasBetween(Insert(s, n, x), s, n, x)
<1> DEFINE W == U \cup {x}
           p == SubSeq(s, 1, n)
           q == SubSeq(s, n + 1, Len(s))
           m == Len(s)
<1>1. s \in Seq(W) /\ m \in Nat /\ n \in Nat /\ n <= m /\ <<x>> \in Seq(W) /\ Len(<<x>>) = 1 /\ <<x>>[1] = x
  OBVIOUS
<1>2. /\ p \in Seq(W) /\ Len(p) = n /\ \A i \in 1..n : p[i] = s[i]
  <2>1. \A i \in 1..n : s[i] \in W
    BY <1>1
  <2> QED
    BY <1>1, <2>1, SubSeqProperties
<1>3. /\ q \in Seq(W) /\ Len(q) = m - n /\ \A i \in 1..(m - n) : q[i] = s[n + i]
  <2>1. /\ \A i \in (n + 1)..m : s[i] \in W
        /\ n + 1 \in Int /\ m \in Int
    BY <1>1
  <2>2. /\ q \in Seq(W) /\ Len(q) = IF n + 1 <= m THEN m - (n + 1) + 1 ELSE 0
        /\ \A i \in 1..(m - (n + 1) + 1) : q[i] = s[n + 1 + i - 1]
    <3> HIDE DEF m
    <3>1. q = SubSeq(s, n + 1, m)
      BY DEF m
    <3> HIDE DEF q
    <3> QED
      BY <2>1, <3>1, SubSeqProperties
  <2> HIDE DEF q, m
  <2> QED
    BY <1>1, <2>2
<1>4. Insert(s, n, x) = (p \o <<x>>) \o q
  <2>1. ASSUME NEW l, l = n PROVE SubSeq(s, 1, l) = p
    BY <2>1
  <2>2. SubSeq(s, 1, (n + 1) - 1) = p
    <3>1. (n + 1) - 1 = n
      BY <1>1
    <3> HIDE DEF p
    <3> QED
      BY <2>1, <3>1
  <2>3. Insert(s, n, x) = (SubSeq(s, 1, (n + 1) - 1) \o <<x>>) \o q
    BY DEF Insert, InsertAt
  <2> HIDE DEF p, q
  <2> QED
    BY <2>2, <2>3
<1> HIDE DEF p, q, m, W
<1>5. /\ p \o <<x>> \in Seq(W) /\ Len(p \o <<x>>) = n + 1
      /\ \A i \in 1..(n + 1) : (p \o <<x>>)[i] = IF i <= n THEN s[i] ELSE x
  <2>1. /\ p \o <<x>> \in Seq(W) /\ Len(p \o <<x>>) = Len(p) + Len(<<x>>)
        /\ \A i \in 1..(Len(p) + Len(<<x>>)) :
             (p \o <<x>>)[i] = IF i <= Len(p) THEN p[i] ELSE <<x>>[i - Len(p)]
    BY <1>1, <1>2, ConcatProperties
  <2>2. Len(p) = n /\ Len(<<x>>) = 1 /\ <<x>>[1] = x
    BY <1>1, <1>2
  <2>3. \A i \in 1..(n + 1) : (i <= n => i \in 1..n) /\ (~(i <= n) => i - n = 1)
    BY <1>1
  <2> QED
    BY <1>2, <2>1, <2>2, <2>3
<1> DEFINE o == p \o <<x>>
<1> HIDE DEF o
<1>6. /\ o \o q \in Seq(W) /\ Len(o \o q) = m + 1
      /\ \A j \in 1..(m + 1) :
           (o \o q)[j] = (IF j = n + 1 THEN x ELSE s[IF j <= n THEN j ELSE j - 1])
  <2>1. /\ o \o q \in Seq(W) /\ Len(o \o q) = Len(o) + Len(q)
        /\ \A i \in 1..(Len(o) + Len(q)) : (o \o q)[i] = IF i <= Len(o) THEN o[i] ELSE q[i - Len(o)]
    BY <1>3, <1>5, ConcatProperties DEF o
  <2>2. Len(o) = n + 1 /\ Len(q) = m - n /\ Len(o) + Len(q) = m + 1
    <3>1. Len(o) = n + 1
      BY <1>5 DEF o
    <3>2. Len(q) = m - n
      BY <1>3
    <3> QED
      BY <1>1, <3>1, <3>2
  <2>3. ASSUME NEW j \in 1..(m + 1)
        PROVE  (o \o q)[j] = (IF j = n + 1 THEN x ELSE s[IF j <= n THEN j ELSE j - 1])
    <3>1. CASE j <= n + 1
      <4>1. j \in 1..(n + 1) /\ (~(j <= n) => j = n + 1)
        BY <1>1, <3>1
      <4>2. (o \o q)[j] = o[j]
        BY <2>1, <2>2, <3>1
      <4> QED
        BY <1>5, <4>1, <4>2 DEF o
    <3>2. CASE ~(j <= n + 1)
      <4>1. j - (n + 1) \in 1..(m - n) /\ n + (j - (n + 1)) = j - 1 /\ ~(j <= n) /\ j # n + 1
        BY <1>1, <3>2
      <4>2. (o \o q)[j] = q[j - (n + 1)]
        BY <2>1, <2>2, <3>2
      <4> QED
        BY <1>3, <4>1, <4>2
    <3> QED
      BY <3>1, <3>2
  <2> QED
    BY <2>1, <2>2, <2>3
<1> DEFINE u == o \o q
<1> HIDE DEF u
<1>7. u \in Seq(W) /\ Len(u) = m + 1 /\ HasBetween(u, s, n, x)
  <2>1. \A j \in 1..(m + 1) : u[j] = (IF j = n + 1 THEN x ELSE s[IF j <= n THEN j ELSE j - 1])
    BY <1>6 DEF u
  <2>2. u \in Seq(W) /\ Len(u) = m + 1
    BY <1>6 DEF u
  <2> QED
    BY <2>1, <2>2 DEF HasBetween, m
<1>8. Insert(s, n, x) = u
  BY <1>4 DEF o, u
<1> QED
  BY <1>7, <1>8 DEF m, W

(* An element of a list is removed.                                        *)
LEMMA RemoveFacts ==
  ASSUME NEW U, NEW s \in Seq(U), NEW n \in 1..Len(s)
  PROVE  /\ RemoveAt(s, n) \in Seq(U) /\ Len(RemoveAt(s, n)) = Len(s) - 1
         /\ \A j \in 1..(Len(s) - 1) : RemoveAt(s, n)[j] = IF j < n THEN s[j] ELSE s[j + 1]
<1> DEFINE m == Len(s)
           p == SubSeq(s, 1, n - 1)
           q == SubSeq(s, n + 1, m)
<1>1. m \in Nat /\ n \in Nat \ {0} /\ n <= m /\ \A i \in 1..m : s[i] \in U
  OBVIOUS
<1> HIDE DEF m
<1>2. /\ p \in Seq(U) /\ Len(p) = n - 1 /\ \A i \in 1..(n - 1) : p[i] = s[i]
  <2>1. /\ \A i \in 1..(n - 1) : s[i] \in U
        /\ 1 \in Int /\ n - 1 \in Int
    BY <1>1
  <2>2. /\ p \in Seq(U) /\ Len(p) = IF 1 <= n - 1 THEN n - 1 - 1 + 1 ELSE 0
        /\ \A i \in 1..(n - 1 - 1 + 1) : p[i] = s[1 + i - 1]
    BY <2>1, SubSeqProperties
  <2> HIDE DEF p
  <2> QED
    BY <1>1, <2>2
<1>3. /\ q \in Seq(U) /\ Len(q) = m - n /\ \A i \in 1..(m - n) : q[i] = s[n + i]
  <2>1. /\ \A i \in (n + 1)..m : s[i] \in U
        /\ n + 1 \in Int /\ m \in Int
    BY <1>1
  <2>2. /\ q \in Seq(U) /\ Len(q) = IF n + 1 <= m THEN m - (n + 1) + 1 ELSE 0
        /\ \A i \in 1..(m - (n + 1) + 1) : q[i] = s[n + 1 + i - 1]
    BY <2>1, SubSeqProperties
  <2> HIDE DEF q
  <2> QED
    BY <1>1, <2>2
<1>4. RemoveAt(s, n) = p \o q
  BY DEF RemoveAt, m
<1> HIDE DEF p, q
<1>5. /\ p \o q \in Seq(U) /\ Len(p \o q) = Len(p) + Len(q)
      /\ \A i \in 1..(Len(p) + Len(q)) : (p \o q)[i] = IF i <= Len(p) THEN p[i] ELSE q[i - Len(p)]
  BY <1>2, <1>3, ConcatProperties
<1>6. Len(p) + Len(q) = m - 1
  BY <1>1, <1>2, <1>3
<1>7. ASSUME NEW j \in 1..(m - 1) PROVE (p \o q)[j] = IF j < n THEN s[j] ELSE s[j + 1]
  <2>1. CASE j < n
    <3>1. j \in 1..(n - 1) /\ j <= n - 1
      BY <1>1, <2>1
    <3> QED
      BY <1>2, <1>5, <1>6, <2>1, <3>1
  <2>2. CASE ~(j < n)
    <3>1. ~(j <= n - 1) /\ j - (n - 1) \in 1..(m - n) /\ n + (j - (n - 1)) = j + 1
      BY <1>1, <2>2
    <3>2. (p \o q)[j] = q[j - (n - 1)]
      BY <1>2, <1>5, <1>6, <3>1
    <3> QED
      BY <1>3, <2>2, <3>1, <3>2
  <2> QED
    BY <2>1, <2>2
<1> QED
  BY <1>4, <1>5, <1>6, <1>7 DEF m

(* The four ways an edit changes a list.                                   *)
LEMMA InsertTexts ==
  ASSUME NEW U, NEW s, Texts(s, U), NEW x, x \notin U, NEW n \in 0..Len(s)
  PROVE  Texts(Insert(s, n, x), U \cup {x})
<1> DEFINE u == Insert(s, n, x)
           m == Len(s)
<1>1. s \in Seq(U) /\ IsInjective(s) /\ m \in Nat /\ n \in Nat /\ n <= m /\ DOMAIN s = 1..m
  BY DEF Texts
<1>2. /\ u \in Seq(U \cup {x}) /\ DOMAIN u = 1..(m + 1)
      /\ \A j \in 1..(m + 1) : u[j] = (IF j = n + 1 THEN x ELSE s[IF j <= n THEN j ELSE j - 1])
  <2>1. /\ u \in Seq(U \cup {x}) /\ Len(u) = m + 1
        /\ \A j \in 1..(m + 1) : u[j] = (IF j = n + 1 THEN x ELSE s[IF j <= n THEN j ELSE j - 1])
    <3>1. s \in Seq(U) /\ n \in 0..Len(s)
      BY DEF Texts
    <3>2. u \in Seq(U \cup {x})
      BY <3>1, InsertFacts, Zenon
    <3>3. Len(u) = m + 1
      BY <3>1, InsertFacts, Zenon
    <3>4. HasBetween(u, s, n, x)
      BY <3>1, InsertFacts, Zenon
    <3> QED
      BY <3>2, <3>3, <3>4 DEF HasBetween
  <2> HIDE DEF u, m
  <2> QED
    BY <2>1
<1> HIDE DEF u, m
<1> DEFINE at(j) == IF j <= n THEN j ELSE j - 1
<1>3. \A j \in 1..(m + 1) : j # n + 1 => at(j) \in DOMAIN s /\ u[j] = s[at(j)] /\ u[j] \in U
  <2> TAKE j \in 1..(m + 1)
  <2> HAVE j # n + 1
  <2>1. at(j) \in 1..m
    BY <1>1
  <2>2. u[j] = s[at(j)]
    BY <1>2
  <2> HIDE DEF at
  <2> QED
    BY <1>1, <2>1, <2>2
<1>4. n + 1 \in 1..(m + 1) /\ u[n + 1] = x
  BY <1>1, <1>2
<1>5. ASSUME NEW i \in 1..(m + 1), NEW j \in 1..(m + 1), u[i] = u[j] PROVE i = j
  <2>1. CASE i = n + 1 \/ j = n + 1
    BY <1>3, <1>4, <1>5, <2>1
  <2>2. CASE i # n + 1 /\ j # n + 1
    <3>1. at(i) = at(j)
      <4> HIDE DEF at
      <4> QED
        BY <1>1, <1>3, <1>5, <2>2 DEF IsInjective
    <3> QED
      BY <1>1, <2>2, <3>1
  <2> QED
    BY <2>1, <2>2
<1> QED
  BY <1>2, <1>5 DEF Texts, IsInjective, u

(* An element is removed by its position, if there is one.                 *)
LEMMA RemoveTexts ==
  ASSUME NEW U, NEW s, Texts(s, U), NEW n \in DOMAIN s
  PROVE  Texts(RemoveAt(s, n), U)
<1> DEFINE u == RemoveAt(s, n)
           m == Len(s)
<1>1. s \in Seq(U) /\ IsInjective(s) /\ m \in Nat /\ n \in 1..m /\ DOMAIN s = 1..m
  BY DEF Texts
<1>2. /\ u \in Seq(U) /\ DOMAIN u = 1..(m - 1)
      /\ \A j \in 1..(m - 1) : u[j] = IF j < n THEN s[j] ELSE s[j + 1]
  <2>1. /\ u \in Seq(U) /\ Len(u) = m - 1
        /\ \A j \in 1..(m - 1) : u[j] = IF j < n THEN s[j] ELSE s[j + 1]
    <3>1. s \in Seq(U) /\ n \in 1..Len(s)
      BY <1>1
    <3> QED
      BY <3>1, RemoveFacts, Zenon
  <2> HIDE DEF u, m
  <2> QED
    BY <2>1
<1> HIDE DEF u, m
<1>3. ASSUME NEW i \in 1..(m - 1), NEW j \in 1..(m - 1), u[i] = u[j] PROVE i = j
  <2> DEFINE at(l) == IF l < n THEN l ELSE l + 1
  <2>1. \A l \in 1..(m - 1) : at(l) \in 1..m /\ u[l] = s[at(l)]
    BY <1>1, <1>2
  <2>2. at(i) = at(j)
    <3> HIDE DEF at
    <3> QED
      BY <1>1, <1>3, <2>1 DEF IsInjective
  <2> QED
    BY <1>1, <2>2
<1> QED
  BY <1>2, <1>3 DEF Texts, IsInjective, u

(* An element is replaced, if it is there.                                 *)
LEMMA ReplaceTexts ==
  ASSUME NEW U, NEW s, Texts(s, U), NEW x, x \notin U, NEW n
  PROVE  Texts(Replace(s, n, x), U \cup {x})
<1>1. CASE n \notin DOMAIN s
  BY <1>1, TextsMore DEF Replace
<1>2. CASE n \in DOMAIN s
  <2> DEFINE u == [s EXCEPT ![n] = x]
  <2>1. s \in Seq(U \cup {x}) /\ n \in 1..Len(s) /\ IsInjective(s) /\ \A i \in DOMAIN s : s[i] \in U
    BY <1>2 DEF Texts
  <2>2. u \in Seq(U \cup {x}) /\ DOMAIN u = DOMAIN s
    BY <2>1, ExceptSeq
  <2>3. IsInjective(u)
    BY <1>2, <2>1 DEF IsInjective
  <2> QED
    BY <1>2, <2>2, <2>3 DEF Texts, Replace, ReplaceAt
<1> QED
  BY <1>1, <1>2

(* An element is added at the end.                                         *)
LEMMA AppendTexts ==
  ASSUME NEW U, NEW s, Texts(s, U), NEW x, x \notin U
  PROVE  Texts(Append(s, x), U \cup {x})
<1> DEFINE u == Append(s, x)
           m == Len(s)
<1>1. s \in Seq(U \cup {x}) /\ m \in Nat /\ DOMAIN s = 1..m /\ IsInjective(s) /\ \A i \in 1..m : s[i] \in U
  BY DEF Texts
<1>2. u \in Seq(U \cup {x}) /\ DOMAIN u = 1..(m + 1) /\ u[m + 1] = x /\ \A i \in 1..m : u[i] = s[i]
  <2>1. IsSequence(s)
    BY <1>1 DEF IsSequence
  <2> QED
    BY <1>1, <2>1, Added
<1> HIDE DEF u, m
<1>3. ASSUME NEW i \in 1..(m + 1), NEW j \in 1..(m + 1), u[i] = u[j] PROVE i = j
  <2>1. (i = m + 1 \/ i \in 1..m) /\ (j = m + 1 \/ j \in 1..m)
    BY <1>1
  <2> QED
    BY <1>1, <1>2, <1>3, <2>1 DEF IsInjective
<1> QED
  BY <1>2, <1>3 DEF Texts, IsInjective, u

(* A splice finds its place within the list.                               *)
LEMMA PlaceInside ==
  ASSUME NEW i \in Int, NEW n \in Nat
  PROVE  Place(i, n) \in 0..n
  BY DEF Place

(* An edit that is not refused inserts its own text, or none.              *)
LEMMA EditedTexts ==
  ASSUME RecipeAssumption, NEW U, NEW s, Texts(s, U), NEW x, x \notin U,
         NEW f \in Lists, NEW e \in Edits, ~Refused(f, e)
  PROVE  Texts(Edited(f, e, s, x), U \cup {x})
<1> DEFINE V == U \cup {x}
<1>1. e.op \in {"set", "add", "remove", "update"} /\ e.index \in Int \cup {None} /\ e.text \in BOOLEAN
  BY DEF RecipeAssumption, AllEdits
<1>2. f \in {"ingredients", "instructions"} /\ None \notin Int
  BY DEF RecipeAssumption
<1>3. Texts(s, V) /\ s \in Seq(U) /\ Len(s) \in Nat /\ DOMAIN s = 1..Len(s)
  BY TextsMore DEF Texts
<1>4. Texts(<<x>>, V)
  BY DEF Texts, IsInjective
<1>5. \A n \in 0..Len(s) : Texts(Insert(s, n, x), V)
  BY InsertTexts
<1>6. \A n : Texts(Drop(s, n), V)
  BY <1>3, RemoveTexts, TextsMore DEF Drop
<1>7. \A n : Texts(Replace(s, n, x), V)
  BY ReplaceTexts
<1>8. Texts(Append(s, x), V)
  BY AppendTexts
<1>9. Texts(Without(s, 1), V)
  <2>1. CASE \E i \in DOMAIN s : s[i] = 1
    <3>1. (CHOOSE i \in DOMAIN s : s[i] = 1) \in DOMAIN s
      BY <2>1
    <3> QED
      BY <2>1, <3>1, RemoveTexts, TextsMore DEF Without
  <2>2. CASE ~(\E i \in DOMAIN s : s[i] = 1)
    BY <1>3, <2>2 DEF Without
  <2> QED
    BY <2>1, <2>2
<1>10. \A i \in Int : Place(i, Len(s)) \in 0..Len(s)
  BY <1>3, PlaceInside
<1>11. Len(s) \in 0..Len(s)
  BY <1>3
<1> HIDE DEF V
<1>12. CASE f = "ingredients"
  <2>1. Texts(EditIngredients(e, s, x), V)
    <3>1. CASE e.op = "add"
      <4>1. CASE e.index = None
        BY <1>3, <1>5, <1>11, <3>1, <4>1 DEF EditIngredients
      <4>2. CASE e.index # None
        BY <1>1, <1>3, <1>5, <1>10, <3>1, <4>2 DEF EditIngredients
      <4> QED
        BY <4>1, <4>2
    <3>2. CASE e.op = "remove"
      BY <1>6, <1>9, <3>2 DEF EditIngredients
    <3>3. CASE e.op = "update"
      BY <1>7, <3>3 DEF EditIngredients
    <3>4. CASE e.op = "set"
      BY <1>4, <3>4 DEF EditIngredients
    <3> QED
      BY <1>1, <3>1, <3>2, <3>3, <3>4
  <2> QED
    BY <1>12, <2>1 DEF Edited, V
<1>13. CASE f = "instructions"
  <2>1. Texts(EditSteps(e, s, x), V)
    <3>1. CASE e.op = "add"
      <4>1. CASE e.index = None
        BY <1>5, <1>11, <3>1, <4>1 DEF EditSteps
      <4>2. CASE e.index # None
        <5>1. e.index - 1 \in Int
          BY <1>1, <4>2
        <5> QED
          BY <1>5, <1>10, <3>1, <4>2, <5>1 DEF EditSteps
      <4> QED
        BY <4>1, <4>2
    <3>2. CASE e.op = "remove"
      BY <1>6, <3>2 DEF EditSteps
    <3>3. CASE e.op = "update"
      BY <1>7, <1>8, <3>3 DEF EditSteps
    <3>4. CASE e.op = "set"
      BY <1>4, <3>4 DEF EditSteps
    <3> QED
      BY <1>1, <3>1, <3>2, <3>3, <3>4
  <2> QED
    BY <1>13, <2>1 DEF Edited, V
<1> QED
  BY <1>2, <1>12, <1>13

(* A record whose lists have texts of the calls U.                         *)
Proper(v, U) ==
  /\ DOMAIN v \subseteq Plain \cup Lists \cup {"photo"}
  /\ \A f \in DOMAIN v : IF f \in Lists THEN Texts(v[f], U) ELSE v[f] \in Nat

(* The calls that do not wait for their read any more.                     *)
Spoken == {c \in DOMAIN calls : \A p \in Pending : p.call = c => p.kind # "get"}

LEMMA ProperMore ==
  ASSUME NEW U, NEW V, U \subseteq V, NEW v, Proper(v, U)
  PROVE  Proper(v, V)
  BY TextsMore DEF Proper

(* The spread of two records; a record of one field; nothing, the blank.   *)
LEMMA ProperOver ==
  ASSUME NEW U, NEW new, NEW old, Proper(new, U), Proper(old, U)
  PROVE  Proper(Over(new, old), U)
<1> DEFINE v == Over(new, old)
<1>1. /\ DOMAIN v = DOMAIN new \cup DOMAIN old
      /\ \A f \in DOMAIN v : v[f] = IF f \in DOMAIN new THEN new[f] ELSE old[f]
  BY DEF Over
<1> HIDE DEF v
<1>2. Proper(v, U)
  BY <1>1 DEF Proper
<1> QED
  BY <1>2 DEF v

LEMMA ProperField ==
  ASSUME NEW U, NEW f \in Plain \cup Lists \cup {"photo"}, NEW x,
         IF f \in Lists THEN Texts(x, U) ELSE x \in Nat
  PROVE  Proper(Field(f, x), U)
<1> DEFINE v == Field(f, x)
<1>1. DOMAIN v = {f} /\ v[f] = x
  BY DEF Field
<1> HIDE DEF v
<1>2. Proper(v, U)
  BY <1>1 DEF Proper
<1> QED
  BY <1>2 DEF v

LEMMA ProperBlank ==
  ASSUME RecipeAssumption, NEW U
  PROVE  /\ Proper(Nothing, U) /\ Proper(Blank, U)
         /\ \A x \in Nat : Proper([Blank EXCEPT !["name"] = x], U)
         /\ \A f \in Lists : Texts(Blank[f], U)
<1>1. DOMAIN Nothing = {} /\ DOMAIN Blank = Plain \cup Lists
  BY BlankFacts
<1>2. "name" \notin Lists
  BY DEF RecipeAssumption
<1>3. Texts(<<>>, U)
  BY DEF Texts, IsInjective
<1>4. \A f \in DOMAIN Blank : Blank[f] = IF f \in Lists THEN <<>> ELSE 0
  BY <1>1 DEF Blank
<1>5. ASSUME NEW x
      PROVE  /\ DOMAIN [Blank EXCEPT !["name"] = x] = DOMAIN Blank
             /\ \A f \in DOMAIN Blank : [Blank EXCEPT !["name"] = x][f] = IF f = "name" THEN x ELSE Blank[f]
  BY DEF Blank
<1>6. Proper(Blank, U)
  BY <1>1, <1>3, <1>4 DEF Proper
<1>7. ASSUME NEW x \in Nat PROVE Proper([Blank EXCEPT !["name"] = x], U)
  BY <1>2, <1>5, <1>6 DEF Proper
<1>8. Proper(Nothing, U)
  BY <1>1 DEF Proper
<1>9. \A f \in Lists : Texts(Blank[f], U)
  BY <1>1, <1>3, <1>4
<1> QED
  BY <1>6, <1>7, <1>8, <1>9

(* Everything that holds fields is proper, and the arguments of a call are *)
(* of their types.                                                         *)
ProperInv ==
  /\ \A r \in Recipes : Proper(drafts[r], Spoken) /\ Proper(stored[r], Spoken)
  /\ \A p \in Pending : p.kind = "put" => Proper(p.value, Spoken)
  /\ \A c \in DOMAIN calls :
       /\ Proper(calls[c].seen, Spoken)
       /\ calls[c].tool = "edit" => calls[c].edit \in Edits
       /\ calls[c].tool = "photo" /\ calls[c].field = "photo" => calls[c].value \in Nat

(* The screen, the staged photo and the bounds.                            *)
CountInv ==
  /\ list \subseteq Recipes /\ selected \in Recipes \cup {None}
  /\ staged \in 0..photos /\ photos \in 0..MaxPhotos /\ failures \in 0..MaxFailures

(* A call that begins has not spoken before, and sees a proper draft.      *)
LEMMA BeginsKeepsProper ==
  ASSUME RecipeAssumption, WellFormed, ProperInv, CountInv, NEW k, NEW q, Begins(k, q)
  PROVE  ProperInv'
<1>1. /\ DOMAIN calls' = DOMAIN calls \cup {Id} /\ calls'[Id] = k /\ Id \in Nat
      /\ \A c \in DOMAIN calls : calls'[c] = calls[c] /\ c < Id /\ c \in Nat
      /\ k.state = "running" => q.call = Id
      /\ \A p \in Pending' : p \in Pending \/ (p = q /\ k.state = "running")
  BY BeginsFacts
<1>2. Spoken \subseteq Spoken'
  <2> SUFFICES ASSUME NEW c \in Spoken, NEW p \in Pending', p.call = c PROVE p.kind # "get"
    BY <1>1 DEF Spoken
  <2>1. c \in DOMAIN calls /\ c # Id
    BY <1>1 DEF Spoken
  <2> QED
    BY <1>1, <2>1 DEF Spoken
<1>3. staged \in Nat
  BY DEF CountInv
<1>4. k.recipe \in Recipes /\ IsCall(k)
  BY DEF Begins, IsCall
<1>5. Proper(drafts[k.recipe], Spoken)
  BY <1>4 DEF ProperInv
<1>6. Proper(k.seen, Spoken)
  <2>1. CASE k.tool = "create"
    <3>1. k.seen = [Blank EXCEPT !["name"] = Id]
      BY <2>1 DEF Begins
    <3> QED
      BY <1>1, <3>1, ProperBlank
  <2>2. CASE k.tool = "set"
    <3>1. k.seen = Over(Field(k.field, k.value), drafts[k.recipe]) /\ k.value \in Nat
      BY <1>1, <2>2 DEF Begins
    <3>2. k.field \in Plain /\ k.field \notin Lists
      BY <1>4, <2>2 DEF IsCall, RecipeAssumption, Removals
    <3>3. Proper(Field(k.field, k.value), Spoken)
      BY <3>1, <3>2, ProperField
    <3> QED
      BY <1>5, <3>1, <3>3, ProperOver
  <2>3. CASE k.tool \in {"edit", "save"}
    BY <1>5, <2>3 DEF Begins
  <2>4. CASE k.tool \notin {"create", "set", "edit", "save"}
    BY <1>1, <2>4, ProperBlank DEF Begins
  <2> QED
    BY <2>1, <2>2, <2>3, <2>4
<1>7. Proper(k.seen, Spoken')
  BY <1>2, <1>6, ProperMore
<1>8. ASSUME NEW r \in Recipes PROVE Proper(drafts'[r], Spoken') /\ Proper(stored'[r], Spoken')
  <2>1. Proper(drafts[r], Spoken') /\ Proper(stored[r], Spoken')
    BY <1>2, ProperMore DEF ProperInv
  <2>2. stored' = stored /\ (drafts'[r] = drafts[r] \/ drafts'[r] = k.seen)
    BY DEF Begins, WellFormed
  <2> QED
    BY <1>7, <2>1, <2>2
<1>9. ASSUME NEW p \in Pending', p.kind = "put" PROVE Proper(p.value, Spoken')
  <2>1. CASE p \in Pending
    BY <1>2, <1>9, <2>1, ProperMore DEF ProperInv
  <2>2. CASE p = q /\ k.state = "running"
    BY <1>7, <1>9, <2>2 DEF Begins
  <2> QED
    BY <1>1, <2>1, <2>2
<1>10. ASSUME NEW c \in DOMAIN calls'
       PROVE  /\ Proper(calls'[c].seen, Spoken')
              /\ calls'[c].tool = "edit" => calls'[c].edit \in Edits
              /\ calls'[c].tool = "photo" /\ calls'[c].field = "photo" => calls'[c].value \in Nat
  <2>1. CASE c \in DOMAIN calls
    BY <1>1, <1>2, <2>1, ProperMore DEF ProperInv
  <2>2. CASE c = Id
    BY <1>1, <1>3, <1>7, <2>2 DEF Begins
  <2> QED
    BY <1>1, <2>1, <2>2
<1> QED
  BY <1>8, <1>9, <1>10 DEF ProperInv

(* What a call makes of its read is proper, its own text included.         *)
LEMMA GoesKeepsProper ==
  ASSUME RecipeAssumption, WellFormed, ProperInv, NEW c, NEW k, NEW t,
         Reads(c, k, t) \/ Writes(c, k, t) \/ Fails(c, k, t) \/ Deletes(c, k, t)
  PROVE  ProperInv'
<1> DEFINE h == Head(requests)
           r == k.recipe
<1>1. /\ c \in DOMAIN calls /\ IsCall(calls[c]) /\ r \in Recipes /\ Makes(h.kind, k.tool)
      /\ DOMAIN calls' = DOMAIN calls /\ calls'[c] = k
      /\ \A d \in DOMAIN calls : d # c => calls'[d] = calls[d]
      /\ \A d \in DOMAIN calls : Becomes(calls[d], calls'[d])
      /\ h \in Pending /\ h.call = c /\ c \in Nat /\ c # 0
      /\ \A p \in Pending' : \/ p \in Pending /\ p.call # c
                             \/ k.state = "running" /\ p = t[1] /\ p.call = c /\ p.kind = "put"
                             \/ p.kind = "load" /\ p.call = 0
      /\ \A s \in Recipes : s # r => drafts'[s] = drafts[s] /\ stored'[s] = stored[s]
  BY GoesFacts, PendingFacts DEF Reads, Writes, Fails, Deletes
<1> HIDE DEF h
<1>2. Spoken \cup {c} \subseteq Spoken'
  BY <1>1 DEF Spoken
<1>3. h.kind = "get" => c \notin Spoken
  BY <1>1 DEF Spoken
<1>4. /\ k.tool = calls[c].tool /\ k.seen = calls[c].seen /\ k.field = calls[c].field
      /\ k.edit = calls[c].edit /\ IsCall(k)
  BY <1>1 DEF Becomes
<1>5. /\ Proper(k.seen, Spoken) /\ Proper(drafts[r], Spoken) /\ Proper(stored[r], Spoken)
      /\ Proper(Nothing, Spoken') /\ Proper(Blank, Spoken)
  BY <1>1, <1>4, ProperBlank DEF ProperInv
<1>6. Proper(k.seen, Spoken') /\ Proper(drafts[r], Spoken') /\ Proper(stored[r], Spoken')
  BY <1>2, <1>5, ProperMore
<1>7. Proper(Base(stored[r]), Spoken')
  BY <1>2, <1>5, <1>6, ProperMore DEF Base
(* What it leaves in the draft and in the store, and what it writes. *)
<1> DEFINE Fine == /\ Proper(drafts'[r], Spoken') /\ Proper(stored'[r], Spoken')
                   /\ k.state = "running" => Proper(t[1].value, Spoken')
<1>8. ASSUME Writes(c, k, t) PROVE Fine
  <2>1. Proper(h.value, Spoken')
    BY <1>1, <1>2, <1>8, ProperMore DEF ProperInv, Writes, h
  <2> QED
    BY <1>5, <1>6, <1>8, <2>1 DEF Writes, h
<1>9. ASSUME Fails(c, k, t) PROVE Fine
  BY <1>6, <1>9 DEF Fails
<1>10. ASSUME Deletes(c, k, t) PROVE Fine
  BY <1>5, <1>6, <1>10 DEF Deletes
<1>11. ASSUME Reads(c, k, t) PROVE Fine
  <2>1. h.kind = "get" /\ stored' = stored /\ c \notin Spoken
    BY <1>3, <1>11 DEF Reads, h
  <2>2. CASE k.value = calls[c].value /\ SetReads(k, t)
    BY <1>6, <2>1, <2>2, ProperOver DEF SetReads
  <2>3. CASE k.value = calls[c].value /\ SaveReads(k, t)
    BY <1>6, <1>7, <2>1, <2>3, ProperOver DEF SaveReads
  <2>4. CASE k.value = calls[c].value /\ PhotoReads(k, t)
    <3>1. k.value \in Nat /\ "photo" \notin Lists
      BY <1>1, <1>4, <2>4 DEF PhotoReads, ProperInv, RecipeAssumption
    <3>2. Proper(Field("photo", k.value), Spoken')
      BY <3>1, ProperField
    <3> QED
      BY <1>6, <1>7, <2>1, <2>4, <3>2, ProperOver DEF PhotoReads
  <2>5. CASE WillRefuse(k) /\ k.state = "refused" /\ drafts' = drafts
    BY <1>6, <2>1, <2>5
  <2>6. CASE EditReads(c, k, t)
    <3> DEFINE f == k.field
               v == Over(Over(k.seen, stored[r]), Blank)
               s == v[f]
    <3>1. f \in Lists /\ k.edit \in Edits /\ ~Refused(f, k.edit) /\ k.tool = "edit"
      BY <1>1, <1>4, <2>6 DEF EditReads, IsCall, Removals, WillRefuse, ProperInv
    <3>2. Proper(v, Spoken)
      BY <1>5, ProperOver
    <3>3. f \in DOMAIN v
      <4>1. DOMAIN Blank = Plain \cup Lists
        BY BlankFacts
      <4> QED
        BY <3>1, <4>1 DEF Over
    <3>4. Texts(s, Spoken)
      <4> HIDE DEF v
      <4> QED
        BY <3>1, <3>2, <3>3 DEF Proper
    <3>5. k.value = Edited(f, k.edit, s, c)
      BY <2>6 DEF EditReads
    <3> HIDE DEF s, v, f
    <3>6. Texts(k.value, Spoken')
      <4>1. Texts(k.value, Spoken \cup {c})
        BY <2>1, <3>1, <3>4, <3>5, EditedTexts
      <4> QED
        BY <1>2, <4>1, TextsMore
    <3>7. Proper(Field(f, k.value), Spoken')
      BY <3>1, <3>6, ProperField
    <3>8. Proper(drafts'[r], Spoken')
      <4>1. drafts'[r] = Over(Field(f, k.value), k.seen)
        BY <2>6 DEF EditReads, f
      <4> QED
        BY <1>6, <3>7, <4>1, ProperOver
    <3> QED
      BY <1>6, <2>1, <2>6, <3>8, ProperOver DEF EditReads
  <2> QED
    BY <1>11, <2>2, <2>3, <2>4, <2>5, <2>6 DEF Reads
<1>12. Fine
  BY <1>8, <1>9, <1>10, <1>11
<1> HIDE DEF Fine, r
<1>13. ASSUME NEW s \in Recipes PROVE Proper(drafts'[s], Spoken') /\ Proper(stored'[s], Spoken')
  <2>1. CASE s = r
    BY <1>12, <2>1 DEF Fine
  <2>2. CASE s # r
    BY <1>1, <1>2, <2>2, ProperMore DEF ProperInv
  <2> QED
    BY <2>1, <2>2
<1>14. ASSUME NEW p \in Pending', p.kind = "put" PROVE Proper(p.value, Spoken')
  <2>1. CASE p \in Pending
    BY <1>2, <1>14, <2>1, ProperMore DEF ProperInv
  <2>2. CASE k.state = "running" /\ p = t[1]
    BY <1>12, <2>2 DEF Fine
  <2> QED
    BY <1>1, <1>14, <2>1, <2>2
<1>15. ASSUME NEW d \in DOMAIN calls'
       PROVE  /\ Proper(calls'[d].seen, Spoken')
              /\ calls'[d].tool = "edit" => calls'[d].edit \in Edits
              /\ calls'[d].tool = "photo" /\ calls'[d].field = "photo" => calls'[d].value \in Nat
  <2>1. /\ d \in DOMAIN calls /\ calls'[d].tool = calls[d].tool /\ calls'[d].field = calls[d].field
        /\ calls'[d].seen = calls[d].seen /\ calls'[d].edit = calls[d].edit
    BY <1>1 DEF Becomes
  <2>2. calls'[d].tool = "photo" => calls'[d].value = calls[d].value
    <3>1. CASE d # c
      BY <1>1, <2>1, <3>1
    <3>2. CASE d = c
      <4>1. k.tool = "photo" => k.value = calls[c].value
        BY <1>1, <1>4 DEF Reads, Writes, Fails, Deletes, EditReads, WillRefuse, Makes, Removals, h
      <4> QED
        BY <1>1, <3>2, <4>1
    <3> QED
      BY <3>1, <3>2
  <2> QED
    BY <1>2, <2>1, <2>2, ProperMore DEF ProperInv
<1> QED
  BY <1>13, <1>14, <1>15 DEF ProperInv

(* A reload of the list touches no record.                                 *)
LEMMA ReloadsKeepsProper ==
  ASSUME WellFormed, ProperInv, Reloads
  PROVE  ProperInv'
<1>1. \A p \in Pending' : p \in Pending
  BY Shortened DEF WellFormed, Reloads, Pending
<1>2. Spoken \subseteq Spoken' /\ UNCHANGED <<stored, drafts, calls>>
  BY <1>1 DEF Reloads, Spoken
<1> QED
  BY <1>1, <1>2, ProperMore DEF ProperInv

(* Every step keeps the screen, the photos and the failures within bounds. *)
LEMMA StepKeepsCount ==
  ASSUME RecipeAssumption, WellFormed, CountInv, [Next]_vars
  PROVE  CountInv'
<1>0. photos \in Nat /\ staged \in Nat /\ failures \in Nat /\ MaxPhotos \in Nat /\ MaxFailures \in Nat
  BY DEF CountInv, RecipeAssumption
<1>1. CASE Handlers
  <2>1. PICK r \in Recipes :
          \/ Create(r) \/ Save(r) \/ SetPhoto(r)
          \/ \E f \in Plain : Set(r, f)
          \/ \E f \in Lists, e \in Edits : Edit(r, f, e)
          \/ \E tool \in {"delete", "discard"} : Delete(r, tool)
          \/ \E tool \in {"load", "click"} : Select(r, tool)
    BY <1>1 DEF Handlers
  <2>2. /\ UNCHANGED <<list, photos, failures>> /\ selected' \in {selected, r}
        /\ staged' \in {staged, 0}
    BY <2>1 DEF Create, Save, SetPhoto, Set, Edit, Delete, Select, screen
  <2> QED
    BY <1>0, <2>2 DEF CountInv
<1>2. CASE StagePhoto
  <2>1. /\ photos < MaxPhotos /\ photos' = photos + 1 /\ staged' = photos + 1
        /\ UNCHANGED <<list, selected, failures>>
    BY <1>2 DEF StagePhoto, screen
  <2> QED
    BY <1>0, <2>1 DEF CountInv
<1>3. CASE Read
  BY <1>3 DEF Read, screen, CountInv
<1>4. CASE Put
  <2>1. /\ requests # <<>> /\ Head(requests).kind # "load"
        /\ selected' \in {selected, calls[Head(requests).call].recipe}
        /\ UNCHANGED <<list, staged, photos, failures>>
    BY <1>4 DEF Put, Written
  <2>2. calls[Head(requests).call].recipe \in Recipes
    BY <2>1, HeadFacts
  <2> QED
    BY <2>1, <2>2 DEF CountInv
<1>5. CASE WriteFails
  <2>1. failures < MaxFailures /\ failures' = failures + 1 /\ UNCHANGED <<list, selected, staged, photos>>
    BY <1>5 DEF WriteFails, screen
  <2> QED
    BY <1>0, <2>1 DEF CountInv
<1>6. CASE Deleted
  BY <1>6 DEF Deleted, screen, CountInv
<1>7. CASE Load
  <2>1. /\ list' = Present /\ UNCHANGED <<staged, photos, failures>>
        /\ selected' \in Present \cup {selected, None}
    BY <1>7 DEF Load
  <2>2. Present \subseteq Recipes
    BY DEF Present
  <2> QED
    BY <2>1, <2>2 DEF CountInv
<1>8. CASE UNCHANGED vars
  BY <1>8 DEF vars, screen, CountInv
<1> QED
  BY <1>1, <1>2, <1>3, <1>4, <1>5, <1>6, <1>7, <1>8 DEF Next, Storage

(* Every step keeps the types.                                             *)
LEMMA StepKeepsTypes ==
  WellFormed /\ ProperInv /\ CountInv /\ [Next]_vars => ProperInv' /\ CountInv'
<1> SUFFICES ASSUME WellFormed, ProperInv, CountInv, [Next]_vars PROVE ProperInv' /\ CountInv'
  OBVIOUS
<1>1. ASSUME NEW k, NEW q, Begins(k, q) PROVE ProperInv'
  BY <1>1, BeginsKeepsProper, RecipeAssumption
<1>2. ASSUME Reloads PROVE ProperInv'
  BY <1>2, ReloadsKeepsProper
<1>3. ASSUME NEW c, NEW k, NEW t,
             Reads(c, k, t) \/ Writes(c, k, t) \/ Fails(c, k, t) \/ Deletes(c, k, t)
      PROVE  ProperInv'
  BY <1>3, GoesKeepsProper, RecipeAssumption
<1>4. ASSUME UNCHANGED <<drafts, stored, calls, requests, list, selected>> PROVE ProperInv'
  BY <1>4 DEF ProperInv, Spoken, Pending
<1>5. CountInv'
  BY StepKeepsCount, RecipeAssumption
<1> QED
  BY <1>1, <1>2, <1>3, <1>4, <1>5, Steps

(* The shelf in the beginning has blank recipes, and no calls.             *)
LEMMA InitTypes == Init => ProperInv /\ CountInv
<1> SUFFICES ASSUME Init PROVE ProperInv /\ CountInv
  OBVIOUS
<1> DEFINE q == [kind |-> "load", call |-> 0, value |-> Nothing]
<1>1. /\ calls = <<>> /\ requests = <<q>> /\ list = {} /\ selected = None
      /\ drafts = [r \in Recipes |-> Nothing]
      /\ stored = [r \in Recipes |-> IF r \in Shelf THEN Blank ELSE Nothing]
      /\ staged = 0 /\ photos = 0 /\ failures = 0
  BY DEF Init
<1>2. DOMAIN calls = {} /\ DOMAIN requests = {1} /\ requests[1] = q
  BY <1>1, ShortSequences
<1>3. q.kind = "load"
  OBVIOUS
<1> HIDE DEF q
<1>4. \A p \in Pending : p.kind # "put"
  BY <1>2, <1>3 DEF Pending
<1>5. \A r \in Recipes : Proper(drafts[r], Spoken) /\ Proper(stored[r], Spoken)
  BY <1>1, ProperBlank, RecipeAssumption
<1>6. MaxPhotos \in Nat /\ MaxFailures \in Nat
  BY RecipeAssumption DEF RecipeAssumption
<1> QED
  BY <1>1, <1>2, <1>4, <1>5, <1>6 DEF ProperInv, CountInv

(* The calls are numbered, and a running call is one with a request.       *)
LEMMA TypesImply == WellFormed /\ ProperInv /\ CountInv => TypeOK
<1> SUFFICES ASSUME WellFormed, ProperInv, CountInv PROVE TypeOK
  OBVIOUS
<1>1. Spoken \subseteq Nat
  BY PendingFacts DEF Spoken
<1>2. ASSUME NEW v, Proper(v, Spoken) PROVE IsRecord(v)
  <2>1. Proper(v, Nat)
    BY <1>1, <1>2, ProperMore
  <2> QED
    BY <2>1 DEF Proper, Texts, IsRecord
<1>3. \A r \in Recipes : IsRecord(drafts[r]) /\ IsRecord(stored[r])
  BY <1>2 DEF ProperInv
<1>4. ASSUME NEW c \in DOMAIN calls
      PROVE  (c \in Running) <=> (\E i \in DOMAIN requests : requests[i].call = c)
  <2>1. c # 0
    BY PendingFacts
  <2>2. ASSUME NEW i \in DOMAIN requests, requests[i].call = c PROVE c \in Running
    BY <2>1, <2>2 DEF WellFormed, Belong, Fits, Runs, Running
  <2>3. ASSUME c \in Running PROVE \E i \in DOMAIN requests : requests[i].call = c
    BY <2>3 DEF WellFormed, Belong, Runs, Running
  <2> QED
    BY <2>2, <2>3
<1> QED
  BY <1>3, <1>4 DEF TypeOK, CountInv

(* The variables keep their types: drafts and recipes are records whose    *)
(* lists hold each text at most once, so that a remove by text removes     *)
(* one, and the calls that run are those with a request (useRecipeTools    *)
(* .ts:128-379, photoStaging.ts, RecipeContext.tsx).                       *)
THEOREM RecipeTyped == Spec => []TypeOK
<1>1. Init => WellFormed /\ ProperInv /\ CountInv
  BY InitWellFormed, InitTypes
<1>2. WellFormed /\ ProperInv /\ CountInv /\ [Next]_vars => (WellFormed /\ ProperInv /\ CountInv)'
  BY StepKeepsWellFormed, StepKeepsTypes
<1> QED
  BY <1>1, <1>2, TypesImply, PTL DEF Spec

=============================================================================

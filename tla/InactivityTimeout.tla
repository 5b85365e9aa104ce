------------------------- MODULE InactivityTimeout -------------------------
(***************************************************************************)
(* The handshake and the inactivity timer of one socket                    *)
(* (agent-streemr/src/server/listener.ts).  Events and the timer callback  *)
(* are turns of one event loop; a timer may fire late, and an event that   *)
(* is handled first disarms it.                                            *)
(*                                                                         *)
(* Time is relative: what is left of the timer and how long nothing        *)
(* happened.  Nothing depends on how long the socket has been open.        *)
(* The names tell the timer's specification from the conversation's, whose *)
(* proofs extend both.                                                     *)
(***************************************************************************)
EXTENDS Integers

CONSTANTS Limits,        \* values of inactivityTimeoutMs to look at
          Unset,         \* the value of an option that is not given
          Proposals,     \* inactivity_timeout_ms a client may send, 0 for none
          MaxIdle,       \* bound: idle time is counted up to here
          MaxHellos      \* bound: client_hello events per socket

ASSUME TimeoutAssumption ==
  /\ Unset \notin Nat /\ Limits \subseteq Nat \cup {Unset}
  /\ Proposals \subseteq Nat
  /\ MaxIdle \in Nat /\ MaxHellos \in Nat

(* Idle time is counted at least as far as any timeout can go. *)
ASSUME IdleAssumption == \A t \in Proposals \cup (Limits \ {Unset}) : t <= MaxIdle

Off == -1

VARIABLES serverMax,  \* inactivityTimeoutMs of this server; it never changes
          open,       \* the socket is connected
          hellos,     \* client_hello events so far
          effective,  \* effectiveTimeoutMs
          advertised, \* inactivity_timeout_ms of the last welcome, Off before it
          left,       \* what is left of inactivityTimer, Off when it is null
          idle        \* time since an event reset the timer, up to MaxIdle

timerVars == <<serverMax, open, hellos, effective, advertised, left, idle>>

Min2(a, b) == IF a < b THEN a ELSE b

TimerTypeOK ==
  /\ serverMax \in Limits /\ open \in BOOLEAN
  /\ hellos \in 0..MaxHellos
  /\ effective \in Nat
  /\ advertised \in Nat \cup {Off}
  /\ left \in Nat \cup {Off}
  /\ left # Off => open /\ left <= effective
  /\ idle \in 0..MaxIdle

TimerInit ==
  /\ serverMax \in Limits
  /\ open = TRUE
  /\ hellos = 0
  /\ effective = 0
  /\ advertised = Off /\ left = Off
  /\ idle = 0

(* The timeout a client_hello with proposal p puts into effect. *)
Negotiated(p) ==
  CASE p > 0 /\ serverMax # Unset -> Min2(p, serverMax)
    [] p > 0 /\ serverMax = Unset -> p
    [] p = 0 /\ serverMax \in Nat \ {0} -> serverMax
    [] OTHER -> effective

Armed(timeout) == IF timeout > 0 THEN timeout ELSE left

(* client_hello of a compatible version: negotiate, welcome, arm. *)
Hello(p) ==
  /\ open /\ hellos < MaxHellos
  /\ hellos' = hellos + 1
  /\ effective' = Negotiated(p)
  /\ advertised' = effective'
  /\ left' = Armed(effective') /\ idle' = 0
  /\ UNCHANGED <<serverMax, open>>

Close == open' = FALSE /\ left' = Off

(* client_hello without a version or with one that does not fit. *)
RefusedHello ==
  /\ open /\ hellos < MaxHellos
  /\ hellos' = hellos + 1
  /\ Close
  /\ UNCHANGED <<serverMax, effective, advertised, idle>>

(* Seeded fault: the event does not reach the timer. *)
QualifyingEventIgnored ==
  /\ open
  /\ idle' = 0
  /\ UNCHANGED <<serverMax, open, hellos, effective, advertised, left>>

(* message, local_tool_response, start_attachments or attachment, unless   *)
(* refused.  set_context, clear_context, refused events and runs leave     *)
(* everything here as it is.                                               *)
QualifyingEvent ==
  /\ open
  /\ left' = Armed(effective) /\ idle' = 0
  /\ UNCHANGED <<serverMax, open, hellos, effective, advertised>>

TimerTick ==
  /\ left' = IF left > 0 THEN left - 1 ELSE left
  /\ idle' = Min2(idle + 1, MaxIdle)
  /\ UNCHANGED <<serverMax, open, hellos, effective, advertised>>

(* Seeded fault: the timer is only announced. *)
TimerFiresOnce ==
  /\ left = 0
  /\ left' = Off
  /\ UNCHANGED <<serverMax, open, hellos, effective, advertised, idle>>

(* The timer: inactive_close, then disconnect. *)
TimerFires ==
  /\ left = 0
  /\ Close
  /\ UNCHANGED <<serverMax, hellos, effective, advertised, idle>>

(* The client leaves or the transport fails. *)
Disconnect ==
  /\ open
  /\ Close
  /\ UNCHANGED <<serverMax, hellos, effective, advertised, idle>>

TimerNext ==
  \/ \E p \in Proposals : Hello(p)
  \/ RefusedHello \/ QualifyingEvent
  \/ TimerTick \/ TimerFires \/ Disconnect

TimerSafety == TimerInit /\ [][TimerNext]_timerVars
TimerSpec   == TimerSafety /\ WF_timerVars(TimerTick) /\ WF_timerVars(TimerFires)
-----------------------------------------------------------------------------
(***************************************************************************)
(* Properties.                                                             *)
(***************************************************************************)
ClosedByTimer == open /\ ~open' /\ left = 0 /\ hellos' = hellos

(* The timeout the client was told of is the one its socket is closed by:  *)
(* a client that counts it down is never cut off early.                    *)
NoEarlyClose == [][ClosedByTimer => idle >= advertised]_timerVars

(* A socket that was promised a timeout and sends nothing is closed.       *)
IdleSocketCloses ==
  (open /\ advertised > 0 /\ idle > 0) ~> (~open \/ idle = 0)
=============================================================================

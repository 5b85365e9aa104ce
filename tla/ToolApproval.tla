---------------------------- MODULE ToolApproval ----------------------------
(***************************************************************************)
(* Who may run a local tool: the approval cards of the sample web client   *)
(* (context/ToolApprovalContext.tsx), those of the iPad client             *)
(* (the ToolApprovalService of AgentStreemrApp.swift), and the allow lists *)
(* in memory of the React and the Swift library (useInMemoryAllowList.ts,  *)
(* InMemoryAllowList.swift).                                               *)
(*                                                                         *)
(* In React a dispatched action changes the state when the next render     *)
(* runs the reducer; a ref follows the state in the render (allow list) or *)
(* in an effect after it (remembered tools).  In Swift a change is at once;*)
(* the iPad's loop asks a publisher that keeps nothing for one request at a*)
(* time: what comes while it is busy with another one is not handed over.  *)
(***************************************************************************)
EXTENDS Naturals, FiniteSets

CONSTANTS Requests,      \* requests to run a tool, each checked once
          Tools, ToolOf, \* ToolOf[r]: the tool of request r
          Timed,         \* requests with a deadline (sync and async tools)
          Ttl,           \* time the server waits for them
          Clients,       \* clients to look at
          Remembered,    \* tools that are remembered in the beginning
          MaxTime,       \* bound: the clock, which reaches every deadline
          MaxActs,       \* bound: changes the user makes to the list
          MaxReloads     \* bound: times the page or app is started again

(* web, ipad: the sample's clients; hook, actor: the libraries' lists.     *)
AllClients == {"web", "ipad", "hook", "actor"}

ASSUME ApprovalAssumption ==
  /\ ToolOf \in [Requests -> Tools] /\ Timed \subseteq Requests
  /\ Remembered \subseteq Tools /\ Clients \subseteq AllClients
  /\ {Ttl, MaxTime, MaxActs, MaxReloads} \subseteq Nat

VARIABLES client,    \* which of Clients this is; it never changes
          now,
          decision,  \* decision[r]: what check(r) resolved to
          deadline,  \* deadline[r]: meta.expires_at
          resolvers, \* resolversRef: requests whose promise is pending
          loop,      \* iPad: the request the observing loop is busy with
          view,      \* the state: cards, and what is recorded of each tool
          upcoming,  \* React: the state the next render will show, which is
                     \* view with all dispatched actions reduced in order
          seen,      \* the ref that check() reads
          storage,   \* localStorage, UserDefaults
          toWrite,   \* React: what the next render's reducers will save
          clicked, intent, \* history: requests the user allowed, and the
                           \* last word of the user on each tool
          failed,    \* history: localStorage threw, and nothing was saved since
          missed,    \* history: tools of which a restart did not read that word
          acts, reloads

disk    == <<storage, toWrite, failed>>
history == <<clicked, intent, missed, acts>>
vars == <<client, now, decision, deadline, resolvers, loop, view, upcoming, seen, disk, history, reloads>>

Marks     == {"unset", "allowed", "denied"}
Decisions == {"none", "arrived", "waiting", "allowed", "denied", "expired", "lost"}
Asks      == client \in {"web", "ipad"}   \* unknown tools are put to the user
Batches   == client \in {"web", "hook"}   \* React
Views     == [cards : SUBSET Requests, marks : [Tools -> Marks]]

Init ==
  /\ client \in Clients
  /\ now = 0
  /\ decision = [r \in Requests |-> "none"]
  /\ deadline = [r \in Requests |-> 0]
  /\ resolvers = {} /\ loop = {}
  /\ storage = [t \in Tools |-> IF t \in Remembered THEN "allowed" ELSE "unset"]
  /\ view = [cards |-> {}, marks |-> storage] /\ upcoming = view /\ seen = storage
  /\ toWrite = {} /\ failed = FALSE
  /\ clicked = {} /\ intent = storage /\ missed = {}
  /\ acts = 0 /\ reloads = 0

-----------------------------------------------------------------------------
(* The reducers, pure functions of the state.                              *)
AddCard(v, r)    == [v EXCEPT !.cards = @ \cup {r}]
DropCards(v, rs) == [v EXCEPT !.cards = @ \ rs]

(* Seeded fault: forgetting a tool filters the wrong way round.            *)
MarkKeepsForgotten(v, t, m) == IF m = "unset" THEN v ELSE [v EXCEPT !.marks[t] = m]
Mark(v, t, m)               == [v EXCEPT !.marks[t] = m]

(* REMEMBER_TOOL and FORGET_TOOL save what they return; a tool that is     *)
(* remembered already is not saved again.                                  *)
Written(v, t, m) == IF Asks /\ (m = "unset" \/ v.marks[t] # m) THEN {Mark(v, t, m).marks} ELSE {}

(* v is upcoming after a change that saves lists: React shows and saves it *)
(* later, Swift at once.                                                   *)
Dispatch(v, lists) ==
  /\ upcoming' = v
  /\ IF Batches THEN toWrite' = toWrite \cup lists /\ UNCHANGED <<view, seen, storage, failed>>
     ELSE /\ view' = v /\ seen' = v.marks
          /\ storage' = IF Asks THEN v.marks ELSE storage
          /\ UNCHANGED <<toWrite, failed>>

(* saveRemembered ignores what localStorage throws: then an earlier list   *)
(* stays stored, and the reducer's state is the new one all the same.      *)
Saves ==
  \/ toWrite = {} /\ UNCHANGED <<storage, failed>>
  \/ toWrite # {} /\ storage' = upcoming.marks /\ failed' = FALSE
  \/ toWrite # {} /\ storage' \in {storage} \cup toWrite /\ failed' = TRUE

(* React renders: the reducers run, the hook's ref follows in the render.  *)
Render ==
  /\ upcoming # view \/ toWrite # {}
  /\ view' = upcoming
  /\ seen' = IF client = "hook" THEN upcoming.marks ELSE seen
  /\ Saves /\ toWrite' = {}
  /\ UNCHANGED <<client, now, decision, deadline, resolvers, loop, upcoming, history, reloads>>

(* The effect after it: rememberedToolsRef follows the state.              *)
Effect ==
  /\ seen # view.marks
  /\ seen' = view.marks
  /\ UNCHANGED <<client, now, decision, deadline, resolvers, loop, view, upcoming, disk, history, reloads>>

-----------------------------------------------------------------------------
(* check(): a recorded tool is decided at once.  The clients with cards    *)
(* keep a resolver, or the request itself, and show a card; the allow      *)
(* lists answer "unknown", which the handler hook reports as a refusal.    *)
Decide(r, known) ==
  IF known = "unset" /\ Asks
  THEN /\ decision' = [decision EXCEPT ![r] = "waiting"]
       /\ resolvers' = resolvers \cup {r}
       /\ Dispatch(AddCard(upcoming, r), {})
  ELSE /\ decision' = [decision EXCEPT ![r] = IF known = "unset" THEN "denied" ELSE known]
       /\ UNCHANGED <<resolvers, view, upcoming, seen, disk>>

Check(r) ==
  /\ decision[r] = "none" /\ now + Ttl <= MaxTime
  /\ deadline' = [deadline EXCEPT ![r] = now + Ttl]
  /\ IF client = "ipad"
     THEN /\ decision' = [decision EXCEPT ![r] = IF loop = {} THEN "arrived" ELSE "lost"]
          /\ loop' = IF loop = {} THEN {r} ELSE loop
          /\ UNCHANGED <<resolvers, view, upcoming, seen, disk>>
     ELSE Decide(r, seen[ToolOf[r]]) /\ UNCHANGED loop
  /\ UNCHANGED <<client, now, history, reloads>>

(* The iPad's loop gets the request, and runs a remembered tool before it  *)
(* asks for another request.                                               *)
Take(r) ==
  /\ r \in loop /\ decision[r] = "arrived"
  /\ Decide(r, seen[ToolOf[r]])
  /\ loop' = IF decision'[r] = "waiting" THEN {} ELSE loop
  /\ UNCHANGED <<client, now, deadline, history, reloads>>
HandlerReturns(r) ==
  /\ r \in loop /\ decision[r] # "arrived"
  /\ loop' = {}
  /\ UNCHANGED <<client, now, decision, deadline, resolvers, view, upcoming, seen, disk, history, reloads>>

(* Seeded fault: the card is left on the screen.                           *)
ResolveLeavesCard(rs, d, v, lists) ==
  /\ resolvers' = resolvers \ rs
  /\ decision' = [r \in Requests |-> IF r \in rs \cap resolvers THEN d ELSE decision[r]]
  /\ Dispatch(v, lists)
(* resolve(): each request once; v is upcoming as its caller left it.      *)
Resolve(rs, d, v, lists) ==
  /\ resolvers' = resolvers \ rs
  /\ decision' = [r \in Requests |-> IF r \in rs \cap resolvers THEN d ELSE decision[r]]
  /\ Dispatch(DropCards(v, rs \cap resolvers), lists)

(* The user clicks on a card the last render shows, perhaps twice.  On the *)
(* iPad every approval remembers the tool.                                 *)
Approve(r, remember) ==
  /\ r \in view.cards /\ (client = "ipad" => remember)
  /\ IF remember THEN Resolve({r}, "allowed", Mark(upcoming, ToolOf[r], "allowed"), Written(upcoming, ToolOf[r], "allowed"))
     ELSE Resolve({r}, "allowed", upcoming, {})
  /\ clicked' = IF r \in resolvers THEN clicked \cup {r} ELSE clicked
  /\ intent' = IF remember THEN [intent EXCEPT ![ToolOf[r]] = "allowed"] ELSE intent
  /\ missed' = IF remember THEN missed \ {ToolOf[r]} ELSE missed
  /\ remember => acts < MaxActs
  /\ acts' = IF remember THEN acts + 1 ELSE acts
  /\ UNCHANGED <<client, now, deadline, loop, reloads>>

Deny(r) ==
  /\ r \in view.cards
  /\ Resolve({r}, "denied", upcoming, {})
  /\ UNCHANGED <<client, now, deadline, loop, history, reloads>>

(* Seeded fault: the interval keeps the cards of the first render.         *)
SweepFirstCards == FALSE /\ UNCHANGED vars
(* The interval of the web client looks at the cards of the last render.   *)
Sweep ==
  /\ client = "web"
  /\ LET due == {r \in view.cards \cap Timed : now >= deadline[r]}
     IN  due # {} /\ Resolve(due, "expired", upcoming, {})
  /\ UNCHANGED <<client, now, deadline, loop, history, reloads>>

(* rememberTool, forgetTool; forgetRemembered; allow, deny, remove.        *)
Offers == CASE client = "web"  -> {"allowed", "unset"}
            [] client = "ipad" -> {"unset"}
            [] OTHER           -> Marks
ChangeMark(t, m) ==
  /\ acts < MaxActs /\ m \in Offers
  /\ acts' = acts + 1
  /\ intent' = [intent EXCEPT ![t] = m] /\ missed' = missed \ {t}
  /\ Dispatch(Mark(upcoming, t, m), Written(upcoming, t, m))
  /\ UNCHANGED <<client, now, decision, deadline, resolvers, loop, clicked, reloads>>

(* clear() of the allow lists.                                             *)
ClearMarks ==
  /\ acts < MaxActs /\ ~Asks
  /\ acts' = acts + 1
  /\ intent' = [t \in Tools |-> "unset"] /\ missed' = {}
  /\ Dispatch([upcoming EXCEPT !.marks = [t \in Tools |-> "unset"]], {})
  /\ UNCHANGED <<client, now, decision, deadline, resolvers, loop, clicked, reloads>>

(* The page or the app starts again: promises, cards and what was not      *)
(* reduced are gone.  loadRemembered reads what was saved, or nothing when *)
(* localStorage throws.                                                    *)
Loads(read, threw) ==
  /\ view' = [cards |-> {}, marks |-> read] /\ upcoming' = view' /\ seen' = read
  /\ failed' = threw
  /\ missed' = {t \in Tools : read[t] # intent[t] /\ (t \in missed \/ failed \/ threw \/ upcoming # view)}
Reload ==
  /\ Asks /\ reloads < MaxReloads
  /\ reloads' = reloads + 1
  /\ decision' = [r \in Requests |-> IF r \in resolvers \cup loop /\ decision[r] # "allowed"
                                       THEN "lost" ELSE decision[r]]
  /\ resolvers' = {} /\ loop' = {} /\ toWrite' = {}
  /\ Loads(storage, FALSE) \/ (client = "web" /\ Loads([t \in Tools |-> "unset"], TRUE))
  /\ UNCHANGED <<client, now, deadline, storage, clicked, intent, acts>>

Tick ==
  /\ now < MaxTime
  /\ now' = now + 1
  /\ UNCHANGED <<client, decision, deadline, resolvers, loop, view, upcoming, seen, disk, history, reloads>>

User ==
  \/ \E r \in Requests : Deny(r) \/ \E remember \in BOOLEAN : Approve(r, remember)
  \/ \E t \in Tools, m \in Marks : ChangeMark(t, m)
  \/ ClearMarks
Next == User \/ (\E r \in Requests : Check(r) \/ Take(r) \/ HandlerReturns(r)) \/ Render \/ Effect \/ Sweep \/ Reload \/ Tick

Fairness == WF_vars(Render) /\ WF_vars(Effect) /\ WF_vars(Sweep) /\ WF_vars(Tick)
Spec == Init /\ [][Next]_vars /\ Fairness

-----------------------------------------------------------------------------
(* Every request has one of the decisions, and those that wait are the     *)
(* ones with a pending promise.                                            *)
TypeOK ==
  /\ client \in Clients /\ now \in 0..MaxTime
  /\ decision \in [Requests -> Decisions] /\ deadline \in [Requests -> Nat]
  /\ resolvers = {r \in Requests : decision[r] = "waiting"}
  /\ loop \subseteq Requests /\ Cardinality(loop) <= 1
  /\ {view, upcoming} \subseteq Views
  /\ {seen, storage, intent} \subseteq [Tools -> Marks] /\ toWrite \subseteq [Tools -> Marks]
  /\ failed \in BOOLEAN /\ missed \subseteq Tools
  /\ clicked \subseteq Requests /\ acts \in 0..MaxActs /\ reloads \in 0..MaxReloads

Settled == upcoming = view /\ seen = view.marks

(* Once React has caught up, a tool runs only on a click on its own card   *)
(* or while the user's last word on it is "allowed": a card that has gone, *)
(* a forgotten tool or a restart allow nothing (ToolApprovalContext.tsx:   *)
(* 163-221, useInMemoryAllowList.ts:43-74).  The exception is a tool whose *)
(* last word a restart has missed, since it was never saved or not read:   *)
(* an earlier word, told nowhere on the way, is back (39-54).              *)
NoRunWithoutConsent ==
  [][\A r \in Requests :
       Settled /\ decision[r] # "allowed" /\ decision'[r] = "allowed"
         => r \in clicked' \/ intent[ToolOf[r]] = "allowed" \/ ToolOf[r] \in missed]_vars

(* With nothing left to reduce there is a card for every pending promise   *)
(* and no dead card; what is shown of each tool is the user's last word,   *)
(* unless a restart has missed it; and what is shown is what is stored,    *)
(* unless localStorage threw and nothing was saved since                   *)
(* (ToolApprovalContext.tsx:39-54, 109-131, 163-180, 223-230).             *)
ScreenTellsTheTruth ==
  (upcoming = view /\ toWrite = {}) =>
                  /\ view.cards = resolvers
                  /\ \A t \in Tools \ missed : view.marks[t] = intent[t]
                  /\ Asks /\ ~failed => storage = view.marks

(* On the web client no check with a deadline waits for ever               *)
(* (ToolApprovalContext.tsx:199-209).                                      *)
EveryCheckEnds ==
  \A r \in Timed : client = "web" /\ decision[r] = "waiting" ~> decision[r] # "waiting"
=============================================================================

# Agent Streemr: specifications, model checks and proofs

Agent Streemr connects chat clients to LLM agents over Socket.io.  A Node
library serves conversation threads: it queues agent runs, streams them, lets
an agent call tools that live in the client, and stages attachments.  Two
client SDKs (a React hook package and a Swift package) speak its protocol, and
a sample application (agent, web client, iPad client) uses all of it.

This directory holds TLA+ modules translated from that code, TLC configurations
that check them on small instances, and TLAPS proofs for every instance.

## 1. Inventory

Paths are under `src/`.  *Hard* names what tests hardly reach.

| Component | State | Operations | Hard | Correct when |
|---|---|---|---|---|
| `ThreadQueue` (`agent-streemr/src/server/queue.ts`) | map thread → tail promise | `enqueue`, `has`, `clear`, cleanup microtask | an enqueue between settlement and cleanup; `clear` from inside a task | one task of a thread at a time, in order; `has` exact; no dead entry |
| `LocalToolRegistry` (`server/registry.ts`) | awaiting entries, sync awaiters with timers, early results, processors | `register`, `trackEmit`, `awaitResponse`, `handleResponse`, `clearExpired`, `clearThread` | answer, timer, sweep and clear race for one promise; an answer before the await; repeated answers | every await resolves once, with the accepted answer, and ends |
| Listener, conversation side (`server/listener.ts`) | context objects per agent and thread, fire-and-forget memory, queue, registry | `message`, `set_context`, `clear_context`, `local_tool_response`, `enqueueRun` | clears queued among runs; several sockets on a thread; context written now and read later | one run per thread; the working light follows the queue; context and results reach the run they are for; one follow-up per answer |
| Listener, attachments | staging session per socket | `start_attachments`, `attachment`, `message` | overlapping uploads, lost acks, reconnects | a run has its own attachments, all or none |
| Listener, handshake and timer | agent id, negotiated timeout, timer | `client_hello`, qualifying events, `disconnect` | renegotiation, timer against events | never closed before the advertised time, always after it |
| `AgentStreamAdapter` (`server/adapter.ts`) | none across runs | streams the events of one run | failure in mid-stream | every run ends, and reports unless it threw before its agent started |
| `createLocalTool` (`agent-streemr/src/langchain/localTool.ts`) | none | builds the three tool modes | registry missing | sync answers reach the agent |
| Wire protocol (`agent-streemr/src/protocol/*.ts`) | none | types, envelope parser, version | ambiguous envelopes | a response with exactly one discriminant has its status, any other is ignored |
| React hook (`agent-streemr-react/src/useAgentStream.ts`) | socket, messages, `isStreaming`, `isWorking`, status, pending acks | `connect`, `disconnect`, `sendMessage`, `clearContext`, listeners | ack timer against acks; flags and half-received answers over reconnects and replaced sockets | uploads end; flags return to idle; what is shown of an answer is a piece of it, and one message |
| React tool hooks (`useLocalToolHandler.ts`) | retry timers by request | handler hook, fallback | retry against ack; unmount while a handler awaits; two listeners of one event | an acknowledged answer is accepted, a lost one repeated, and the same |
| React allow list (`useInMemoryAllowList.ts`) | map of names, and a ref of it | `allow`, `deny`, `remove`, `clear`, `check` | the ref is one render behind | no tool runs that the user has taken back |
| Swift client (`AgentStream.swift`, `LiveAgentSocket.swift`) | as the React hook, on the main actor | as the React hook, `executeApprovedTool` | a task per callback waits for the main actor and outlives its socket; `disconnect()` during an upload | as the React hook |
| Swift tool coordinator (`LocalToolCoordinator.swift`, `InMemoryAllowList.swift`) | registrations, pending acks | `handle`, `handleAck`, retry | actor re-entrancy at each `await`; emits of a disconnected socket are dropped | as the React tool hooks |
| React provider (`context.tsx`) | none of its own | hands the hook to a React context | none | - |
| Sample web client, approval (`ToolApprovalContext.tsx`) | cards, resolvers, remembered tools, localStorage | `check`, `approve`, `deny`, `rememberTool`, `forgetTool`, sweep, reload of the page | state read through refs that follow it late; click against sweep | no run without consent, except on a word that could not be saved; every check ends; the screen shows what waits |
| Sample web client, recipes (`useRecipeTools.ts`, `photoStaging.ts`, `RecipeContext.tsx`, `db/recipes.ts`) | drafts, IndexedDB, list and selection, staged photo | the recipe tools, clicks | read, await, write back, by fire-and-forget calls that overlap; a failing write | a confirmed solo edit is kept, no setter that reads behind a deletion undoes it, the list is what is stored |
| Sample web client, views (`ChatView.tsx`, `App.tsx`) | pending send | submit, reconnect | submit while offline | nothing is typed into the middle of an answer |
| iPad client, chat and approval (`ChatViewModel.swift`, `AgentStreemrApp.swift`) | pending send, cards, remembered tools | status loop, submit, approval loop | a loop that observes a publisher and awaits: what is published meanwhile is dropped or out of date | as the web client |
| iPad client, recipes (`RecipeEditorViewModel.swift`, `RecipeService.swift`) | editor fields, SwiftData rows | load, save, delete | partial failure of a save | - (not modelled) |
| Sample agent server (`agent-streemr-sample/agent`) | none of its own | configuration, prompt | - | - (not modelled) |

### How they interact

A client socket joins the room of its thread.  `message` puts a run into the
`ThreadQueue`; the run streams to its socket and calls tools.  A *sync* tool
emits `local_tool` and awaits the registry, so the run and all runs behind it
wait.  An *async* tool is tracked and the run goes on; the accepted response
enqueues a follow-up run.  *fire_and_forget* expects no response, so the agent
may make the next call while the client is still busy with this one.  The response
comes in as `local_tool_response`: the listener sweeps expired entries, lets
the registry dispatch the processor (which changes the context) and resolve
the awaiter, acknowledges, and decides on a follow-up.  The client repeats a
response once, a second before the deadline, when no acknowledgement came.
`clear_context` is itself a task of the queue; its body clears context,
registry and the queue it runs in.  Attachments are staged per socket and
claimed by the message that names their correlation id.

In the client a request passes the allow list (in the samples: a card the user
clicks), then its handler, whose result is the response.  The libraries turn
the events of the server into messages and flags; the hosts gate their input on
the flags, and keep what is typed offline until a connection is there.

The server is one event loop: between two awaits nothing interleaves.  What
interleaves are events, timers, ends of streams and the microtasks of the
promise chain, on the other side the turns of the client, and in between a
connection that delivers in order and loses what is in flight when it breaks.

## 2. Modules

| Module | Models | Checked by |
|---|---|---|
| `SerialExecution` | what a per-thread queue promises (abstract) | refined by `ThreadQueue` |
| `ThreadQueue` | `queue.ts` with every microtask | `MCThreadQueue`, proved in `ThreadQueueProofs` |
| `LocalToolRegistry` | `registry.ts`; methods as operators, called by its own actions and by the modules below | `MCLocalToolRegistry`, proved in `LocalToolRegistryProofs` |
| `AgentListener` | the conversation side of `listener.ts`, composing `ThreadQueue` and `LocalToolRegistry` | `MCAgentListener`, proved in `AgentListenerProofs` |
| `AttachmentUpload` | uploaders of both SDKs, the connection, the staging of the server | `MCAttachmentUpload`, proved in `AttachmentUploadProofs` |
| `StreamClient` | what the user sees: both SDKs and both sample hosts against the run queue's events, over links that break and are replaced | `MCStreamClient`, proved in `StreamClientProofs` |
| `InactivityTimeout` | handshake, negotiated timeout and timer of one socket | `MCInactivityTimeout`, proved in the last part of `AgentListenerProofs` |
| `ToolHandler` | a tool request from the agent's tool to a client and back: `createLocalTool`, registry, response handler, connection, and as clients the React hooks, the Swift coordinator and Swift's approved execution | `MCToolHandler`, proved in `ToolHandlerProofs` |
| `ToolApproval` | who may run a tool: cards of the web and the iPad client, allow lists of both SDKs | `MCToolApproval`, proved in `ToolApprovalProofs` |
| `RecipeDraft` | the recipe tools of the web client from await to await, with the store and the list on the screen | `MCRecipeDraft`, proved in `RecipeDraftProofs` |

### Correspondence

**ThreadQueue.**  A task is the promise `next` that one `enqueue` creates.
`pending` is `_pending`; `after[t]` is `prev`.  The three reactions of the
chain are `Start`, `Settle` and `Reap` (the cleanup).  The cleanup of a task is
registered on its promise before a successor chains to it, so `Released` waits
for `reaped`.  `Clear(t)` is called by a task: the only caller of
`queue.clear` is the body of a queued clear.

**LocalToolRegistry.**  One record `reg`: the maps of the class and, as
history, what callers saw (`promise`, `resolves`, `answers`, `answer`,
`dispatched`, `dropped`).  `trackEmit`, `awaitResponse`, `handleResponse`
(dispatch, then look up, then resolve or keep the early result), `clearExpired`
and `clearThread` are operators from registry to registry; a timer is `timers`
with `firesAt`.  Request ids are random, so a request *is* its id and its
thread and tool are constants.

**AgentListener.**  One action per socket event (`Message`, `SetContext`,
`ClearContext`, `Respond`), per end of a stream (`FinishRun`), per tool call
(`CallTool`), per timer, and one per reaction of the queue (`StartRun`,
`ClearBody`, `FinishClear`, `Reap`, `DrainCheck`).  `Reacting` says that
microtasks are outstanding; events wait for them, except that a task enqueued
on an idle queue may start after further events, as events of one payload are
handled back to back.  Contexts are two sets per key: `learnt` (tool results)
and `told` (what clients put in).  `job[t].last` is the flag `isLast`.

**AttachmentUpload.**  `SendMessage` emits the burst, `ReceiveAck`,
`AckTimeout`, `ReceiveStop` are the client's listeners and timer;
`ResumeUpload` is the continuation of the Swift client, which checks its socket
again; `HandleStart`, `HandleAttachment`, `HandleMessage` are the server's
handlers; `LinkLost`, `Connect`, `Disconnect`, `LinkUp` the connection.
`setting` chooses SDK and host and never changes.

**InactivityTimeout.**  Its specification is `TimerSpec`.  `left` is what remains of the timer, `idle` the time
since the last event that resets it.  `serverMax` chooses the server option.

**ToolHandler.**  `setting` says which tools and which client this is and never
changes: the mode of each request's tool, whether the runner wired emit and
registry, the SDK, whether a handler or a fallback is there, retry, and what
handlers return.  `Ask` is a tool of `createLocalTool` (and the await of a sync
tool), `HandleResponse` the handler of `local_tool_response` with its
acknowledgement.  A response is the set of discriminants it carries; `Parsed`
is the envelope parser.  `ReceiveRequest` is one turn: the handler up to its
first await, then the fallback.  `Decide` is the allow list (or, for `approved`,
the user, whom no deadline stops), `Finish` the handler with emission and
arming of the retry, `RetryFires`, `ReceiveAck`, `Unmount`, `Mount` the rest.
What a disconnected React client emits is kept and sent on the next connection;
Swift's socket throws it away, and the server keeps nothing.

**StreamClient.**  `ui` is the state of the library: status, messages, the two
flags and the internal thought.  A message is a sequence of parts `<<run, n>>`,
so the screen can be compared with what the runs said.  `Handled` is the
handler of each event.  In React `Receive` changes `ui` in the callback; in
Swift it appends a task to `todo`, the main actor's queue, and `RunTask` does
the change later, also when `connect()` or `disconnect()` has replaced the
socket by then.  `Publish` and `Observe` are the iPad's status loop: it wakes
with the status it was given, which may be out of date.  `link` distinguishes a
connection that is up from one that is dead (`broken`) or closed by the server
(`closed`) and not noticed; what is on the `wire` still arrives in part.  The
queue of the server is the part of `ThreadQueue` a client can see: `before` and
`tail`, a clear that deletes the entry included.  A run ends after its last
chunk, with an `error` (`MayFail`), or by an exception outside the try of its
task, which nobody reports (`MayThrow`).  `Connect`, `Submit`,
`SendPending`, `Reconnect`, `Disconnect` and `ClearContext` are the hosts.

**ToolApproval.**  `Check` is `check()`; `resolvers` are the pending promises,
`view` the reducer's state, `upcoming` that state after the actions dispatched
since (the reducers are pure, so the order of dispatch is all that matters),
`seen` the ref `check` reads: `Render` and `Effect` bring them up to date.  `Resolve`
takes what the caller dispatched before it.  The iPad's service is a loop over
a publisher that keeps nothing: `loop` is the request it is busy with, `Take`
its turn, `HandlerReturns` the end of a remembered tool's handler; a request
published in between is `lost`.  What the reducers are about to save is
`toWrite`: the render saves it (`Saves`), or `localStorage` throws and an earlier
list stays stored, which the code ignores; a start of the page (`Reload`) may
likewise read nothing.  `intent`, `clicked`, `failed` (it threw, and nothing was
saved since) and `missed` (tools whose last word a restart did not read) are
history.

**RecipeDraft.**  A call runs from one await to the next: its start (`Create`,
`Set`, `Edit`, `Save`, `Delete`, `SetPhoto`, `Select`), the answer to its read
(`Read`), the end of its write or deletion (`Put`, `Deleted`, `WriteFails`).  `requests` are
the open requests of IndexedDB, which serves them in order; a write appends the
reload (`Load`) its event triggers.  `calls` is history: what a call saw, wrote
and ran beside, and which of the calls beside it had still to read.  Recipes and
drafts are functions from the fields they have;
`Over(new, old)` is the spread `{...old, ...new}` of the code.  Field values are numbers of calls.
`Place` is what JavaScript's `splice` makes of an index.  The assumption
`IndexesAgree` of `MCRecipeDraft` compares the edits of both lists with what the
tools' descriptions say of indexes, on all lists of up to three elements.  A
remove by text is `Without`: the code filters, which removes one element because
no text is in a list twice; that is part of `TypeOK`, which is proved, and
`RemovesAsFiltered` compares the two on all such lists of up to four.

Definitions commented *Seeded fault* are not part of any specification: each
is the definition after it with a plausible mistake, and stands for what the
properties are able to notice.

## 3. Runs

| Run | Instance | Shows |
|---|---|---|
| `queue_serial` | 2 threads, 4 tasks, no clear | exclusion, order, exactness of `has`, refinement of `SerialExecution` with liveness |
| `registry` | 2 requests of one thread, 2 statuses, clock to 3, each answered up to twice | no lost wake-up, one resolution, one acceptance, reachability of waiters, every await ends |
| `listener_serial` | 1 socket, 3 tasks, a sync and an async tool, one context update | one run per thread, light, context, follow-ups, every task ends |
| `listener_clear` | 1 socket, 3 tasks, async and fire-and-forget tools, repeated responses, one clear | one follow-up per answer and no late acceptance, which a clear cannot break |
| `uploads` | React hook with a host that never waits and a refused attachment; Swift client with a host that waits; 3 sends of 2, 1 and 0 attachments; 3 connections | all or none, and only one's own; failed sends stay failed; uploads of the React hook end |
| `timeout` | limits none, 0 and 3, proposals 0, 1, 2 and 4, two handshakes | never early, always in the end |
| `tool_handler` | 10 clients: React hook with and without retry, fallbacks, unwired tools, coordinator, approved execution; 2 requests, 2 connections, one unmount | acknowledgement, retry and answer agree |
| `stream_client` | web and iPad host; 2 messages, of which one may throw, a follow-up that may fail or throw, a clear; one break, one new connection | chunks in order, once and without gaps; answers stay whole; streaming ends unless a run threw unreported |
| `approval` | web, iPad and both allow lists; 2 requests of one tool, one with a deadline; 3 changes, two restarts, a storage that throws | consent, truth of the screen, every check ends |
| `recipes` | a stored recipe and a new one; 3 calls of any tool; one photo, one failing write or deletion | edits made alone survive, no setter that reads behind a deletion undoes it, the list follows the store |
| `overlap` | a clear, a message behind it, and one that comes later | **fails**: two runs of a thread overlap after a clear |
| `lost_edit` | setters called without waiting | **fails**: an edit is overwritten by another tool's |

**Bounds.**  Threads share nothing but the code, so two show that they do not
disturb each other (`queue_serial`) and one suffices elsewhere.  Three tasks
give a run in progress, one waiting behind it and one that arrives in between,
which is every position relative to a tail; `listener_serial` has no clear among
them, `listener_clear` and `overlap` have one.  Two requests give one that is
expired or answered while the other
is live.  `MaxDispatches = 2` is the answer and its one repetition.  The clock
takes values on both sides of each deadline.  Two connections give a break and
a recovery, three a break of the recovered one.  Three sends give an upload, an
overlapping one and a plain message.

In `stream_client`, `MaxWire = 1` lets the server's queue go on when the wire is
empty (one step may put two packets on it, and what the user sends adds to
them) and the main actor have one event at a time before it: enough for an event
of the old socket to follow the replacement of the socket.  Two chunks
have a first and a last one.  `MaxTasks` bounds what the server is asked to do
to three for the web host; for the iPad, whose tasks multiply the states, to two.
Of the runs only the follow-up may fail in mid-stream; typed runs that do are
covered by the proof.  The first message and the follow-up may throw before they
stream.
One break (of any kind) and one further `connect()` give a cut answer, a
reconnect, and both after each other.  In `approval` three changes allow
remembering, taking back and remembering again, and two restarts a word that is
missed, given anew and read.  In `recipes` three calls give
a call, one that overlaps it, and a third that shows what is left; both lists
are edited, and edits name texts and indexes or do without.  Each bound is a
constant with `Max` in its name (or `Chunks`) and appears in a guard.

**Fairness.**  Weak fairness of the reactions of the event loop (the runtime
runs microtasks and due timers), of the passing of time, and of the delivery of
packets while a connection stays up.  Bodies of runs end, unless they await a
tool (`FinishRun` is disabled then and the timer of the await enables it
again).  In `StreamClient` packets arrive, tasks of the main actor run, agents
go on (`Serve`), and a dead link is noticed in the end (the ping of
Socket.io).  In `ToolApproval` React renders, effects run, and the interval of
the sweep fires.  No fairness of users, reconnects, allow lists or tool
handlers: liveness is claimed for what the code itself owes.  `RecipeDraft`
states no liveness.

**Deadlock.**  The bounds on tasks, sends, calls, connections and time end
every behaviour, so the runs switch the deadlock check off, except `timeout`,
whose clock never stops.

**Type invariants** stand in every module.  `queue_serial` and `registry` check
theirs, and those of `ThreadQueue`, `LocalToolRegistry`, `InactivityTimeout`,
`AgentListener`, `ToolHandler`, `ToolApproval`, `AttachmentUpload`,
`StreamClient` and `RecipeDraft` are proved (section 5).

**Symmetry** is not used: most runs check liveness, and where they do not,
requests, sends and recipes differ in their modes, sizes and beginnings.

## 4. Disagreements

The two failing runs state what a comment or a document of the repository says;
`PROJECT.json` quotes it.  In short:

- *overlap*: `clear_context` calls `queue.clear` from inside the queue; tasks
  chained behind the clear lose their place in the map, the next message starts
  a second chain.
- *lost_edit*: a list setter reads the draft, awaits the store and writes the
  whole draft back; an edit made meanwhile by another fire-and-forget call is
  gone.  `SoloEditsSurvive` is what remains.

Seen while modelling and **not** covered by a run of their own (where a property
is named, its run leaves the case out or the property excepts it; let in, the
case violates it):

*Server*

- What `createContext`, `getAgentRunner` or the runner itself throws is thrown
  outside the try of the queued task: the queue swallows it, `handleError` is
  not called, and the client hears `working: false` and no `error`.  Its
  `isStreaming` stays true and its input closed (`listener.ts:379-388`; the
  comment at 195, "Called when an unhandled error occurs during an agent run").
  `StreamingEnds` excepts it (`Silenced`).

- A clear has no drain check of its own and keeps `has()` true at the check of
  the run before it: the client keeps showing a working agent
  (`listener.ts:703`; `PROTOCOL.md:363`; `IdleThreadIsDark`).  The web composer stays closed on it
  (`ChatView.tsx:68`, `146`).
- The follow-up is enqueued without the agent id whose context the processor
  changed (`listener.ts:672`; `PROTOCOL.md:115`; `FollowUpSeesItsResult`).
- `handleResponse` dispatches the processor before it looks the request up, so
  an expired or repeated response changes the context (`registry.ts:291`;
  `PROTOCOL.md:514`, `248`).
- Of two sockets on a thread one is sent `working: true`, another
  `working: false` (`listener.ts:398`; `PROTOCOL.md:354`; `IdleThreadIsDark`).
- After a clear deleted the tail, the end of an earlier run is announced as the
  end of all work (`listener.ts:398`, comment at 397).
- Inline context is written when the message arrives; a clear queued before the
  message wipes it before the run starts (`listener.ts:580`; `PROTOCOL.md:133`,
  "applied atomically with the message"; `ContextReachesRun`).
- `isLast` counts sync requests, whose responses cause no follow-up that could
  release a held reply (`listener.ts:669`; `PROTOCOL.md:508`).
- A run does not reset the inactivity timer (`listener.ts:437`;
  `PROTOCOL.md:531`), and a server without the option applies no timeout
  (`listener.ts:485`; `PROTOCOL.md:528`, 600 000 ms).

*Conversation in the clients*

- `isStreaming` falls with the end of any run; a host that gates its input on it
  can start a second upload, which replaces the staging session: the first
  message runs without its attachments (`useAgentStream.ts:283`;
  `agent-streemr-react/README.md:416`).  `MessagesKeepAttachments` is therefore
  stated for hosts that wait for the upload.
- An answer that was cut off is continued by the chunks of a follow-up run, and
  after a clear the chunks of two overlapping runs mix in one message
  (`useAgentStream.ts:158`).  `AnswersStayWhole` is therefore about typed
  messages, and ends with a clear.
- With three typed messages it happens to the answer of one of them.  A client
  that reconnected heard nothing of the work its thread is busy with; the
  `error` of that work clears `isStreaming`, and with it the gate of the input,
  while a typed message waits in the queue.  The user types the next one; the
  first answer fails after a chunk and leaves its message in flight, and the
  second is appended to it (`useAgentStream.ts:187`, `158`).  Failed runs are
  the exception `AnswersStayWhole` makes; the proof showed that it has to.
- `connect()` over a link whose death was not noticed keeps `isStreaming` with
  nobody left to end it (`useAgentStream.ts:207`); `StreamingEnds` stops there.
- A client that reconnects while its thread works is not told: `isWorking` is
  false until the next change (`listener.ts:377`; `agent-streemr-react/API.md:91`).
- Tasks of the main actor that were queued before `disconnect()` run after it
  and bring a message and `isStreaming` back (`AgentStream.swift:141`).
- An `error` event of a run sets the Swift client's status to `.error` although
  the link is up (`AgentStream.swift:443`); the iPad then connects anew.
- `disconnect()` of the Swift client empties the pending acks without resuming
  the upload (`AgentStream.swift:551`; `agent-streemr-swift/README.md:309`).
  `UploadEnds` is therefore stated for the React hook.
- A second submit overwrites the iPad's pending message, and one sent on a
  status that is out of date is lost (`ChatViewModel.swift:61`).
- The web client sets its context when it mounts; before the socket is there
  the call does nothing (`App.tsx:52`).

*Tools in the clients*

- A setter or a `recipe_save` that has read the store when a deletion begins
  writes the recipe back behind it (`useRecipeTools.ts:160`, `171`, `230`,
  `306`, `337`): the agent's `recipe_delete`, which "permanently removes it from
  local storage" (`recipeDelete.ts:13`), and the user's click were confirmed.
  `SettersNeverResurrect` excepts deletions that began while a call on the recipe
  had still to read (`reading`).
- `saveRemembered` ignores what `localStorage` throws
  (`ToolApprovalContext.tsx:51`): the list on the screen is the new one, the
  stored one an earlier one, and the next start of the page goes by that.  A tool
  the user has made it forget may run again without a card, and one that was to
  be remembered asks again (`agent-streemr-sample/README.md:238`: "persists the
  tool name").  `NoRunWithoutConsent` and `ScreenTellsTheTruth` except the tools
  for which that happened (`missed`), and the time from the exception to the
  next save (`failed`).

- `useLocalToolFallback` answers synchronously, every handler asynchronously:
  with both mounted the fallback answers for the handler
  (`useLocalToolHandler.ts:234`; comment at 203).  `HandlerAnswerPrevails`
  holds for a fallback that leaves the handler's tools alone.
- The web sample's own fallback answers fire-and-forget tools too
  (`useRecipeTools.ts:70`).
- The iPad's approvals have no deadline, and its handler runs for a request the
  server gave up (`AgentStreemrApp.swift:110`;
  `agent-streemr-sample/README.md:244`).
- A request published while the iPad's approval loop awaits a handler gets
  neither card nor answer (`AgentStreemrApp.swift:88`; `AgentStream.swift:104`).
- `AgentStream` never hands a request to the coordinator
  (`AgentStream.swift:452`; `LocalToolCoordinator.swift:77`).
- `recipe_set_directions` with `remove` and index 0 deletes the last step
  (`useRecipeTools.ts:282`).

## 5. Proofs

The theorems hold for every set of threads, requests, tools, statuses, sends
and clients, and for every bound.  They assume what the modules assume of their
constants (`QueueAssumption`, `RegistryAssumption`, `ListenerAssumption`,
`ComponentAssumption`, `HandlerAssumption`, `ApprovalAssumption`,
`UploadAssumption`, `StreamAssumption`, `TimeoutAssumption`, `IdleAssumption`), all evaluated by TLC
in the runs, and where a theorem needs more it says so in its hypotheses, named
below.  No proof uses fairness.

**ThreadQueueProofs.**  `MutualExclusion` and `StartsInOrder` are not inductive:
that the predecessor of a starting task is over says nothing of those before
it unless the links of the chain are known.  `ChainInv` adds that tasks are
born in order (`BornInOrder`), that `after` points back within the thread
(`LinksPointBack`), that between a task and its predecessor no task of the
thread was born unless it is over (`NothingSkipped`), and that the map holds
the youngest unfinished task (`TailIsYoungest`).  `ChainInit` and `ChainStep`
make it an invariant of the queue without clears; exclusion, order and
`HasIsExact` follow, and `RefinesSerialExecution` maps every step to a step of
`SerialExecution` or a stutter.  `TypeCorrect` and `NoDeadEntries` hold with
clears; the other theorems do not, as the run `overlap` shows.

**LocalToolRegistryProofs.**  `Sound(g)` is the invariant: for each request,
unused ones have no trace (`Unused`), a promise is pending exactly while it has
awaiter and timer (`Reachable`), it was resolved at most once (`Resolved`), an
early result has no waiter beside it (`Kept`), and accepted answers are counted
and are what the caller gets (`Answered`).  Each method has a lemma that it
keeps `Sound`; `RegistrySound` combines them, and the five safety properties
are corollaries.  As the lemmas are about operators, the modules that compose
the registry can cite them.

**The timeout** (last part of `AgentListenerProofs`, which extends both modules
of the listener; its specification has names of its own for that, `TimerInit`,
`TimerNext` and so on).  That the timer is not early needs the sum of what
is left and what has passed: `TimerCounts` says that an armed timer has
`left + idle >= effective`, `InEffect` that the last advertised value is the one
in effect and that a server with limit zero never has one.  `NegotiatedBounds`
is the lemma about the negotiation: no handshake switches a timeout off that an
earlier one set, so an armed timer always has a timeout to be armed again with.
`NeverEarly` follows.

**AgentListenerProofs.**  Two invariants.  `ListenerInv` holds with clears: the
types, `QP!EntryInv` of the queue, that a task has its job and its socket from
`enqueue` on (`JobsBorn`), that the registry is `Sound` and holds what runs asked
for (`RegistryUsed`), and that an async answer that was acknowledged has one
follow-up and no other request has any (`FollowedUp`).  `Sound` of the registry is cited
operator by operator.  `OneFollowUp` and `NoLateAnswer` follow, clears included.
`UnclearedInv` holds until the first `clear_context` (`UntilCleared`): the
queue's `ChainInv`; no clear task; a task that has drained is reaped; inline
context is still where its run looks (`ToldKept`); and two parts under the
assumption that makes them true.  Results are still where the follow-up looks
(`LearntKept`) when no client names an agent (`NoAgentsNamed`): the follow-up is
enqueued without the agent id.  A lit client has unfinished work of its thread
(`LightExplained`) when a thread has one socket (`OneSocketPerThread`): of two,
one is told `true` and another `false`.  Both are disagreements of section 4.
`OneRunUntilCleared`, `ContextReaches`, `ResultReachesFollowUp` and `IdleIsDark`
are corollaries; the run `overlap` shows why they end with a clear.
`ListenerDrivesQueue` shows that every step of the listener is a step of
`ThreadQueue` or a stutter.  `ListenerIsSerial`, `LightGoesOutWhenDrained` and
`ListenerImplementsSerial` (through the queue to `SerialExecution`) are about a
listener without clears (`MaxClears = 0`).

**ToolHandlerProofs.**  Packets on their way to the client are `Honest`: a
request was asked for and no hook has seen it, and is there once (`Once`); an
acknowledgement is of a response the registry accepted.  With `RegistryUsed`
(the registry is `Sound` and holds only what a run asked for) `AckedMeansAccepted`
follows for every client and any losses.  `HandlerAnswerPrevails` and
`NoRepeatAfterAck` need what is on its way to the server: each response there,
and in the buffer of a disconnected client, is the handler's own, given when its
execution was over (`Given`), so that the registry's answer is, too.  They assume
`OneResponder`: a fallback that answers for every tool stands beside no handler.
The combination it leaves out is the disagreement at
`useLocalToolHandler.ts:234`, and the instance of the run leaves it out as well.

**ToolApprovalProofs.**  What the screen shows lags twice: the reducers' actions
wait for a render, the refs for an effect.  `Screen` says what it lags behind:
the cards after all dispatched actions are the pending promises, the marks the
user's last word (`intent`) except of tools in `missed`; a client that does not
batch has nothing dispatched and not yet shown; and with nothing left to save
(`toWrite`) storage agrees with the marks of a client that asks, or `failed` says
why it does not.  A restart has to keep this: what it reads differs from the last
word only where something was not saved, not reduced or not read, which are the
cases `missed` collects.  That invariant gives `ScreenTellsTheTruth`, and step by step
`NoRunWithoutConsent`.

**AttachmentUploadProofs.**  `UploadInv` is about what is in flight.  A
`start_attachments` on its way means the server has seen nothing of that upload
(`Unanswered`) and is on its way once (`StartedOnce`); an ack on its way means
that the attachment is staged, unless another session has begun since
(`Arrived`); a message on its way means its upload is acknowledged.  A session
holds attachments of its own send only (`Sessions`), and what was acknowledged
is in it (`Received`).  So the message of a send that finds its session finds it
complete (`MessageIsComplete`), which is why the server's answer to an incomplete one
is unreachable.  That a message finds its session at all needs the host:
`Alone`, for a host that waits for each upload to end.  At most one send is in
progress, and its packets reach the server as a block: its start is on its way
with only attachments behind it, or its session is open with only attachments on
their way, or an ack is lost for good (`Lost`), and then the upload cannot end
in a message.  A message that refers to attachments has only attachments before
it (`ClaimsFirst`).

**RecipeDraftProofs.**  The handlers are many and the ways they change the state
few: a call begins (`Begins`), the answer to its read lets it go on (`Reads`),
its write ends or fails (`Writes`, `Fails`), a recipe is deleted (`Deletes`),
the list is reloaded (`Reloads`).  `Steps` shows that every action is one of
these, or selects a recipe or stages a photo.  `WellFormed` is what all proofs need:
each running call has exactly one open request, of a kind its tool makes, and
first requests are in the order of the calls (`Belong`); of two running calls on
a recipe the later knows of the earlier (`Beside`); calls are records of what
their tools take (`IsCall`); what is stored has a name, which is how the code
tells a recipe from nothing.  On top of it, one invariant for each property:

- `FreedInv`: of a recipe that was removed when no call on it had still to read,
  every read on its way is of a later call, and so finds nothing; every write on
  its way is in front of the removal (`Ahead`), and when that is over there is
  none.
- `ScreenInv`: when no reload is outstanding the list is `Present`, and the
  recipe created last is selected and stored, with nothing older to be created.
- `HeldInv`: while a solo call is `Underway` its own edit is in its write and in
  the draft; once it is `Confirmed`, every call on the recipe that runs is later
  and `Carries` the edit: in the draft it has seen, in the recipe it will find, or
  in what it is about to write.  This is why `recipe_save` may delete the draft.

The types rest on `ProperInv`: drafts, stored recipes, what calls have seen and
what is about to be written are records whose lists hold texts of `Spoken` calls,
those that have their read behind them, each at most once.  A call inserts its
text when its read is answered, and has not spoken until then (`EditedTexts`,
from a lemma for each way a list is changed).

`SoloEditsSurvive` speaks of edits made alone; without that condition the
property is false (`lost_edit`, section 4).

**StreamClientProofs.**  Sequences are compared by position, so that nothing is
computed by recursion.  `PieceInv` follows the chunks of a run from the server
over the wire and, in Swift, the main actor's tasks to the screen (`Flows`): in
each place they are in order (`InOrder`), those in one place come before those
in the places behind it, none is missing between two of them, and the next one
of a run that is still heard (`Heard`: its link is up) follows the last.  A run
whose link is gone may have lost its rest, and adds nothing any more.  That is
what makes `NothingSkippedOrRepeated` inductive: of the screen alone nobody
could say that the next chunk to arrive is the next one.  `Untouched` says that
what was not sent has said nothing.

`AnswersInv` is about the web client until a clear has run.  The queue takes
turns: its links order the tasks (`InTurn`, a numbering that exists; `Serial`
draws from it that while a run goes on every other that began has ended).
Therefore on the wire nobody speaks before the last chunk of a run that goes on
(`Uninterrupted`), and who speaks after a run of the same socket does so when
that is over, or has failed (`InTurns`).  On the screen, a message in flight has
no last chunk (`Unended`), and while the answer in it is not over `isStreaming` is true
(`Awaited`), so that nothing can be typed behind it; a dead link clears the
flag, but then nothing of that answer arrives any more.  `Waiting` and `Latest`
say the same of what is pending and of what was sent on the present link.
`Whole` is then the property itself, one run to a message and one message to a
run.  Runs, chunks, connections and breaks are unbounded in both theorems.

**Model-checked only.**  Liveness and anything under fairness, as the prover
has no `ENABLED`: that awaits, tasks, uploads, checks and streaming end, that
the timer fires, and that the queue refines `SerialExecution` *with* fairness.
`NoDeadEntries`, `ListenerDrivesQueue` and
`ListenerImplementsSerial` are the other way round: proved, and no property of a
run.

## 6. Not modelled

Formatting of messages, chunks and markdown, the log of protocol events,
trimming and rejection of blank ids, authentication (it admits a socket or does
not), message size (a refusal like others), the LLM and its prompt.  The connection is
modelled from how the code uses Socket.io: in order, at most once, with a send
buffer in the React client.  IndexedDB is modelled from how `db/recipes.ts` uses
it, in the order of the requests; a read that fails and the deselection that
nothing calls are left out, and so is a transaction that aborts at its commit:
`saveRecipe` resolves on the request's success (`db/recipes.ts:104`) and would
report such a write as done.  A removal that fails counts as a removal in
`SoloEditsSurvive`.  The acts of the iPad's user are single: a second
tap on a card that has gone is not.

Whole components: the React provider and the sample agent have no state of
their own.  The recipe editor of the iPad is sequential: a call ends in the main
actor turn in which it began, so there is nothing to interleave; its partial
failure is listed among the hazards.  The files under `Sources/Services` of the
iPad client that its Xcode target does not compile are not part of the program.
What is left of the web client's views, and the event types of the protocol, is
layout and types.

## 7. Plan

Done: the queue and its abstraction, the registry, the listener that composes
them, uploads, the timeout, the tool path with all its clients, the
conversation of both SDKs with both hosts, approvals, recipe drafts; the proofs
of the queue, the registry, the timeout, the listener (safety, and that it
implements the queue), the tool path, approvals, uploads, recipe drafts and the
conversation: every invariant that a run checks is proved.

Next, most important first:

1. An abstract `Conversation` (accepted messages, runs, results) that
   `AgentListener` without clears implements.
2. `AgentListener` with two sockets of one thread and the light of each.

Where a new question needs a run, a failing run of a settled disagreement is
retired; it stays described above.

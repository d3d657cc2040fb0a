# Zeclaw in TLA+

Zeclaw is a Go backend that runs LLM agents and a Flutter app that talks to it
over one WebSocket. This directory holds TLA+ models of the parts where the
order of events decides whether it is right, TLC configurations that check them
on small instances, and theorems that TLAPS proves for every instance.

Run inside this directory: `tlc -config AgentSafety.cfg MCAgentRuntime` (the
cfg names its run; `PROJECT.json` lists the module of each) and
`tlapm AgentRuntimeProofs.tla`.

## Inventory

| Component | State | Operations | Hard because |
|---|---|---|---|
| Agent runtime, `agent/agent.go` | state, conversation, message queue (10), interrupt slot (1), cancel function of the current call | event loop, thinking loop, tools, interrupt, `setState` | one loop, one stream reader and a goroutine per client share it; the cancel function is replaced at every call |
| Agent manager, `agent/manager.go` | map of agents | create, delete, load, list, route, interrupt, retry | look-up and use are separate steps; map and database change one after the other |
| Store, `storage/` | SQLite tables | inserts, updates, deletes, history pages | errors are mostly ignored; foreign keys are on for one connection only; time stands still for a second and may go back |
| LLM clients, `llm/` | partial tool calls of a reply | `ChatCompletion`, `parseSSE`, `parseNDJSON` | fragments of several calls interleave; five ways a body can end |
| WebSocket hub, `server/server.go` | registered clients, send channel (256) each | register, read and write pumps, broadcast | a full channel drops a frame; a client is registered after its socket is open |
| Handlers, `server/handlers.go` | none | one per frame type | answers cross broadcasts |
| Tools, `tools/` | processes and output of the current command | shell (60 s), read_file | processes outlive their shell and hold its output; three causes may end a command |
| App session, `main.dart`, `providers.dart`, `models.dart` | agent list, active agent, bubbles | one handler per frame | a history replaces bubbles that are being streamed |
| App WebSocket client, `websocket_client.dart` | connection state, delay | connect, reconnect, send | frames sent while offline vanish; nothing is asked again |
| App screens, `chat_screen.dart`, `dashboard_screen.dart`, ... | text field | send, select, stop, retry, dismiss | message or interrupt is chosen by a status that may be old |
| Launcher, `MainActivity.kt`, `backend_service.dart` | extracted files, process | start the backend | extraction may be cut short |
| Main, `cmd/zeclaw/main.go` | none | set-up | - |
| Heartbeat, cron, memory, skills, hooks, approvals, audit, doctor | tables and frame names only | - | no code yet |

**Interactions.** A client's frame is read by its `readPump` goroutine, which calls the
handler, which calls the manager, which calls the agent: a message goes into the
agent's queue, an interrupt into its slot. The agent's goroutine takes them, calls
`ChatCompletion`, reads the channel that the parser's goroutine fills, saves messages
through the store and broadcasts frames through the hub, which puts them into every
client's send channel; the write pump sends them to the app, whose handlers change its
state. Deletion cancels the agent's context, from which those of calls and tools derive.

**What makes each part correct.** *Runtime:* requests are served in order and settled once,
the conversation is one a chat API accepts, an agent that waits is not shown working, a
deleted agent ends. *Manager and store:* agents that run have rows, rows of agents that
were shown survive, no loop is unreachable, one main agent, deleted agents stay away.
*LLM clients:* calls are whole and handed over once, one verdict ends a stream, no
goroutine is left on a channel, a reply cut short is no answer. *History:* pages go back,
repeat nothing and miss nothing. *Tools:* a tool returns, its output is whole and its
verdict right, and nothing it started disturbs the next.
*Hub and app:* what was said is shown in order and once, and the status settles.
`PROJECT.json` lists the hazards behind these, each at its line.

## Modules

| Module | Models | Correspondence |
|---|---|---|
| `AgentRuntime` | agent.go, and manager.go as it reaches one agent | `pc` is the agent goroutine's place in `run`/`thinkingLoop`/`executeTool`; `cpc[c]` is client goroutine `c`'s place in the manager's and agent's methods; `stream`, `open` are the chunk channel; `pub` is what is left of a `setState` (field, database, frame) |
| `RequestQueue` | what an agent promises about requests | abstract; `AgentRuntime!KeepsPromise` is the refinement |
| `AgentRegistry` | manager.go with the tables | `rows`, `talked` are the tables, `live` the map, `started` the goroutines; `Restart` is a crash at any point and `server.New` |
| `AgentDirectory` | what the manager promises about the set of agents | abstract; `AgentRegistry!KeepsDirectory` is the refinement: `kept` is the table, `running` the map, `asked` the ids named in a delete_agent |
| `LlmStream` | cloud.go and ollama.go | `accum` is `toolAccum`; `due` are the chunks the last line calls for, sent one at a time; `Close` is the deferred close, a step of its own after the verdict |
| `StreamProtocol` | what the drain loop relies on | abstract; `LlmStream!KeepsProtocol` is the refinement |
| `Reply` | agent.go:263-316 with both parsers | extends `LlmStream`; the channel is what is in `sent` past `taken`, the parser blocks when it holds `ChanCap`; `reader` is the drain loop or the goroutine it leaves behind |
| `ToolRun` | executeTool, registry.go, readfile.go, shell.go | `pc` is the place in executeTool, the tool or `cmd.Run`; `ctx` the context of the current tool; `shell`, `procs` the processes, `wrote` and `got` the pipe and outBuf; `last` is what is said of a tool, to the clients (`status`) and to the LLM (`told`: the output, or an error only if there is none), with what it was made from |
| `HistoryPages` | the messages table, handleGetHistory, the cursor | `row[m]` is the m-th insert with its second; `page`, `cursor` the last history frame; `seen`, `cuts`, `began` record what the reader was shown |
| `Chat` | server.go, handlers.go, websocket_client.dart, main.dart, providers.dart, chat_screen.dart | `down` is a client's send channel and the wire, `up` the other direction, `pending` the answer a handler has read and not sent; `bubbles`, `status`, `known` are the app's |
| `MC*` | - | sets and symmetry of the small instances |
| `AgentRuntimeProofs`, `AgentTalkProofs`, `AgentRegistryProofs`, `LlmStreamProofs`, `ReplyProofs`, `HistoryProofs`, `ToolRunProofs`, `ChatProofs` | - | theorems |

Definitions commented as mutants are faults put beside the definition they would
replace; they show that the properties can fail and are used by no specification.

**Granularity.** A step is what runs between two points where another goroutine can be
noticed: a channel operation, a lock, a database call or a broadcast. So `setState` is three
steps, `Interrupt` is up to four, the look at the interrupt channel and the storing of a call's cancel
function are two (`PassTop`, `StartCall`), looking an agent up and using it are two, and reading a
snapshot and sending it are two. Steps that touch only the agent's own fields are joined to the
one before. In `Chat` the agent is reduced to what it broadcasts and saves, and `setState` and
`ResetState` to one step each; `AgentRuntime` has them in full.

**Abstractions.** A text is a model value, sent at most once. The content of a reply is whether
there is any (`AgentRuntime`) or numbered pieces (`Chat`). Chunks hold one tool call each; a
reply's calls may also come in one chunk, which the loop treats alike. In `Chat`, executing is
shown as thinking (both are "working"), and a history is its newest page (`PageSize`), messages of
the same second in the order they were inserted, which `HistoryPages` derives from the index on
(agent, time). `HistoryPages` takes as "a second" any two inserts between which the clock was not
moved, and lets the clock be set to any value. `ToolRun` models os/exec only as far as the code
relies on it: a copying goroutine, a killing goroutine, no `WaitDelay`, `SIGKILL` to the shell alone. An
output is counted in writes and cut at `OutputLimit`. `Reply` keeps of the agent only what concerns
the channel; `AgentRuntime` has the loop around it, with a stream that it produces chunk by chunk.
A lost connection takes what was on its way with it: what the old `readPump` would still have
handled is as if handled before. `Chat!Connect` is more than the code may do: the channel's stream is
listened to twice (websocket_client.dart:63 and :68), and where the second listen is refused no connection is
made; a safety property that holds with more connections holds with fewer. Payloads that do not parse, which the app never
sends, error frames, acknowledgements and tool frames, which it ignores, are left out.

## Runs

| Run | Checks | Bounds |
|---|---|---|
| `AgentSafety` | `TypeOK`, `WaitingShowsNotWorking`, `ToolPairing`, `CallAsksCurrentTask`, `HistoryInContext`, `KeepsPromise` | 2 clients, 2 texts, 1 stop, queue 1, channel 3, 2 tools a reply, context 5 |
| `AgentLive` | `StopEnds`, `QueuedIsSettled` | 1 client, 2 texts, queue 1, channel 1, context 4, statements may fail |
| `Registry` | `TypeOK`, `LiveHasRow`, `AnnouncedIsDurable`, `NoLeakedLoop`, `KeepsDirectory` | 3 clients, 2 ids, both kinds, statements may fail |
| `Reply` | `TypeOK`, `WholeCalls`, `CallOnce`, `NothingLostAtBodyEnd`, `NobodyNeeded`, `NoPartialAnswer`, `KeepsProtocol`, `ParserEnds` | 2 indexes, 3 lines, channel 4 |
| `History` | `TypeOK`, `PagesGoBack`, `MissesOnlyTies`, `PagesInSavedOrder`, `ReadingShrinks` | 2 agents, 5 messages, 3 seconds, limits 1 and 2 (for 50) |
| `Tool` | `TypeOK`, `OutputIsWhole`, `NobodyHoldsOutput`, `VerdictFits`, `ToolReturns` | 2 calls of 5 kinds, 2 processes besides the shell, 2 writes, limit 1 |
| `Chat` | `TypeOK`, `SaidInOrder`, `TypedOnce`, `QuietNotWorking` | 2 texts, 2 pieces, send channel 3, page 2, 1 break, 1 other request |
| `AgentInterruptLost`, `AgentOwnCancel`, `AgentInterruptStuck`, `RegistryTwoMains`, `RegistryResurrection` | one property each, violated | the smallest that show it; `AgentInterruptStuck` needs two clients |

**Why the bounds are enough.** Every hazard needs at most two clients at one agent (one in
`Interrupt`'s drain, one filling the slot, or one deleting), a full queue (capacity 1), a full channel, and
one interrupt or stop after a tool round. Two tools in a reply are the least that an
interrupt can separate; context 5 lets a second round follow an interrupt. A registry race
needs a creating, a deleting and a listing client, and a parent with a child needs two ids. Two
fragments of one call with one of another between them need three lines; a channel of 4 is
filled by a body of three lines and what its last line flushes. A page is cut inside a second
with two messages of that second and a limit of 1, and goes wrong twice with five. A process that
outlives the shell, one it starts in turn, a cut output and a second call that starts after all that
are the cases of `ToolRun`. A second piece after
a history shows a doubled or disordered piece; a send channel of 3 drops frames of a tool round. The safety
theorems below hold without the bounds. Runs end where texts, stops and breaks are used up or
the agent is deleted, a reply and a list of tools end, so the cfgs of `AgentRuntime`, `Reply`, `ToolRun`
and `Chat` do not check deadlock; those of the registry and of `HistoryPages` do.

**What the passing runs show.** However messages, interrupts, stops, retries and deletions
interleave with a reply and its tools: requests keep their order and are settled once; no
tool call is left unanswered in a conversation; the LLM is asked about the current request;
what is saved is what the LLM was told, in that order; and the published status comes to
rest. The registry's table, map and loops agree through failing statements and crashes. The
parsers put calls together rightly and always end with one verdict, end whatever the agent does
with the channel, and a reply that was cut short, as most are, is an error and never an answer. A
history read page by page repeats nothing and misses nothing but messages of the second at which a
page was cut. A tool returns if its output is released and its file can be read; what it wrote is whole,
and what is said of a command fits what ended it: the clients see an error only for a missed deadline, and
"done" after a kill only for a cancellation. The LLM is told less, see below. The app never shows a
piece twice or out of order, nor a text twice.

### Where the code departs from what it says

1. `AgentOwnCancel`: `thinkingLoop` cancels the call's context as soon as it has the channel (agent.go:269), under which the parser goes on reading; replies longer than what is already read end as errors.
2. `AgentInterruptLost`: an interrupt during `ChatCompletion` makes it fail; the error branch (agent.go:271) leaves the interrupt in the channel. docs/ARCHITECTURE.md:354 says that agents never ignore user input while working.
3. `RegistryTwoMains`: check and entry of a main agent (manager.go:70, 100) are not one step.
4. `RegistryResurrection`: the DELETE of an agent with messages fails on the foreign key (storage.go:144), so the agent comes back with the next start.
5. `AgentInterruptStuck`: the send at agent.go:129 blocks. When another client's interrupt fills the channel between the drain and the send, and the agent is idle, that call of `Interrupt` never returns, and its client's `readPump` reads no further frame. The comment (agent.go:121) speaks of replacing what is queued.

Met while modelling, and not the subject of a run:

- docs/ARCHITECTURE.md:217 says that the app sends `get_agents` on a reconnection. It sends it once, after its
  start (main.dart:34), and nothing when it is connected again (websocket_client.dart:114): a status missed
  meanwhile stays. `QuietNotWorking` has the premise `breaks = 0` for that reason and fails without it.
- websocket_client.dart:63 listens to the channel's stream to see whether it fails, and :68 listens again; a
  single-subscription stream refuses the second, and the `catch` goes on to the next address.
- docs/ARCHITECTURE.md:162 and :299 say that a retry re-attempts the failed task. `RetryAgent` resets the state to
  idle (manager.go:176, agent.go:151) and nothing else: the task stays settled as failed (`RequestQueue`).
- docs/ARCHITECTURE.md:391 says that interrupts are looked for before each tool. They are before each call of the LLM
  and at each chunk (agent.go:246, 284); the other tools of a reply still run, also after one was cancelled.
- docs/ARCHITECTURE.md:392 and :539 promise SIGTERM to the process group, then SIGKILL. exec sends SIGKILL to
  the shell alone (`ToolRun!SendKill`).
- docs/ARCHITECTURE.md:430 shows the result of a killed tool marked as interrupted. Nothing marks it: a cancelled
  command's output is given as that of any other, "done" (shell.go:71).
- The LLM is told of a timeout only if the command wrote nothing: executeTool puts the error's text into
  the result only when there is no output (agent.go:397-402). With output, the timeout is left in the status
  that the clients see. `VerdictFits` states both.
- An interrupt whose send and cancel both fall between the look at the channel and the storing of the call's
  cancel function (agent.go:246-259) cancels nothing; it is found with the first chunk, however late that is.
- shell.go:51 says that the process group is made to "kill the whole tree on cancel"; nothing signals
  the group, so only the shell is killed (`ToolRun!SendKill`), and `Run` waits for the rest.
- A command that failed by itself while a child held the output past the deadline is reported as
  timed out; one that was cancelled, or that could not be started, is reported as "done"
  (shell.go:65-72).
- Messages of the second at which a page is cut are never shown (storage.go:215), and the cursor of
  the empty last page is the empty string, which asks for the newest page (handlers.go:199).
- read_file looks at its context once, so a file that never ends keeps the agent (readfile.go:54),
  where tool.go:19 says that implementations should respect cancellation.

The safety runs take the code as it is, these included, so what they show holds of it.

## Fairness

`AgentRuntime!FairSpec` has weak fairness of the agent's goroutine and of each client's
goroutine once it has a frame (the Go scheduler runs every goroutine that can run), and of a
call or stream whose context is done (`net/http` returns then). It has none of the provider: the HTTP
clients have no timeout (cloud.go:28). It has none of the tools either: the shell's timeout and a
cancellation kill the shell, not the processes it has started, and `Run` waits for whoever holds
the output (shell.go:58). The liveness properties that need a provider that answers or tools
that return say so as a premise (`ProviderAnswers`, `ToolsReturn`). Users are never
forced to send anything.

`Reply!FairReplySpec` has weak fairness of both goroutines at the channel and of the one that drains,
and of a read of the body once the context is done (`net/http` closes the body then). It has none of the provider: what ends
every reply is that the agent releases the context (agent.go:269). `ToolRun!FairSpec` has it of the agent, of
os/exec's two goroutines and of the deadline's timer, none of the commands; `ToolReturns` states as premises
that the output is released at some time and that files can be read. `Registry`, `History` and `Chat`
state no liveness.

## Theorems

All proofs are from the constants' assumptions (`RuntimeAssumption`, `RegistryAssumption`,
`StreamAssumption`, `ChannelAssumption`, `PagesAssumption`, `ToolAssumption`, `ChatAssumption`: distinct values,
capacities positive, bounds natural), for any sets of clients, texts and ids. Every invariant and
every refinement that a passing run checks is the statement of a theorem.

- `AgentRuntimeProofs`. `TypeCorrect` from `TypeInv`, which adds that a running tool belongs to a
  call still to answer and that a client in `SendMessage` carries a text: without them a
  count could go below zero and the queue could take an empty text. `WaitingCorrect` from
  `RestInv`: at rest, the state is quiet and what is still to be published is quiet, by stage
  of the publication. It is needed because the property speaks of the end of a publication
  only, while the values that reach the database and the clients are fixed at its start.
  `RuntimeImplementsQueue`: every step of the agent is one of `RequestQueue` or a
  stutter. The invariant `Book` says that a request is in one place only (one client's hand, the
  queue, the slot or the task) and that its outcome names that place; without it a step could
  settle a request twice.
- `AgentTalkProofs`. `PairingCorrect` from an invariant that counts the results due after the
  last request for tools (`reply.calls` while tools run, none otherwise). `AskCorrect` from one
  that keeps, through every tool round, the place of the current request in the conversation.
  `HistoryCorrect`: each step tells the LLM what it saves, and `HistoryInContext` is inductive by
  itself. Its matching is a recursive function, and the library's induction takes an operator, which
  these provers cannot instantiate; so what is needed of the function goes by the least
  position where it would fail (`LeastElement`, from the well-foundedness of `<` on the naturals).
- `AgentRegistryProofs`. `LiveAgentsHaveRows`, `AnnouncedAgentsAreDurable` and `NoLoopLeaks` from one
  invariant about operations in flight: an agent being created is unknown to every client (so
  nobody can delete it), one being deleted is out of the map and asked for, and a snapshot
  holds only agents whose rows are there or that somebody has asked to delete. The same
  invariant gives `ManagerKeepsDirectory`, the refinement of `AgentDirectory`, step by step.
- `LlmStreamProofs`. `ParsersKeepProtocol`: both parsers implement `StreamProtocol`; `DueInv`
  says that a verdict stands only at the end of what was made, and that it is made exactly when the parser is over, so
  that the deferred close finds it sent. `CallsAreWhole`, `CallsRunOnce` and
  `NothingIsLost` from `MadeInv`, about the chunks made, sent or due: a send leaves it as it is, and
  what remains is the scan of one line. It says that `toolAccum` lists the fragments read so
  far, that a call holds those read when it was made, and that each text and, at
  the end of a body, each call read was made a chunk.
- `ReplyProofs`. `ReplyIsStream`: a step of the reply is one of `LlmStream` or leaves it alone, so
  `ReplyKeepsProtocol` and `ReplyHandsOverCalls` follow by transitivity. `NobodyIsNeeded` and `AnswersAreWhole` from an
  invariant that the place of a verdict, of those sent and of those due, is the last, and that
  what ended the body decides which it is.
- `HistoryProofs`. The rank of a message in a finite set is injective and below the set's
  cardinality; so ranks are onto (no induction is needed: an injection between finite sets of the
  same size is a bijection), and every position of a page is filled by exactly one message. Then
  `ReadingGoesBack` and `ReadingMissesOnlyTies` from an invariant that relates the pages shown, the
  cursors and what is still to come, under inserts at any second; `PagesAreOrdered` adds that seconds grow
  with inserts while the clock is not set back; `ReadingEnds` is an action property of the same invariant.
- `ToolRunProofs`. `OutputsAreWhole`, `OutputIsReleased` and `VerdictsFit` from `PhaseInv`: what is known of the
  shell in each phase of `Run`. It is needed since `killed` and `exit` are set by goroutines that run while
  the agent waits: a kill implies that the context is done, and an ended shell has an exit status.
  `VerdictsFit` says what the clients and what the LLM are told, the second by way of agent.go:397-402.
- `ChatProofs`. `QuietCorrect` from `QuietInv`: once the agent waits, a frame that shows it as working
  is followed by one that does not, and if the app shows it as working, such a frame is still
  to come. `SaidCorrect` and `TypedCorrect` from `TalkInv`, which follows the conversation from the
  table to the screen. `LogInv`: the table is in order, and the pieces of the current stream are not
  in it. `PlaceInv`: a text is on its way up, queued, in the interrupt channel or saved, and in one
  of these only, so that saving it cannot repeat it. `CarryInv`: every history on its way is in order.
  `PieceInv`: a piece on its way comes after every piece and every history before it in the channel,
  and after all that is shown; without it a history could be followed by pieces it holds.
  `ScreenInv`: what is shown is in order, and a bubble left open is the last that holds a piece (`OneOpen`).

Only model-checked: liveness and ENABLED, out of TLAPS's reach: `StopEnds`, `QueuedIsSettled`,
`ParserEnds` and `ToolReturns`. The theorems about `Chat` say what is shown is right, not
that everything said is shown: frames are dropped.

## Not modelled

- Settings and endpoints (storage.go:253-, handlers.go:215): no code reads a setting, and none writes an
  endpoint, so an order of events cannot make a difference. The settings of one frame are written one by
  one, and a failure leaves the first ones stored; nothing would notice.
- The requests' conversion to each provider's JSON, layout, routing and theme of the app: no state.
- `main.go`: sequential set-up; `AgentRegistry!Restart` is what it amounts to.
- The launcher: file and process I/O of the Android host. A binary whose extraction was cut short is
  not extracted again (MainActivity.kt:91).
- Heartbeat, cron, memory, skills, hooks, approvals, audit log, doctor: no code.

## Plan

Done: the runtime, its queue, the registry and its directory, the streams and the reply, the pages
of a history, the tools, one app's session; theorems for all safety properties. What is left, in order:

1. `AgentRuntime` with `Reply` in the place of `Produce` and `ToolRun` in that of `FinishTool`, by instantiation;
   today `Reply` and `ToolRun` repeat the part of the loop that concerns them.
2. The history `Chat` sends (`NewestPage`) derived from the page of `HistoryPages`.
3. `Chat` with two agents and two apps.

# A verification project for Aineer

Aineer (`src/crates`, `src/app`, `src/ui`) is an AI coding agent: a terminal
program and a desktop application around one engine, which sends a conversation
to a model, runs the tools the model calls, and recovers from the errors in
between. This directory holds TLA+ models of its stateful parts, TLC runs that
check them on small instances, and theorems that the TLA+ proof system checks
for every instance. `PROJECT.json` maps every definition to the lines it
stands for.

Paths below are relative to `src/crates` unless they begin with `app/` or `ui/`.

1. [The system](#1-the-system)
2. [The modules](#2-the-modules)
3. [The runs](#3-the-runs)
4. [The proofs](#4-the-proofs)
5. [What the code does that its words do not say](#5-what-the-code-does-that-its-words-do-not-say)
6. [What is not modelled](#6-what-is-not-modelled)
7. [How it was built, and what is left](#7-how-it-was-built-and-what-is-left)

## 1. The system

### Components and how they interact

```
 user ── LiveCli (cli/live_cli.rs) ─── session files (.aineer/sessions/*.json)
            │ owns a runtime, replaces it on most slash commands
            v
       ConversationRuntime (engine/conversation.rs)
            │        │  RecoveryEngine (recovery.rs), compaction (compact/)
            │        └─ PermissionPolicy (permissions.rs), hooks, observers
   streams  │        tools
            v            \
   ProviderRuntimeClient   CliToolExecutor (cli/runtime_client/tool_executor.rs)
   (api/*, SSE, retry)        ├── GlobalToolRegistry (tools/registry.rs): a thread per call
                              │      ├── task tools  ── .aineer/tasks.json
                              │      ├── sub-agents  ── a thread, a runtime and files each
                              │      ├── Lsp tool    ── LspManager (lsp/) ── language servers
                              │      └── files, bash, web, cron, worktrees, plan mode ...
                              └── McpServerManager (mcp/), under a mutex ── MCP servers

 desktop: React hooks (ui/hooks) ── Tauri commands (app/src/commands)
             ── the same engine, or WebAiEngine (webai/): hidden pages of web chats
          gateway/: an HTTP server in front of WebAiEngine

 beside them: plugins/ (a registry, settings and directories of a home) and
              auto_update.rs (a state file and the binary), shared by all processes
```

| component | state it keeps | operations | what is hard about it |
|---|---|---|---|
| conversation loop (`engine/conversation.rs`, `compact/`, `session.rs`) | session, iteration counter, recovery engine | `run_turn`, compaction | errors in any order in the middle of a turn; the transcript must stay one that providers accept; batches of threads |
| recovery engine (`engine/recovery.rs`) | attempt counter, three flags | classify, select, record, reset | several bounds that reset at different times |
| permission policy (`engine/permissions.rs`), hooks (`hooks.rs`) | mode, rules | `authorize`, `run_commands` | precedence of mode, rules, tool requirement, prompt and hooks |
| interactive session (`cli/live_cli.rs`, `session_store.rs`, `resume.rs`) | runtime, handle, mode, model; files on disk | REPL commands, `--resume`, one-shot prompts | commands that fail half-way, killed processes, several processes on one file |
| task tools (`tools/task.rs`) | `tasks.json`, an exit file per task | TaskCreate, Get, List, Update, Stop | unlocked read-modify-write by threads and by processes, crashes, commands that run on |
| MCP client (`mcp/stdio`, `remote.rs`, the tool cache in `cli`) | processes, `tool_index`, cached definitions | discovery, calls, shutdown | requests and answers out of step, servers that die, partial discovery |
| LSP client (`lsp/`) | open documents, pending requests, diagnostics | connect, query, change, close | several threads and a reader task without a common lock, late answers |
| providers and stream assembly (`api/`, `cli/runtime_client/`) | client, model, fallbacks, the state of a stream | stream, retry, fall back | streams that mix and break off, several ways to make a request again |
| Web AI engine (`webai/`), gateway (`gateway/`) | a page per provider, cookies, a marker file | send, check, log in and out, close | pages initialised outside the lock and closed in use; bounded channels; clients that go away |
| desktop front end (`ui/hooks`) and backend (`app/src`) | queue, one stream binding, controller, safety timer; a cancel flag per block | submit, stop, force, edit, events | events before their binding, stale renders, a stop that races the end |
| plugins (`plugins/`) | registry file, settings, a directory each | sync, discover, install, enable, disable, update, uninstall | several files, one change; processes that share a home |
| self update (`cli/auto_update.rs`) | state file, binary, its temporary and its backup | check, dismiss, apply | renames that may be cut short, state loaded and saved by two at once |
| sub-agents (`tools/agent.rs`, `collab.rs`) | manifest, output file, registry of flags | spawn, list, stop | threads that outlive the turn, a process that ends before them |
| credentials (`engine/credentials`, `oauth.rs`) | token file | resolve, refresh, save | refresh of a rotating token by two processes |
| worktree, plan mode, cron (`tools/worktree.rs`, `plan_mode.rs`, `cron.rs`) | process-wide directory and flag; the crontab | enter, exit; create, delete | state taken before what may fail; unlocked read-modify-write |
| other tools, settings, memory, channels, editor, rendering | little or none | | see section 6 |

`PROJECT.json` lists the hazards of each, at the lines where they bite, with the
properties that cover them, or why none does.

### What makes each modelled component correct

* **Conversation**: every request is one a provider accepts (calls answered in
  place, orphaned results only behind a summary, news at the end); a tool runs
  only with somebody's leave; results tell what happened; unsafe tools run alone;
  no call runs twice; a bounded number of requests; a turn ends.
* **Interactive session**: a turn that was saved stays saved; sessions do not
  mix; what is shown is in force.
* **Task tools**: recorded exit codes are true; tasks that were created stay;
  a settled status stays.
* **MCP and LSP**: an answer goes to the request it answers; a server is
  initialized before it is asked; what is offered can be called; documents are
  opened before they are changed or asked about; a call ends.
* **Providers**: a reply is the text of one stream; a reported call is whole; the
  events of every protocol are well-formed blocks.
* **Web AI**: a page in the pool is one that can be used; an answer that ends well
  and was not cut is whole; no request keeps the others waiting.
* **Desktop chat**: one task at a time; a task is done once; a message shows its
  own stream; the queue moves on.
* **Plugins and self update**: whatever is cut short, a later start repairs it or
  says so; a whole binary is left; what was dismissed stays silent.

## 2. The modules

| module | code | role |
|---|---|---|
| `Recovery` | `engine/src/recovery.rs`, `compact/mod.rs` | pure: classifier, strategies, counters |
| `Permissions` | `engine/src/permissions.rs`, `hooks.rs` | pure: what rules, mode and hooks say of a tool |
| `Conversation` | `engine/src/conversation.rs`, `compact/mod.rs`, `cli/.../tool_executor.rs`, `tools/.../registry.rs` | the agent loop, extends `Recovery` and `Permissions` |
| `TurnProtocol` | (what a provider is promised) | abstract specification `Conversation` implements |
| `TaskStore` | `tools/src/task.rs` | the task tools on their shared file |
| `McpManager` | `mcp/src/stdio/manager.rs`, `process.rs`, `remote.rs`, `cli/src/runtime_client/mod.rs` | servers, discovery, calls, tool cache |
| `LspClient` | `lsp/src/client.rs`, `manager.rs` | threads, reader task, server |
| `LiveSession` | `cli/src/live_cli.rs`, `session_store.rs`, `resume.rs`, `engine/src/session.rs` | REPL processes and session files |
| `ProviderStream` | `api/src/providers/`, `cli/src/runtime_client/mod.rs`, `stream.rs` | one model request, its retries and its streams |
| `BlockProtocol` | `api/src/types.rs` | abstract specification of the events `ProviderStream` reads |
| `WebAiPages` | `webai/src/`, `app/src/commands/ai.rs`, `gateway/` | pages, requests, channels |
| `DesktopChat` | `ui/hooks/`, `app/src/commands/ai.rs`, `agent.rs` | the chat and the streams it listens to |
| `Plugins` | `plugins/src/manager.rs` and its helpers, `cli` `/plugins` | directories, registry, settings |
| `SelfUpdate` | `cli/src/auto_update.rs` | state file and binary |
| `*Proofs` | | the theorems about `Conversation`, `TaskStore`, `McpManager`, `LspClient`, `LiveSession`, `DesktopChat`; `ReplyProofs` is about `ProviderStream` and `WebAiPages`, `HomeProofs` about `SelfUpdate` and `Plugins` |
| `MC*` | | constants of the TLC instances |

Names that end the way of `NotActivated`/`HandleFirst` or `Shut`/`ShutSilently`
come in pairs: the second is a changed form of the first, which the specification
does not use (section 3, Mutants).

### Conversation and Permissions

One thread runs `run_turn`, so an action is a stretch of it between two waits:
for the API (`pc = "stream"`), for the permission prompter (`"permit"`), for a
tool (`"execute"`); `"head"` is the top of the loop.

| in the code | in the model |
|---|---|
| `self.session.messages` | `session`: roles, the ids a message calls or answers, whose output it holds |
| `iterations`, `self.recovery` | `iterations`, `recovery` (the engine lives as long as the runtime; `Rebuild` replaces it) |
| `run_turn` 266-340, one iteration | `RunTurn`, `NextIteration`, `MaxIterationsExceeded` |
| `stream_with_recovery` | `Reply`, `UnusableReply`, `TransportError`, `RetryRequest`, `AutocompactRetry`, `ReactiveCompactRetry`, `GiveUp` |
| `check_permissions` | `CheckPermissions`: `Verdict` of rules and mode, the user's answer where it is "ask", the commands hooked before the tool; a slot is approved or holds the denial |
| `execute_batch` and the threads of `GlobalToolRegistry::execute_batch` | `StartBatch`, `StartNext`, `RefuseNext`, `FinishTool` (batch threads end in any order) |
| `apply_post_hooks`, the push of results | `PushResults` |
| `compact_session`, `/compact` | `CompactSession`, `CompactCommand` |

The provider may answer with any error of `ApiErrors` or any reply of up to
`MaxCalls` calls, a tool may fail. Texts are left out; an output is the id of the
call whose run produced it. A hook is what it decides; its text is not modelled.
A rule is the set of calls it matches.

`TurnProtocol` states the promise alone: speak only when nothing is owed, and
answer all calls of a reply before going on. The refinement computes what is
owed from the messages of the session, and not from the loop's variables.

### TaskStore

A worker is a thread of a session (a process). A call reads and parses the file
(`ReadFails`, `ReadAndSync`, `ReadAndSet`, `ReadAndCreate`), may wait for a
command (`CommandEnds`), and writes the whole list back in two steps, because
`std::fs::write` does (`Truncate`, `Write`). `StartCall` carries the scheduling
of the registry: calls of a session overlap only when all are in `SafeTools`.
Writers of a file that was written meanwhile may leave the longer text's tail
(`overlaid`, `torn`). A write may fail or be cut short by the death of its session
(`WriteFails`, `Crash`), which leaves the file torn for good; `store` is what a
reader finds, and `spoilt` notes that a file was left so.

### McpManager

One caller at a time uses the manager (its mutex), so `pc` is one program
counter; servers answer in any order or never, send notifications and requests
of their own (`Notify`, `Ask`), and die. A frame is told by its id alone, so a
server's own request can be accepted for an answer. A stdio request takes the
next frame of the pipe whatever it is (`ReceiveOther` is the mismatch, which
leaves the answer in the pipe). A WebSocket request passes over foreign answers
that can be read as an answer to itself (`Parses`, `PassOver`), fails on the
others (`ReceiveOther`), and times out (`TimesOut`).
`BeginDiscovery ... EndDiscovery` and `ForgetCache` are `discover_mcp_tools` with
the cache of the CLI and its hour. `Shutdown` is the end of the REPL; `Leave` that
of a one-shot prompt or of a turn of the desktop, which stop no process.

### LspClient

Each await of `client.rs` and each lock it takes is a place of a thread, so
threads interleave between `ensure_document_open`, the notification, and the
mark in `open_documents`, and between a request's registration, its sending and
its answer. The reader task is `ReadAnswer`, `ReadAsk` (a frame with an id is
taken for an answer), `ReadPublish` and `ReadGarbage`. The server answers in any
order, or never, may ask something itself, write garbage, or die. A request has
a serial number next to its id, so that the properties do not trust the ids.

### LiveSession

A process has a handle, a conversation (the set of its turns), the mode and
model it shows, and those its runtime was built with. Each command is one
action up to its save, with a disjunct for the failure of each fallible step in
the order of the code; the save is `Truncate`, then `Write`, either of which may
fail or be interrupted by `Killed`. Building a runtime may fall back to another
model (`Resolved`), which only `/model` and the end of a turn take over. The histories `shared`, `wiped` and
`spilled` name the cases in which the code does lose or mix turns, so that the
invariants can say it happens in no other.

### ProviderStream and BlockProtocol

| in the code | in the model |
|---|---|
| `send_with_retry` | `Answered`, `Retry`, `GiveUp` over `attempts` |
| the client's `StreamState` (`openai_compat_stream.rs`) | `norm`; `Ingest`, `Sends`, `PassedOn`, `Shut`, `Stopped`, `Completed`: what a chunk becomes |
| an Anthropic stream, which comes as blocks | `Narrated`, and `Narrates` for whether it is one |
| `stream.rs`, the loop over events | `Handle` with `HandleEvent`, its one `pending_tool` as `tool`; `Conclude`, `EnsureStop` |
| the request without streaming, without tools, with a fallback | `Answer`, `ToolsRefused`, `Fallbacks`, all through `Dispatch` |
| the cancel flag of the desktop | `Cancel` |

A piece of text is its place in the stream, so that "all, in order, none of
another stream" can be said. `phase`, `open`, `closed` and `heard` record the
events that were read, and the refinement says they are a behaviour of
`BlockProtocol`.

### WebAiPages

The mutex around the page manager is `lock` (held across an await only while a
page loads) and steps that need it are guarded by it; everything else a request
does happens with the mutex free, one action per await: `GetPage`, `Loaded` or
`LoadTimesOut`, `StartInit`, `Discover`, `ProbeCookies`, `CheckSession`,
`SendMessage`, `Read`, `ReadEnd`. `page` is the pool, `window` the window that
bears the provider's label, which may be closing. A load looks at no window and
is ended by any ready event of the provider (`Loaded`), so the page of a window
that was found closing may come to stand in the pool: the history `revived` says
of which providers. The listeners of a page put
chunks into `raw` without waiting (what finds it full is dropped, and the drop is
recorded), `Parse` moves them into `parsed`, waiting for room. The site (`Emit`,
`Throw`, `Finish`), the user (`Stop`, `EndLogin`) and the gateway's client
(`Leave`) do as they like. The marker file is read and written in two steps.

### DesktopChat

What a hook does between two awaits is one action, since the interface has one
thread; what it reads through a `ref` is current, what a closure or a bar of a
render shows is `shown`, the state at the last `Render`. A *run* is one execution
of a task, with the interface's part (`stage`, `message`, `aborted`), the
backend's stream (`back`, `cancel`, `text`) and the events that are on their way
to the listener. `SendReturns` binds the stream, after events may have come
and gone; `Receive` is the listener, `TimerFires` the safety timer,
`ProcessChatQueue` what every end of a run calls. `heard` counts the texts of a
stream that reached the listener, `words` the ones its message shows, each with
the stream it is of. A command ends in two steps: `ShellExits`, which the time
limit brings about, and `PipesClose`, which nothing does while a child of the
shell holds the pipe. A command that was stopped goes on (`Abandoned`).

### Plugins

Each file operation of a command is an action of its own, so another process,
an error or the end of the process (`Abort`) may come between any two:
`SyncBundled`, `Remove`, `MakeDir`, `Open`, `Fill`, `Truncate`, `Store`,
`Discover`, `ReadSettings`, `SaveSettings`. `job` holds what a command has read.
The histories `alone`, `cut` and `hurt` say when no other process was at work
and which directories were left half-written. The registry and the settings are each
one `fs::write`: while one process has truncated such a text another may do so
too, and then one writes over the other's (`overlaid`); the text that is left by
that, or by a write that is cut short, may be no JSON (`garbled`), at which every
command that reads it fails (`"unreadable"`). `spoilt` is the history: the last
writing of the text was cut short or came upon another's.

### SelfUpdate

A process has a thread for commands and one for the check at its start. A check
loads the state when it begins (`Begun`) and saves it whole when it ends
(`Save`, `Saved`); an update writes the temporary file (`Open`, `Write`), renames
the binary to its backup (`BackUp`), the temporary into its place (`Place`) and
removes the backup (`Clean`), with the code's way back (`Restored`) where the
second rename fails. `linux` says whether a process finds its own file by what
it is called now. A process may end between any two steps (`End`).

## 3. The runs

| run | instance | shows |
|---|---|---|
| `turns` | 1 tool, 12 errors, at least one of every kind, 2 turns of 2 iterations, 2 calls a reply, model compaction on, mode allow | `EveryCallAnswered`, `OrphansOnlyBehindSummary`, `RequestEndsWithNews`, `RequestsBounded` |
| `tools` | a safe, an unsafe and a disabled tool; a rule that asks before one that allows; two modes, a prompter, a hook; 3 errors, 1 turn | `ResultsTellTheTruth`, `UnsafeToolsRunAlone`, `RunsOnlyWithLeave`, `CallsRunOnce`, `TurnEnds`, `KeepsTurnProtocol` |
| `allow_list` | a disabled safe tool, 2 calls | violation of `AllowListRespected` |
| `task_store` | 2 threads of one session and a second session, 2 tasks, 4 calls, crashes | `ExitCodesAreTrue`, `CreatedTasksAreTracked`, `StatusSetStays` |
| `mcp_servers` | a stdio and a WebSocket server whose tools share their names, 5 requests, 1 further page, 1 frame unasked of each, a notification or a request under an id of ours, 1 death | `AnswersAreOwn`, `InitializeComesFirst`, `InStepUnlessNotified`, `NoServerLeftBehind`, `OfferedToolsAreRouted` |
| `lsp_threads` | 2 threads, 1 document, 3 calls, 2 connections, 1 frame of the server's own | `AnswersAreOwn`, `InitializedFirst`, `QueriesFindTheirDocument`, `ChangesInOrder`, `CallsEnd` |
| `live_session` | 2 processes (each may end and be followed by another), 2 files, 2 modes and an unknown label, 2 models, 2 turns; 1 process at a time shows what is not in force | `SavedTurnsSurvive`, `SessionsDoNotMix`, `ShowsWhatIsActive` |
| `provider_stream` | an OpenAI-compatible model of the user's own with an Anthropic fallback, 1 retry, 3 errors, 2 calls, 4 chunks, 2 requests, a cancel flag | `ReplyIsOneStream`, `CallsAreWhole`, `EventsAreBlocks` |
| `web_pages` | 2 providers, an answer of 1 chunk in the app, beside it a gateway's request or anything a user does in the settings; channels of 1 | `PoolIsAlive`, `AnswersComplete`, `EveryRequestEnds` |
| `desktop_chat` | a command, an agent of 2 calls and a web answer; 3 runs, 1 edit | `OneAtATime`, `EachTaskOnce`, `OwnWords`, `QueueMoves` |
| `plugins` | 2 processes, a bundled, a retired and an external plugin, 2 versions, 3 commands, 1 cut short | `ListHeals`, `OnlyFragmentsFail` |
| `self_update` | 2 processes, 2 releases beside the installed one, 2 starts, 3 commands, 2 downloads | `ABinaryRemains`, `DismissalHolds` |

The configuration of a run is the one whose name begins with that of its module.
Type correctness is proved rather than run.

### Why the bounds are enough

* `turns`: two iterations are what it takes for a turn to have results behind it
  when an error strikes, two turns for the recovery engine to carry its counters
  over, two calls for order among results; `PreserveRecent` is the code's 4, so
  a session of up to fourteen messages is cut at every kind of place.
* `tools`: two calls of three tools give every pair of classes, and two rules a
  case in which the order of rules matters. `MaxIterations` is 200 in the code:
  the limit is reached in the model at 2.
* `task_store`: a lost update takes two writers and a read before the first
  write; a stale status takes a third call. Four calls leave one more.
* `mcp_servers`: being out of step takes a notification and the two requests
  after it; partial discovery takes two servers; routes that shadow each other
  take two servers with one normalized name; a server that dies
  tells a process that is held from one that runs. The servers' own requests bear
  id 5, the one of the first request after a discovery of both servers.
* `lsp_threads`: a late answer takes a request that was given up and a second
  one; the races on a document take two threads and a close; a second connection
  takes the first to have failed.
* `live_session`: mixing takes two files, overwriting two processes. What one
  process shows does not touch the other, so `MaxAstray` is 1.
* `provider_stream`: mixing takes two calls and three chunks, and a fourth
  leaves room for a text between them or an end before the last; state that is left behind
  takes a second request; each way to ask again is taken once, because the
  three errors are one to retry, one that refuses tools, and a connection that
  breaks.
* `web_pages`: a page used while another request initialises or closes it takes
  two requests. One of the two providers looks up an organization in its init
  and one does not. A channel of one is full at the second item.
* `desktop_chat`: a stale render takes a task that waits while another ends; a
  stream that loses its binding takes a second; three tasks leave one in the
  queue when one is forced; a gap in a message takes two texts, which the web
  answer has. With three runs the exception of `EachTaskOnce`, a
  task forced from a bar that still showed it (`stale`), does not occur, and with
  four the run is beyond the time one would wait for it: the theorem covers it.
* `plugins`: an update that was cut short, the list that finds it, and one
  command beside either take two processes and three commands; so do two texts
  of a registry written one over the other, and the list that reads it.
* `self_update`: two checks at once take two processes, a second update after
  the first takes two releases.

The names of counters that are bounded: `MaxIterations`, `MaxCalls`, `MaxTurns`,
`MaxTasks`, `MaxRequests`, `MaxPages`, `MaxNotices`, `MaxDeaths`, `MaxConnects`,
`MaxUnasked`, `MaxSaid`, `MaxStreams`, `Chunks`, `MaxRuns`, `MaxText`, `MaxEdits`,
`MaxCommands`, `MaxAborts`, `MaxStarts`, `MaxUpdates`. The limits `MaxRetries`,
`RawRoom` and `ParsedRoom` are the code's own, made small. Symmetry is used in
runs without liveness only: threads of one session in `task_store`; processes,
files, modes and models in `live_session`; processes in `plugins` and
`self_update`.

Deadlock is checked in every run but `live_session` and `self_update`, in which
the system may really stop: all processes have ended, and every file name is
used or torn, or no more processes are started. Where a state is at rest because
nobody asks for anything, an action that changes nothing says so (`Waiting`,
`Rest`, `Resting`, `Finished`).

### Fairness

* `Conversation!FairSpec`: weak fairness of the loop. It is sequential code; the
  assumption includes that the API, the prompter and a tool return, which the
  code leaves to the timeouts of HTTP and to the tools. The user owes nothing.
* `LspClient!FairSpec`: the threads go on, with their time limits; nothing is
  asked of the server or of the reader task.
* `WebAiPages!FairSpec`, and `OneLogin`, which is it with one provider logged in
  at first: each request goes on when it can, and so does the task that parses
  its answer. The mutex is tokio's, which is first come, first served; loading a
  page and evaluating in it have time limits. Nothing is asked of the site, the
  user or the windows, so a request may wait for a silent page for ever, and
  `EveryRequestEnds` says that nothing else makes one wait.
* `DesktopChat!FairSpec`: a call of the backend returns, a shell exits or is
  killed at its time limit, and the safety timer fires. Nothing is asked of the
  model, of the order of events, of the user, or of what holds the pipes of a
  shell that has exited: `QueueMoves` exempts a queue that waits for them.

`McpManager` has no liveness property: a request over stdio has no time limit
(`process.rs:178`), so that a call of a silent server does not end, and a
property would have to assume away the one thing that can go wrong.

### Mutants

For every property of every passing run, `PROJECT.json` names a definition and a
changed form of it, written next to it in the module, with which TLC finds the
property violated: results of denied calls left out, the last rule in the place
of the first, an id that is used again, a handle replaced before the runtime is
built, a reply that keeps what a broken stream had said, a queue that stops when
a stream does, a backup that is not put back, and so on.

## 4. The proofs

All theorems hold for every value of the constants that meets the assumptions
named in the modules. They say that bounds are natural numbers and that sets of
tools, errors, transports, labels or jobs are what they are declared to be; that
a list of servers names each once, which it does because it is the keys of a
map; and that there is a document at all.

**`ConversationProofs`**
* `TypeCorrect`: `Spec => []TypeOK`, one lemma per group of actions. Compaction
  is the step with content: what is cut and put together is a session.
* `RecoveryIsBounded`: `Spec => []RequestsBounded`. The invariant bounds the
  requests lost so far and says nothing of those to come, so it is not
  inductive. `Budget` adds what the engine can still spend: `Fuel` is the
  retries left plus one for each unused compaction and fallback (two when the
  compaction asks the model for a summary). `FuelBurns` shows that every strategy
  but giving up costs what it sends, and `NextIteration` starts with the fuel
  there is, however little a turn that failed has left.
* `CallsAreAnswered`: `Spec => []EveryCallAnswered`. The strengthening
  `Transcript` adds `Handling`: while calls are being handled, they are those of
  the last message; only with it are the results that are pushed known to be
  their answers. `CompactWellAnswered` is the heart: a session cut at any place
  is answered in place as long as what is kept is a suffix.
* `OrphansStandAtTheHead` (`OrphansOnlyBehindSummary`) and `RequestsBringNews`
  (`RequestEndsWithNews`), from `SessionPlaced` and `News`: what a message stands
  for after any cut, and what the session ends with at each place of the loop.
* `ToolsHaveLeave`: `Spec => RunsOnlyWithLeave`, an action property. `Approved`
  carries the leave from the decision to the start of the tool: between them the
  user's answer exists only in the past.
* `CallsRunAtMostOnce`, `UnsafeToolsAreAlone`, `ResultsAreTrue`. `Accounts` says
  of every call being handled that its id is new, and that it is recorded as run
  when it runs or has an output; `Truth` that the results in the session say what
  their calls did, whichever compaction came after.
* `LoopKeepsProtocol`: every step of `Conversation` is a step of `TurnProtocol` or
  leaves its variables alone; the safety part of `KeepsTurnProtocol`.

**`TaskStoreProofs`** (under `CrashSpec`, for any sessions)
* `StoreTypeCorrect`: with `Typed`, which adds that a call that creates a task
  holds it.
* `RecordedCodesAreTrue`: `CrashSpec => []ExitCodesAreTrue`. Lists of tasks are
  everywhere (in the file, in each worker's copy, from earlier reads), so the
  invariant is about all of them: each is *backed* by the exit files, and while a
  command runs, its task is in one worker's hands and its exit file says nothing.
* `TasksStay` (`CreatedTasksAreTracked`) and `SetStatusesStay` (`StatusSetStays`).
  Both need `Exclusive`: in a directory with one session, whoever holds a copy it
  will write works alone, which is the scheduling of `StartCall`; `Tracked` and
  `Obeyed` then follow a copy from the read to the write. `Accounted` adds to the
  first who leaves the file torn.

**`McpManagerProofs`**
* `TypeCorrect`; `AnswersBelong` (`AnswersAreOwn`) from `IdInv`: of the requests
  in flight, in a pipe or given up, no two have one id, and the next id is new.
* `InitializeFirst` from `GreetInv`; `NoneLeftBehind` from `ProcessInv` (the
  manager knows of every server that runs, until it is dropped).
* `StaysInStep` (`InStepUnlessNotified`) from `StepInv`: on a server that has sent
  nothing unasked and always answered in time, a pipe holds answers only to the
  request that waits, and none when none waits.
* `OffersAreRouted` from `RouteInv`, which relates the index, the tools found so
  far and the cached ones at every stage of a discovery, broken off or not.

**`LspClientProofs`**
* `TypeCorrect`; `InitializesFirst` from `Standing` (who has passed the lock on the
  clients, and that one thread at most connects); `AnswersBelong` from `OwnOK`:
  ids of waiting threads are their own, also where the server has died and
  another has been started.
* `QueriesAreFound` (`QueriesFindTheirDocument`) from `FoundOK`: a document the
  client has marked open was opened on its present connection. `ChangesComeInOrder`
  (`ChangesInOrder`) from `OrderOK`, which says what a thread that works on a
  document alone knows of the server's version of it. `Moves` summarises every
  step of a thread, so that both invariants are proved of it once.

**`LiveSessionProofs`**
* `TypeCorrect`, `TurnsSurvive` (`SavedTurnsSurvive`), `SessionsKeepApart`
  (`SessionsDoNotMix`), `ShowsTheTruth` (`ShowsWhatIsActive`), all from `IInv`.
  `ProcessesAgree` says that a process holds every saved turn of
  its file, unless the file is shared or was cleared, and no other session's,
  unless it was spilled; `SharingIsNoted` that two processes with one handle
  share it; `FilesAgree` the same of the files. The lemma `ProcessStep` reduces
  every action that leaves the files alone to what it does to one process.

**`ReplyProofs`**, on the stream of a provider. What the events mean is a *reading*:
where the message is, which blocks are open, the call under assembly, the report
so far. `Reads` is one event of it and `Plays` a sequence of them, given as a run
of readings and not by recursion, so that a run can be extended and cut
(`PlaysBoth`, `PlaysHead`).
* Each step of the normaliser (`Started`, `Part`, `Shut`, `PassedOn`, `Stopped`,
  `Completed`) is a lemma of the same form: from a reading that the state `Shows`,
  what it hands on plays to another that the new state shows, and reports no
  text. `Shows` says that the open blocks are the normaliser's and that its
  numbers are new; `Holds` adds that the calls which have started are `told`, each
  reported once or `lost`, but for at most the one under assembly; and, while the
  pieces of a call come one after another (`ordered`), that each has the
  arguments that were passed on for it.
* `ProviderInv` says of the state while a reply streams that the events which are
  still to be read lead from what has been read to some reading (`Streaming`).
  Before the end of the body that reading is `Between` two chunks: every piece
  of text that was said is told in order, and a call is told only when it has been
  stopped or something else has been said after it (`Behindhand`), which is why
  none is reported with half its arguments. After it the reply is `Concluded`. The properties alone are about the end
  of a reply and say nothing of the way there; events that were pushed and not yet
  read are the reason for the reading in between.
* From it `RepliesAreOneStream` (`ReplyIsOneStream`), `ReportedCallsAreWhole`
  (`CallsAreWhole`) and `ProviderTypeCorrect`; and `StreamsAreBlocks`, the whole
  refinement `ProviderSpec => EventsAreBlocks`: the first event that is pending is
  one that the reading of the moment allows, which is what `BlockProtocol` asks.

On the pages of the web AI engine:
* `TypeCorrect`; `PoolIsSound` (`PoolIsAlive`) from `PoolInv`: who loads a page
  holds the mutex, and the window it has found or built stays the provider's and
  stays open, since what closes a window needs the mutex too, unless it was
  closing when it was found (`revived`).
* `AnswersAreComplete` (`AnswersComplete`) from `AnswerInv`: `AnswerOf` says where
  each item of an answer is at every moment, in the first channel, in the second,
  read or dropped, for channels of any capacity.

**`DesktopChatProofs`**
* `TypeCorrect`; `WordsAreOwn` (`OwnWords`), from `Standing`: what a message
  shows is a `Stretch` of its own stream and a run is bound once (`Sound`); the
  one that is bound shows what was heard last (`Abreast`).
* `TasksTakeTurns` (`OneAtATime`) from `Single`: unless a task was forced or a
  stream timed out, `isStreaming` was true at the last render when a run works,
  in the interface or in the backend, and one run does.
* `TasksAreDoneOnce` (`EachTaskOnce`) from `Counted`: the queue names no task
  twice, and a task is in it, cancelled or begun, with `Taken` the number of runs
  and cancellations. Counting runs needs cardinalities of sets that grow by one
  run; the lemmas on `Doing` are about these.

**`HomeProofs`**, on the update:
* `TypeCorrect`, with `Bounded`: finitely many releases are published, so that
  among those newer than the binary one is the newest.
* `BinaryStays` (`ABinaryRemains`) from `UpdateInv`: while one thread updates,
  `Progress` says which file each name has at every stage, so that what is
  truncated or renamed is never the last whole binary. It rests on `Footing`, which
  holds whatever goes wrong: no file has two names, and none is older than the
  first version.
* `DismissedStaysSilent` (`DismissalHolds`) from `StateInv`: what is in the file, or
  in the hands of the one thread that checks, tells of all that was dismissed
  (`Sound`), and the file is torn only while that thread saves.

On the plugins, with `HomeInv` as the invariant:
* `PluginsTypeCorrect`, with `TypedJobs`: what a command holds fits the place
  where it is (`Fits`).
* `AListHeals` (`ListHeals`) and `AListFailsForFragments` (`OnlyFragmentsFail`).
  A list that meets a directory cut short by another command repairs it only if
  it is told so by the directory or by the registry, so the invariant is about
  both, at every step of every process. `NothingLost`: a part of a plugin that is
  missing or torn is one that somebody is about to write, unless its rewriting
  was cut short. `ClaimsHold`: where the registry, or a copy of it that a command
  holds, claims a bundled plugin to be of the binary's version, its parts are so
  or are on their way, unless a command on it was cut short
  beside another process.
  `ExactAlone`: what one alone in the home has written is what is there.
  `SyncsSound` follows such a process through the plugins it has checked, and
  `AftersSound` from the registry it stores to the list it shows. `TextsSound`: a
  registry or settings that are no JSON are among the `spoilt`, and a process that
  is alone in the home writes over nobody's text.

**Only model-checked.** Liveness (`TurnEnds`, `CallsEnd`, `EveryRequestEnds`,
`QueueMoves`) and the fairness in `KeepsTurnProtocol`: neither fairness nor
`ENABLED` is within the prover's reach. Every other property of a passing run is
also a theorem.

## 5. What the code does that its words do not say

One has a run whose counterexample shows it:

| where | what | words |
|---|---|---|
| `cli/src/runtime_client/tool_executor.rs:150` | `execute_batch` does not look at `allowed_tools`: two safe calls in one reply run although `--allowedTools` disables their tools | `README.md:274`, and the refusal at line 170 |

These were met while modelling. The models behave as the code does; they are
certain once seen and have no run of their own:

| where | what | words |
|---|---|---|
| `engine/src/recovery.rs:214` | the attempt that gives up is counted and outlives the turn: the next turn gives up on its first transient error | `conversation.rs:342` |
| `tools/src/task.rs:241` | TaskGet and TaskList truncate and rewrite the store; in one reply they run in parallel, and one may find it empty, or their texts overlap and no task can be read or created any more. A session that dies at `task.rs:70`, or a disk that is full, does the same | `registry.rs:259`: "pure read-only" |
| `tools/src/task.rs:114` | the shell command backgrounds an `echo`, not the task: TaskCreate returns when the command has ended | `task.rs:95`: "Start command in background" |
| `mcp/src/stdio/manager.rs:386` | a process that died is held for ever: no refresh of the cache starts it again | `cli/src/runtime_client/mod.rs:186` |
| `mcp/src/stdio/process.rs:28` | a stdio server is killed by `shutdown` alone, which only the end of the REPL calls (`live_cli.rs:1280`): a one-shot prompt (`lib.rs:196`) and a turn of the desktop (`desktop.rs:190`) end without it | `NoServerLeftBehind` speaks of the REPL |
| `mcp/src/remote.rs:187` | an answer is parsed as one to the waiting request before its id is looked at: a late answer of another kind ends the call | the loop at `remote.rs:171` waits for its own id |
| `webai/src/page_manager.rs:144` | a window that was asked to close is found by its label and reused, and its load is ended by any ready event of the provider (line 174), so that its page may enter the pool and outlive it. A client of the gateway that leaves while a page loads leaves the poller behind, which goes on causing such events: lines 212-213 are not reached | `page_manager.rs:142`: the window is "already created" |
| `cli/src/live_cli.rs:647` | a `/permissions` that fails leaves its mode shown and the old one in force, and repeating it does nothing | `engine/src/commands/slash_spec.rs:76` |
| `cli/src/runtime_client/stream.rs:288` | one `pending_tool` for a stream whose calls end together (`openai_compat_stream.rs:192`): of two calls of an OpenAI-compatible reply that end together the first is lost. `CallsAreWhole` exempts the calls that another has overtaken (`Overtaken`), and no other | `api/tests/openai_compat_integration.rs:101` expects both calls' blocks |
| `cli/src/live_cli.rs:648` | `/permissions`, `/clear`, `/resume`, `/compact` and `/plugin` build a runtime that may fall back to another model, and do not take over its name: the old one is shown until the next turn | `build_runtime` returns `resolved_model`, which `set_model` takes over (`live_cli.rs:617`) |
| `ui/hooks/useChatExecution.ts:216` | Stop only ends the wait for a shell command: nothing ends the command (`app/src/commands/shell.rs:366`), and the next task runs beside it | the message it leaves: "[Command stopped by user]" (line 224) |
| `app/src/commands/shell.rs:429` | the time limit ends with the shell: a child that holds the pipe keeps the call, and with it the queue, waiting until the user stops it; of a shell that is killed at its limit the children go on | line 396: "[Command timed out after {}s and was killed]" |
| `plugins/src/manager.rs:478`, `plugins/src/install.rs:153` | two commands that write the registry or the settings at once, or one cut short while it does, may leave a text that is no JSON: from then on every list, and every start, fails until it is repaired by hand | an empty registry is taken for a new one (`manager.rs:477`) |
| `tools/src/plan_mode.rs` | nothing outside it asks whether plan mode is on | its own message: write tools are blocked |
| `cli/src/auto_update.rs:546` | between the two renames there is no binary; two updates at once share one temporary file; on Linux a second update in one session writes to another path and still reports success | `auto_update.rs:528`: "Atomic replacement" |
| `cli/src/auto_update.rs:420` | a dismissal is undone by a check that had loaded the state before it | `auto_update.rs:617`: "You won't be notified about it again" |

And these nothing in the repository promises otherwise; they appear as
conditions in properties: two sessions of a workspace that create tasks lose one
(`AloneInWorkspace`); two processes on one session overwrite each other
(`shared`); a failed `/clear` leaves the new handle with the old conversation
(`spilled`); a save that is cut short loses the session (`"torn"`); a
server-initiated LSP request whose id collides is taken for an answer (`upset`),
and so is one of an MCP server (`process.rs:179`, `remote.rs:188`);
one MCP server that fails in a discovery hides the tools of all until the cache
expires; a compaction can leave results whose calls are in the summary; the
streaming fallback sends the same request again (`conversation.rs:370`), and so
does a compaction that found nothing to remove (`conversation.rs:380`); a reply
stopped before its first text is asked for once more without streaming; a tool
nobody knows can be approved in read-only mode, while a known one that writes
cannot; a page closed as idle under a long answer leaves it silent; a task forced
from a bar that still shows it is run once more (`stale`); two processes lose each
other's changes of the plugin registry and settings; an install of an external
plugin that was cut short makes every later start fail until its directory is
removed by hand (`cut`), and one whose hook alone was cut short is taken for whole.

## 6. What is not modelled

* In the modelled parts: texts, usage counts, observer events, telemetry; HTTP
  and SSE transports of MCP, its resources and prompts, which send one request
  the way a tool call does; LSP shutdown and workspace symbols; slash commands
  that only print or run git; the engine's own `with_session_path`, which the
  program does not use; wire formats and the framing of bytes; prompt caching;
  Web AI answers that come as a whole, and the scripts of web providers; the tabs
  and the terminals of the desktop; git sources and external directories of
  plugins; release channels but the stable one.
* Releases are only ever added. Were one withdrawn, the one before it would be
  announced again although it was dismissed, since only the last dismissed
  version is kept (`auto_update.rs:132`), and a process that asked after that could
  put the older binary over the newer. That the binary is executable is not
  stated: an error of `set_permissions` is ignored (`auto_update.rs:541`).
* An exit file that is there but empty, as on a full disk: the task counts as
  failed with -1 (`task.rs:143`). `TaskStore` has one that says nothing only where
  it could not be made.
* Sub-agents: an agent is a thread that runs the conversation loop. Its manifest
  and its output file are read back by nobody, so that there is no restart to
  state a property of; that a manifest may say "running" for ever
  (`tools/src/agent.rs:342`) is certain.
* Worktree, plan mode, cron: each call is one step under one lock, or one change
  of the crontab without any. What goes wrong there is certain and needs no
  interleaving: ExitWorktree takes the state before what may fail
  (`worktree.rs:119`), of two changes of the crontab one is lost (`cron.rs:132`).
* Credentials: a chain of resolvers around one file. What the one race in it, two
  processes that refresh one token, leads to is the server's decision.
* `partition_tool_calls` and the streaming executor of `engine`: the first is what
  `execute_batch` does and is modelled there, the second has no caller.
* The crate `auto_update`, which asks another server for the desktop and keeps
  nothing.
* Settings and configuration (a merge of documents); prompt texts, memory and
  channels (tables); the editor, rendering and argument parsing; the file, search,
  web and notebook tools (one operation each); `src/patches/wry` (third-party
  code). This is most of the lines of the repository, and little of what its
  parts can do to one another: the share of lines that the map covers stays
  small for that reason.

## 7. How it was built, and what is left

In this order: `Recovery`, `Conversation`, `TurnProtocol`, `TaskStore`,
`McpManager`, `LspClient`, `LiveSession` and the first proofs; then `Permissions`
inside `Conversation`, `WebAiPages`, `DesktopChat`, `ProviderStream` with
`BlockProtocol`, `Plugins`, `SelfUpdate`, and proofs for `McpManager`,
`LspClient`, the execution of tools, `WebAiPages`, `DesktopChat`, `SelfUpdate`,
`Plugins` and `ProviderStream`, whose properties were restated for it without folds.

Left, most useful first:

1. A mailbox in which each request gets its own answer or none, as the abstract
   specification of `McpManager` and of `LspClient`; a register of sessions for
   `LiveSession` while no file is shared.
2. The HTTP and SSE transports and the resources of MCP, if they come to keep
   state between requests; sub-agents, if their manifests come to be read back.

Runs are kept few, one for each question: instances of one module that differ
only in their constants are merged before a new one is added.

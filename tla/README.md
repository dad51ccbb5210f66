# Verification of AuC: TLA+ models, model checking and proofs

AuC is an agent framework in Python: an agent runs a ReAct loop (ask the model, execute the tools it
asks for, hand the results back) on an asyncio event loop, every tool call passes a privilege gate that
may ask a person for approval, runs are streamed to a terminal or to a web page, and runs can be queued
as background jobs that several worker processes execute. Around it are stores on disk (checkpoints,
conversations, settings, roles, lessons, an index of the code) that several processes share, and child
processes (commands, previews, a terminal, MCP servers) that have to end. This directory holds TLA+ models of the parts
whose correctness depends on the order of events, TLC configurations that check them on small instances,
and TLAPS proofs that carry the main results to every instance. `PROJECT.json` is the index: which
definition stands for which lines of the source, which run checks what, which change of the code each
property would notice.

Paths below are relative to `src/auc/`; documents (`*.md`) are in `src/docs/`.

## Inventory of the system

| Component | Its state | Its operations | What is hard about it |
|---|---|---|---|
| Background jobs (`jobs.py`, `fslock.py`) | one JSON file per job, a lock file, child processes | enqueue, claim_next, run_job, cancel, run_worker | many processes; cancel does not take the lock; every save replaces the file by a copy in memory; workers die |
| Run loop (`loop/base.py`, `loop/react.py`) | LoopContext: window, step index, cancelled, error | run_until_done, step, _invoke_all/_invoke_one, should_continue, resolve_status | parallel tool calls, cancellation at every await, errors of every callee, bounded steps |
| Privilege gate (`policy/privilege.py`, `hooks.py`) | none of its own; sets ctx.cancelled | check_and_invoke, resolve_pending | approvals that come late, never, or as an exception |
| Agent, streams, events (`agent.py`, `events/bus.py`) | active contexts, cancelled ids, queues, last_run_result | run, run_stream, cancel, emit | the reader leaves; the task outlives or is cut off; a cancel before the run exists |
| Web chat (`web/session.py`, `web/conversations.py`, `web/server.py`) | history in memory, conversation files, index, active run and conversation | stream, switch, new, delete, truncate, cancel, model change | requests interleave at awaits on one shared session; "busy" is set late |
| Approval ports (`ports/approval.py`, `web/approval.py`, `integration/*`) | pending requests, decisions, update offset | request_approval, wait_decision, decide | late and repeated answers, timeouts, parallel waits on one message feed |
| Policies of tools (`policy/autonomy.py`, `policy/escalation.py`, `tools/privilege_floor.py`, `tools/registry.py`) | none | pure decisions | settings, request, overrides, floors, rules and hooks combine |
| Routines (`routines.py`) | one JSON file per schedule | add, remove, enable, fire_due_routines | read-modify-write without a lock, torn files, double firing |
| Context window (`context/*`) | message list | append, truncate, compact | tool calls and results must stay together; folding and summaries of summaries |
| Model clients (`model/*`) | routed, tried and known models of a client | complete, complete_stream, retries, local routing | retries in mid stream, joining of pieces, a client shared by calls |
| Checkpoints (`checkpoint.py`) | manifest per run, blobs | snapshot, revert_to, gc | crashes between blob and manifest, an undo that dies and is repeated |
| Worktrees (`worktree.py`) | git worktrees and branches | create, run_parallel, merge, remove | conflicts, dying processes, work that is not committed when the clean-up decides |
| Conversation files (`web/conversations.py`, `cli.py`) | one file per conversation, an index | create, save, append, delete, activate | two processes, a crash between file and index |
| Terminal chat (`cli_ui.py`, `cli.py`) | history, last message, plan mode | a turn, /undo, /retry, /edit, /plan, Ctrl+C | turns that raise or are interrupted, in any order with the commands |
| Preview runner (`web/runner.py`) | instances, by id and by project | start, stop, preview, stop_all | overlapping requests, processes that die or will not go |
| Terminal of the page (`web/pty_terminal.py`) | a shell, a queue, a lock | reader, writer, main loop | any end first; cancellation while the lock is held |
| Commands (`tools/shell.py`) | a shell and its group | run_command | background processes that hold the pipes, the deadline |
| Sub-agents (`tools/subagent.py`) | nested runs | spawn_subagent | the parent's cancel, the deadline, the grace, the closing stream |
| MCP servers (`integration/mcp.py`) | sessions, tools in the registry | setup, reload, aclose | names that fall together, a setup cut short |
| Settings (`config.py`, `web/model_settings.py`, `web/approval_settings.py`) | layered files, the session's copy | load, save, apply; `auc config` | several writers, the copy against the files |
| Roles (`roles/*`, `tools/roles.py`) | two files per role, the active one, an old format | define, update, switch, remove | a role in two files, an overlay by the old format |
| Lessons and skills (`integration/evolution.py`, `evolution_loop.py`, `skills.py`) | episodes per role, counts, drafts, skills | the cycle at the end of a run, promotion | read-add-write by several processes, the cap on episodes |
| Prompt additions (`prompt_optimizer.py`) | drafts, the active text, its history | propose, apply, revert | several files in turn, names by the second |
| Code index (`code_index.py`, `index_vector.py`) | symbols and vectors, in memory and on disk | refresh, query | files that change during a refresh, processes with other parsers |
| Receipts (`receipt.py`) | none; read off the window | finalize_receipt | the window holds more than the run, or less |
| The rest (arguments and output of the commands, evaluation, search, git and to-do tools, other pages) | files | sequential I/O and text | see "Not modelled" |

What makes each of them correct, as far as the order of events decides it. Jobs: a job runs at most once, a
cancel in the queue holds, every job settles. Run loop and gate: a call is answered before the model is asked
again, a denial or an exceeded budget stops the run, the status tells what happened, the run ends. Streams: no
run outlives its reader, a cancel is heard, the recorded result is the outcome. Web chat: memory, files and
index agree, conversations do not mix, an answer goes only where a cut or a shortened result takes it. Approval ports: nothing that a person is to be asked
about runs unasked, the first answer counts, an answer ends its wait. Policies: what the request asks for is
what it gets. Routines: a due schedule fires, and fires once. Window and clients: what is sent is whole, what
is returned comes from one reply. Checkpoints and prompt additions: an undo gives back what was there.
Worktrees: work is never removed unmerged. Settings and roles: what was saved is what is used. Index: a query
is answered from the files as they are. Lessons: no count is lost. Processes: what a call started is over
when the call has returned, or still known, and gone with the server.

How they interact. `cli.py` and `web/server.py` build a `DefaultAgent`; `run_stream` starts
`run_until_done` as a task and forwards the events of its `EventBus`; the loop calls the gate, the gate
calls an approval port and the tool; the web server keeps the conversation a run belongs to and writes
`last_run_result` back when the stream is over; a job's worker starts `auc chat` as a child process, so
a background run is a run of the same loop in another process; routines enqueue jobs. The gate takes a
checkpoint before a tool that writes; a tool may be a command, a sub-agent (a nested run with the same model
client), or a tool of an MCP server. At the end of a run its receipt is written and the lessons are counted.
The page and the commands of the terminal share the files under `.auc/` without a common lock.

## Modules

| Module | Stands for | Checked by | Proved in |
|---|---|---|---|
| `JobLifecycle` | what the queue promises to a reader of the status column (abstract) | `job_queue` | `JobQueueProofs` |
| `JobQueue` | `jobs.py`, `fslock.py` | `job_queue`, `background`, `job_terminal_is_final` | `JobQueueProofs` |
| `RunProtocol` | the order of the events of a run (abstract) | `agent_run`; its steps also drive `RunStream` | `AgentRunProofs` |
| `AgentRun` | `loop/base.py`, `loop/react.py`, the control flow of `policy/privilege.py` | `agent_run` | `AgentRunProofs` |
| `RunStream` | `agent.py` run_stream and cancel, `events/bus.py`, composed with the run of `RunProtocol` | `run_stream` | `RunStreamProofs` |
| `WebChat` | `web/session.py`, the chat handlers of `web/server.py` | `web_chat`, `web_result_goes_home` | `WebChatProofs` |
| `ToolDecision` | the verdict on a tool call: preferences, policies, escalation, hooks (operators) | `services`, through `ApprovalPorts` | `ApprovalProofs` |
| `ApprovalPorts` | the gate's wait for a person: web, Telegram and QQ ports | `services` | `ApprovalProofs` |
| `ModelCall` | `model/openai.py`, `model/anthropic.py` | `services` | `ServicesProofs` |
| `ContextWindow` | `context/*`, the clients' message lists, `receipt.py` | `services`, `receipts` | `ServicesProofs` |
| `SubAgents` | `tools/subagent.py` | `services` | `ServicesProofs` |
| `Mcp` | `integration/mcp.py` | `services` | `ServicesProofs` |
| `ShellCommand` | `tools/shell.py` | `services` | `ServicesProofs` |
| `ProjectRunner` | `web/runner.py` and its endpoints | `services` | `ServicesProofs` |
| `Terminal` | `web/pty_terminal.py` | `services` | `ServicesProofs` |
| `Checkpoints` | `checkpoint.py` | `stores`, `undo_half_way` | `StoresProofs` |
| `Worktrees` | `worktree.py`, `auc worktree` | `stores`, `worktree_loses_work` | `StoresProofs` |
| `ConversationFiles` | `web/conversations.py` and its use by `auc chat --continue` | `stores` | `StoresProofs` |
| `Repl` | `cli_ui.py`, the chat turns of `cli.py` | `stores` | `StoresProofs` |
| `Settings` | `config.py`, `web/*_settings.py`, `auc config` | `stores` | `StoresProofs` |
| `Roles` | `roles/*`, `tools/roles.py` | `stores` | `StoresProofs` |
| `PromptOverlay` | `prompt_optimizer.py`, `auc evolve` | `stores` | `StoresProofs` |
| `CodeIndex` | `code_index.py`, `index_vector.py`, `tools/index_tools.py` | `stores` | `StoresProofs` |
| `Routines` | `routines.py`, its use by workers and commands | `background` | `BackgroundProofs` |
| `Evolution` | `integration/evolution.py`, `evolution_loop.py`, promotion in `skills.py` | `background` | `BackgroundProofs` |

`MCServices`, `MCStores` and `MCBackground` put modules that share no state side by side: each holds an instance of
every module, and `part`, which never changes, says which of them moves. They are several small model checking
problems in one run, not compositions; a behaviour of one part is exactly a behaviour of its module, and the proof
modules say so (`PartsApart`, PortsAreApart). Compositions in the proper sense are `RunStream` (the stream and the
run), `ApprovalPorts` (the gate's decision, parallel calls and a port), `ContextWindow` (loop, compactor, client
and receipt on one window) and `Settings` (files, the page's requests and the command line).

### JobQueue

`file[j]` is what the JSON file of job `j` says (its status, and whether a pid is recorded), `proc[j]` is
the child process, `lock` the holder of `.claim.lock`, `wpc`/`wjob` the program counter of a worker and
the job object it holds in memory, `cpc`/`ccopy` the same for a process running `auc jobs cancel`.
Because `save` replaces the file by the caller's copy, each read and each save is an action, and what lies
between them is where the races are. `claims`, `launches`, `stranded`, `shut` are history: no action reads
them. A worker may crash at any step; the kernel then drops its flock and nothing else happens.

The promises are in `JobLifecycle`: a job leaves the queue once, is admitted at most once, started at most
once, and is reported done only after a start. The refinement maps `status` to the status in the file,
`admitted` and `started` to the two counters. `JobLifecycle` lets `cancelled` go back to `running`,
because the code does (see Findings).

`ExecutedOnce` and `StatusIsTrue` are each two invariants that are proved one by one (NoDoubleExecution,
AtMostOnce; RunningHasAWorker, DoneMeansExitZero); so is `StopIsHonoured` of `AgentRun` (StopIsFinal,
StatusTellsTheEnd). The type invariants of the modules with proofs are theorems and are not part of the runs.

### AgentRun and RunProtocol

`phase` is where `run_until_done` is, `calls[i].pc` where the i-th tool call of the current reply is
(`todo`, `gate`: in the pre_tool_use hook, `ask`: in request_approval, `wait`: in wait_decision,
`invoke`: in the tool or the post_tool_use hook, `done`, `raised`). An action is the code between two
awaits. With `parallel` every call can start at once (asyncio.gather), otherwise one after the other. The
content of messages is abstracted to what the loop looks at: whether a result is an error and whether its
text holds "denied". `flaky` says whether the approval port can raise: the messenger ports can
(`integration/telegram.py` raise_for_status), the web port cannot.

`RunProtocol` is what a subscriber of the event bus may rely on; `AgentRun` implements it with `stage`,
`step`, `open`, `outcome` read off the phase, the step index, the calls that have started and not ended,
and the status.

### RunStream

Extends `RunProtocol`: the run inside the task takes `RunProtocol`'s steps and emits an event with each.
`reader` is where the generator of `run_stream` is, `queue` the events not yet taken (an event is
whether it is run_end), `task` the asyncio task, `stopped` is `ctx.cancelled`, `marked` the membership of
the run id in `_cancelled_runs`. `Suspended` carries the one scheduling fact the code depends on: without a
run_end hook nothing is awaited between the emission of run_end and the return of the run, so nobody else
can move in between.

### WebChat

All requests of the page share one `WebSession` on one event loop, so an action is the code between two
awaits. `history`, `active`, `busy` and `agent` are the fields of the session, `file`, `rows` and `listed`
the conversation files, the order of the index and its active id. A stream goes through `pc`: `checked`
(the busy check is done, the body awaited), `preparing` (prepare_request awaits the images), `noted` (the
question is saved), `running` (run_stream was called), `live` (run_start was seen), `saved` (apply_result is
done), `ending` and `restoring` (the finally block), `over`. The run itself is one step that yields an answer
or none; its inside is `RunStream`'s business, and a reader that leaves makes the stream an orphan whose run
ends later. What it yields is not the history with the answer added but the window of the run (`Results`): before
every step the window is truncated to 80 messages, and a compaction replaces its middle by a summary, so that any
number of the earlier messages may be gone (`Shortened`); apply_result writes this list over the file and the
history. The session starts on any number of empty conversations; those with messages are reached by steps. The
other requests are Detours; those that await in the middle (truncate, settings, review) take
two or three actions. `conv` remembers which conversation a run was for, `last` the result every agent
recorded, `client` and `closed` the model clients. `overlapped` and `swapped` are history: two runs were
under way at once, the agent was replaced under a run. The properties that these two races break in the code
say so in their statement, and `ResultGoesHome` says what the second one breaks. AnswersStay permits what a result has
shortened (`SavesLess`), and only that: a result that holds all the run was given keeps every answer, and no
result takes an answer from another conversation. `OnlyCutsForget` leaves the permission out, and fails (see
Findings).

### ToolDecision and ApprovalPorts

`ToolDecision` computes what `check_and_invoke` decides before anything is executed: `ResolvePrefs` and `BindAllows`
are the session's preferences with the override of the request and the restriction to a page bound to this
machine, `Merged` and `Floored` the registry's overrides, `Escalated`, `HooksRefuse` and `Verdict` the rest. In
`ApprovalPorts` the calls of a step run in parallel over one port. `clicks` are the answers a person gave to a
card, also late and repeated ones; `decisions`, `pending` and `events` are the dictionaries of the web port;
`feed`, `offset` and `confirmed` the update feed of Telegram, which all waits share; `store` the callbacks of QQ.
`must` is computed from the documents, not from the code's verdict, so that NobodyRunsUnasked compares the two:
`Matrix` is what each mode asks about, and the level that counts is the higher one of the level a tool is
registered with and that of .aurules (`Raised`), as the documents promise that .aurules only raise a level. The
code keeps this for the tools in its table of floors only. Where .aurules lower another tool (`Unfloored`) below what
the matrix asks about, and no rule escalates the call, `must` is "lowered" and not "yes": NobodyRunsUnasked makes this
one exception, `ProjectOnlyRaises` does not, and fails (see Findings). `swallowed` records the answers that another wait took off the feed and that its own never saw.

### ModelCall and ContextWindow

In `ModelCall` a call goes through attempts; the text shown so far is the set of requests it came from, the
tool call the requests of its pieces. Calls of a run and of its sub-agents share `routed`, `tried` and `known`,
the client's memory of what the gateway knows. `ContextWindow` takes one turn after the other: a question (`Asked`),
replies with their results, truncation to `MaxWindow` messages, folding of old results and a summary of the
middle, what the two clients send, the receipt at the end. A summary knows what it covers, which is how
OnlyTruncationForgets can say that nothing else is lost.

### SubAgents, Mcp, ShellCommand, ProjectRunner, Terminal

Things that were started and must end. `SubAgents`: the supervising call polls (`watch`), tells the child to
stop (`grace`), cancels its task (`force`). When the stream of the parent is closed in the watch, the call ends
(`killed`) and the child goes on, since cancelling `asyncio.wait` cancels none of the tasks waited for. `Mcp`: servers are set up in turn, `registry` maps a name to the
tool it calls and to the server whose policy it has. `ShellCommand`: the shell and one background process of
its group; `late` and `group` are the deadline and whether the signal to the group found the shell. A process
that makes a session of its own escapes every signal and is outside the model; a call that is cancelled (`cut`)
signals nothing. `ProjectRunner`: `status` and `byProject` are the two dictionaries, a request is at an await of
start, wait_ready, stop or stop_all. A process that has changed its user is `apart`: the signal raises
PermissionError, stop skips the wait and forgets the instance, and a start that fails fails with it.
NothingIsLeftBehind speaks of calls that returned and of processes that take signals; what it leaves out is in
`ClosingStopsTheChild`, `CutStopsTheCommand` and `NothingEscapes`, which fail (see Findings).
`Terminal`: reader, writer and main loop with the lock between them.

### Checkpoints, Worktrees, ConversationFiles, Repl

`Checkpoints` has a path that can be a file or a directory (`Top`) and any number of files in it (`Inner`), since
the order in which entries are replayed matters only then. The manifest is a set of entries, each with the number
of its line: the order in which a directory lists its files is unknown, so the entries of one snapshot share a
number and are replayed in any order. `loose`, `low` and `cut` say which steps cannot be given back and why. In
`MCStores` the files that are there at the start all hold the same content, since contents are interchangeable;
the proof starts from any tree.
`Worktrees` sees git as sets of changes; `lost` are those that are nowhere any more. `ConversationFiles` is
the store of `WebChat` seen as files, with another process and crashes; `suspect` are the conversations of
calls that overlapped or died. `Repl` has the turns as a sequence and the commands that rewrite its end.

### Settings, Roles, PromptOverlay, CodeIndex, Evolution, Routines

`Settings`: layers of files, merged key by key, `cfg` the session's copy; `writer` and `applied` who wrote last and
whose save the session took since. `Roles`: a role is written in two files and the active one in a third; a run
reads them through `Current` and `Resolved`. `PromptOverlay`: drafts and history are named by the second,
`collided` says that two fell into one, and `before` what each addition in force replaced. `CodeIndex`: a query
refreshes, looks at each file's time and then at its text; `calm` says that no file changed meanwhile. `Evolution`:
the cycle at the end of a run reads counts, adds its own and saves under the lock; episodes are capped and ids are
reused. `Routines`: a worker reads all routines, enqueues what is due and rewrites each file, which is truncated
first; `overlap` are the routines that two processes had in hand or that a fault hit in between.

## Runs

| Run | Bounds | Question |
|---|---|---|
| `job_queue` | 2 jobs, 2 workers, 2 cancellers, 1 crash, symmetric | exclusion, at most once, cancel in the queue, no orphaned running job, done means exit 0, refinement |
| `background` | queue: 2 jobs, 2 workers, 1 canceller, 1 crash; routines: 2, 2 workers, 1 tick, 1 fault, 2 edits; lessons: 2 processes, 1 role, a cap of 2, promotion after 1 recall, 3 episodes, 2 runs | every queued job settles; a routine that is due is served, and once; counts add up |
| `agent_run` | 2 steps, 2 calls per reply | paired history, a stop is final and told, quiet after the end, termination, protocol |
| `run_stream` | 2 steps, 2 calls, the reader at most 3 events behind | nothing left behind, no cancel lost, result is the outcome, the stream ends |
| `web_chat` | 2 streams, 2 conversations of which 1 or 2 are there at the start, 1 change of settings, 2 other requests, symmetric, with a view | memory, files and index agree; conversations stay apart; answers stay, but for cuts and shortened results; the model is put back; the busy flag is held by someone |
| `services` | approvals: 2 calls, every port, 3 answers; model: 2 calls, 2 models, 2 attempts; window: 17 messages, 2 turns, a window of 6, 2 recent steps; 2 sub-agents; 2 MCP servers with 2 tools; 1 project, 2 requests, 3 processes; 3 blocks of terminal output; 1 command | who approves, what is sent and returned, what is left behind |
| `stores` | checkpoints: a directory of 2 files, 2 contents, 2 steps, 2 entries; worktrees: 2 tasks, 2 threads, 2 runs; conversations: 2, 2 processes, 3 calls, 1 crash; terminal chat: 2 messages, 3 turns; settings: 2 requests, 2 choices; roles: 2 ids, 2 changes; prompts: 3 seconds, 2 proposals, 2 applications; index: 2 files, 2 processes, 1 edit, 1 fault | what is kept is what was written, and comes back |
| `job_terminal_is_final` | 1 job, 1 worker, 1 canceller | violated: see Findings |
| `web_result_goes_home` | as `web_chat`, without symmetry and view | violated: see Findings |
| `undo_half_way` | a directory of 2 files, 1 content, 2 steps, 3 entries | violated: see Findings |
| `worktree_loses_work` | 1 task, 1 thread, 1 run | violated: see Findings |
| `receipts` | 12 messages, 2 turns | violated: see Findings |

Why the bounds are enough. Every race in the queue is between two processes on one job; a second job and a
second pair of processes let a claim of one job overlap with the execution and the cancel of another, and a
third of any kind adds no new pair. Two steps are the least number with a step that is neither first nor
last possible and with max_steps reached by going on; two calls are the least number whose order can
differ. The backlog of the event queue is unbounded in the code and its size is never read, so a short one
only shortens the schedules. The proofs remove every one of these bounds.

In the web chat two streams give every pair of positions of two runs, two conversations every question of
"this one or another", one change of settings an old and a new agent, and two other requests let one handler be
overtaken by another (a truncation by a switch, say, since the other conversation is there from the start and need
not be created). The view of `MCWebChat` leaves out what no step reads again: the messages given to a run that is
over, and the last result of the first agent.

In the composite runs two processes (or calls, or requests) again give every pair of positions. The window is the
smallest in which a turn that is cut, folded and summarised can be followed by another one: 17 messages are two
turns of two steps with two results each, and what the cut leaves of them. Three answers let a second click follow
a first and another call's. Three processes of the runner let an old one die after a newer one took its place.
Snapshots with two entries in all are the least with a deleted directory of two files, or with two writes whose
order counts; the constraint `UndoMatters` stops where UndoRestores no longer claims anything, since the last step
of the run changed files past the checkpoints. The bounds of checkpoints, worktrees and conversations allow a
crash, its repetition and a second thing beside it. Two seconds of the clock are enough for two names that collide,
the third for two that do not.

Deadlock is not checked, except in the two runs of the queue: a run that returned, a stream that ended, a page whose
requests are used up and a store whose bounds are reached have nothing left to do.

## Fairness

- `JobQueue`: weak fairness of each worker's next step (a worker that is not killed keeps looping) and of
  the end of a command (a run is bounded by max_steps, shown by `agent_run`). None for enqueue, cancel,
  crash, nor for the steps of a canceller. `LaunchFails` and `Launch` are alternatives of one worker step.
- `AgentRun`: weak fairness of progress as a whole: the event loop runs whatever is ready. This supposes
  that a model request, a hook, a tool and a wait for an approval come to an end, which their timeouts give
  in the code (HTTP timeouts, hook timeout, the timeout of wait_decision). No fairness of cancel.
- `RunStream`: weak fairness of the generator, the task's start, its first step and its return; strong
  fairness of the end of the run, since tool calls can interrupt its being enabled as often as they like
  and `AgentRun` shows that they cannot for ever. A reader that left and a cancel are never obliged.

- `background`: the same as `JobQueue` within its part; weak fairness of each worker's step in `Routines` (the
  worker's loop) and of a command that has begun to write (it has no wait in it). None for the clock, faults,
  crashes and the user.
- `services`: weak fairness of the progress of each waiting call (`Progress`: the poll of the port and what
  follows it). None for the person, for failures of HTTP and for the deadline.

## Proofs

Every safety invariant, action property and refinement that a passing run checks is also a theorem, for every
value of the constants: any number of jobs, workers, calls, streams, conversations, files and so on, and without
the bounds of the runs. Each rests on an inductive invariant that TLC checked on an instance before it was proved.

`JobQueueProofs` (any jobs, workers, cancellers, any bound on crashes). The type invariant is inductive with
two facts that make a process in the middle of its work hold a job (`TypeInv`). RunsOnce and ShownIsTrue put the four
state invariants together as the runs state them. Exclusion is not inductive:
that nobody else executes the job a worker claims follows from the job being fresh, and a cancel writes
without the lock, so `IInv` says which statuses a job that was never claimed can have (`FreshInv`), that a
picked job is queued or cancelled (`PickInv`), that the lock belongs to the one worker inside claim_next
(`LockInv`), and what was started for each executing worker (`ExecInv`, `CommandInv`). From it follow
ExclusiveExecution, ExecutedAtMostOnce, QueueCancelIsFinal, RunningIsHeld, DoneIsTrue and, step by step,
the Refinement of JobLifecycle.

`AgentRunProofs` (any max_steps, any number of calls). `RunInv` ties the phase to the flags: a run that is
thinking is not cancelled except by a cancel that arrived during the step itself, a refused or overspent run
is marked, the calls of a step only move while it is calling. The calls are touched by ten actions that do
two things, move a call on or end it; two lemmas about these carry the order of calls through all of them.
HistoryIsPaired has an invariant of its own on top: the window is paired up to the request of the step under
way. QuietOnceEnded is an action property proved from the same invariant; StopIsKept joins the two about a stop.
RunFollowsProtocol is the refinement: `open` is the number of calls between their tool_start and their tool_end,
so each step of a call has to show that this number changes by one or not at all (`OpenMoves`, from the lemmas
on cardinality), and each step of the runner is matched with a step of `RunProtocol` or with none.

`RunStreamProofs` (any bounds): types, NoRunIsLeftBehind and CancelIsNeverLost from one invariant that
relates the reader, the task, the mark and the context's flag. ResultIsTrue needs in addition that a run_end
in the queue or in the reader's hand comes from a run that has resolved its status (`EndTold`), and that without
a hook such a run returns before anybody else moves.

`WebChatProofs` (any number of streams, conversations, settings changes and requests). Nine steps touch the
store or the session, all others are quiet; four lemmas (Saved, Created, Switched, Deleted) cover what those
nine do. MemoryMatchesFile and SessionIsListed need that ids not drawn yet have empty files and that nothing
names such an id (`IdsInv`), and that a run has its conversation before its result is saved (`RunHasConv`).
NoCrossTalk needs the same statement about what a run was given, and that a run is on the session's agent
(`Isolation`). BusyIsHeld is inductive with the types. ModelIsPutBack and AnswersAreKept rest on `ChatInv`: as long
as no two runs overlapped, one stream at most is between its request and its end (`OneRun`); the client of the
agent is its own or that of the one stream that will put it back (`ClientInv`); and a run was given every answer
its conversation has (`AnswersInv`), so that a result it saves contains them unless it was shortened. That a
shortened list holds messages of the run only, which keeps conversations apart, is a lemma about `Cuts`
(`ShortenedHolds`).

`ApprovalProofs` (any calls and answers, every port). RequestsAreHonoured is PrefsAreHonoured, a lemma about
`ResolvePrefs` for all settings and overrides, and an invariant that a configuration comes from a request.
NobodyIsRunUnasked compares two computations of the verdict: lemmas about the floors, the escalation, the hooks
and the modes show that a call that must be asked about by the documents (`must` is "yes") is asked about, and `AskInv` that whatever lies ready for
a call, in the web port's dictionaries, in the feed or in QQ's store, is an answer a person gave to it.
TheFirstAnswerCounts adds that below the offset of the feed everything was read by its own wait or by another
(`FeedInv`), and that QQ's store keeps the first answer until it is taken (`StoreInv`).

`ServicesProofs` (any children, servers, tools, projects, requests, messages). NothingStaysBehind: for sub-agents a
call that has returned has no child that works, and one that was killed in its watch has told its child nothing
(`AgentInv`); for commands the place of the call says what can still be alive
(`CommandInv`); for projects every process that takes signals is a request's, the list's or that of
stop_all (`ProjectInv`); for the terminal who holds the lock and who was cancelled while waiting for it (`TerminalInv`).
OneReplyPerCall: before a stream nothing has been shown, then all there is comes from its request (`CallInv`).
NameCallsOneTool: an entry of the registry is of a server set up before the present one (`McpInv`).
CompactionKeeps: every number given to a message is one of the window, of a summary, or forgotten, and the first
question is forgotten only by a truncation (`KeptInv`). GroupsAreSentWhole: the window is whole (`WholeInv`), that is,
the results of a reply follow it, as many as it has calls, and every result has its call before it; appending,
truncating, folding and summarising keep this, which is proved of each as a lemma about sequences, as is what the
two clients make of the window.

`BackgroundProofs` (any workers, routines, processes, any cap). OccurrencesFireOnce: a routine that is in one hand
at most and that no fault hit only goes forward, in the file and in the hand (`Ahead`). NoCountIsLost:
`LearnInv` says that the counts a run loaded are behind the file's and behind its own; CountsNeverGoBack, that
no count goes back and none of adoptions outruns its recalls, is proved from it.

`StoresProofs` (any tasks, threads, conversations, processes, files, roles, contents). MainStaysWhole and
FailedTasksKeepTheirTree: what was merged is on main and is not touched after it (`TreesInv`). PlanModeIsOver and
RetryTakesTheLast: plan mode outlives a run only if that raised; the last turn is that of the last message unless
something happened to it (`PlanInv`, `LastInv`). ListIsTheFiles: what a process in the middle of a call has read
and written, by the place it is at, for calls that nothing overlapped (`FilesInv`). QueriesTellTheTruth: as long as
no file changes under a query, what it has found so far is the truth about the files it has looked at
(`IndexInv`, Progress). WhatIsSavedIsUsed: what the last writer saved is in the files and, once applied, in
the session (`SettingsInv`); a role under change is written up to the place where the change is (`RolesInv`).
UndoGivesBackWhatWas has the longest argument. For each step that can still be given back, a file without an
entry since is as it was, and the earliest entry of any other tells what it was (`StepKept`); an undo goes through
the entries from the latest on, so that a file none of whose entries is left is restored (`UndoUnderWay`). An undo
that died leaves `StepKept` true, which is why it can be repeated. Its second half is about the additions to the
prompt: the history holds what the additions in force replaced, the latest last, and the invariant says how far
the command in the middle has got (`Restorable`).

Assumptions on constants. They say that marks are no values (no file, no role, no entry, nobody: `AbsentAssumption`,
`NothingAssumption`, `NoneAssumption`, `TreeAssumption`, `ProjectsAssumption`, `RoutinesAssumption`), that things
known by their place in a list are numbers (`NamesAssumption`, `ServersAssumption`), that bounds and limits are
numbers (`WindowAssumption`, `EvolutionAssumption`, and those of `JobQueue`, `AgentRun`, `RunStream`, `WebChat`), that
the workers are finitely many, as are the files of a directory, that the user at the command line is no
worker, and that the package always brings the default role (`RolesAssumption`; `roles/catalog.py` falls back on
it). TLC evaluates each of them on the runs.

Only model-checked: the liveness properties (QueuedSettles, Terminates, StreamEnds, DueIsServed, AnswerSettles),
which need fairness and ENABLED and are out of the prover's reach. The properties that the five violated runs
refute have, of course, no theorem.

## Findings

Each is a run that ends in a counterexample; `PROJECT.json` quotes the documentation it contradicts.

1. `job_terminal_is_final`: a cancelled job returns to running, or a done one turns to cancelled, because
   cancel and run_job save stale copies without the lock.
2. `web_result_goes_home`: a change of the model settings that is waiting for the old client to close replaces
   the agent under a run that began meanwhile; the end of that run saves the new agent's last result, another
   stream's, in its conversation.
3. `undo_half_way`: a run that replaced a file by a directory of the same name cannot be undone: the undo
   deletes what is in the directory and raises when it writes the file, however often it is repeated.
4. `worktree_loses_work`: `worktree run --merge --cleanup` of a task that committed nothing merges nothing,
   with success, and removes the worktree with its changes.
5. `receipts`: in the second turn of a conversation a run's receipt tells the first turn's question as its
   goal, and its commands too; results that were folded count as successes.

Disagreements met on the way that no run of their own repeats. The first nine have a definition, which can be
checked by naming it in the configuration of an instance of the module, and which TLC then finds violated:

- a cancel that reads before the pid is saved kills nothing and reports success (`JobQueue.CancelKillsRunning`,
  against the docstring at jobs.py:175);
- a run cancelled by its user is reported as denied when a failing tool printed the word
  (`AgentRun.CancelReportsCancelled`, architecture.md:234);
- an approval port that raises ends a parallel step while its other calls work on
  (`AgentRun.FailureSparesSiblings`, loops.md:138);
- with a run_end hook a completed run is recorded as an error and the hook is cut off
  (`RunStream.HookLeavesResultAlone`, hooks.py:231);
- earlier answers leave the file of a conversation without a truncation by the user: the result of a run is its
  window, cut to 80 messages (loop/base.py:225) and summarised (loop/react.py:58), and apply_result writes it over
  the file (session.py:181), so that a long conversation loses its beginning for the page and for every later run
  (`WebChat.OnlyCutsForget`);
- .aurules lower the level of a tool without an entry in the table of floors (tools/privilege_floor.py:10): with
  `git_push` at L1 a push runs unasked in every mode, with `git_commit`, `spawn_subagent` or a tool of an MCP server at
  L1 so do these, unless a rule escalates the call; tool-privilege.md:152 says that .aurules only raise a level, and
  tools/git.py:6 that a push always needs approval (`ApprovalPorts.ProjectOnlyRaises`);
- the closing of a stream ends the call of a sub-agent in its watch and leaves the child running
  (tools/subagent.py:73), while the docstring at subagent.py:63 says that the cancelling of the parent stops the child,
  which holds of agent.cancel (`SubAgents.ClosingStopsTheChild`);
- a command whose call is cancelled goes on, since its process is signalled at the deadline only (tools/shell.py:86;
  `ShellCommand.CutStopsTheCommand`);
- stopping a preview whose process takes no signal forgets the instance while the process lives, and so does the end of
  the server (web/runner.py:259, 267 and 271; `ProjectRunner.NothingEscapes`);
- a sub-agent inherits its parent's level but takes the automatic approval from the configuration
  (agent.py:199): one started by a full-auto run whose request turned automatic approval off is freer than its
  parent, which the comment at subagent.py:124 excludes;
- the layers of settings are merged variable by variable, and then those of Anthropic come first
  (config.py:383): one in a low layer beats one of OpenAI in a higher layer, while the merge order at config.py:557
  and in model-config.md says that the higher layer decides;
- episode ids are reused once a role has reached the cap, so that a lesson is drafted on counts that belong to
  another one (evolution_loop.py:6 and :393); this is why `Evolution` claims that counts are exact per id, not
  that a draft has earned its promotion;
- saving the model while a run is under way answers 409 after the file was written, so that the file and the
  session differ until the next save (`Settings`, `applied`);
- a command whose shell has exited leaves its background process running after the deadline, since the signal
  goes to a group that is looked up through the shell (shell.py:30); `CommandIsOver` says so;
- update_role and switch_role with an unknown id act on the current role (`Roles`, `Resolved`).

Behaviour that a reader of the models may find surprising, and that is as it is in the code: the grace of a
sub-agent swallows a hard cancel of the call; two calls that both found "auto" unknown share one list of tried
models; a stream that ends without its last marker counts as a success; a truncation may drop every message of
the user; a routine's file and the settings file are written in place; a preview process that died by itself is
still shown as running, two starts of one project at once make two processes; a reload of the model drops the
MCP tools until the server is started again; a process without the parsers for other languages drops their
entries from the index for everybody; output still queued when a shell exits does not reach the page; the name
of a skill made from a title in Chinese is always the same.

## Not modelled, and the plan

Next come, for the proofs: measures for the liveness properties, that is, action properties which say that every
step of a run, of a wait for an answer and of a stream that a reader follows makes a number smaller, so that
only fairness is left to the model checker; that a behaviour of `MCBackground` and of `MCStores` is one of each of
their parts (as PortsAreApart says for the approval ports), so that the theorems of `JobQueueProofs` hold in
`background`; and an abstract specification of the conversation store, which `WebChat` implements as long as
no two runs overlap.

Not modelled for good: the parsing of arguments and the output of the command line; the loading of hooks from
files (what a hook answers is in `ToolDecision`); the tools for search, fetching, git and to-do lists, which are
calls without a protocol; scores of evaluations, nuggets, work modes and the import of role libraries (texts
and numbers computed by one writer); the text of plans; images and other attachments; the console, in-memory
and fixed-answer approval ports, which answer at once, and the dispatcher of events to messengers; the
remaining pages of the web server, which answer one request from files; the front end. Inside the modelled
parts: failures of the file system other than those named, reuse of a pid by the operating system, the wording
of messages, prices and the formats of requests.

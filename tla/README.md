# Verification of oh-my-coding-agent

TLA+ models of the agent runtime in `src/src`, the TLC runs that check them on
small instances, and TLAPS proofs of what matters most in them. `PROJECT.json`
lists the components, the runs, the source lines behind every definition
("map"), mutants of the code for every checked property, the finding, the
hazards and the theorems.

- [The system](#the-system)
- [What is modelled](#what-is-modelled)
- [Runs](#runs)
- [Fairness](#fairness)
- [Proofs](#proofs)
- [Findings](#findings)
- [What is not modelled](#what-is-not-modelled)
- [Plan](#plan)

## The system

Four Python packages, one process, one asyncio event loop. Control changes
hands only at an `await`, so the hard behaviours are not data races but what
happens *between* two awaits: a cancel delivered where no handler stands, a
listener that fails while others queue, a value read before an await and used
after it. Where several processes share files (sessions, trust documents, the
installed program) they meet between two system calls, and in `omh update` a
signal may arrive between any two bytecodes.

### Components

| component | state it keeps | operations | makes it correct | module |
|---|---|---|---|---|
| **Agent and Agent Loop** (`oh_my_core/_agent.py`, `_loop.py`) | the owned run task, its abort signal and `terminalCommitted`; the steering and follow-up queues; the transcript `state.messages`, the message being streamed; in the loop's frame `produced`, `working_messages`, `pending_injected` | `prompt`, `continue_`, `steer`, `followUp`, three queue clears, `reset`, `abort`; the turn cycle: polls, model request, tool batch, `TurnEnd`, `AgentEnd` | no message lost or doubled; the model is asked about the transcript that the listeners saw; an accepted abort ends the run; a free Agent is not busy | AgentRun |
| **Tool batch** (`_loop.py`, `_tools.py`) | one task and one drain per call, queues of partial results, the event gate | announce, execute, forward updates, settle, gather, cancel | one End per announced call, all before the batch settles; a batch always ends; nothing outlives it; nothing dispatched after a listener failed | ToolBatch, ToolContract |
| **File mutation queue** (`_tools/mutation_queue.py`, used by `write.py`, `edit.py`) | an `asyncio.Lock` and a reference count per file | `hold()` around the work on a file | mutual exclusion per file, no lost update, lock objects neither leaked nor dropped in use | MutationQueue |
| **Session store** (`_session_manager.py`) | the entry tree, its leaf and labels in memory; an append-only JSONL file | create, open, fork, append, branch, branched session | memory and file agree; finished lines stay | SessionStore |
| **Agent session** (`_session.py`) | the Agent, the store, compaction and disposal tasks, displayed queues, the held back AgentEnd | prompt, queue, abort, compact, automatic compaction, reload, dispose | the transcript is the context of the file; a compaction is alone on its branch; dispose ends everything; no deadlock | AgentSession |
| **Compaction** (`_compaction.py`) | none (pure) | token estimate, cut point | the kept tail starts at a legal place and the summary covers the rest | Compaction |
| **Event stream** (`oh_my_llm/_streams.py`) | producer task, queue, consumer, result | iterate, `result`, `aclose` | one consumer, events in order, the producer never outlives the stream, calls return | EventStream |
| **Provider streams** (`deepseek.py`, `_faux.py`, `_models.py`) | the response being assembled | stream a request | the order of events; a done message is complete | ModelStream, StreamEvents |
| **Message values, validation** (`_values.py`, `_canonical.py`, `_tool_schema.py`, `_tool_validation.py`) | none (immutable values); the stream validator's automaton | build, freeze, canonicalise, validate | an event sequence the validator admits is well formed | StreamEvents (validator) |
| **Bash and output tools** (`bash.py`, `output.py`, `shell.py`, `truncation.py`) | process group, pumps and watchers, output buffers and spill file, throttled updates | run, collect, settle, spill | the process group is gone when a stopped call ends; output kept | BashTool |
| **Read and diff tools** (`read.py`, `edit_diff.py`, `paths.py`) | none | read, match edits | an edit replaces exactly the unique match | – |
| **Extensions** (`_extensions.py`) | admitted extensions, their hooks | admit, dispatch, shut down | admitted completely or not at all | – |
| **Project trust** (`_project_trust.py`, the question in `_cli.py`, `/trust` and `/settings` in `_terminal.py`) | two documents, a lock file each | resolve, ask, save | no saved choice lost, no false report, a decision that was right | ProjectTrust, PolicyBook |
| **Resources and prompt** (`_resource_state.py` and others) | none | discover, assemble | – | – |
| **Self update** (`_update.py`) | the lock, a temporary directory, the uv child, signal handlers | compare versions, install | one installer, nothing left behind, versions go forward | SelfUpdate |
| **Telemetry** (`oh_my_telemetry`) | open operations | start, settle | an operation is settled once | – |
| **Terminal and CLI** (`_terminal.py`, `_cli.py`) | the line editor, the queue of lines, busy flags, dialogues, prompt and command tasks | read keys, submit, commands, signals | it never ignores its user without reason; a signal ends it | InteractiveTerminal, CommandInput |

### How they interact

`AgentSession.prompt` calls `Agent.prompt`, which creates one *run task* and
awaits it shielded. The run task is the Agent Loop. It pulls events out of an
`EventStream`, whose producer task belongs to a provider; it executes a
message's tool calls in a *tool batch*, whose tasks call the tools; `write` and
`edit` enter the mutation queue, `bash` starts a process group. Every change is
announced as an event through `Agent._dispatch`: the event is first *reduced*
into the Agent's state, then every listener is awaited, in order. The session
is such a listener: it stores messages, shows events to its own listeners and
to extensions, and holds `AgentEnd` back while a compaction may retry the run.
The terminal is a listener of the session and its caller: a reader callback
turns keys into lines, a loop acts on them, and prompts and commands are tasks
beside it. Callers (terminal, extensions, the listeners themselves) steer, queue
and abort at any time. An abort raises the run's signal and cancels the run
task; a listener that receives the cancel counts as settled.

### Hard behaviours

- A cancel may reach a task before its first step, at a lock, at a gather, in a
  listener that swallows it, or twice.
- Three polls and two branches of `continue_` take from two queues.
- The transcript exists three times in the loop (`produced`,
  `working_messages`, `state.messages`) and once more in the session file, each
  updated on a different side of an await.
- Settlement of a call waits for its drain, the drain for the gate, the gate
  for a listener; disposal waits for a compaction, the compaction for a prompt,
  the prompt for another compaction.
- A torn, partial or failed write of the session file; two processes on one file.
- The child of `bash` that exits, times out, is aborted and is cancelled at
  once, while background processes hold its pipes.
- A signal at any bytecode of an update; another update meanwhile.

`PROJECT.json` "hazards" lists each one at the line where it bites.

## What is modelled

In every model of the event loop a step runs from one await to the next, which
is the grain at which the program interleaves.

### AgentRun: the Agent and its loop

`pc` names the await at which the run task is suspended. Nearly all of them are
an `_emit`, so `pc = "TurnEnd"` means: TurnEnd has been reduced into the Agent
state and its listeners are being awaited. The action `AfterTurnEnd` is all the
code from there to the next await.

| code | model |
|---|---|
| `prompt`, `continue_`, `_launch` | `Prompt`, `ContinueSteering`, `ContinueFollowUp`, `ContinueTranscript` through `Launch` |
| `steer`, `followUp`, the clears, `reset`, the `messages` setter | `Steer` ... `SetMessages` |
| `abort` from another task / from a listener / a cancelled `prompt()` | `Abort` / `AbortInListener` / `CancelCaller`; `cancelling` is the cancel not yet delivered |
| `_drive_run` | `StartTask`, `EndTask`; `CancelledBeforeStart` when the cancel arrives first |
| `_run_agent_loop` | `After...` actions, `OpenTurn`, `RequestModel`, `Poll` |
| `_consume_response_events` | `StreamEvent`, `StreamDone`, `StreamErrorFirst`, `StreamAborted` |
| `_append_aborted_tail` | `AfterTailStart`, `AfterTailEnd` |
| failures of listeners, stream, cleanup, batch | `ListenerFails`, `StreamBroken`, `CleanupFails`, `ToolsCancelled` |

Abstracted: a message is its kind and either an identity (user messages) or a
stop reason. `streaming` says of the partial message whether it has text or tool
calls; a response that is aborted or fails keeps what it has, so that one which
had begun tool calls ends as `"cut"`. A tool batch is one wait (`pc = "Tools"`) with the outcomes module
ToolBatch gives it: one result per call, or cancelled, or failed. `faults`, fixed
from the start by an instance, selects what the environment may do wrong, so
that a property states under which faults it holds.

### ToolBatch and ToolContract

`owner` is the run task inside `_process_tool_calls`; `task[c]` and `drain[c]`
are the tasks of call `c`; `gateQ` is the deque of the gate's lock. `mode` is
fixed when the batch begins; in sequential mode the same settlement runs in the
owner's own task, one call after the other. Cancels are pending flags (`hit`,
`drainHit`, `ownerHit`) consumed at the next await, as asyncio delivers them.
`ToolContract` is what a batch promises its listeners and the loop: every call
is opened and closed at most once, its updates come in between, nothing comes
after a listener has failed or after the verdict, no success after an abort,
and a batch settles only with every opened call closed and every call answered.
ToolBatch implements it under the mapping given in `Contract`; of a batch that
was cancelled from outside the verdict does not count, because calls that it
leaves behind dispatch after it. When it leaves any is said by `Deserts`, the one
exception of `NothingOutlives`: parallel calls, a cancel from outside, and a call
that has ended cancelled or failed, at which the second gather gives up.

### MutationQueue

`hold()` awaits not `lock.acquire()` but a task that runs it, so an acquisition
has the awaits `spawned`, `waiting`, `woken` and `granted`. `asyncio.Lock` is
modelled from its documented and used behaviour (a deque of futures, the
first live waiter is woken on release, a fast path when nobody lives in the
deque). `KeyOf` is fixed: `key_for`, whose answer can change when a path comes
into being, is not modelled (a listed hazard). `misused` is a history variable:
it records that a cancel has reached an execution that waits, which is where
exclusion ends (finding 1). The lock that such an execution has released may be
free when its holder releases it: that release raises, and `_drop` is skipped
(`pc = "crashed"`).

### SessionStore

A call of `SessionManager` has no await: it is one step. What interleaves are
processes (`Managers`) that have the same file open, and what cuts a call short
is a write that fails: `Writes` gives a file after a whole write, after whole
lines, after a fragment, and after a line that only lacks its newline. A crash
is such a failure, or none, followed by `Exit`. `tears` counts the failures, so
that a property can say until when it holds.

| code | model |
|---|---|
| `create`, `newSession` | `StartNew` |
| `open`, `setSessionFile` | `OpenAbsent`, `OpenEmpty`, `OpenValid`, `OpenLegacy` (with `Migrated`), `RefuseFile` |
| `forkFrom` | `ForkFrom` |
| `_append_entry` and the appends | `AppendEntry`, `AppendMessage`, `AppendLabelChange`, `BranchWithSummary` |
| `branch`, `resetLeaf` | `MoveLeaf` |
| `createBranchedSession` | `Branched`, `CreateBranchedSession` |

An entry is its kind, id, parent and the entry it refers to. Ids, random in the
code, are numbers never used before: the code draws them from 2^32 and checks
them within one session, and two processes that draw the same one are out of
scope. A file of version 1 is a header and two entries without ids.
Files that are not sessions at all, or empty from the start, do not occur.

### Compaction

One session's branch grows message by message and is compacted (`Prepare` is
`prepare_compaction`, `Compact` what `_perform_compaction` makes of it) and
copied (`CopyBranch`). A message is its kind and its weight in
tokens; a `CompactionEntry` also says which entries its summary was made of
(`covers`), so that the properties can ask what became of every message.

### AgentSession

Composes the Agent, the store and compactions at the level of their interfaces:
the Agent's run is taken as a whole (AgentRun has its inside), the store is one
branch, and the cut of a compaction is the last turn. The branch is empty or that
of a session file (`Opened`). The context that the branch gives back is a selection
of its entries (`At`): the last summary and what it kept.

| code | model |
|---|---|
| `prompt` and its attempts | `CallPrompt`, `PreDone`, `RunOver`, `RunCancelled`, `RunFailed`, `AutoDone`, `EndShown`, `Settles`, `ExhaustedShown`; `CancelPrompt` is a cancel of its caller |
| `_handle_agent_event` and the run behind it | `RunStarts`, `PromptJoins`, `RunPolls`, `TakenBegins`, `TakenJoins`, `RunEnds`, `RunFails`; `RunLost` is a run cancelled before its first step |
| `_enqueue`, `clearQueue` | `Enqueue`, `EnqueueShown`, `ClearQueue` |
| `_run_automatic_compaction`, `compact`, `_perform_compaction` | the tasks `job[j]`: `JobBegins`, `ManualProceeds`, `StartShown`, `Summarized`, `JobEnds`; `Compact`, `AbortCompaction`, `CompactReturns` |
| `reload`, `abort` | `Reload`, `ReloadEnds`, `Abort` |
| `dispose`, `_drive_disposal` | `Dispose`, `DisposalBegins`, `DisposalQueuesShown`, `DisposalAwaited`, `DisposalEnds` |

Between the awaits of a run its frame holds messages: `agent.prompt` is the
prompt that `prompt()` has stored and that joins the transcript at its MessageEnd,
`agent.taken` a queued message from the poll to its MessageEnd (`begun` from its
MessageStart on). A listener may fail at each of these awaits. Then a prompt is in
the store alone (`unread`) until the transcript is rebuilt, and a queued message
is nowhere (`"dropped"`). `clearQueue` returns what is displayed, a polled text
included, whose message is delivered all the same (`"late"`).

`odd` is history: it notes what no other call of the session expects (two
prompts or compactions at once, a lost run, an AgentEnd that is never shown because
a listener failed in the report of a spent recovery or because a run that a
compaction came before was aborted), so that a property can name its exceptions.

### EventStream, StreamEvents and ModelStream

`EventStream` has tasks (`Clients`) that iterate over a stream, await its result
and close it, in any order, and the stream's own producer task. `StreamEvents`
is the validator of `_values.py` as a record and two operators, `Accepts` and
`Accept`. `ModelStream` composes the two with what `Models.stream` runs: the
loop of `deepseek.py` over the payloads of a response (`Payload`, `ResponseEnds`,
`ResponseBreaks`, `RequestFails`), which assembles text and tool calls from
fragments, or the faux provider (`FauxResponds`). Text is a sequence of
fragments; the arguments of a tool call are one JSON object exactly when its two
halves have come; a fragment `"?"` cannot be encoded.

### BashTool

One call of `bash`: `main` is the tool's task, `pump` the tasks that turn
pipes, exit, abort and timeout into `events`, `acc` the `OutputAccumulator` with
its spill file, `th` the throttled updates. Output is counted in chunks. A
command either finishes alone, leaves a background process in its group that
holds the pipes, or one that has left the group ("daemon"). `Consume` puts an
event into the accumulator; the throttle's `Emit` may create the spill file as
well, once `finish` has let the output outgrow the limit.

### ProjectTrust and PolicyBook

Processes resolve trust, ask their user, and save choices in the two documents.
A step of a process is one system call that others can observe and what it
computes up to the next: lock (a bounded number of attempts), read, write of a
temporary file, replace, release. `Killed` may happen anywhere. `PolicyBook` is
what the documents promise: each choice is saved in one step, on the documents
that are there, at most once; ProjectTrust implements it under `Book`.

### SelfUpdate

Calls of `omh update`: look, lock, directory, wheel, uv, proof, clean-up, with
`Notices` as the moment Python runs a signal handler. The order of versions
(`NewerVersion`) is the code's; `Above`, in the properties, orders them by a key
of its own.

### InteractiveTerminal and CommandInput

`CommandInput` is the line editor as a record and operators. `InteractiveTerminal`
has the reader callback (`InputReady`, which delivers several keys at once), the loop
of `_run_editor` (`loop.pc` is the await at which it is), dialogues, the tasks of
prompts and commands, the update notice and signals. The AgentSession is what
the adapter sees of it: calls that start, are refused, run, go on with queued
messages after an abort (`PromptContinues`) and end.

## Runs

One run per module; what differs between instances (faults, kinds of use,
commands, keys) is a constant set of instances, and a variable that never changes
says which one a behaviour has. Every property has at least one mutant of a
mapped definition that breaks it.

| run | asks | bounds and why they are enough |
|---|---|---|
| `agent` | `KeptOnce`: every message is in one place until it is discarded; `TranscriptsAgree`; `ToolCallsAnswered`: finished responses have their results (without failures); `QueuesDrained` when a run ends by itself; `AbortEndsRun` | 2 user messages, prompts of up to 2, 1 tool turn of 2 calls; instances: no fault, every fault, and a transcript that ends in an unanswered message. A message in each queue, or one in a queue and one in the prompt; two results so that a failure fits between them |
| `tools` | `KeepsContract`: the batch implements ToolContract; `NothingOutlives`; `BatchEnds` | either mode, 2 calls, 1 update each, 2 cancels: one at a gather and one at the gather that follows it; failing listeners, leaking tools |
| `queue_edits` | `ExclusiveUnlessMisused`, `NoLostUpdate` until a cancel reaches a waiter; `EveryoneLeaves` always | 4 executions, 2 files, 2 runs, 2 edits: a holder, a woken waiter and one behind it; the fourth is on another file |
| `queue_broken` | violated: `MutualExclusion` when a cancel reaches a waiter | same |
| `store` | `LinesStay` always; `BranchReachesRoot`, `OwnEntriesSaved` until a write is cut short; `BranchedKeepsLabels` | 2 files of 5 lines, 3 entries. Alone: 1 manager, a file of version 1, 1 write cut short, restarts at any time. Shared: 2 managers, answers, summaries and labels: a label set, then cleared or set again, on and off the path |
| `cut_grown` | `HistoryCovered`: every message is shown or in a summary that is; `ResultsKeepTheirCall`; `BranchKeepsContext` | 6 entries, weights 1 and 2, labels and other entries, budget 2, one copy: two compactions, turns that fit and that do not |
| `session` | `StoreAgrees`: the transcript is the context of the file, but for prompts left unread; `CompactionAlone`; `EndsProjected`; `QueueShown`; `DisposedIsFinal`; `NobodyStuck` | a session opened at the limit of its context, so that the first prompt compacts before its run; nine instances of one or two prompts, a queued message, 2 compaction tasks, up to 2 large answers (an overflow that is retried, and one that is spent), one manual compaction, cancel, reload, failure |
| `stream_calls` | `EventsInOrder`, `NothingOutlives`, `DoneIsComplete`, `CallsReturn` | 2 clients, 2 calls each, 1 cancel, 3 payloads out of 11: text and tool call blocks that are extended, interrupted, ended, invalid; 3 faux responses |
| `bash` | `OutputKept`, `NothingLeft`, `StopEnds` | room for 2 chunks, 1 to 3 written; six commands, with up to 2 cancels and 1 fault: output that fits, that spills, and that spills only as its last character is completed |
| `trust` | `KeepsBook`: the documents are those of PolicyBook; `TellsTruth`; `ResolvesRight` | up to 3 processes in 2 nested directories, 2 attempts at a lock, 2 lines or resizes, 1 failed call or killed process; ten worlds: both documents, each answer, broken documents |
| `update` | `OneInstaller`, `UpdatesForward`, `DirectoryRemoved`, `SignalEnds` | 2 calls, 2 signals, 1 kill or a release published meanwhile, all pairs of 6 versions: releases, numeric and other pre-releases, one a prefix of the other, one that cannot be compared |
| `terminal` | `BusyForReason`, `SignalEnds` | up to 3 reads of several keys, 1 signal, 1 failure (of commands, 3 reads with a signal or a failure, 2 with both); four vocabularies: prompts and queued lines, commands, dialogues, the update notice |

`CHECK_DEADLOCK FALSE` stands where the system really stops: a batch, a call or a
terminal that is over, a queue that all have left, a store or a branch that has
reached its bounds. Symmetry is used where nothing tells the values apart and
no liveness is checked (`store`: managers, `session`: prompts).

## Fairness

The event loop runs every ready task, hence weak fairness of every task's steps
(`agent`, `tools`, `queue_edits`, `stream_calls`, `terminal`, `bash`). It is weak
because no step of a task is disabled by another task without being enabled
again for good: locks are first come, first served. Listeners, providers and
tools are assumed to settle; the code has no timeout around a listener, so
nothing would hold without that. `stream_calls` says of a provider only that it
does not go on for ever (`[]<>(producer # "working")`). In `terminal`
a compaction is sure to end only once it has been aborted. Of a prompt nothing is
assumed: an aborted one may go on with queued messages, or wait for a tool that
outlasts its abort. `SignalEnds` therefore has a premise of its own, that prompts
which have been told to stop end (`Stopping ~> ~Prompting`); it says that the
terminal tells the prompt it awaits and waits for nothing else. In `bash` a
process only once it has been killed and is still in its group, in `update` uv
only once a signal has been sent on to it. Callers, users and the outside owe
nothing: no fairness on `Prompt`, `Abort`, `InputReady`, a tool's updates, a command's
output.

`session` and `trust` have no fairness. In `session` the question of progress is
a deadlock, and `NobodyStuck` asks it as one: as long as a call has not
returned, `Progress`, the steps of the session's own tasks, is enabled. Since
each call makes finitely many of them, all calls return. In `trust` a process
may wait for its user for ever.

## Proofs

Eight modules of theorems, beside the components they are about; one of them,
`SharedFileProofs`, is about the two in which several writers share files,
MutationQueue and SessionStore, and about the branch in such a file, Compaction;
`TerminalProofs` is about the two that ask the user at the terminal, ProjectTrust
and InteractiveTerminal.
Each has the same layout: the parts of the type invariant, the conjuncts of the inductive
invariant, lemmas about the operators, one lemma per action of the model, and
the theorems. TLC has checked every inductive invariant on the instance of the
component's run; the theorems hold for every value of the constants that the
module's named assumption admits.

| module | theorems | for |
|---|---|---|
| `AgentRunProofs` | `TypeCorrect`; `Transcripts` (`TranscriptsAgree`); `Answers` (`ToolCallsAnswered`); `Keeping` (`KeptOnce`); `Draining` (`QueuesDrained`) | any user messages, prompts, tool turns, calls of a batch, and faults |
| `ToolBatchProofs` | `TypeCorrect`; `Implements` (`KeepsContract`, the refinement of ToolContract); `NothingLeft` (`NothingOutlives`) | either mode, any number of calls, updates and cancels |
| `SharedFileProofs`, MutationQueue | `TypeCorrect`; `CountCorrect` (`RefsCountUsers`); `LockInStep`; `Exclusion` (`ExclusiveUnlessMisused`); `EditsKept` (`NoLostUpdate`) | any finite set of executions, any files and runs |
| `SharedFileProofs`, SessionStore | `StoreTypeCorrect`; `StoreInvariance`; `LinesStaying` (`LinesStay`); `EntriesSaved` (`OwnEntriesSaved`); `BranchesReach` (`BranchReachesRoot`); `BranchedSessions` (`BranchedKeepsLabels`) | any managers, files, entries, lines, writes cut short, and files of version 1 |
| `SharedFileProofs`, Compaction | `BranchInvariance`; `CallsStay` (`ResultsKeepTheirCall`); `HistoryCovering` (`HistoryCovered`); `ContextStaying` (`BranchKeepsContext`) | any budget and weights, any branch and number of compactions and copies |
| `BashToolProofs` | `TypeCorrect`; `AllKept` (`OutputKept`); `NobodyLeft` (`NothingLeft`) | any limit, commands, chunks, faults and cancels |
| `ModelStreamProofs` | `TypeCorrect`; `InOrder` (`EventsInOrder`); `NothingLeft` (`NothingOutlives`); `DoneComplete` (`DoneIsComplete`) | any clients, calls, cancels, payloads and responses |
| `TerminalProofs`, ProjectTrust | `TypeCorrect`; `LockCorrect`; `NothingLost`; `Truthful` (`TellsTruth`); `Implements` (`KeepsBook`, the refinement of PolicyBook); `Resolving` (`ResolvesRight`) | any processes, directories, attempts, inputs and faults |
| `TerminalProofs`, InteractiveTerminal | `TerminalInvariance`; `Busy` (`BusyForReason`) | any prompts, keys typed, reads, signals and failures |
| `AgentSessionProofs` | `TypeCorrect`; `CompactsAlone` (`CompactionAlone`); `TranscriptIsStored` (`StoreAgrees`); `EndsAreProjected` (`EndsProjected`); `ShowsItsQueue` (`QueueShown`); `DisposalIsFinal` (`DisposedIsFinal`) | any prompts, queued messages, opened file, compaction tasks, cancels and failures |
| `SelfUpdateProofs` | `TypeCorrect`; `LockCorrect`; `Installing` (`OneInstaller`); `CleanedUp` (`DirectoryRemoved`); `Forward` (`UpdatesForward`) | any calls, versions, releases, signals and kills |

### AgentRun

`TranscriptsAgree` speaks of the moments at which the model is asked and AgentEnd
is reported. In between, the three copies of the transcript differ: an event is
reduced into `messages` before its listeners run, and the loop appends to
`working_messages` and `produced` after them. `WorkingAgrees` and `ProducedAgrees`
say for every await by what they differ: the prompts still to come, the injected
message, the tool results reduced so far (`Reduced`), the aborted tail. `Frame`
ties what the task's frame holds to where the task is (prompts only while it
prompts, `pending` only while it injects, `results` in step with `pc`), and
`Raised` that an aborted response belongs to an aborted run. `CallsAnswered` is
the same for tool calls without a fault: of the finished responses all but the
last have their results, and at two awaits the last one's are on their way. A cut
response has calls that nothing answers; the property is not about those. `InOnePlace` counts:
a message that a caller still has is nowhere (`Held(m) = 0`), any other in at most
one of the queues, the prompts, `pending` and the transcript, a sum that each step
moves from one summand to another.

Assumed (`AgentRunAssumption`): an instance's transcript is a sequence of messages
that a caller has not yet to use, and without faults its calls are answered, as
in every transcript that a session restores; at least one prompt and one call.

### ToolBatch implements ToolContract

The refinement maps a call to opened, closed and answered, and the batch to its
verdict. To close a call at most once, a step must know that the call has not
been closed: `Dispatched` says what has been dispatched for a call from where its
settlement stands, `Drains` that its updates are over by then and that a failed
drain closes the gate, `Comes` what its execution came to, `Stops` who cancelled
it or made it fail. `Announcing` keeps settlement apart from announcement, `Why`
gives a closed gate and a settled owner their reason, `OneByOne` is
sequential mode, and `Uncancelled` that without a cancel of the owner a call is
cancelled only by a batch that fails. `NothingOutlives` needs that, and of a
batch that was cancelled `Told`, that it leaves calls behind only because of one
that has ended cancelled or failed, and `Over`, that only parallel ones are left;
that no drain is left then is `Drains`. `Implements` then has a
step per action: it maps to an action of ToolContract or to a stutter. Of
fairness nothing is used: `BatchEnds` stays with TLC.

### MutationQueue

`Counted` is `TypeOK` and `RefsCountUsers`: the reference count is the number of
executions inside `hold()` or out of it by a release that raised, which keep
their reference for ever. It holds after a misuse as well. The count changes by
one exactly when the set of users does, by the cardinality lemmas for adding and
removing one element. Mutual exclusion is
not inductive: after a release the lock is free while a woken waiter is about to
take it. The strengthening `Exclusive` adds that a cancel is pending only for
those that hold (`HitHolds`), that nobody is misled (`NobodyMisled`), that a
waiter is in the deque of its file and nowhere else (`WaitersOfKey`), that a
woken waiter is the first of a deque whose lock is free (`WokenIsFirst`), and
that what an edit in progress has read is still the file's content
(`ReadIsFresh`). The invariant of the specification is `Guarded`, that is
`~misused => Exclusive`; it is inductive because no step takes the mark back
(`MisuseStays`). From a misuse on run `queue_broken` refutes it. Assumed: finitely
many executions, each with a file and a run.

### ModelStream

The events of a stream are in three places, `sent`, `got` and `queue`. `Delivery`
says that as long as none are discarded, what was consumed and what is queued
are together what was sent, item by item, with `_END` behind the last one only
once the producer has ended; when they are discarded, the queue is empty and
stays so, and what was consumed is still a prefix. That needs to know that
`_END` is not an event, and that what the provider's frame holds are sequences of
events (`Frame`), through every operator that assembles a response. Two of those
are loops over the blocks of a message, which the model folds; a fold is taken
apart here by the least set of blocks for which the result would not be a frame,
since no induction theorem can be instantiated. `NothingOutlives` is inductive
beside `Absent`: nobody waits for a stream that was never activated, and such a
stream is closed as soon as its events are discarded.

`DoneIsComplete` reads the last event that was sent; `Message` says what it needs
of every moment before. As long as DeepSeek's response runs, the provider's frame
is `Sound`. `Contents`: its blocks are texts and tool calls, its text block is one
of the texts, and its calls are the tool call blocks, each once (`CallsKept`).
`Sent`: as long as nothing has gone wrong, every text is the fragments that were
sent of it, every call has the fragments that were sent of it, a block that the
validator has seen ended has the arguments it will keep, an object, and no
fragment was sent of a block that is not there yet; and the validator's content
is the frame's. Without the last two, a block opened later could find fragments
of its own, and a done event could pass the validator with a call whose arguments
were never read. A response that ends sends its done event only if the validator
has seen every block ended, so its message is `Whole`; a failure sends none
(`Unfinished`). The lemmas go operator by operator: what a new block, another
fragment and the end of a block do to `Contents` and to `Sent`, then the text of a
payload, its tool call, the payload, and the end of the response. Fragments put
together are `FlattenSeq`, a recursive function: that it exists, is the only one
and grows with the sequence is proved by the least position at which it would not
(`Flattening` and the lemmas before it), as for the folds.

Assumed (`ModelStreamAssumption`): the contents of faux responses are sequences,
and a payload has a text, a tool index, a count of names, a fragment, a mark of
usage and a reason to finish, which is what `_stream_simple_operation` reads of it.

### BashTool

Before it collects, the task has changed nothing of queue, pumps, accumulator and
throttle (`Fresh`). While it collects, `Flow` accounts for what is on its way.
`Counted`: the ends of file that the task still waits for, and the pumps that
have ended, are together two more than the ends in the queue. `Followed`: once
both pumps have ended, behind every chunk in the queue there is an end of file.
`Balance`: without a fault, what was written is in the pipes, in the queue or in
the accumulator. So when the task has seen both ends and the exit, the queue
holds no chunk, the pipes are empty and closed, and the accumulator has all.
`Held` says what a spill file can be at any moment, and what the throttle can
know of it, on the records that the operators of accumulator and throttle take:
each of those has a lemma of its own. `Late` sets apart the cancels that nothing
expects, once the loop for events is over or in the except clause, and says that
the group has been killed by then; `Rests` is what the end of any other call
must satisfy; both theorems read it off.
Assumed (`BashToolAssumption`): the limit and what a command has are numbers.

### AgentSession

The guards of the session's calls read attributes: `_prompt_active`, the settlement,
the current compaction. `Apart` says what those attributes mean for the calls and
tasks themselves: one prompt at a time, which is the settlement's (`OnePrompt`); one
live compaction, which is the current one (`OneJob`); a run only under a prompt that
awaits it (`RunOwned`); a manual compaction past its wait only when there is no
prompt (`ManualApart`). With it goes `CutStands`, that a cut which has been prepared
is that of the branch as it still is: whatever could append to the branch is
excluded by one of the others, and none of them is inductive alone.
`CompactionAlone` follows. `Owned` pairs each automatic compaction with the prompt
that awaits it, `Pending` puts an AgentEnd that is held back into the hands of a
prompt past its run, whence `EndsProjected`.

The model has some fifty actions, but what they do to the prompts, the Agent and
the tasks is of four kinds: a step of a prompt (`PromptActs`), its call
(`CallActs`), a step of a task (`JobActs`), and anything else (`Quiet`). One lemma
per action puts it into its kind, and each conjunct is then proved from the kinds.

`StoreAgrees` compares the transcript with a context that is computed from the
whole branch. Contexts and transcripts are selections of positions of a sequence,
so that no recursion is needed: what an entry appended to a sequence adds to a
selection of it (`AtMore`, `SaidMore`, `ContextMore`), and that a selection of
everything is the sequence (`AtAll`), follow from the rank of a position among the
selected ones. It needs that entries are numbered as they come and that a summary
keeps an entry of the branch (`Numbered`), and that a run holds its prompt, or
after it one message it has polled, and nothing when it is over (`Held`); what a
failed run leaves unread is taken out of both sides alike (`AgreesUnread`). For `QueueShown`, `InOrder` keeps each queued message in
one place. For `DisposedIsFinal`, `Disposal`, `ManualOver` and `PromptsOver` say for
each await of the disposal what it has awaited already and that this does not
come back.

Assumed (`AgentSessionAssumption`): the tasks are finitely many, numbered from 1, `"none"` is
neither a prompt nor a message, a session file consists of messages of the kinds
the model has.

### ProjectTrust implements PolicyBook

`LockHeld` says that a document's lock has an owner exactly while a process is
between acquisition and release, hence what a process has read under the lock is
what is there when it replaces it (`FreshRead`). `Course` and `Outcome` tell from
where a process stands, and from how it ended, whether it has committed;
`Leftovers` whose temporary files there can be. A step that replaces a document
then maps to a save of PolicyBook, made on the document of that moment and once;
every other step to a stutter.

`Resolving` first needs that the climb of `_nearest_saved_policy` finds what the
property's own definition calls standing: the decision of the directory below
which no other of those above has one, else the default (`StandingIs`). The climb
is a recursive function; it is compared with the definition (`Found`) at a
directory where they would differ and its parent would not. `Sound` then says
what a process knows at each place: the standing answer of this moment is among
those that have been right; once it has read the decisions, what they said has
been right, they are unchanged unless a change of them has been recorded, and as
long as only they change, the default of this moment has been right too. Hence
a default that is read later was right, unless both documents have changed.

Assumed: directories have parents that lead to a root (in every set of directories
there is one that is its own parent or whose parent is not in the set), chains of
parents, and a process takes at least one attempt (`ProjectTrustAssumption`); a
world has documents and a job for each process (`WorldsAssumption`).

### SelfUpdate

`LockWithin` says that the lock is with the call that is between acquiring it and
giving it back. `Directory` and `Child` tell from where a call stands what there
is of its temporary directory and of its uv, also when signals or a kill have
thrown it out of its course; `Wanted` that what it is to install is newer than
what it found. `OneInstaller` and `DirectoryRemoved` follow. `Forward` also needs
that the order by which the code compares versions agrees with the order of the
property, which has a key of its own: two versions that differ have a first
identifier at which they do, the least of a well-founded order
(`NewerIsAbove`). Assumed: the versions are records of that form, and there is a
value that is no call.

### SessionStore

Every call has the same shape (`Does`): one manager changes, and either the disk
stays or one file is written. `StoreTyped(b)` is the types with `b` as the bound
of the ids so far; a call may only raise it. That a file written anew is not one
of this version, or that nothing finished is lost (`Wrote`), gives `LinesStay`
without any assumption about failures.

The other two invariants hold until a write is cut short. `SoundState` says what
they rest on: no line of a file is broken and its entries are a tree, in which
each entry's parent is an earlier one or none (`Tree`); so are the entries of a
manager, whose leaf is one of them; and once it has flushed, its file is of this
version and its entries are a subsequence of the file's. `OwnEntriesSaved` is
the last of these, of what is read back. It is inductive because the id of a new
entry is greater than any in use (`FreshIs`): a line that another manager adds is
in nobody's memory, and a line of its own is in the file once.
`BranchReachesRoot` is about the recursive function of `Branch`. By induction over
the positions of a tree, the way up from its i-th entry is found in i steps and
starts at a root (`AscentPath`). The same path has no entry twice, so that the
chain which `createBranchedSession` makes of it, with new labels at its end, is
again a tree (`BranchedSound`). A file of version 1 is in step with no manager,
and what is migrated gets ids in a row (`LegacySound`); a fork of one is a file
of entries without ids, which `open` skips.

`BranchedKeepsLabels` needs the types alone: the entries of the new session that
are no labels are its first ones (`AtPrefix`), and a label is at its end for each
entry on the path that the source has labelled (`BranchedKeeps`).

The selections of lines and entries are taken by positions (`At` of module
Selections, also used by AgentSession and Compaction), since `SelectSeq` is out of the provers'
reach. Assumed: `SessionStoreAssumption`, which types the bounds.

### Compaction

A branch only grows, but what a compaction says of the entries before it must
survive every later entry, compaction and copy. `SoundBranch` says what does:
ids differ (`Distinct`); before a result comes an answer or another result, with
entries that are not messages alone in between (`ResultsCalled`); what a
compaction names as its first kept entry is before it, and from there on the
first message is a user's or an answer (`FirstsBegin`); and it covers every
message before that entry, if all compactions up to it carry their predecessors'
covers and name an entry that is there (`Covering`, `Orderly`: the conditions
under which `HistoryCovered` speaks, for a prefix of the compactions). With it
goes that a result which is still awaited would be called.

`PrepareIs` is what the cut of `prepare_compaction` guarantees whatever the
weights: it is at or before a legal beginning with no message in between, and
what is summarised are all messages from the start to it. The start is the last
compaction's first kept entry, so that the new covers join the old ones without
a gap (`GrowSound`). A copy takes the entries that are no labels to places of
their own in the same order and puts labels behind them with ids nobody names,
which keeps all four conjuncts (`CopySound`).

`ResultsKeepTheirCall`: the call of a kept result is kept, because between the two
there is neither a compaction nor a legal beginning, and kept entries begin at
one of them. `HistoryCovered`: a message that is not kept is before the first kept
entry of the latest compaction. `BranchKeepsContext`: positions of the copy and of
its source correspond (`Carries`, `AtThrough`), the latest compaction to the
latest, its first kept entry to its own. Assumed: `CompactionAssumption`, which
types the bounds and weights.

### InteractiveTerminal

The flags that make the terminal refuse, queue or drop what is typed are set by
callbacks and reset by the loop, so the invariant says where the work is that
will reset them. A command is in one place, a dialogue, the queue or the loop
(`Commanding`); so is a submitted or a queued text (`Submitting`); the editor is
frozen only while one of those, or a request for resources, is dealt with
(`Thawing`). `Listening` is these three with what the loop's phases mean
(`Running`), for as long as the terminal is neither closed nor left (`Listens`).

That alone is not inductive. When a command ends, the line that the wait took in
the same moment is dropped (`Ignored`), which must not be one that a flag waits
for. So the invariant adds that behind a command, and while its task runs, only
control work is queued: a line that is entered while a command is active goes
back to the editor (`DeliverLine`).

A read delivers several keys and lines, one fold inside another (`FeedEditor`,
`FeedModal`), and in the middle of one the editor may be frozen with the line
for it not yet delivered. `Kept` is what holds between two of them; the folds
are opened by a chain of their intermediate values (`Treats`) and the least
position at which `Kept` would fail. Assumed: `InteractiveTerminalAssumption`,
which types the number of prompts and what an instance has.

### Not proved

Every safety invariant and action property of a passing run is stated by a
theorem but one: `NobodyStuck` of AgentSession is about ENABLED. Checked by TLC
only, with it, are `AbortEndsRun`, `BatchEnds`, `EveryoneLeaves`, `CallsReturn`,
`StopEnds` and both `SignalEnds`, which are liveness under fairness.

## Findings

Where a run refutes what the repository says of itself:

1. `queue_broken`: a cancel that reaches an execution waiting for a file's lock
   makes it release a lock it does not have (`mutation_queue.py:71`).

Met while modelling. They are in the models as the code has them, and are the
exceptions that the properties name; most were reproduced by running the code.

Agent and tools

- an abort before the run task's first step leaves the Agent busy for ever
  (`_agent.py:338`; fault "early" of AgentRun, `RunLost` of AgentSession);
- a stream that begins with its terminal error gives a MessageEnd without a
  MessageStart (`_loop.py:1165`; fault "unstarted");
- a response that is aborted or fails keeps the tool calls it had begun
  (`_loop.py:1255`); the loop ends the turn without answering them
  (`_loop.py:622`), and nothing takes them out of what the next run sends
  (`deepseek.py:140`; the exception in `ToolCallsAnswered`);
- the holder of a lock that a cancelled waiter has released fails in its own
  release and keeps its reference, so that the lock of that file is never dropped
  (`mutation_queue.py:78`; `RefsCountUsers`);
- the second `gather` of a cancelled batch raises when a call was cancelled
  outside its handlers; the batch has no results, and the calls left behind
  dispatch to an Agent without a run (`_loop.py:810`, against the assertion at
  `_agent.py:404`).

Session files

- a fork of a version 1 session is empty, since its values are copied unmigrated
  under a header of version 3 (`_session_manager.py:873`), although README.md:47
  says that existing session files remain recoverable;
- after a write that was cut short the next append joins the torn line and is
  lost although it did not raise (`_session_manager.py:1454`);
- `setSessionFile` takes a file's name before it refuses the file; later appends
  go into it (`_session_manager.py:992`);
- a branched session drops the label that a compaction names as its first kept
  entry, and with it the kept messages from the context
  (`_session_manager.py:1359`; the exception in `BranchKeepsContext`, `Dangles`);
- a compaction that cuts only a turn's beginning discards the previous summary
  (`_session.py:1258`, against the prompt at `_compaction.py:72`; `Discards`);
- after a compaction that cuts before the previous one, the context shows
  messages in front of a summary that does not cover them
  (`_session_manager.py:1255`).

Agent session

- when a listener fails in the report of a spent overflow recovery the held back
  AgentEnd stays, and every later run fails (`_session.py:1062`, `:1482`; the
  exception in `EndsProjected`);
- a compaction before a prompt's run leaves `_compaction_result_committed` set while
  that run goes on, so that an abort of the run takes it for the abort of a
  recovery (`_session.py:980`): `AgentSettled` is never dispatched (`:619`), and when
  the aborted run ends in an error that calls for a compaction, its AgentEnd stays
  held (`:1043`) and every later prompt fails (`:1482`; the other exception in
  `EndsProjected`);
- `_prompt_active` is cleared before `AgentSettled` is dispatched, so that a second
  prompt may start, whose flag the first one's `finally` clears (`odd`);
- a prompt is stored before its run, so that a listener which fails before its
  MessageEnd leaves it in the file and out of the transcript until that is
  rebuilt (`_session.py:578`, `_loop.py:559` to `574`; `agent.unread`, the exception
  in `StoreAgrees`);
- a queued message that the run has polled is lost when a listener fails before
  its MessageEnd, and stays displayed when it fails before its MessageStart
  (`_loop.py:570`, `:634`; `"dropped"`);
- `clearQueue` returns the text of a message that a run has polled and not begun,
  and the message is delivered as well (`_session.py:674`; `"late"`, the exception in
  `QueueShown`);
- a manual compaction that waits can be displaced by the prompt's automatic one;
  `dispose()` does not await it, and it may append after `dispose()` has returned
  (`_session.py:796`; the exception in `DisposedIsFinal`);
- a failed listener of `QueueUpdate` leaves a text displayed that is never queued;
- a failed listener of `CompactionStart` leaves it without a `CompactionEnd`.

Streams

- `aclose` by another task leaves a waiting consumer waiting, a consumer that
  swallows its cancel and iterates again waits for ever, and a task cancelled
  before its first step leaves `result()` pending (`Deserted`);
- `argumentsSeen` is always true, so a tool call without arguments fails the
  stream (`deepseek.py:386`, `:393`);
- an identity extended by a fragment that cannot be encoded raises a ValueError
  past the terminal error.

Bash

- a cancel that comes late, once the loop for events is over and watchers, pumps
  and the rest of the output are awaited (`bash.py:511` to `517`), be it the first
  and only one of a command that has ended by itself, or in the except clause
  (`bash.py:398`), leaves the spill file, its descriptor and a timer (`main.late`);
- a cancel while asyncio starts the shell kills the shell alone: what that has put
  into the background goes on (`"unspawned"`);
- after the shell's exit the timeout has no effect while background processes
  hold the pipes (`bash.py:488`), and a process that has left the group keeps an
  aborted call waiting;
- after a fault of the output a spill file that an update had named is deleted;
- when only `finish` makes the output too long, and the disk refuses its file, the
  call ends with the updates' timer set (`bash.py:558`); it fires 0.1 s later,
  creates a spill file that nobody closes or deletes, and calls `on_update` after
  the end of the call (`output.py:334`; the exception `Unwritten`).

Trust and update

- the two documents are read under locks of their own, so that a distrust and a
  default saved in between can yield an answer that was right at no moment
  (`_project_trust.py:28`; the exception in `ResolvesRight`);
- a resize while a line is being taken drops it (`_cli.py:479`);
- release and owner are looked at before the lock is taken, so that a call which
  another overtakes may install an older version (`_update.py:81`; the exception
  in `UpdatesForward`);
- a killed update releases the lock while its uv goes on (`OneInstaller`);
- a signal during creation or removal of the temporary directory leaves it
  (`DirectoryRemoved`), and one that arrives while handlers are restored is
  swallowed or escapes (`_update.py:310`).

Terminal

- an end of input that arrives in the same moment as the end of a reload or
  compaction is dropped; the reader is gone, and only a signal ends the program
  (`_terminal.py:1238`);
- the update notice is dropped when the terminal is busy without a prompt
  (`_terminal.py:1702`);
- the signal tells a prompt to stop once: when messages are queued the session
  goes on with them in a run that nobody aborts (`_session.py:610`, `:1026`), and
  the terminal awaits it (the premise of `SignalEnds`);
- of three lines pasted into an idle editor the third is lost
  (`_terminal.py:1147`).

## What is not modelled

Painting, cursor motion, history, completion and resizing; transport and JSON
decoding of providers; file discovery, text assembly and prompts; decoding and
truncation of output; what an update verifies of release and wheel: I/O, layout
and pure functions without a state that a model checker could say more about
than a test. `waitForIdle`, subscription, and the generator forms `agentLoop` and
`runAgentLoop` without an Agent are left out of AgentRun; sessions without a
file, listing and `continueRecent` out of SessionStore; token estimates out of
Compaction; `navigateTree`, creation and failing writes of the store out of
AgentSession; reasoning content and `streamSimple` out of ModelStream. Extensions
are user code that runs in order in one task: their hooks are part of the
listeners of an event, their shutdown a step of the disposal that may fail.
Telemetry decides nothing.

## Plan

The models are written for proofs as well: no module declares a RECURSIVE
operator, constants carry named assumptions. The theorems state every safety
invariant and action property but `NobodyStuck`. What is left is to model more:

1. **Aborts**: `Agent.abort()` before the run task's first step, as a fault that
   AgentRun has and AgentSession only knows by its effect (`RunLost`).
2. **Migration**: the file's rewriting in place as several writes, with a crash
   between them.
3. **Extensions**: what a failing hook of a lifecycle event leaves behind.

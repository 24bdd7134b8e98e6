# hotl: a verification project

hotl is a terminal coding agent written in Rust. A *session* is one
conversation with a model: an append-only log on disk, an actor that owns the
conversation's state, and a turn task that samples the model and runs tools. The
modules here describe how those parts keep the conversation intact: in order,
durable, and the same after a kill as before it. TLC checks them on small
instances, and TLAPS proves the results that matter most for every instance.

Paths below are relative to `src/crates/`.

## 1. The system

| Component | Its state | Its operations | Talks to |
|---|---|---|---|
| Session log writer (`hotl-store/src/lib.rs`) | the file, the last acked offset, the seal flag, `last_id` (the queued leaf) | `append_acked`, `forward_prepared`, `forward_group`; the writer thread's `writer_loop` and `commit_batch` | the actor, over an mpsc channel and one oneshot per unit |
| Session actor (`hotl-engine/src/actor.rs`) | `Head` (items, checklist, leaf, epoch), `Pipeline` (seq, FIFO of unacked units), held steers, prompt queue, parked folds and model switches, goal | one select loop: the oldest ack, or the next `SessionCmd` | the writer; the turn task (tickets, published head); the surfaces (events) |
| Turn task (`hotl-engine/src/turn.rs`) | its tickets, the snapshot it last sampled, an un-adopted speculative request, step and failure budgets | sample, commit, run a tool batch, commit results, sample again | the actor (proposals), the provider, the tools |
| Replay (`hotl-store/src/lib.rs`) | none | `replay`, `replay_chain`, `apply_log` | the actor, which starts from what it returns |
| Compaction and clearing (`hotl-context`, `hotl-engine/src/clearing.rs`) | fold indices in the log | `compact`, `fold_now`, `try_compact`, `try_clear` | the actor |
| Background jobs (`hotl-tools/src/jobs.rs`) | slots, pid and rc files | start, stop, kill_all, wait | the actor, through notifications |
| Child agents (`hotl-tools/src/children.rs`, `hotl/src/children_tools.rs`, `hotl/src/spawn.rs`) | registry of slots with their waiters, one task per child with its request channel | `spawn`, `wait`, `resume`, `send`; finish, publish, settle, abandon; stop, evict, stop all | the turn (tool calls), the actor (notifications and their withdrawal) |
| Concurrency permits (`hotl-tools/src/concurrency.rs`) | permits in use | acquire, release | tools, children, workflows |
| Workflow executor (`hotl-workflow/src/exec.rs`, `journal.rs`, `hotl/src/workflow.rs`) | per run: the phase, its calls, the slots, the summary's records, the journal of answers | run a plan's phases, dispatch a call, ask a human, resume | child sessions, the process gate, the shared-tree lock |
| Goal gate (`hotl-context/src/goal.rs`) | the goal, its stalls | verdict at a turn's end | the actor |
| Hook router (`hotl-engine/src/hooks.rs`) | strikes, timeouts | call a hook, disable it | the actor and the turn |
| Provider retry ladder (`hotl-provider`, `hotl-engine/src/turn.rs`) | attempts, fallback model | retry, fall back, give up | the provider |
| MCP client, session server, attach | connections, pending requests | connect, call, reconnect | tools, surfaces |
| Rules, sandbox, net, fsguard, TUI, config | - | pure or I/O | - |

### What is hard about it

* **Three actors and a disk.** A turn proposes an entry and goes on before the
  entry is durable; the actor projects it when the ack arrives; the writer commits
  in groups. Anything that reads "the conversation" reads a published copy.
* **Barriers.** Three places where going on early must stop: before a tool runs
  (a), before the next sample is built (b), before the turn ends (c).
* **Speculation.** The next request is built and sent before the last results are
  durable, and adopted afterwards if the head's leaf is the predicted one.
* **Humans at any moment.** Steers, plan toggles, folds, interrupts, prompts.
* **Failure.** A failed write or sync, a dead writer thread, a panicking turn, a
  `kill -9`.

`PROJECT.json` lists each hazard at the line where it bites, with the properties
that would notice it going wrong.

### What makes each component correct

* Log: an acked entry stays; a refused one leaves no trace; each entry is chained
  onto the one before it; replay finds what was acked.
* Actor: the projection is a prefix of the log and never ahead of what is synced;
  apply, then publish, then resolve; held steers land between samples and outside
  tool batches; every ticket is answered.
* Turn: tools run after their calls are durable; a sample sees everything its turn
  committed; an adopted request is the one that would have been built.
* Replay: the resumed projection is the one the session ran with.
* Children: a result reaches exactly one reader; what counts as running is driven
  and what counts as parked listens; the limit holds; closed is final; waits end.
* The actor's callers: no input is lost, doubled or overtaken; one turn at a time, reported
  once; an interrupt holds; a notification is answered; every loop (goal, fold) ends.
* Workflow: a run ends, and only when its agents have; what a cancel, the cap or a kill cuts
  off is accounted for; a resume replays answers to the same questions and no others.
* Jobs, permits: every started thing is ended or accounted for once, limits hold.
* Retry, hooks: loops that must end do end.

## 2. The modules

* `CommitPipeline` models writer, actor and turn task together.
* `EventLog` is the abstract specification of what they promise.
* `CommitPipelineProofs` proves about `CommitPipeline`: what its steps do, its types and
  what is durable; `CommitOrderProofs` goes on from there to the order of the log, the
  projection, the barriers and the refinement of `EventLog`; `CommitBoundaryProofs` to what a
  turn reads at a sample boundary, where steers land, the plan file, and the pairing of tool calls
  with their results.
* `Children` models the registry of child agents, the tools and tasks around it and the
  parent's mailbox; `ChildrenProofs` proves who drives a child and that a sender the registry keeps
  is alive, `ChildrenResultsProofs` that one reader and no fewer gets what a turn ends with,
  `ChildrenLimitProofs` how many children there are and which of them can be resumed.
* `SessionActor` models what the actor does with its inputs and with the turns it runs;
  `SessionActorProofs` proves about the turns and about the inputs.
* `Workflow` models the executor of a plan, its journal and the runner of its agents;
  `WorkflowProofs` proves about it for every plan, and one theorem for every plan that
  names each of its calls once.
* `MCCommitPipeline`, `MCChildren`, `MCSession` and `MCWorkflow` are the modules TLC is pointed
  at; the bounds are in the `.cfg` files, the plans of the workflow runs in `MCWorkflow`.

The groups do not share state. `CommitPipeline` is the actor seen from the log (what is
durable, what is published when), `SessionActor` the same actor seen from its callers, with a
commit reduced to the item it adds. What both call a held steer is an element of `held` in
`Children`, which looks at who gets it and not at where it lands in the log.

### CommitPipeline

| Variable | Code |
|---|---|
| `chan`, `batch`, `wrote`, `phase` | the writer's channel, the group `commit_batch` holds, how far into it it is, where it is |
| `file`, `good`, `sealed` | the log file, the last acked offset, `SessionLog::sealed` |
| `ack[s]`, `ticket[s]` | the oneshot of the unit whose last entry is `s`: writer to actor, actor to turn |
| `entry[s]` | what was minted under commit number `s`: its kind, its parent, what its author had seen, the checklist it carries |
| `seq`, `fifo`, `lastId` | `Pipeline.seq`, `Pipeline.fifo`, `SessionLog.last_id` |
| `head`, `pub` | `Head`; the `ProjectionHead` last sent on the watch channel |
| `held` | the number of held steers |
| `op` | what the actor is in the middle of: it handles one command or ack at a time and may be suspended in `append(..).await` |
| `turn` | the turn task: where it is, its tickets, `ack_seq`, the snapshot and the speculation it carries |
| `artifact` | the plan file |
| `budget` | bounds on commands, faults and kills |

An entry is named by its commit number: the position it has in the log if all
goes well. A command whose handler awaits appends is split exactly at those awaits:
`Run(work, then)` queues the appends, `Drain`, `AppendSend`, `AppendOk` and their
failures carry them out, and `then` names how the handler ends (`Settle`, `PlanWritten`,
`Spawn`, `EndTurn`, ...). Between the awaits a handler runs alone, so it is one
action. While the actor is suspended the writer and the turn go on.

A causal group (assistant item and usage, results and hints) is one unit: one write,
one ack, one ticket. A kill may still leave only its first lines in the file, and does in
the model.

What is abstracted: texts, models, tool names and results; the difference between
log-only commands (`Command` stands for rename, mode, goal, effort and a tool's
ask journal); the number of tools in a batch. What is left out of this module, and is
in `SessionActor`: the prompt queue (a queued prompt starts its turn in the handler that ends
the last one; here that is a later `PromptFast` or `PromptAwaited`), notices and the
`Continue` they request, the compaction streak, the goal gate, parked folds and model switches.
Left out of both: `AckMode::Sync` (the comparison mode without tickets), reset-mode compaction, the ticket
window of 16 (a turn reaches a barrier after at most three proposals), and the
repair that the request builder does on unpaired results.

### EventLog

`Write`, `Promise`, `Apply`, `Publish`, `RollBack`, `Resume`: a log, the length of the part
that was acked, a projection of it and the published copy. `ImplementsEventLog`
says that every step of `CommitPipeline` is one of these or a stutter, under the mapping
log = `file`, promised = `good`, view = `head.projected`, published = `pub.projected`: in
particular no roll-back, seal, kill or resume loses an acked entry, and
the projection is only ever a prefix of the acked log.

### Children

| Variable | Code |
|---|---|
| `slots` | `Children.inner.slots`: state, claimed, the per-child waiter, whether its token was cancelled; `run` numbers the turn whose result the slot holds |
| `any` | `Children.inner.any_waiter` |
| `tasks` | where the code that drives a child is: not started, in the spawning call (`fg`), driving, notifying, publishing, withdrawing, parked, panicked, ended |
| `reqs` | the child's `resume` channel, of capacity one |
| `calls` | the tool calls of the chunk that runs, each with the oneshot it waits on |
| `inbox`, `held` | the actor's command channel; the notifications it holds like steers |
| `turn` | the parent: idle, sampling, in a chunk of tools, ended; cancelled or not |
| `told`, `owed`, `waited` | history: notifications that became items, results background turns ended with, results a `wait` returned |
| `budget` | the bounds |

| Actions | Code |
|---|---|
| `Spawn`, `SpawnStarts`, `SpawnFails`, `SpawnReturns` | `SpawnTool::run_impl` around `Children::register`, `abandoned`, `settled` |
| `Wait`, `WaitAny`, `WaitReturns`, `WaitCancelled`, `WaitTimesOut`, `Withdraw` | `WaitTool::run_impl` around `Children::claim` |
| `Resume`, `ResumeSends`, `ResumeReturns`, `ResumeCancelled` | `ResumeTool::run_impl` around `Children::resume`, `stop` |
| `Finish`, `Tell`, `Publish`, `TakeBack` | `ChildRun::deliver` around `Children::finish`, `published` |
| `TakeRequest`, `Reply`, `End` | `child_task` parked and resumed |
| `Panic`, `Watch`, `LastWord` | the task that watches `child_task` |
| `Mail`, `Release`, `Prompt`, `TurnEnds`, `StopChild`, `SessionEnds` | the actor's handlers |
| `Dispatch`, `Joined`, `Interrupt` | `run_tool_batch` |

A registry operation runs under one mutex and is one action; a tool or a task is split
where it awaits. A oneshot is a field of the receiving call, so that a receiver that
is dropped turns its sender, wherever it is kept, into `Gone`: the registry may hold a sender
nobody reads, and the code asks `is_closed` in some places and finds out by `send` in others.

What is abstracted: a child's turn is one step; a permit comes or is refused at any moment; the
actor's channel has no limit (64 in the code: a full one only delays a sender); taking a
request and `Children::resumed` are one step, with nothing awaited in between; the cancelled
token reaches a parked task some time after the slot is closed. What is left out: `send`, the
refusals for children that can edit the tree and the lock they take, validation, worktrees,
reports, charges, and a panic of the call that drives a foreground child.

### SessionActor

| Variable | Code |
|---|---|
| `inputs` | history: the kinds of the prompts, steers and notifications that arrived; an input is its number |
| `queue`, `held` | the prompt queue (an entry past `QUEUE_MAX` holds several), `held_steers` |
| `log` | the head's last item, the inputs it shows that no sample has read, the units forwarded but unacked |
| `read`, `sampled` | history: inputs a completed, or a dispatched, sample was built from |
| `running`, `released`, `wakes` | the running turn, `released_notice`, spawned senders of `SessionCmd::Continue` |
| `goal`, `streak`, `parked` | `GoalState`'s idle turns, `compact_streak`, `pending_fold` and `pending_model` |
| `actor` | where the handler of `TurnFinished` is, between its awaits, and with which verdict |
| `turn` | the turn task: where it is, how it ends, its position in the chain of models, what it carries over a respawn |
| `cancelled`, `escaped` | the token `interrupt` cancels; history: whether an Esc landed in this logical turn |
| `owed`, `chain`, `budget` | turns whose `TurnDone` is not sent; the length of the active model's chain; the bounds |

| Actions | Code |
|---|---|
| `Prompt`, `Steer`, `Notify`, `Continue`, `Fold`, `SetModel`, `SetGoal` | the arms of the actor's `select!` |
| `Interrupt` | `SessionHandle::interrupt`, from any task at any time |
| `Ack` | the ack arm: `apply_ack`, `release_steers`, the request for a `Continue` |
| `Sample`, `LadderClear`, `LadderFold`, `SampleCancelled`, `SampleFails`, `SampleText`, `SampleCalls`, `RunTools`, `Panic` | `Turn::drive` and the supervisor around it |
| `TurnFinished`, `Outcome`, `CompactBegins`, `CompactEnds`, `Clear`, `Verdict`, `Guide`, `EndTurn`, `FoldNow`, `Promote`, `Return` | the handler of `SessionCmd::TurnFinished`, split where it awaits a provider, a fold or the goal's evaluator |

The actor takes no command while that handler is suspended, but an Esc lands. A turn that does
not fit asks for the ladder and ends; the actor clears or folds and spawns a continuation, which
is the same logical turn: same `TurnDone`, same token, same streak. A goal's guidance goes on
with the logical turn (`TurnDone` is still owed) under a new token. `Owes` is where one begins.

Left out: what `CommitPipeline` has (the sealed log, speculation), the withdrawal of a
notification (`Children`), `Sync` acks, the `UserPromptSubmit` hook, approvals, and the
nudges that make a turn sample again without a tool call. That a queue entry past the cap is
folded by joining texts is modelled by what it holds, so `NothingDropped` is about inputs: the
truncation of an over-long entry is not in it.

### Workflow

| Variable | Code |
|---|---|
| `run[r]` | `Exec` and `Scope`: status, phase, jumps, the values of earlier phases, the calls of the phase (`lanes`, `votes`), the round and the union of `until_quiet`, `started`, free run slots, the summary's `records`; `cached` is what `Journal::load` found, `known` history: what earlier runs had been answered |
| `journal[r]` | the lines of `journal.jsonl`: whether each parses (`whole`), has its line end (`ended`) and is UTF-8 (`legible`) |
| `gate`, `tree` | the process semaphore; `mutating_child_lock` |
| `answers[r]` | history: every answer with its question |
| `budget` | the bounds |

| Actions | Code |
|---|---|
| `Admit`, `TakeLocal`, `TakeGate` | `Exec::dispatch` up to `runner.run`, split at its two waits; a replay ends in `TakeGate` |
| `TakeTree`, `Reply` | `ChildRunner::run_one`, and `dispatch` after it: settle, journal, slots, value |
| `EnterPhase`, `JoinPhase` | `Exec::drive` with `parallel`, `each`, `until_quiet`, and `agent` for the votes |
| `Human`, `NobodyAnswers`, `HumanTimesOut` | `Exec::human` over `ask_human_impl` and `ask_one` |
| `Start`, `Cancel` | `WorkflowTool::run_impl`, fresh or with `resume`; the call's token |
| `Kill`, `Tear` | the death of the process, in the middle of a journal line too, even of a character |
| `Write`, `Load` | `Journal::record`, which appends to a line without an end what then parses with neither; `Journal::load`, which reads a file with one bad character as empty |

A phase is a set of lanes side by side, a lane a sequence of stages, a stage one call or several
votes. A question is phase, label and what the templates read (arguments, earlier phases, item,
previous stage, union): whatever else the prompt says is fixed by the plan. What a human answers
besides the route is not read by anybody. "failed" stands for unverifiable too.

Left out: validation of plans, selectors and templates and the errors they raise, schemas and
their retries, the prefix stagger, worktrees and their merge, the result file, a journal append
the disk refuses while the process lives (`record` ignores the error, so that answer is not kept, and
part of it may stand in the file), a torn line of an agent that failed (only what is glued to it
could be lost), and two resumes of one run at the same time, which nothing in the code prevents.

## 3. The runs

| Run | Bounds | Checks |
|---|---|---|
| `boundaries` | 6 entries, 1 held steer, no faults | `ReadYourWrites`, `AdoptedIsCurrent`, `SteerNeverPrecedesUnseen`, `BatchesStayPaired` |
| `everything` | 4 entries, 1 held steer, 1 checklist change, 1 command or plan toggle, 1 fault, 1 kill, panics | `TypeOK`, `ProjectionBehindLog`, `EpochGate`, `PipelineInv`, `ProjectionIsLogPrefix`, `ChainUnbroken`, `ToolsAfterDurable`, `PlanFollowsLog`, `ImplementsEventLog` |
| `liveness` | 3 entries, 1 held steer, 1 command, 1 fault, interrupts, plan toggles | `BarriersEnd`, `ActorReturns` |
| `readers` | limit 2, 2 children, 2 calls a chunk, 3 chunks, 1 stop | `OneReader`, `NothingLost` |
| `registry` | limit 1, 3 children, 2 calls a chunk, 2 chunks, 1 interrupt, 1 panic | `TypeOK`, `WorkingIsDriven`, `LiveWithinMax`, `DoneIsReachable` |
| `children_end` | limit 1, 2 children, 3 chunks of 1 call, 1 stop, 1 panic | `WaitsEnd`, `ChildrenDie` |
| `session` | a queue of 2; 4 prompts, 1 steer, 1 batch of tools, 1 interrupt, 1 error, 1 panic | `TypeOK`, `NothingDropped`, `PromptsInOrder`, `OneTurnAtATime`, `InterruptSticks` |
| `session_live` | a queue of 1; 1 each of prompt, notification, fold, model switch, goal, error, batch | `HeldWaitsForATurn`, `TurnsEnd`, `NoticesAnswered`, `ParkedFoldTaken` |
| `workflow` | an item through 3 votes and a second stage, a human, rounds of a finder; 3 run slots, 2 of the process, a cap of 5; 3 starts, 1 cancel, 1 kill, 1 torn line, 1 failure, 1 route | `TypeOK`, `EndedMeansSettled`, `CapIsAnError`, `CancelAccountsForAll`, `AnswersMatchQuestions`, `AnswersKept`, `CancelStartsNothing`, `RunsEnd` |
| `v_*` | 1 prompt and what else it takes, or 2 agents | one documented statement each, which the code breaks |

Why the bounds are enough. Six entries hold a prompt, a sample with calls, their
results and a second sample, with a steer in any gap: every
kind of boundary, and a speculative request across one. Four hold a prompt, a group and a
following append around one fault and one kill, which is each order of write, sync, ack,
failure, death, kill and resume. Running out of commit numbers is treated as one more way
for the log to refuse an entry, so the bound cuts behaviours the way a full disk
does and never leaves anyone waiting. `everything` trades length for width: all hazards
at once, at most one of each.

For the children: two calls in a chunk are what two waits need to compete for one result, with
the child's own steps between theirs; three chunks allow a spawn, a use and a late use. Two
children let one be evicted for the other, three let an evicted one's place be contested. The
calls of a chunk are interchangeable, hence the symmetry in the safety runs.
`readers` has no interrupt, panic or resume, `registry` no stop and no background resume: each
of these breaks a property of its run at once, in the ways listed below.

For the session: four prompts are one that runs, two that fill the queue and one past it;
every way a turn can end (text, error, cancel, full window, panic) is within one step of each
of them. `session_live` has one of every input that waits for a turn's end, so that any two
meet there; a window that may always be full runs the streak to its cap of one, and a
goal that is never met runs into two idle turns.

For the workflow: three votes against two slots of the process and one tree lock leave a call at
every wait when a cancel or a kill comes; a plan of five or six calls around a cap of five ends
both within and beyond it; a second start resumes what a cancel, a kill or an end left, with
the line of any answer torn, anywhere in it; it appends to what is left, and the third start
reads what that made of the file. The three shapes with agents, the human's loop (one route of
`MAX_ROUTE_JUMPS`) and a second round each occur. One run is at work: the gate and the lock
are contended by its own calls.

Each property has a mutant of the code's definition (`Mut...` in the modules) under which TLC finds it violated.

**Fairness** (`FairSpec`; `Spec` in `Workflow`). The writer is a thread in a loop, the actor a task that polls
its select loop, and a turn task waiting for a ticket or a head is woken when it
arrives; each is weakly fair. Samples, tools, commands, faults and kills are not fair:
nobody owes them. In `Children` every task and every call is polled, a child's turn ends
(an idle clock and a step limit bound it), and the actor serves its mailbox; the parent's
model, the human, a wait's clock and panics are not fair, so `WaitsEnd` holds without
the clock. It holds for waits on background children by id, the calls of `children_end`;
`TimeoutMeansRunning`, below, is why the other kinds are not among them.
In `SessionActor` the actor's loop, the steps of its handlers, the turn task, the acks and the
spawned senders of `Continue` are fair, and a sample or a batch that was started ends (a
stream has an idle timeout, a tool its own); inputs, interrupts, failures and panics are not. In
`Workflow` the runtime polls a run that can move, an agent's session ends and a plan's clock runs
out; a person's answer, a cancel and a kill are not fair.

### What the violated runs show

* `v_model_index` - a turn that has fallen back to the second model of the chain and whose
  window is full is respawned with its position; if a model switch was parked meanwhile the
  chain it indexes has one model, and the turn panics.
* `v_esc_restarts` - a notification released and answered within a turn leaves
  `released_notice` set. If an Esc then cancels a later batch of that turn, the `Continue` sent at
  its end finds cancelled tool results and starts the model on them.
* `v_label_reuse` - two agents of a phase with one label have one id, and so have the agents of a
  phase a human routes back to. Each end settles the first record; the others are at work for
  ever in the summary of a run that is done.

`PROJECT.json` quotes, for each, the comment or page in the source that it contradicts.

Further statements that the models show to be broken, and how to see it. No run is kept for them:

* With a fault in `CommitPipeline` the plan file is written although
  the todo append failed ("After the durable append, never before", `actor.rs:1798`).
* `BatchesStayPaired` with `PlanToggles`: a plan-mode toggle during a tool batch puts a
  reminder between calls and results (`actor.rs:1659`, against 3166).
* `ProjectionIsLogPrefix` with `Interrupts`: an interrupt that lands while a fold's entry is being
  written drops the fold in memory and keeps it on disk (`actor.rs:2935`).
* `AdoptedIsCurrent` with a checklist change (`MaxTodos = 1`): a `todo_write` in a batch commits
  its entry before the results, so the predicted leaf is still right and the request is adopted
  with the checklist of the sample before.
* `ReadYourWrites` with a plan toggle (`PlanToggles`, 1 command): the same with the reminder that
  entering plan mode appends. A toggle while tools run commits it before the results; the predicted
  leaf is right, and the adopted request lacks the reminder.
* `BatchesStayPaired` with `Panics`: a turn that panics with its calls still unacked is cleaned up
  from a head that does not show them. In `SessionActor` the same panic leaves an idle session with
  an open batch, and what is held then waits for a turn nobody owes (`HeldWaitsForATurn`,
  `NoticesAnswered` with `MaxPanics = 1`).
* `LiveWithinMax` with a stop: a child stopped during its turn becomes parked again when the turn
  ends, takes a place under the limit and accepts a resume nobody hears; with three children a
  spawn then evicts it in place of the one that runs.
* `NothingLost` with `MaxInterrupts = 1`: a result put into a wait's oneshot just before the wait
  notices the cancel is read by nobody, and nobody is told. With `resumeFg` too: the result of a
  background turn is held for the model, a foreground resume runs another turn, and a `wait` on
  the child returns that one's result and withdraws the notification of the first, since `Unnotify`
  carries the child's id only (`children_tools.rs:57`).
* `OneReader` with a panic: the error of a panicked child goes to the parked wait
  (`Children::abandoned`) and to the inbox (`spawn.rs:1059`).
* `WaitIsCurrent` with `resumeBg`: between an accepted background resume and the task's taking
  it, `wait` returns the turn before ("blocks for its result", `children_tools.rs:314`).
* `ResumeIsHeard` with two children and a limit of one: in the same gap a spawn evicts the
  child, and the accepted request is dropped ("You will be told when it finishes").
* `CancelSparesChild` with `resumeFg` and an interrupt: cancelling a foreground resume stops the
  child ("the child finishes its turn and parks (D6)", `children_tools.rs:337`).
* `TimeoutMeansRunning` with `wait` and `waitAny`: both parked on the one child that runs; its
  end serves one, and the other waits out its clock and then reports the child as running.

* An Esc between the goal's verdict and the guidance's turn is swallowed: the guidance takes a
  new token (`actor.rs:2628`, "Esc during the evaluation returns control immediately").
  `InterruptSticks` with `MaxGoals = 1` shows it.
* `NoticesAnswered` excuses a turn that reports no room. A `Continue` is consumed while
  the respawned turn runs; if that turn then fails for want of room, its notification waits
  for the next input.
* A parked `/compact` is dropped when the compaction that took it up ends by Esc or by the streak
  cap ("Newest wins; a process exit drops it", `actor.rs:1350`), and it waits through a whole goal
  loop. `ParkedFoldTaken` says only that it is taken up.
* `OneHitPerTear`, in the bounds of `workflow`: "at most one torn tail, and one lost cache hit"
  (`journal.rs:77-79`). A line torn inside a character (`serde_json` writes them raw) leaves a file
  that is not UTF-8; `read_to_string(..).unwrap_or_default()` (`journal.rs:82`) takes it for empty, at
  every later load too, and all answers are asked again. `OneHitPerReadableTear`: a line that only
  lacks its end is glued to the next append, and neither parses then. `AnswersKept` has the
  factor of two, and the file that is lost as a whole.
* Votes of one stage, and rounds whose prompt does not read the union, share one key: a
  resume gives each the last answer recorded, and a majority can flip ("An unchanged call replays",
  `journal.rs:9`).
* A replay waits for both slots before the journal is looked at, though "no permit is held for
  one" (`exec.rs`, above the lookup): `TakeGate`.
* A run cancelled while it waits at a `human_input` without a timeout waits for the person: the
  question's token is never cancelled (`hotl/src/workflow.rs:575`; `hotl-engine/src/lib.rs:1866`,
  "must never outlive a turn the user already cancelled"). `RunsEnd` fails with `clock |-> FALSE`.
* A cancel does not interrupt the wait for the shared-tree lock; the child is started and
  prompted behind it. `CancelStartsNothing` is about slots of the gate.

The passing runs switch these off where they would only repeat them: `Panics`, `PlanToggles`,
`Interrupts` and checklist changes in `boundaries`, `Interrupts` in `everything`, panics and
interrupts in `session_live`, goals in `session`.

## 4. The proofs

Every theorem is about the module's `Spec` (or `Next`) as TLC runs it, for every value of the
constants that its `ASSUME` allows: bounds are natural numbers, switches Booleans, and the set
of calls of `Children` is finite. A theorem that needs more says so in its own hypothesis.
Except for the few that follow from a weaker one, each rests on an invariant that is stronger
than what it says, because what it says is not kept by every step alone.

### CommitPipeline

`CommitPipelineProofs`, with every hazard allowed:

* `TypeCorrect == Spec => []TypeOK`
* `ProjectionSafe == Spec => []ProjectionBehindLog`: nothing is projected or published
  that is not below the last synced offset.

The inductive invariant is `IInv == Shape /\ QueueInv /\ UnitsInv /\ DurableInv /\
ProjectionBehindLog`.

* `Shape` is `TypeOK` with the writer's phases (`WriterInv`: what `batch` and `wrote` can be
  in each) and the actor's continuations (`OpInv`: what an op with work in hand can be).
* `QueueInv`: commit numbers are only ever assigned upwards, the file holds no more
  entries than were assigned (a kill renumbers `seq` to the length of the file), and the
  units in flight are below `seq`.
* `UnitsInv`: every unit the writer holds is one the actor waits for, in its FIFO or in the
  append it is suspended in.
* `DurableInv`: a unit acked "ok" that the actor has not settled yet is below
  the synced offset. This is the heart: it is what `SettleFront` and `AppendOk` rely on.

`Steps` sorts every action of `Next` into a few kinds: writer steps, a mint that grows the
queues, a settle, a completed append, a quiet step, a kill. Each kind is an operator that says
what such a step writes and keeps (`Settles` what becomes of head and ticket, `Quiet` what a step
may do to a turn, `KeepsDue` that an answer that is due stays so, `MintChains` what a mint chains
its entries onto), so that each conjunct has one step lemma with one case per kind.

`CommitOrderProofs` adds what the parties may believe of each other. With every hazard allowed:

* `GateSafe == Spec => []EpochGate`: a ticket is answered "ok" only when the published head has
  its entry. It follows from `GateInv`: published epoch, head's epoch and the units in flight
  are in that order, and an answer the actor is about to give (`DueInv`) is about something
  durable that its own head already has.
* `ToolsSafe == Spec => []ToolsAfterDurable`, from `TurnInv` (the turn's last commit is among its
  tickets or durable) and `ToolsInv` (while tools run it holds no ticket).

And under the hypothesis `Interrupts = FALSE`:

* `ProjectionInOrder == Spec => []ProjectionIsLogPrefix`, `ChainSafe == Spec => []ChainUnbroken`
* `Implementation == Spec => ImplementsEventLog`
* `PipelineAgrees == Spec => []PipelineInv`, the whole invariant, which the run `everything` checks.

The hypothesis is about the code: an interrupt that lands while a fold's entry is being written
leaves the entry in the log and out of the projection, and from then on the projection is no
prefix (section 3). `OrderInv` has four parts, none of which survives without the others:

* `FileInv`: as long as the log takes entries, commit numbers have no gaps from the file over
  the writer's group and queue up to `seq`, so an entry's number is its place in the file.
* `AckInv`: acks come in order. What waits is with the writer, what was answered "ok" lies before
  all that still is, and behind a unit that failed every other one is `Doomed`: it failed, or
  waits in front of a sealed log. Without it the actor could apply a unit past a hole.
* `HeadInv`: the projection is the first entries of the log (`UpTo`), and the next unit that is
  not doomed starts where it ends (`Tied`).
* `LeafInv`: every entry the writer was given is chained onto the number before it, and the
  queued leaf is the last of them.

The refinement is proved step by step: the writer's write is `Write`, its sync `Promise`, its
failure `RollBack`; a unit settled "ok" and an append that returned are `Apply`; what sends the
head is `Publish`; a kill is `Resume`; every other step changes nothing `EventLog` can see.

`CommitBoundaryProofs` is about what a turn reads between two of its samples. All with
`Interrupts = FALSE` (the refresh reads a projection, which an interrupted fold spoils), and with
faults, writer deaths, kills and panics:

* `SteersAreSeen`: `Spec => []SteerNeverPrecedesUnseen`
* `ReadsItsWrites`: `Spec => []ReadYourWrites`, for `PlanToggles = FALSE`.
* `AdoptionIsCurrent`: `Spec => []AdoptedIsCurrent`, for `PlanToggles = FALSE` and `MaxTodos = 0`.

Section 3 has the runs of the code that make these two hypotheses necessary: both are an entry that a
human or a tool has the actor append while a batch is at work. The three have one invariant,
`BoundaryInv` (`BoundaryAgrees`), on top of `PipelineInv`:

* `OwnedInv`: between two handlers the FIFO holds what the turn waits for, and nothing else.
  A panicked turn is the exception (`Orphaned`), until the append at its end drains the FIFO.
* `WorkInv`: what the actor appends while a turn works is not an item, other than the steers its ack
  arm releases. With plan toggles this is only true of steers (`OwnKinds`), which is enough for
  `SteersAreSeen` and the reason why the other two need the hypothesis.
* `EntryInv`: numbers not yet assigned carry nothing, and no batch is closed in advance.
* `CallsInv`: a turn at barrier (a) waits for an open batch, so the ack arm releases nothing there.
* `KnowsInv`: from its refresh to its next proposal the turn is the only author of items: the view
  it refreshed and what it has committed since (`own`) are all there are. This is why
  an optimistic request can be right at all.
* `RequestInv`: the speculative request shows what is committed up to the leaf it predicts, and a
  sample shows that too, whether it was adopted or built.
* `SawInv`: an assistant item has seen each steer with a lower number.

For these a step is one of few kinds: the turn moves alone (`Ponders`), proposes (`Proposes`; `Says` is
what it commits where) or is refused (`Burns`), or the actor mints an entry of its own.

* `PlanFollows == Spec => PlanFollowsLog`, with every hazard allowed. `PlanInv` follows the handler of a
  checklist change: it appends its entry first, and when it comes to the plan file an entry with
  the list it is about to show is projected, unless the log has given up.
* `BatchesPaired`: `Spec => []BatchesStayPaired`, for `PlanToggles = FALSE`, `Panics = FALSE` and
  `Interrupts = FALSE`. It allows faults, writer deaths, kills, folds, held steers and checklist
  changes. Section 3 has how a toggle and a panic break it; an interrupted fold is excluded because
  the proof reads the projection as the log's prefix (`PipelineInv`), which is false with one.

`BatchesStayPaired` is about the projection, and an entry that will break it is in the log before.
So the proof shows `PairedLog`, the same of all that has been minted, folds left out because a
digest is in front of what it keeps. `Open` says that the log ends on calls nothing has answered.
A mint keeps `PairedLog` if it answers the batch exactly when one is open (`MintTalk`), and a kill
keeps it because what it loses is a suffix and what then dangles is closed in memory (`CrashTalk`). `BatchInv` is why
every mint is of that kind. While a batch is open the turn runs it or is over, so no other turn starts and
nobody proposes but to answer it. What the actor appends meanwhile is marks and checklists, until its
own results close the batch of a dead turn. The FIFO holds no unit but the one that
opened the batch. That the actor, who looks at its head and not at the log, finds
a batch open when one is, is `AwaitingIsOpen`: at the end of a turn the head has projected all there is.

### Children

`ChildrenProofs`, for any number of calls, children and chunks and with every hazard allowed:

* `NoneForgotten == Spec => []WorkingIsDriven`: a slot that `running()` counts, and that the
  goal gate therefore waits for, has a call or a task that drives it or is about to deliver it.

`WorkingIsDriven` is not inductive: a publish that finds its slot other than `Finishing` parks the
task and leaves the slot alone, so one that found it `Running` would leave a running child
with a parked task. `KInv` adds to the types (`Registry`) what excludes that: `Agrees`, for each
slot and its task, says that a working slot has a driver and that a task about to notify or
publish has a slot that its turn has finished. `OneChild`, `OneSlot`, `OneTask` and `EverySlot` say
how `KInv` survives a step that touches one child or all slots at once, and each action has a
lemma that names the slot and the task it writes.

* `SendersAlive == Spec => []TypeOK`, with every hazard allowed: besides the types and the bound on children, a sender the
  registry keeps is that of a call that is still parked on it and has received nothing.

That is what makes the code's `is_closed` checks enough. It is not inductive: a sender is kept in
four places (a slot, `any_waiter`, a child's task, its request channel), a call has one oneshot,
and a second place holding the same sender would overwrite or outlive it. `CInv` says that there
is none, over `KInv`:

* `Kept`: a slot's waiter is a `wait` parked on that child, `any_waiter` a `wait` on no child, a
  task's or a request's sender a `resume` of that child awaiting its reply and not both; and
  nothing is in the oneshot of any of them. The call's step and argument tell the four apart.
* `CallFits`: a call past its start is about a child that exists, and only one that
  reads a oneshot has something in it.
* `Fits`: state of the slot, place of the task, the run either names and the waiter of a closed
  slot agree; so a publish hands over the turn that ended, and no other.
* `Begun`: a child that is being started, or driven in the foreground, is with one call.
* `Chunked`: between two chunks every call is idle.

`Counted` is the bound: children there are, and children that calls of the chunk may yet
register, are together no more than `MaxIds`. `Posted` is the type of the mailbox and of the histories.

`ChildrenResultsProofs`:

* `OneReaderHolds == MaxPanics = 0 => (Spec => []OneReader)`: a result that a `wait` returned is not
  also on its way to the model, whatever is stopped, interrupted, evicted or resumed meanwhile. With
  a panic it is false: the code gives the error to the waiter and to the inbox (section 3).

`OneReader` looks at results that were returned; what it needs is said of those still in a
oneshot, and of turns that are not over. `ReadOnce` adds to `CInv` and `Posted`:

* `Current`: nothing is known of a turn to come. The result of a turn that has told nobody is
  neither seen nor noted, and until it is published it is not seen; so a notification is sent of a result
  nobody has, and a waiter that came too late for `finish` finds it in `published`. A result handed over
  without the `notified` mark has no notification, in the mailbox or held.
* `Readers`: what was returned and is noted is recalled (`Recalled`): an `Unnotify` comes behind
  it in the mailbox, or a call or the child's task is about to send one.

Most steps are `Quiet`: they send nothing, return no result, and at most put the result of an
unread turn into a oneshot, which ends that turn (`ReadQuiet`). Left over are the steps that return a
result (`ReadTaken`), recall (`ReadRecalled`) or send a notification (`ReadTold`), and the parent's reading of its
mailbox (`MailRead`), where the order of the channel is what counts.

* `NothingIsLost`: `Spec => []NothingLost` for `MaxInterrupts = 0` and no resume in `Ops`, with panics
  and stops; section 3 says how an interrupt and how a resume breaks it. A panicked turn did not end,
  so it owes nothing.

`NothingLost` says where a result may be, not that it stays there. `LossInv` adds `Backed`, that what
is recalled, or is about to be, was read (`Seen`: returned, or in the oneshot of a parked `wait`), and
`FirstTurns`, the reason for the hypotheses: every turn is its child's first, so the id names it, and no
call is cut short. A step is then `Calm`, if a oneshot keeps what it has until that is returned and
nothing begins to recall what was not read, and it `Passes`, if a notification goes from the task to
the mailbox, to the held ones, to the model, and is dropped on that way only for a recall.

`ChildrenLimitProofs`, for `MaxStops = 0` and `"resumeBg" \notin Ops`, with panics and interrupts:

* `LimitKeeps`: `Spec => []LiveWithinMax`
* `ParkedHears`: `Spec => []DoneIsReachable`

Both are about slots that are not closed, and closed is not final: `Children::finish` gives the slot
its new state whatever the old one was, at the end of every turn nobody awaits (one that is awaited
ends with `Children::settled`, which leaves a closed slot alone). With `/agents stop` or a
background resume such a turn may end behind a close and bring a slot back that `register`
no longer counts (section 3, and the hazard at children.rs:333). Without them the only turn of this kind
is a child's first, and what is inductive is that its slot is `Running` until it ends (`Sound`),
so that neither an eviction, which takes parked children only, nor an end of the task can have
closed it. `Sound` also says that a slot not closed was neither interrupted nor left by its task,
which is what `ParkedHears` is about, and `AsksParked` that only parked children are
asked for more. Every step but a registration `Wanes`: no child opens that was not open, no slot
comes back, so the count cannot rise (`WanesKeeps`). `SpawnLimits` is the registration, where one child is
evicted or there was room.

### SessionActor

`SessionActorProofs`, for every bound and every length of queue and chain:

* `OneTurn == Spec => []OneTurnAtATime`: one turn task lives at a time and never beside the
  handler of a turn's end, each logical turn is owed one `TurnDone` until it is sent, and an idle
  session has no queue.
* `EscHolds == MaxGoals = 0 => (Spec => InterruptSticks)`: in a session without a goal no
  continuation of the context ladder dispatches a sample behind an Esc. With a goal the
  statement is false: the guidance takes a new token (the list in section 3).

The invariant of the first is `IInv == Records /\ Alone`. `Records` is the places a turn and the
handler can be in: what `TurnFinished` copies from the turn must be a place that still owes its
`TurnDone`. `Alone` says that a turn task lives only while the loop takes commands, that the
session is running exactly while there is a task or a handler at work, and what is owed at each
place; without the first part a prompt admitted in the loop could start a second turn. The second
theorem adds `Carried`: an Esc within the logical turn is still in its token, since `Continuation`
leaves the token alone and every other way to a fresh one (`Owes`) begins a new logical turn.
`Started` and `Admitted` are the two lemmas the actions that begin a turn share.

And of the inputs:

* `TypesHold == Spec => []TypeOK`, with the caps of streak, idle turns and queue.
* `InputsAccounted == Spec => []NothingDropped`: every prompt, steer and notification is queued,
  held, on its way to the log, in the log unread, or read, and in one of them only.
* `PromptsKeepOrder == Spec => []PromptsInOrder`
* `HeldIsReleased == MaxPanics = 0 => (Spec => []HeldWaitsForATurn)`. With a panic it is false
  (section 3).

`Books` is the invariant of the first three. `Accounted` is the partition itself (`Split`) with
what it needs to survive: no input is in two units of the log (`Clean`), and what a
sample in progress was built from is still unread. `InOrder` says that the queue is sorted as a
sequence of sets (past `QUEUE_MAX` an entry joins the last one), that what it holds is younger
than every prompt that was begun, and that no prompt is ever held: a steer promoted to
a prompt at a turn's end would otherwise overtake the queue. `CountTypes` is the counters; the
streak passes its cap only on the way to the report that no room can be made. `Orderly` is for the
last theorem: the item the log ends on once all in flight is acked is a batch of calls only while a
turn is at its tools, and what is held is held while a turn lives.

### Workflow

`WorkflowProofs`, for every plan, width, cap and bound, with kills, torn lines and resumes:

* `TypesHold == Spec => []TypeOK`
* `CapHolds == Spec => []CapIsAnError`: the agents recorded as started are never more than
  `max_agents`, and a run that is done never met the cap.
* `CancelAccounts == Spec => []CancelAccountsForAll`: a run that a cancel ended in a phase has a
  record of every call of it that did not meet the cap.
* `AnswersMatch == Spec => []AnswersMatchQuestions`: what a call ends with was an answer to its own
  question, given now or found in the journal after any number of kills.
* `NothingStarts == Spec => CancelStartsNothing`: behind a cancel no call takes a slot of the gate.
* `KeepsAnswers == Spec => []AnswersKept`: a resume knows every answer that earlier runs were given,
  but two for each line that a crash tore; or, if one was cut inside a character, it knows none.

`WorkflowInv` counts calls by where they are (`CallsAt`). Run slots are free or with a call past
`TakeLocal` (`SlotsOf`), the gate's are free or with an agent at work (`GateInv`), over all runs. Against
the cap stand the records of agents that were not skipped and the calls that may yet become one
(`CapCount`): the counter `started` alone does not bound the records, since it is raised a wait earlier than the
record is written. `FirstCounts` is needed because `settle` rewrites the first record
of an id: it must not turn a skipped one into one that counts. `CapMet`: a run past its cap has a
call that ended so, whose lane is in error, so the run does not end as done. `Recorded` gives every
call at work or ended its record unless it met the cap. `Said` and `Logged` follow an answer from
the call that got it to the journal line, to what a later `load` reads, to the call that replays
it; a line that a kill tore, and the one glued behind it, are not whole and are not read. The step of a call is one
of a dozen operators (`Skips`, `MeetsCap`, `TakesSlot`, `Replays`, `Launches`, ...) that say which
fields it writes (`Only`) and how one lane moves (`OnLane`, `Moves`), and each part of the
invariant has one lemma over them.

`AnswersKept` speaks of what the last resume loaded and so says nothing of the file between two of
them. `LossInv` (of `WorkflowProofs`) does: what was answered and is in no whole line, together with
what the last line still owes (`Owed`), is at most two for each torn line. A torn line that is whole owes two, since the next append
will spoil it and be lost with it; one that is not whole has lost its own answer already and owes
one. So only a torn line raises the sum, by two (`WriteLoses`), though the loss comes to
light an append later (`LostOf`). `LoadedKeys` says that a load of a readable file returns every key
that a whole line answers: of the lines of a key there is a last one. A file that is not UTF-8 loads
as nothing and stays so (`StaysGarbled`), which is the other case of `FoundOf`: there is no third, in
which a run finds part of such a file.

One needs a hypothesis about the plan:

* `EndsSettled == NamesOnce => (Spec => []EndedMeansSettled)`: a run that is over has no record of
  an agent at work. A record is found by its id alone. `NamesOnce` says that the plan does not give two
  calls one id: no two lanes of a phase share a label unless their position tells them apart, and
  no route goes back to an earlier phase. `v_label_reuse` is what happens otherwise. `Fresh`: the
  records of a phase are of calls the run has come to, one of an id. `Shown`: a record says
  "running" as long as its call works.

### Only model-checked

* Liveness, and with it ENABLED, is out of the prover's reach: `BarriersEnd`, `ActorReturns`,
  `WaitsEnd`, `ChildrenDie`, `TurnsEnd`, `NoticesAnswered`, `ParkedFoldTaken`, `RunsEnd`.
* Every other property of a passing run is stated by a theorem, under the hypotheses named there.

## 5. The plan

1. `SessionReplay`: items, fold indices and batches closed on resume; replay against the
   live projection.
2. `Jobs`, `Permits`: registries under concurrent ends, stops and limits.
3. `Retry`: the ladder of retries and fallbacks; hook strikes.
4. MCP correlation, session server.

Not planned: parsing and matching (rules, wire formats), rendering, effects on the machine
(sandbox, file guard, git), text transforms.

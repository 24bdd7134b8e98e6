----------------------------- MODULE SessionActor -----------------------------
(***************************************************************************)
(* The session actor as its callers see it: what it does with a prompt, a  *)
(* steer, a notification, a parked fold or model switch, a goal, an         *)
(* interrupt, and with the turn it runs (hotl-engine/src/actor.rs, the      *)
(* control of a turn from hotl-engine/src/turn.rs).                         *)
(*                                                                         *)
(* Commits are the units of CommitPipeline, reduced to the item each adds:  *)
(* a unit in `log.fifo` is forwarded but unacked, and an append made inside *)
(* a handler drains the FIFO first.  An input is named by its arrival       *)
(* number.  The mailbox has one sender per input, so an input arrives when  *)
(* the actor takes it; only `Continue`, which the actor sends itself, is    *)
(* kept in flight (`wakes`).  A handler is split where it awaits anything   *)
(* but the log: the actor's loop takes no command meanwhile, an interrupt   *)
(* lands at any time.                                                       *)
(*                                                                         *)
(* Left out: the sealed log and speculation (CommitPipeline), the withdrawal *)
(* of a notification (Children), `Sync` acks, the `UserPromptSubmit` hook,  *)
(* and the nudges that make a turn sample again without a tool call.        *)
(***************************************************************************)
EXTENDS Integers, Sequences, FiniteSets

CONSTANTS
    QueueMax,       \* QUEUE_MAX
    MaxStreak,      \* MAX_COMPACT_STREAK
    StallTurns,     \* GOAL_STALL_TURNS
    Fallbacks,      \* how many models the fallback chain has behind the first
    CanFill,        \* whether a request may exceed the context window
    MaxPrompts, MaxSteers, MaxNotices,  \* bounds: inputs of each kind
    MaxFolds, MaxSwitches, MaxGoals,    \* bounds: `/compact`, cross-dialect `/model`, `/goal`
    MaxInterrupts, MaxErrors, MaxPanics, \* bounds: Esc, failed samples or batches, dead turns
    MaxBatches      \* bound: samples that call tools

ASSUME ActorBounds ==
    /\ {QueueMax, StallTurns} \subseteq Nat \ {0}
    /\ {MaxStreak, Fallbacks, MaxPrompts, MaxSteers, MaxNotices, MaxFolds, MaxSwitches,
        MaxGoals, MaxInterrupts, MaxErrors, MaxPanics, MaxBatches} \subseteq Nat
    /\ CanFill \in BOOLEAN

VARIABLES
    inputs,    \* the kinds of the inputs that arrived, in order
    queue,     \* queued prompts; past QueueMax an entry holds several
    held,      \* held steers and notifications
    log,       \* the head's last item, what it shows the model, units in flight
    read,      \* inputs a completed sample was built from
    sampled,   \* inputs a dispatched sample was built from
    running, released, wakes,   \* released_notice, spawned senders of `Continue`
    goal,      \* the goal's idle turns, or NoGoal
    streak,    \* compact_streak
    parked,    \* pending_fold, pending_model
    actor,     \* where the handler of TurnFinished is
    turn,      \* the turn task
    cancelled, \* the token `interrupt` cancels
    escaped,   \* an interrupt landed in this logical turn
    owed,      \* turns begun whose TurnDone was not sent
    chain,     \* length of the active model's chain
    budget     \* what is left of the bounds

env == <<inputs, queue, held, budget>>
vars == <<inputs, queue, held, log, read, sampled, running, released, wakes, goal, streak,
          parked, actor, turn, cancelled, escaped, owed, chain, budget>>

Ids == 1..Len(inputs)
NoGoal == -1
IdsOf(s) == {s[k] : k \in DOMAIN s}

Looping == [at |-> "loop", notified |-> FALSE, unrecoverable |-> FALSE, folding |-> FALSE]
NoTurn == [at |-> "none", end |-> "done", idx |-> 0, chain |-> 1, sees |-> {},
           progress |-> FALSE, tools |-> FALSE, cleared |-> FALSE]

Init ==
    /\ inputs = <<>> /\ queue = <<>> /\ held = <<>>
    /\ log = [last |-> "none", unread |-> {}, fifo |-> <<>>]
    /\ read = {} /\ sampled = {}
    /\ running = FALSE /\ released = FALSE /\ wakes = 0
    /\ goal = NoGoal /\ streak = 0
    /\ parked = [fold |-> FALSE, model |-> FALSE]
    /\ actor = Looping /\ turn = NoTurn
    /\ cancelled = FALSE /\ escaped = FALSE /\ owed = 0
    /\ chain = Fallbacks + 1
    /\ budget = [prompt |-> MaxPrompts, steer |-> MaxSteers, notice |-> MaxNotices,
                 fold |-> MaxFolds, model |-> MaxSwitches, goal |-> MaxGoals,
                 interrupt |-> MaxInterrupts, error |-> MaxErrors, panic |-> MaxPanics,
                 batch |-> MaxBatches]

Spend(k) == budget[k] > 0 /\ budget' = [budget EXCEPT ![k] = @ - 1]

-----------------------------------------------------------------------------
(* The head and the FIFO, reduced to what the actor's decisions read. *)

\* awaiting_tool_results
Open(l) == l.last = "calls"

Apply(l, units) ==
    [l EXCEPT !.last = IF units = <<>> THEN @ ELSE units[Len(units)].item,
              !.unread = @ \cup UNION {units[k].ids : k \in DOMAIN units}]

\* Pipeline::drain, and an append behind it; an entry that is no item only drains.
Drain(l) == [Apply(l, l.fifo) EXCEPT !.fifo = <<>>]
Land(l, item, ids) == Apply(Drain(l), <<[item |-> item, ids |-> ids]>>)
Forward(l, item, ids) == [l EXCEPT !.fifo = Append(@, [item |-> item, ids |-> ids])]

\* release_steers: everything held lands, unless the head ends on an open batch.
Releases(l) == held # <<>> /\ ~Open(l)
Release(l) == IF Releases(l) THEN Land(l, "user", IdsOf(held)) ELSE l
Notified(l) == Releases(l) /\ \E i \in IdsOf(held) : inputs[i] = "notice"
StillHeld(l) == IF Releases(l) THEN <<>> ELSE held

-----------------------------------------------------------------------------
(* Starting turns. *)

\* respawn_turn, Turn::new: `cont` keeps its counters, `models` is built anew.
Respawn(cont) ==
    turn' = [cont EXCEPT !.at = "boundary", !.chain = chain, !.progress = FALSE, !.sees = {}]

\* Mutant: the continuation gets a token of its own.
MutContinuationFresh == Respawn(turn) /\ cancelled' = FALSE
\* The ladder's continuation: the same logical turn under the same token.
Continuation == Respawn(turn) /\ UNCHANGED cancelled

\* spawn_turn: a new token and no counters.
Spawn == Respawn(NoTurn) /\ cancelled' = FALSE

\* start_turn: the prompt rides the pipeline unless steers are held.
Begin(l, ids) ==
    /\ log' = IF held = <<>> THEN Forward(l, "user", ids) ELSE Land(l, "user", ids)
    /\ Spawn

\* A logical turn begins: a TurnDone is owed, and no interrupt has landed in it yet.
Owes == running' = TRUE /\ owed' = owed + 1 /\ escaped' = FALSE

Arrive(kind) == Spend(kind) /\ inputs' = Append(inputs, kind)
New == Len(inputs) + 1

\* Mutant: no cap.
MutNoCap(ids) == Append(queue, ids)
\* Mutant: past the cap the newest prompt replaces the last entry.
MutReplaceLast(ids) ==
    IF Len(queue) >= QueueMax THEN [queue EXCEPT ![Len(queue)] = ids] ELSE Append(queue, ids)
\* Mutant: past the cap a prompt joins the entry that is next.
MutFoldIntoNext(ids) ==
    IF Len(queue) >= QueueMax THEN [queue EXCEPT ![1] = @ \cup ids] ELSE Append(queue, ids)

\* Past QUEUE_MAX a prompt is folded into the last entry.
Queued(ids) ==
    IF Len(queue) >= QueueMax THEN [queue EXCEPT ![Len(queue)] = @ \cup ids]
    ELSE Append(queue, ids)

\* Mutant: a prompt starts its turn whatever is running.
MutAdmitStarts(ids) == Begin(log, ids) /\ Owes /\ UNCHANGED queue

\* admit_prompt
Admit(ids) ==
    IF running
    THEN /\ queue' = Queued(ids)
         /\ UNCHANGED <<log, running, owed, turn, cancelled, escaped>>
    ELSE Begin(log, ids) /\ Owes /\ UNCHANGED queue

-----------------------------------------------------------------------------
(* The actor's loop: what it does with a command. *)

AtLoop == actor.at = "loop"

Prompt ==
    /\ AtLoop /\ Arrive("prompt") /\ Admit({New})
    /\ UNCHANGED <<held, read, sampled, released, wakes, goal, streak, parked, actor, chain>>

Steer ==
    /\ AtLoop /\ Arrive("steer")
    /\ IF running \/ Open(log)
       THEN held' = Append(held, New) /\ UNCHANGED log
       ELSE log' = Land(log, "user", {New}) /\ UNCHANGED held
    /\ UNCHANGED <<queue, read, sampled, running, released, wakes, goal, streak, parked,
                   actor, turn, cancelled, escaped, owed, chain>>

Notify ==
    /\ AtLoop /\ Arrive("notice")
    /\ IF running \/ Open(log)
       THEN /\ held' = Append(held, New)
            /\ UNCHANGED <<queue, log, running, owed, turn, cancelled, escaped>>
       ELSE Admit({New}) /\ UNCHANGED held
    /\ UNCHANGED <<read, sampled, released, wakes, goal, streak, parked, actor, chain>>

NeedsContinuation(l) == l.last \in {"user", "results"}

ContinueStarts == ~running /\ NeedsContinuation(log)

Continue ==
    /\ AtLoop /\ wakes > 0 /\ wakes' = wakes - 1
    /\ IF ContinueStarts
       THEN Spawn /\ Owes
       ELSE UNCHANGED <<running, owed, turn, cancelled, escaped>>
    /\ UNCHANGED <<env, log, read, sampled, released, goal, streak, parked, actor, chain>>

\* `/compact`: parked while a turn runs, else run now; only the drain shows here.
Fold ==
    /\ AtLoop /\ Spend("fold")
    /\ IF running THEN parked' = [parked EXCEPT !.fold = TRUE] /\ UNCHANGED log
                  ELSE log' = Drain(log) /\ UNCHANGED parked
    /\ UNCHANGED <<inputs, queue, held, read, sampled, running, released, wakes, goal, streak,
                   actor, turn, cancelled, escaped, owed, chain>>

\* `/model` to another dialect, which drops the fallback chain.
SetModel ==
    /\ AtLoop /\ Spend("model")
    /\ IF running \/ Open(log)
       THEN parked' = [parked EXCEPT !.model = TRUE] /\ UNCHANGED <<log, chain>>
       ELSE chain' = 1 /\ log' = Drain(log) /\ UNCHANGED parked
    /\ UNCHANGED <<inputs, queue, held, read, sampled, running, released, wakes, goal, streak,
                   actor, turn, cancelled, escaped, owed>>

\* `/goal`: set (or replaced), or cleared.
SetGoal ==
    /\ AtLoop /\ Spend("goal")
    /\ goal' \in {0, NoGoal} /\ ~(goal = NoGoal /\ goal' = NoGoal)
    /\ log' = Drain(log)
    /\ UNCHANGED <<inputs, queue, held, read, sampled, running, released, wakes, streak, parked,
                   actor, turn, cancelled, escaped, owed, chain>>

\* SessionHandle::interrupt, beside the mailbox.
Interrupt ==
    /\ running /\ ~cancelled /\ Spend("interrupt")
    /\ cancelled' = TRUE /\ escaped' = TRUE
    /\ UNCHANGED <<inputs, queue, held, log, read, sampled, running, released, wakes, goal,
                   streak, parked, actor, turn, owed, chain>>

\* The ack arm: the oldest unit is applied, what was held for it is released, and a
\* notification released behind the turn asks for its own continuation.
Ack ==
    /\ AtLoop /\ log.fifo # <<>>
    /\ LET acked == [Apply(log, <<Head(log.fifo)>>) EXCEPT !.fifo = Tail(@)]
           told == released \/ Notified(acked)
       IN  /\ log' = Release(acked) /\ held' = StillHeld(acked)
           /\ released' = (told /\ running)
           /\ wakes' = IF told /\ ~running THEN wakes + 1 ELSE wakes
    /\ UNCHANGED <<inputs, queue, budget, read, sampled, running, goal, streak, parked, actor,
                   turn, cancelled, escaped, owed, chain>>

-----------------------------------------------------------------------------
(* The turn task. *)

TurnAt(s) == turn.at = s
Settled == log.fifo = <<>>
TurnOnly == UNCHANGED <<inputs, queue, held, running, released, wakes, goal, streak, parked,
                        actor, cancelled, escaped, owed, chain>>

Ended(t, end) == [t EXCEPT !.at = "ended", !.end = end]

\* The request is built from the head once every ticket resolved; an index past the
\* end of the chain panics; a cancelled turn never reads the stream.
Sample ==
    /\ TurnAt("boundary") /\ Settled
    /\ IF turn.idx >= turn.chain
       THEN turn' = Ended(turn, "panic") /\ UNCHANGED sampled
       ELSE IF cancelled
       THEN turn' = Ended(turn, "cancelled") /\ UNCHANGED sampled
       ELSE /\ turn' = [turn EXCEPT !.at = "sampling", !.sees = log.unread]
            /\ sampled' = sampled \cup log.unread
    /\ TurnOnly /\ UNCHANGED <<log, read, budget>>

\* build_request refuses: the context ladder's two rungs, the cheap one once per prompt.
LadderClear ==
    /\ TurnAt("boundary") /\ Settled /\ CanFill /\ ~turn.cleared
    /\ turn' = Ended([turn EXCEPT !.cleared = TRUE], "clear")
    /\ TurnOnly /\ UNCHANGED <<log, read, sampled, budget>>

LadderFold ==
    /\ TurnAt("boundary") /\ Settled /\ CanFill
    /\ turn' = Ended(turn, "compact")
    /\ TurnOnly /\ UNCHANGED <<log, read, sampled, budget>>

SampleCancelled ==
    /\ TurnAt("sampling") /\ cancelled
    /\ turn' = Ended(turn, "cancelled")
    /\ TurnOnly /\ UNCHANGED <<log, read, sampled, budget>>

\* A model that is unavailable hands over to the next of the chain, the last one fails.
SampleFails ==
    /\ TurnAt("sampling") /\ ~cancelled /\ Spend("error")
    /\ turn' \in {IF turn.idx + 1 < turn.chain
                  THEN [turn EXCEPT !.at = "boundary", !.idx = @ + 1]
                  ELSE Ended(turn, "error"),
                  Ended(turn, "fatal")}
    /\ TurnOnly /\ UNCHANGED <<log, read, sampled>>

Completes(item) ==
    /\ TurnAt("sampling") /\ ~cancelled
    /\ read' = read \cup turn.sees
    /\ log' = Forward([log EXCEPT !.unread = @ \ turn.sees], item, {})
    /\ TurnOnly /\ UNCHANGED sampled

SampleText ==
    /\ Completes("text") /\ UNCHANGED budget
    /\ turn' = Ended([turn EXCEPT !.progress = TRUE, !.sees = {}], "done")

SampleCalls ==
    /\ Completes("calls") /\ Spend("batch")
    /\ turn' = [turn EXCEPT !.at = "tools", !.progress = TRUE, !.sees = {}]

\* Barrier (a), then the batch: its results always follow, and what stopped it ends the turn.
RunTools ==
    /\ TurnAt("tools") /\ Settled
    /\ log' = Forward(log, "results", {})
    /\ \/ /\ cancelled
          /\ \E ran \in {turn.tools, TRUE} :
                turn' = Ended([turn EXCEPT !.tools = ran], "cancelled")
          /\ UNCHANGED budget
       \/ /\ ~cancelled
          /\ turn' = [turn EXCEPT !.at = "boundary", !.tools = TRUE]
          /\ UNCHANGED budget
       \/ /\ ~cancelled /\ Spend("error")
          /\ turn' = Ended([turn EXCEPT !.tools = TRUE], "stopped")
    /\ TurnOnly /\ UNCHANGED <<read, sampled>>

\* The supervisor reports a turn that panicked, wherever it was.
Panic ==
    /\ turn.at \in {"boundary", "sampling", "tools"} /\ Spend("panic")
    /\ turn' = Ended(turn, "panic")
    /\ TurnOnly /\ UNCHANGED <<log, read, sampled>>

-----------------------------------------------------------------------------
(* TurnFinished. *)

\* Mutant: what is held stays held when the turn ends.
MutNoRelease(l) == /\ log' = l /\ UNCHANGED held
                   /\ actor' = [Looping EXCEPT !.at = turn.end]

\* What is held lands before anything else of the turn's end.
ReleaseAtEnd(l) ==
    /\ log' = Release(l) /\ held' = StillHeld(l)
    /\ actor' = [Looping EXCEPT !.at = turn.end, !.notified = Notified(l)]

\* The open batch is closed, the held steers land, and a parked `/model` is taken: it
\* is applied or, when the projection outgrew the new window, dropped.  Barrier (c)
\* let the turn finish only once its units were acked.
TurnFinished ==
    /\ AtLoop /\ TurnAt("ended") /\ (Settled \/ turn.end = "panic")
    /\ ReleaseAtEnd(IF Open(log) THEN Land(log, "results", {}) ELSE log)
    /\ turn' = [turn EXCEPT !.at = "none"]
    /\ parked' = [parked EXCEPT !.model = FALSE]
    /\ chain' \in IF parked.model THEN {chain, 1} ELSE {chain}
    /\ UNCHANGED <<inputs, queue, read, sampled, running, released, wakes, goal, streak,
                   cancelled, escaped, owed, budget>>

\* Mutant: the continuation is asked for only by what this handler released.
MutReturnNotified ==
    /\ actor' = Looping /\ released' = FALSE
    /\ wakes' = IF actor.notified THEN wakes + 1 ELSE wakes

\* The handler's last lines: a released notification asks for a continuation.
Return ==
    /\ actor' = Looping
    /\ wakes' = IF actor.notified \/ released THEN wakes + 1 ELSE wakes
    /\ released' = (released /\ actor.notified)

Outcome(kind) == actor' = [actor EXCEPT !.at = kind]
HandlerOnly == UNCHANGED <<inputs, held, read, sampled, budget, chain>>

\* Mutant: every fold starts the count again.
MutFoldsForever == 1
Streak == IF turn.progress THEN 1 ELSE streak + 1

\* try_compact, up to the race between the summarize and the interrupt.
CompactBegins ==
    /\ actor.at = "compact" /\ ~actor.folding
    /\ streak' = Streak
    /\ parked' = [parked EXCEPT !.fold = FALSE]
    /\ IF Streak > MaxStreak
       THEN actor' = [actor EXCEPT !.at = "full", !.unrecoverable = TRUE]
       ELSE actor' = [actor EXCEPT !.folding = TRUE]
    /\ HandlerOnly /\ UNCHANGED <<queue, log, running, released, wakes, goal, turn, cancelled,
                                  escaped, owed>>

\* The fold lands, there was nothing to fold, or the interrupt wins; an interrupt that
\* came too late to stop the fold still ends the turn.
CompactEnds ==
    /\ actor.at = "compact" /\ actor.folding
    /\ log' = Drain(log)
    /\ \E end \in IF cancelled THEN {"cancelled"} ELSE {"full", "respawn"} :
            actor' = [actor EXCEPT !.at = end, !.folding = FALSE]
    /\ HandlerOnly /\ UNCHANGED <<queue, running, released, wakes, goal, streak, parked, turn,
                                  cancelled, escaped, owed>>

\* try_clear
Clear ==
    /\ actor.at = "clear"
    /\ log' = Drain(log)
    /\ Outcome(IF cancelled THEN "cancelled" ELSE "respawn")
    /\ HandlerOnly /\ UNCHANGED <<queue, running, released, wakes, goal, streak, parked, turn,
                                  cancelled, escaped, owed>>

\* The respawn, which an interrupt may reach after the check it passed.
Continues ==
    /\ actor.at = "respawn"
    /\ Continuation /\ Return
    /\ HandlerOnly /\ UNCHANGED <<queue, log, running, goal, streak, parked, escaped, owed>>

\* An outcome: the streak ends, an unrecoverable error tombstones the goal, and the goal
\* gate opens for a turn that is done with nothing queued and no job or child running.
Resolve ==
    /\ actor.at \in {"done", "full", "error", "fatal", "stopped", "cancelled", "panic"}
    /\ streak' = 0
    /\ LET dead == actor.at = "fatal" \/ actor.unrecoverable
       IN  /\ goal' = IF dead THEN NoGoal ELSE goal
           /\ log' = IF dead /\ goal # NoGoal THEN Drain(log) ELSE log
    /\ \/ /\ actor.at = "done" /\ queue = <<>> /\ goal # NoGoal
          /\ Outcome("eval")
       \/ /\ IF actor.at = "done" THEN Outcome("end") ELSE Outcome("annotate")
    /\ HandlerOnly /\ UNCHANGED <<queue, running, released, wakes, parked, turn, cancelled,
                                  escaped, owed>>

\* Consecutive not-yet verdicts with no tool run.
IdleTurns == IF turn.tools THEN 0 ELSE goal + 1

\* The verdict: met (or impossible), not yet, or none, which an interrupt makes of any
\* evaluation a model is asked for; a verdict the machine settles does not race it.
Verdict ==
    /\ actor.at = "eval"
    /\ \/ goal' = NoGoal /\ log' = Drain(log) /\ Outcome("end")
       \/ UNCHANGED <<goal, log>> /\ Outcome("end")
       \/ /\ UNCHANGED log
          /\ IF IdleTurns >= StallTurns THEN goal' = 0 /\ Outcome("end")
                                        ELSE goal' = IdleTurns /\ Outcome("guide")
    /\ HandlerOnly /\ UNCHANGED <<queue, running, released, wakes, streak, parked, turn,
                                  cancelled, escaped, owed>>

\* The next turn of a goal loop: started like a prompt's, with a token of its own, but the
\* logical turn goes on and its TurnDone is still to come.
Guide ==
    /\ actor.at = "guide"
    /\ Begin(log, {}) /\ Return
    /\ HandlerOnly /\ UNCHANGED <<queue, running, goal, streak, parked, owed, escaped>>

\* Mutant: the boundary forgets the fold that waited for it.
MutForgetFold == Outcome("promote") /\ UNCHANGED parked
\* end_turn's parked fold.
TakeFold ==
    /\ parked' = [parked EXCEPT !.fold = FALSE]
    /\ Outcome(IF parked.fold THEN "fold" ELSE "promote")

\* end_turn: annotate a turn that is not Done, report it, and look for a parked fold.
EndTurn ==
    /\ actor.at \in {"end", "annotate"}
    /\ log' = IF actor.at = "annotate" THEN Drain(log) ELSE log
    /\ owed' = owed - 1
    /\ TakeFold
    /\ HandlerOnly /\ UNCHANGED <<queue, running, released, wakes, goal, streak, turn, cancelled,
                                  escaped>>

\* fold_now
FoldNow ==
    /\ actor.at = "fold"
    /\ log' = Drain(log) /\ Outcome("promote")
    /\ HandlerOnly /\ UNCHANGED <<queue, running, released, wakes, goal, streak, parked, turn,
                                  cancelled, escaped, owed>>

\* The next queued prompt starts, or the session is idle.
Promote ==
    /\ actor.at = "promote"
    /\ IF queue = <<>>
       THEN running' = FALSE /\ UNCHANGED <<queue, log, turn, cancelled, escaped, owed>>
       ELSE Begin(log, Head(queue)) /\ Owes /\ queue' = Tail(queue)
    /\ Return
    /\ HandlerOnly /\ UNCHANGED <<goal, streak, parked>>

-----------------------------------------------------------------------------
Commands == Prompt \/ Steer \/ Notify \/ Fold \/ SetModel \/ SetGoal \/ Interrupt
TurnSteps == \/ Sample \/ LadderClear \/ LadderFold \/ SampleCancelled \/ SampleFails
             \/ SampleText \/ SampleCalls \/ RunTools
ActorSteps == \/ Continue \/ Ack \/ TurnFinished \/ CompactBegins \/ CompactEnds \/ Clear
              \/ Continues \/ Resolve \/ Verdict \/ Guide \/ EndTurn \/ FoldNow \/ Promote

Next == Commands \/ TurnSteps \/ ActorSteps \/ Panic
Spec == Init /\ [][Next]_vars

\* The runtime polls both tasks.  A stream ends one way or the other, since the watchdogs
\* and the provider's timeouts bound every wait of a turn; nobody has to type anything.
Fairness == WF_vars(TurnSteps) /\ WF_vars(ActorSteps)
FairSpec == Spec /\ Fairness

-----------------------------------------------------------------------------
(* Properties. *)

Alive == turn.at # "none"
InFlight == UNION {log.fifo[k].ids : k \in DOMAIN log.fifo}
InQueue == UNION IdsOf(queue)
Begun == InFlight \cup log.unread \cup read

\* Every variable stays in its type.
TypeOK ==
    /\ inputs \in Seq({"prompt", "steer", "notice"})
    /\ queue \in Seq(SUBSET Ids) /\ Len(queue) <= QueueMax
    /\ held \in Seq(Ids)
    /\ log \in [last : {"none", "user", "calls", "results", "text"}, unread : SUBSET Ids,
                fifo : Seq([item : {"user", "calls", "results", "text"}, ids : SUBSET Ids])]
    /\ {read, sampled} \subseteq SUBSET Ids
    /\ {running, released, cancelled, escaped} \subseteq BOOLEAN
    /\ wakes \in Nat /\ owed \in Int /\ chain \in 1..(Fallbacks + 1)
    /\ goal \in {NoGoal} \cup 0..(StallTurns - 1) /\ streak \in 0..(MaxStreak + 1)
    /\ parked \in [fold : BOOLEAN, model : BOOLEAN]
    /\ actor.at \in {"loop", "compact", "clear", "respawn", "done", "full", "error", "fatal", "stopped", "cancelled",
                     "panic", "eval", "guide", "end", "annotate", "fold", "promote"}
    /\ turn.at \in {"none", "boundary", "sampling", "tools", "ended"}

\* Nothing a caller sent is dropped or doubled, whatever state it arrived in, past the
\* cap of the queue and across every way a turn can end: an input is queued, held, in
\* flight, in the projection waiting for a sample, or behind one.
NothingDropped ==
    LET places == <<InQueue, IdsOf(held), InFlight, log.unread, read>>
    IN  /\ UNION IdsOf(places) = Ids
        /\ \A j, k \in DOMAIN places : j # k => places[j] \cap places[k] = {}

\* Prompts reach the projection in the order they were sent: one that was queued is
\* never overtaken, neither by a prompt folded past QUEUE_MAX nor by one that arrives
\* while the actor is between two turns.
PromptsInOrder ==
    \A i, j \in Ids :
        (i < j /\ inputs[i] = "prompt" /\ inputs[j] = "prompt" /\ j \in Begun) => i \in Begun

\* One turn at a time, one TurnDone for each: `running` is set exactly while a turn
\* task lives or the handler of its end is at work, that turn and no other is owed a
\* TurnDone, and an idle session has an empty queue.
OneTurnAtATime ==
    /\ running = (Alive \/ ~AtLoop)
    /\ owed = IF running /\ actor.at \notin {"fold", "promote"} THEN 1 ELSE 0
    /\ ~running => queue = <<>>

\* What is held has a turn in front of it whose end releases it: the hold cannot outlive
\* the turn it waited for (actor.rs: a turn that died must not strand its steers).
HeldWaitsForATurn == held # <<>> => running

\* After an interrupt the logical turn dispatches no other sample: neither the fold and
\* the clear of the context ladder nor their respawned turns swallow it. A goal's guidance
\* does (its token is new), so this is a property of sessions without one.
InterruptSticks ==
    [][(turn.at # "sampling" /\ turn'.at = "sampling") => ~escaped]_vars

\* The fallback position a continuation carries names a model of the rebuilt chain.
PositionInChain == turn.at \in {"boundary", "sampling", "tools"} => turn.idx < turn.chain

\* A continuation the actor asked itself for restarts the model only when there is
\* something it has not answered.
ContinuesOnlyUnanswered == [][Continue /\ ContinueStarts => log.unread # {}]_vars

\* Every logical turn ends: a window that never empties runs into the streak cap, a
\* goal that is never met stalls, and the clearing rung is taken once.
TurnsEnd == running ~> ~running

\* A notification that was held is put in front of the model without anybody typing,
\* unless the turn reports that no fold makes room for another request.
NoticesAnswered ==
    \A i \in 1..MaxNotices + MaxPrompts + MaxSteers :
        (i \in IdsOf(held) /\ inputs[i] = "notice")
            ~> (i \in sampled \/ actor.at = "full")

\* A fold that was parked is taken up at a turn's end.
ParkedFoldTaken == parked.fold ~> ~parked.fold
=============================================================================

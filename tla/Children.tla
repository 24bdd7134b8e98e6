------------------------------ MODULE Children ------------------------------
(***************************************************************************)
(* The sub-agents of one session: the registry the tools reach             *)
(* (hotl-tools/src/children.rs), the tools `spawn`, `wait` and `resume`    *)
(* (hotl/src/spawn.rs, hotl/src/children_tools.rs), the task that drives   *)
(* each child, and the parent's mailbox with its held notifications        *)
(* (hotl-engine/src/actor.rs).                                             *)
(*                                                                         *)
(* A child is named by its position in the registry, which is also its     *)
(* age, and a result by <<child, turn>>.  Every registry operation runs    *)
(* under one lock and is one action; a tool or a task is split where it    *)
(* awaits.  The calls of one tool chunk run concurrently, and the next     *)
(* chunk starts when the last of them has ended.                           *)
(*                                                                         *)
(* The children here are read-only and share the tree: the refusals for    *)
(* mutating and isolated children change no state, and the lock that a     *)
(* mutating child takes is the delay between a `resume`'s check and its    *)
(* request, which is kept.  `send` only forwards text and is left out.     *)
(***************************************************************************)
EXTENDS Integers, Sequences, FiniteSets

CONSTANTS
    Calls,          \* the tool calls one chunk can hold
    NoCall,         \* no sender
    Gone,           \* a sender whose receiver was dropped
    Ops,            \* the kinds of call the parent makes
    Max,            \* `[agents] max_children`
    MaxIds,         \* bound: children ever registered
    MaxChunks,      \* bound: chunks the parent dispatches
    MaxStops,       \* bound: `/agents stop`
    MaxInterrupts,  \* bound: interrupted parent turns
    MaxPanics       \* bound: child tasks that panic

ASSUME BoundsAssumption ==
    /\ {Max, MaxIds} \subseteq Nat \ {0}
    /\ IsFiniteSet(Calls)
    /\ {MaxChunks, MaxStops, MaxInterrupts, MaxPanics} \subseteq Nat
    /\ Ops \subseteq {"spawnFg", "spawnBg", "wait", "waitAny", "resumeFg", "resumeBg"}
    /\ NoCall \notin Calls /\ Gone \notin Calls /\ NoCall # Gone

VARIABLES
    slots,     \* Children.inner.slots
    any,       \* Children.inner.any_waiter
    tasks,     \* per child, where the code that drives it is
    reqs,      \* per child, its `resume` channel (capacity 1)
    calls,     \* the tool calls of the chunk, each with its oneshot
    inbox,     \* the session actor's command channel
    held,      \* notifications held like steers
    told,      \* notifications the model has seen
    owed,      \* results background turns ended with
    waited,    \* results a `wait` returned
    turn,      \* the parent's turn
    budget     \* what is left of the bounds

vars == <<slots, any, tasks, reqs, calls, inbox, held, told, owed, waited, turn, budget>>

Ids == 1..Len(slots)

\* A oneshot's content: nothing yet, its sender dropped, or a handoff.
Empty == [child |-> 0, run |-> 0, notified |-> FALSE]
Dropped == [Empty EXCEPT !.notified = TRUE]
Handoff(i, r, notified) == [child |-> i, run |-> r, notified |-> notified]

Idle == [op |-> "none", on |-> 0, at |-> "over", got |-> Empty]

Init ==
    /\ slots = <<>> /\ any = NoCall /\ tasks = <<>> /\ reqs = <<>>
    /\ calls = [c \in Calls |-> Idle]
    /\ inbox = <<>> /\ held = {} /\ told = {}
    /\ owed = {} /\ waited = {}
    /\ turn = [at |-> "idle", cancelled |-> FALSE]
    /\ budget = [chunks |-> MaxChunks, stops |-> MaxStops, interrupts |-> MaxInterrupts,
                 panics |-> MaxPanics]

-----------------------------------------------------------------------------
(* The registry's vocabulary. *)

Live(s) == s.state # "Closed"
Working(s) == s.state \in {"Running", "Finishing"}
Stopped(i) == slots[i].interrupted \/ turn.at = "ended"

\* The oldest slot of a set: registration order is `started_ms` order.
Oldest(S) == CHOOSE i \in S : \A j \in S : i <= j
Parked == {i \in Ids : slots[i].state = "Done"}
Unclaimed == {i \in Parked : ~slots[i].claimed}

\* Mutant: parked children do not count.
MutFullOfRunning == Cardinality({i \in Ids : Working(slots[i])}) >= Max

Full == Cardinality({i \in Ids : Live(slots[i])}) >= Max

\* `close`: the child's token is cancelled and its waiter's sender dropped.
Close(s) == [s EXCEPT !.state = "Closed", !.interrupted = TRUE, !.waiter = NoCall]

\* Oneshots: what the calls look like once some senders put in or dropped something.
Put(c, h) == [calls EXCEPT ![c].got = h]
Drop(C) == [c \in Calls |-> IF c \in C THEN [calls[c] EXCEPT !.got = Dropped] ELSE calls[c]]

\* The call ends: its receivers are dropped, so a sender kept for it is dead.
Over(c) == [calls EXCEPT ![c] = Idle]
Dead(w, c) == IF w = c THEN Gone ELSE w
\* Mutant: a sender is believed alive for as long as the registry keeps it.
MutSendersOutlive(c) == calls' = Over(c) /\ UNCHANGED <<slots, any>>

DropReceivers(c) ==
    /\ calls' = Over(c)
    /\ any' = Dead(any, c)
    /\ slots' = [i \in Ids |-> [slots[i] EXCEPT !.waiter = Dead(@, c)]]

\* The waiter a finished child serves: its own sender first, dead or not.
WaiterOf(i) == IF slots[i].waiter # NoCall THEN slots[i].waiter ELSE any
TakeAny(i) == any' = IF slots[i].waiter = NoCall THEN NoCall ELSE any

-----------------------------------------------------------------------------
(* `spawn` *)

\* Children::register, called first: past `max` the oldest parked child is closed,
\* and with none parked the call is refused.
Spawn(c) ==
    /\ calls[c].at = "due" /\ calls[c].op \in {"spawnFg", "spawnBg"}
    /\ LET victim == IF Full /\ Parked # {} THEN {Oldest(Parked)} ELSE {}
           cut == {slots[i].waiter : i \in victim}
           new == [state |-> "Running", claimed |-> FALSE, run |-> 0,
                   waiter |-> NoCall, interrupted |-> FALSE]
       IN  IF Full /\ Parked = {}
           THEN /\ calls' = Over(c)
                /\ UNCHANGED <<slots, tasks, reqs>>
           ELSE /\ slots' = Append([i \in Ids |-> IF i \in victim THEN Close(slots[i])
                                                  ELSE slots[i]], new)
                /\ tasks' = Append(tasks, [at |-> "none", run |-> 1, reply |-> NoCall])
                /\ reqs' = Append(reqs, <<>>)
                /\ calls' = [Drop(cut) EXCEPT ![c].at = "permit", ![c].on = Len(slots) + 1]
    /\ UNCHANGED <<any, inbox, held, told, owed, waited, turn, budget>>

\* The permit came and the child is built: a background child goes to its own task
\* and the call returns, a foreground one is driven by the call.
SpawnStarts(c) ==
    /\ calls[c].at = "permit"
    /\ LET background == calls[c].op = "spawnBg"
       IN  /\ tasks' = [tasks EXCEPT ![calls[c].on].at = IF background THEN "drive" ELSE "fg"]
           /\ calls' = IF background THEN Over(c) ELSE [calls EXCEPT ![c].at = "driving"]
    /\ UNCHANGED <<slots, any, reqs, inbox, held, told, owed, waited, turn, budget>>

\* Mutant: what ended without a result is parked.
MutAbandonedParks(i, C) ==
    /\ slots' = [slots EXCEPT ![i].state = IF Working(slots[i]) THEN "Done" ELSE @]
    /\ calls' = [c \in Calls |-> IF c \in C THEN Idle ELSE calls[c]]
    /\ UNCHANGED any

\* Children::abandoned: a slot nothing drives any more hands its waiter the error and closes.
Abandoned(i, C) ==
    IF Working(slots[i])
    THEN /\ TakeAny(i)
         /\ slots' = [slots EXCEPT ![i] = [@ EXCEPT !.state = "Closed", !.waiter = NoCall,
                                                    !.run = tasks[i].run]]
         /\ calls' = [c \in Calls |-> CASE c = WaiterOf(i) ->
                                             [calls[c] EXCEPT !.got = Handoff(i, tasks[i].run, FALSE)]
                                        [] c \in C -> Idle
                                        [] OTHER -> calls[c]]
    ELSE /\ calls' = [c \in Calls |-> IF c \in C THEN Idle ELSE calls[c]]
         /\ UNCHANGED <<slots, any>>

\* Mutant: a spawn that fails leaves its slot as it was.
MutSpawnFailsSilently(c) ==
    /\ calls[c].at = "permit"
    /\ calls' = Over(c)
    /\ tasks' = [tasks EXCEPT ![calls[c].on].at = "ended"]
    /\ UNCHANGED <<slots, any, reqs, inbox, held, told, owed, waited, turn, budget>>

\* The queue for a permit is full, or the build or the handshake failed.
SpawnFails(c) ==
    /\ calls[c].at = "permit"
    /\ Abandoned(calls[c].on, {c})
    /\ tasks' = [tasks EXCEPT ![calls[c].on].at = "ended"]
    /\ UNCHANGED <<reqs, inbox, held, told, owed, waited, turn, budget>>

\* Children::settled: the caller has the result.
Settled(i) ==
    slots' = IF Working(slots[i])
             THEN [slots EXCEPT ![i] = [@ EXCEPT !.state = "Done", !.claimed = TRUE,
                                                 !.run = tasks[i].run]]
             ELSE slots

\* A foreground child's first turn ends: the slot is settled, a task parks the child,
\* and the call returns the result.
SpawnReturns(c) ==
    /\ calls[c].at = "driving"
    /\ Settled(calls[c].on)
    /\ tasks' = [tasks EXCEPT ![calls[c].on].at = "park"]
    /\ calls' = Over(c)
    /\ UNCHANGED <<any, reqs, inbox, held, told, owed, waited, turn, budget>>

-----------------------------------------------------------------------------
(* `wait` *)

\* claim_done: the result at once; the notification is withdrawn next.
TakeDone(c, i) ==
    /\ slots' = [slots EXCEPT ![i].claimed = TRUE]
    /\ waited' = waited \cup {<<i, slots[i].run>>}
    /\ calls' = [calls EXCEPT ![c].at = "withdraw", ![c].on = i]
    /\ UNCHANGED any

Refused(c) == calls' = Over(c) /\ UNCHANGED <<slots, any, waited>>

\* Children::claim with an id.
Wait(c) ==
    /\ calls[c].at = "due" /\ calls[c].op = "wait"
    /\ LET i == calls[c].on
       IN  CASE slots[i].state = "Done" -> TakeDone(c, i)
             [] Working(slots[i]) /\ slots[i].waiter \notin Calls ->
                    /\ slots' = [slots EXCEPT ![i].waiter = c]
                    /\ calls' = [calls EXCEPT ![c].at = "parked"]
                    /\ UNCHANGED <<any, waited>>
             [] OTHER -> Refused(c)
    /\ UNCHANGED <<tasks, reqs, inbox, held, told, owed, turn, budget>>

\* Children::claim without one: the oldest unclaimed result, else whichever ends first.
WaitAny(c) ==
    /\ calls[c].at = "due" /\ calls[c].op = "waitAny"
    /\ CASE Unclaimed # {} -> TakeDone(c, Oldest(Unclaimed))
         [] Unclaimed = {} /\ any \notin Calls /\ (\E i \in Ids : Working(slots[i])) ->
                /\ any' = c
                /\ calls' = [calls EXCEPT ![c].at = "parked"]
                /\ UNCHANGED <<slots, waited>>
         [] OTHER -> Refused(c)
    /\ UNCHANGED <<tasks, reqs, inbox, held, told, owed, turn, budget>>

\* The handoff is read, unless the cancelled turn is noticed first.
WaitReturns(c) ==
    /\ calls[c].at = "parked" /\ ~turn.cancelled /\ calls[c].got # Empty
    /\ LET h == calls[c].got
       IN  /\ waited' = IF h = Dropped THEN waited ELSE waited \cup {<<h.child, h.run>>}
           /\ calls' = IF h # Dropped /\ h.notified
                       THEN [calls EXCEPT ![c].at = "withdraw", ![c].on = h.child]
                       ELSE Over(c)
    /\ UNCHANGED <<slots, any, tasks, reqs, inbox, held, told, owed, turn, budget>>

WaitCancelled(c) ==
    /\ calls[c].at = "parked" /\ turn.cancelled
    /\ DropReceivers(c)
    /\ UNCHANGED <<tasks, reqs, inbox, held, told, owed, waited, turn, budget>>

WaitTimesOut(c) ==
    /\ calls[c].at = "parked" /\ ~turn.cancelled /\ calls[c].got = Empty
    /\ DropReceivers(c)
    /\ UNCHANGED <<tasks, reqs, inbox, held, told, owed, waited, turn, budget>>

\* WaitTool::unnotify: takes back the notification of the result just read.
Unnotify(i) == [kind |-> "Unnotify", child |-> i, run |-> 0]
Withdraw(c) ==
    /\ calls[c].at = "withdraw"
    /\ inbox' = Append(inbox, Unnotify(calls[c].on))
    /\ calls' = Over(c)
    /\ UNCHANGED <<slots, any, tasks, reqs, held, told, owed, waited, turn, budget>>

-----------------------------------------------------------------------------
(* `resume` *)

\* Children::resume: only a parked child hands out its request channel.
Resume(c) ==
    /\ calls[c].at = "due" /\ calls[c].op \in {"resumeFg", "resumeBg"}
    /\ calls' = IF slots[calls[c].on].state = "Done"
                THEN [calls EXCEPT ![c].at = "send"] ELSE Over(c)
    /\ UNCHANGED <<slots, any, tasks, reqs, inbox, held, told, owed, waited, turn, budget>>

\* The request goes to the parked task, if there still is one; a background
\* call returns, a foreground one waits for the reply.
ResumeSends(c) ==
    /\ calls[c].at = "send"
    /\ LET i == calls[c].on
           background == calls[c].op = "resumeBg"
       IN  IF tasks[i].at \in {"panicked", "lastword", "ended"}
           THEN calls' = Over(c) /\ UNCHANGED reqs
           ELSE /\ reqs[i] = <<>>
                /\ reqs' = [reqs EXCEPT ![i] = <<IF background THEN NoCall ELSE c>>]
                /\ calls' = IF background THEN Over(c)
                            ELSE [calls EXCEPT ![c].at = "reply"]
    /\ UNCHANGED <<slots, any, tasks, inbox, held, told, owed, waited, turn, budget>>

ResumeReturns(c) ==
    /\ calls[c].at = "reply" /\ ~turn.cancelled /\ calls[c].got # Empty
    /\ calls' = Over(c)
    /\ UNCHANGED <<slots, any, tasks, reqs, inbox, held, told, owed, waited, turn, budget>>

\* Children::stop, which the cancelled `resume` calls.
Stop(i) == slots' = [slots EXCEPT ![i] = IF Live(@) THEN Close(@) ELSE @]

ResumeCancelled(c) ==
    /\ calls[c].at = "reply" /\ turn.cancelled
    /\ LET i == calls[c].on
       IN  /\ Stop(i)
           /\ calls' = [Drop({slots[i].waiter}) EXCEPT ![c] = Idle]
           /\ tasks' = [j \in Ids |-> [tasks[j] EXCEPT !.reply = Dead(@, c)]]
           /\ reqs' = [j \in Ids |-> [k \in 1..Len(reqs[j]) |-> Dead(reqs[j][k], c)]]
    /\ UNCHANGED <<any, inbox, held, told, owed, waited, turn, budget>>

-----------------------------------------------------------------------------
(* The task that drives a child: `child_task`, `deliver`, and the task that watches it. *)

GoTo(i, at) == tasks' = [tasks EXCEPT ![i].at = at]

\* Mutant: a sender is taken for a reader, dead or not.
MutFinishTrustsSender(i) ==
    /\ tasks[i].at = "drive" /\ tasks[i].reply = NoCall
    /\ TakeAny(i)
    /\ slots' = [slots EXCEPT ![i] = [@ EXCEPT !.run = tasks[i].run, !.waiter = NoCall,
                                              !.claimed = WaiterOf(i) # NoCall,
                                              !.state = IF WaiterOf(i) # NoCall
                                                        THEN "Done" ELSE "Finishing"]]
    /\ GoTo(i, IF WaiterOf(i) # NoCall THEN "park" ELSE "notify")
    /\ calls' = IF WaiterOf(i) \in Calls
                THEN Put(WaiterOf(i), Handoff(i, tasks[i].run, FALSE)) ELSE calls
    /\ owed' = owed \cup {<<i, tasks[i].run>>}
    /\ UNCHANGED <<reqs, inbox, held, told, waited, turn, budget>>

\* Children::finish for a turn nobody waits for in the foreground.
Finish(i) ==
    /\ tasks[i].at = "drive" /\ tasks[i].reply = NoCall
    /\ TakeAny(i)
    /\ IF WaiterOf(i) \in Calls
       THEN /\ slots' = [slots EXCEPT ![i] = [@ EXCEPT !.state = "Done", !.claimed = TRUE,
                                                       !.run = tasks[i].run, !.waiter = NoCall]]
            /\ calls' = Put(WaiterOf(i), Handoff(i, tasks[i].run, FALSE))
            /\ GoTo(i, "park")
       ELSE /\ slots' = [slots EXCEPT ![i] = [@ EXCEPT !.state = "Finishing",
                                                       !.run = tasks[i].run, !.waiter = NoCall]]
            /\ GoTo(i, "notify")
            /\ UNCHANGED calls
    /\ owed' = owed \cup {<<i, tasks[i].run>>}
    /\ UNCHANGED <<reqs, inbox, held, told, waited, turn, budget>>

Note(i) == [kind |-> "Notify", child |-> i, run |-> tasks[i].run]

\* The mailbox gets the notification, if the session still has one.
Tell(i) ==
    /\ tasks[i].at = "notify"
    /\ inbox' = IF turn.at = "ended" THEN inbox ELSE Append(inbox, Note(i))
    /\ GoTo(i, "publish")
    /\ UNCHANGED <<slots, any, reqs, calls, held, told, owed, waited, turn, budget>>

\* Mutant: the waiter is served, and its notification stays.
MutPublishKeepsNote(i) ==
    /\ tasks[i].at = "publish"
    /\ TakeAny(i)
    /\ slots' = [slots EXCEPT ![i] = [@ EXCEPT !.state = "Done", !.waiter = NoCall,
                                              !.claimed = WaiterOf(i) \in Calls]]
    /\ calls' = IF WaiterOf(i) \in Calls
                THEN Put(WaiterOf(i), Handoff(i, slots[i].run, FALSE)) ELSE calls
    /\ GoTo(i, "park")
    /\ UNCHANGED <<reqs, inbox, held, told, owed, waited, turn, budget>>

\* Mutant: nobody looks for a waiter that came in between.
MutPublishServesNobody(i) ==
    /\ tasks[i].at = "publish"
    /\ slots' = [slots EXCEPT ![i].state = "Done"]
    /\ GoTo(i, "park")
    /\ UNCHANGED <<any, calls, reqs, inbox, held, told, owed, waited, turn, budget>>

\* Children::published: a waiter that came in between is served, and the
\* notification is to be withdrawn.
Publish(i) ==
    /\ tasks[i].at = "publish"
    /\ IF slots[i].state = "Finishing"
       THEN LET w == WaiterOf(i)
            IN  /\ TakeAny(i)
                /\ slots' = [slots EXCEPT ![i] = [@ EXCEPT !.state = "Done", !.waiter = NoCall,
                                                           !.claimed = w \in Calls]]
                /\ calls' = IF w \in Calls THEN Put(w, Handoff(i, slots[i].run, TRUE)) ELSE calls
                /\ GoTo(i, IF w \in Calls /\ turn.at # "ended" THEN "withdraw" ELSE "park")
       ELSE GoTo(i, "park") /\ UNCHANGED <<slots, any, calls>>
    /\ UNCHANGED <<reqs, inbox, held, told, owed, waited, turn, budget>>

TakeBack(i) ==
    /\ tasks[i].at = "withdraw"
    /\ inbox' = Append(inbox, Unnotify(i))
    /\ GoTo(i, "park")
    /\ UNCHANGED <<slots, any, reqs, calls, held, told, owed, waited, turn, budget>>

\* A foreground resume's turn ends: settled, then replied to.
Reply(i) ==
    /\ tasks[i].at = "drive" /\ tasks[i].reply # NoCall
    /\ Settled(i)
    /\ calls' = IF tasks[i].reply \in Calls
                THEN Put(tasks[i].reply, Handoff(i, tasks[i].run, FALSE)) ELSE calls
    /\ tasks' = [tasks EXCEPT ![i].at = "park", ![i].reply = NoCall]
    /\ UNCHANGED <<any, reqs, inbox, held, told, owed, waited, turn, budget>>

\* The parked task takes a request: Children::resumed, and another turn.  The token that
\* ends it is cancelled by a task of its own, so a stopped child may still take one.
TakeRequest(i) ==
    /\ tasks[i].at = "park" /\ reqs[i] # <<>>
    /\ tasks' = [tasks EXCEPT ![i] = [at |-> "drive", run |-> @.run + 1, reply |-> reqs[i][1]]]
    /\ reqs' = [reqs EXCEPT ![i] = <<>>]
    /\ slots' = IF slots[i].state = "Done"
                THEN [slots EXCEPT ![i] = [@ EXCEPT !.state = "Running", !.run = 0]] ELSE slots
    /\ UNCHANGED <<any, calls, inbox, held, told, owed, waited, turn, budget>>

\* The replies that die with the task.
Repliers(i) == {tasks[i].reply} \cup {reqs[i][k] : k \in 1..Len(reqs[i])}

\* Mutant: the parked task goes by its slot's state and not by its token.
MutEndByState(i) ==
    /\ tasks[i].at = "park" /\ slots[i].state = "Closed"
    /\ GoTo(i, "ended")
    /\ reqs' = [reqs EXCEPT ![i] = <<>>]
    /\ calls' = Drop(Repliers(i))
    /\ UNCHANGED <<slots, any, inbox, held, told, owed, waited, turn, budget>>

\* Stopped, or the session ended: the parked task returns and drops its requests.
End(i) ==
    /\ tasks[i].at = "park" /\ Stopped(i)
    /\ GoTo(i, "ended")
    /\ reqs' = [reqs EXCEPT ![i] = <<>>]
    /\ calls' = Drop(Repliers(i))
    /\ UNCHANGED <<slots, any, inbox, held, told, owed, waited, turn, budget>>

\* The task panics while it drives the child; the task that watches it closes the slot ...
Panic(i) ==
    /\ tasks[i].at = "drive" /\ budget.panics > 0
    /\ budget' = [budget EXCEPT !.panics = @ - 1]
    /\ tasks' = [tasks EXCEPT ![i].at = "panicked", ![i].reply = NoCall]
    /\ reqs' = [reqs EXCEPT ![i] = <<>>]
    /\ calls' = Drop(Repliers(i))
    /\ UNCHANGED <<slots, any, inbox, held, told, owed, waited, turn>>

Watch(i) ==
    /\ tasks[i].at = "panicked"
    /\ Abandoned(i, {})
    /\ GoTo(i, "lastword")
    /\ UNCHANGED <<reqs, inbox, held, told, owed, waited, turn, budget>>

\* ... and tells the inbox.
LastWord(i) ==
    /\ tasks[i].at = "lastword"
    /\ inbox' = IF turn.at = "ended" THEN inbox ELSE Append(inbox, Note(i))
    /\ GoTo(i, "ended")
    /\ UNCHANGED <<slots, any, reqs, calls, held, told, owed, waited, turn, budget>>

-----------------------------------------------------------------------------
(* The parent session. *)

\* SessionCmd::Notify and ::Unnotify: a notification starts a turn when the session
\* is idle, and is held when it is not; withdrawing one goes by the child's id.
Mail ==
    /\ inbox # <<>>
    /\ inbox' = Tail(inbox)
    /\ LET m == Head(inbox)
       IN  CASE m.kind = "Unnotify" ->
                    /\ held' = {n \in held : n[1] # m.child}
                    /\ UNCHANGED <<told, turn>>
             [] m.kind = "Notify" /\ turn.at = "idle" ->
                    /\ told' = told \cup {<<m.child, m.run>>}
                    /\ turn' = [turn EXCEPT !.at = "sampling"]
                    /\ UNCHANGED held
             [] OTHER ->
                    /\ held' = held \cup {<<m.child, m.run>>}
                    /\ UNCHANGED <<told, turn>>
    /\ UNCHANGED <<slots, any, tasks, reqs, calls, owed, waited, budget>>

\* The held notifications become items: between samples, and when the turn ends.
Release ==
    /\ turn.at = "sampling" /\ held # {}
    /\ told' = told \cup held /\ held' = {}
    /\ UNCHANGED <<slots, any, tasks, reqs, calls, inbox, owed, waited, turn, budget>>

Prompt ==
    /\ turn.at = "idle"
    /\ turn' = [turn EXCEPT !.at = "sampling"]
    /\ UNCHANGED <<slots, any, tasks, reqs, calls, inbox, held, told, owed, waited, budget>>

\* A chunk of calls, each about no child or one that exists.
Targets(op) == IF op \in {"wait", "resumeFg", "resumeBg"} THEN Ids ELSE {0}
Chunk == {Idle} \cup {[Idle EXCEPT !.op = op, !.on = i, !.at = "due"] :
                        op \in Ops, i \in Ids \cup {0}}
Dispatch ==
    /\ turn.at = "sampling" /\ ~turn.cancelled /\ budget.chunks > 0
    /\ \E chunk \in [Calls -> {k \in Chunk : k = Idle \/ k.on \in Targets(k.op)}] :
           /\ \E c \in Calls : chunk[c] # Idle
           /\ Len(slots) + Cardinality({c \in Calls : chunk[c].op \in {"spawnFg", "spawnBg"}}) <= MaxIds
           /\ calls' = chunk
    /\ turn' = [turn EXCEPT !.at = "tools"]
    /\ budget' = [budget EXCEPT !.chunks = @ - 1]
    /\ UNCHANGED <<slots, any, tasks, reqs, inbox, held, told, owed, waited>>

Joined ==
    /\ turn.at = "tools" /\ \A c \in Calls : calls[c] = Idle
    /\ turn' = [turn EXCEPT !.at = "sampling"]
    /\ UNCHANGED <<slots, any, tasks, reqs, calls, inbox, held, told, owed, waited, budget>>

Interrupt ==
    /\ turn.at \in {"sampling", "tools"} /\ ~turn.cancelled /\ budget.interrupts > 0
    /\ turn' = [turn EXCEPT !.cancelled = TRUE]
    /\ budget' = [budget EXCEPT !.interrupts = @ - 1]
    /\ UNCHANGED <<slots, any, tasks, reqs, calls, inbox, held, told, owed, waited>>

TurnEnds ==
    /\ turn.at = "sampling"
    /\ turn' = [at |-> "idle", cancelled |-> FALSE]
    /\ told' = told \cup held /\ held' = {}
    /\ UNCHANGED <<slots, any, tasks, reqs, calls, inbox, owed, waited, budget>>

\* `/agents stop`
StopChild(i) ==
    /\ turn.at # "ended" /\ budget.stops > 0 /\ Live(slots[i])
    /\ Stop(i)
    /\ calls' = Drop({slots[i].waiter})
    /\ budget' = [budget EXCEPT !.stops = @ - 1]
    /\ UNCHANGED <<any, tasks, reqs, inbox, held, told, owed, waited, turn>>

\* The last strong sender of the mailbox is dropped: the loop ends and stops every child.
SessionEnds ==
    /\ turn.at = "idle" /\ inbox = <<>>
    /\ \A i \in Ids : tasks[i].at \notin {"publish", "withdraw"}
    /\ turn' = [turn EXCEPT !.at = "ended"]
    /\ slots' = [i \in Ids |-> IF Live(slots[i]) THEN Close(slots[i]) ELSE slots[i]]
    /\ UNCHANGED <<any, tasks, reqs, calls, inbox, held, told, owed, waited, budget>>

-----------------------------------------------------------------------------
CallStep(c) ==
    \/ Spawn(c) \/ SpawnStarts(c) \/ SpawnFails(c) \/ SpawnReturns(c)
    \/ Wait(c) \/ WaitAny(c) \/ WaitReturns(c) \/ WaitCancelled(c) \/ Withdraw(c)
    \/ Resume(c) \/ ResumeSends(c) \/ ResumeReturns(c) \/ ResumeCancelled(c)

TaskStep(i) ==
    \/ Finish(i) \/ Tell(i) \/ Publish(i) \/ TakeBack(i) \/ Reply(i)
    \/ TakeRequest(i) \/ End(i) \/ Watch(i) \/ LastWord(i)

\* The session and its children are gone.
Rest ==
    /\ turn.at = "ended" /\ \A i \in Ids : tasks[i].at = "ended"
    /\ UNCHANGED vars

Next ==
    \/ \E c \in Calls : CallStep(c) \/ WaitTimesOut(c)
    \/ \E i \in Ids : TaskStep(i) \/ Panic(i) \/ StopChild(i)
    \/ Mail \/ Release \/ Prompt \/ Dispatch \/ Joined \/ Interrupt \/ TurnEnds \/ SessionEnds
    \/ Rest

Spec == Init /\ [][Next]_vars

(***************************************************************************)
(* Fairness.  Each task and each tool call is polled by the runtime; a     *)
(* child's turn ends because an idle clock and a step limit bound it, and  *)
(* a permit comes or is refused.  The actor serves its mailbox.  The       *)
(* parent's model, the human, timeouts and panics owe nothing.             *)
(***************************************************************************)
FairSpec ==
    /\ Spec
    /\ \A c \in Calls : WF_vars(CallStep(c))
    /\ \A i \in 1..MaxIds : WF_vars(i \in Ids /\ TaskStep(i))
    /\ WF_vars(Mail)

-----------------------------------------------------------------------------
(* Properties. *)

Results == Ids \X Nat

\* The types, and that a sender the registry keeps belongs to a call that is still
\* parked on it with nothing received (`Waiter`, children.rs).
TypeOK ==
    /\ \A i \in Ids :
        /\ slots[i].state \in {"Running", "Finishing", "Done", "Closed"}
        /\ slots[i].waiter \in Calls => calls[slots[i].waiter].at = "parked"
                                        /\ calls[slots[i].waiter].got = Empty
        /\ tasks[i].at \in {"none", "fg", "drive", "notify", "publish", "withdraw", "park",
                            "panicked", "lastword", "ended"}
        /\ Len(reqs[i]) <= 1
    /\ any \in Calls => calls[any].at = "parked" /\ calls[any].got = Empty
    /\ Len(tasks) = Len(slots) /\ Len(reqs) = Len(slots) /\ Len(slots) <= MaxIds
    /\ owed \cup held \cup told \cup waited \subseteq Results

Withdrawing(i) ==
    \/ tasks[i].at = "withdraw"
    \/ \E c \in Calls : calls[c].at = "withdraw" /\ calls[c].on = i

\* D5: a result a `wait` returned is not also on its way to the model.  Its notification
\* was never sent, or is withdrawn behind it in channel order, or was seen before.
OneReader ==
    \A n \in waited :
        /\ n \in held => Withdrawing(n[1]) \/ \E k \in 1..Len(inbox) : inbox[k] = Unnotify(n[1])
        /\ \A k \in 1..Len(inbox) :
               inbox[k] = [kind |-> "Notify", child |-> n[1], run |-> n[2]] =>
                   Withdrawing(n[1]) \/ \E l \in k..Len(inbox) : inbox[l] = Unnotify(n[1])
        /\ ~(tasks[n[1]].at \in {"notify", "lastword"} /\ tasks[n[1]].run = n[2])

\* D5, the other half: while the session lives, the result of a background turn has reached
\* a reader or is on its way to one.
NothingLost ==
    turn.at # "ended" => \A n \in owed :
        \/ n \in waited \cup told \cup held
        \/ tasks[n[1]].at = "notify" /\ tasks[n[1]].run = n[2]
        \/ \E k \in 1..Len(inbox) : inbox[k].kind = "Notify" /\ <<inbox[k].child, inbox[k].run>> = n
        \/ \E c \in Calls : <<calls[c].got.child, calls[c].got.run>> = n

\* `running()`, which the goal gate reads, never counts a child nobody drives: whatever
\* ends a turn, a panic and a failed start included, takes the slot out of `Running`.
WorkingIsDriven ==
    \A i \in Ids : Working(slots[i]) =>
        tasks[i].at \in {"none", "fg", "drive", "notify", "publish", "panicked"}

\* `max_children` bounds running plus parked children, whatever fails to start, panics, ends
\* or is evicted.  A stop or a late resume breaks it: the slot it closes may reopen
\* (ClosedIsFinal).
LiveWithinMax ==
    turn.at # "ended" => Cardinality({i \in Ids : Live(slots[i])}) <= Max

\* `Done`: the actor is alive and `resume` reaches it.  Again ClosedIsFinal says what breaks it.
DoneIsReachable ==
    turn.at # "ended" => \A i \in Parked :
        tasks[i].at \notin {"panicked", "lastword", "ended"} /\ ~slots[i].interrupted

\* `Closed`: evicted, stopped, or the session ended; nothing reaches it.
ClosedIsFinal ==
    [][\A i \in Ids : slots[i].state = "Closed" => slots'[i].state = "Closed"]_vars

\* A `wait` on a background child ends without its clock: some turn of the child serves it.
WaitsEnd == \A c \in Calls : calls[c].at = "parked" ~> calls[c].at # "parked"

\* D6: jobs and children die with the session.
ChildrenDie == turn.at = "ended" ~> \A i \in Ids : tasks[i].at = "ended"

(***************************************************************************)
(* Statements of the documentation that the code does not keep, beyond the *)
(* two that a run is kept for; the README says how each of them fails.     *)
(***************************************************************************)

\* A background `resume` that was accepted leads to a turn.
ResumeIsHeard ==
    [][\A i \in Ids : reqs[i] = <<NoCall>> /\ reqs'[i] = <<>> => tasks'[i].at = "drive"]_vars

\* A `wait` on a child that was asked for another turn does not return the turn before.
WaitIsCurrent ==
    [][\A c \in Calls : calls[c].at = "due" /\ calls'[c].at = "withdraw" =>
          LET i == calls'[c].on IN slots[i].run = tasks[i].run + Len(reqs[i])]_vars

\* D6: cancelling the parent's turn ends its `resume`, and the child parks.
CancelSparesChild ==
    [][\A c \in Calls : turn.cancelled /\ calls[c].at = "reply" /\ calls'[c].at = "over" =>
          \A i \in Ids : Live(slots[i]) => Live(slots'[i])]_vars

\* A `wait` that times out says that the child is still running.
TimeoutMeansRunning ==
    [][\A c \in Calls : WaitTimesOut(c) =>
          \E i \in Ids : Working(slots[i]) /\ (calls[c].op = "wait" => i = calls[c].on)]_vars
=============================================================================

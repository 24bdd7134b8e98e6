---------------------------- MODULE CommitPipeline ----------------------------
(***************************************************************************)
(* The commit path of one hotl session: a turn task proposes entries, the  *)
(* session actor mints them and hands them to the writer thread, the       *)
(* writer makes them durable in groups, and the actor advances the         *)
(* projection the next sample is built from (hotl-engine/src/actor.rs and  *)
(* turn.rs, hotl-store/src/lib.rs).  The three run concurrently; the       *)
(* process may be killed and resumed, and the disk may fail.               *)
(*                                                                         *)
(* An entry is named by its commit number `seq`.  What an entry says is    *)
(* abstracted to its kind:                                                 *)
(*   "user"     a prompt, a nudge or a reminder   "steer"  a held steer    *)
(*   "call"     an assistant item with tool calls "reply"  one without     *)
(*   "results"  the results of a tool batch       "fold"   a compaction    *)
(*   "todos"    a checklist                       "mark"   log-only        *)
(***************************************************************************)
EXTENDS Naturals, Sequences

CONSTANTS
    MaxSeq,      \* bound: commit numbers the actor may assign
    MaxHeld,     \* bound: steers waiting for a boundary
    MaxTodos,    \* bound: times the checklist changes
    MaxCommands, \* bound: commands that only write to the log
    MaxFaults,   \* bound: disk faults and writer deaths
    MaxCrashes,  \* bound: kills of the whole process
    Interrupts,  \* may a human interrupt race a fold?
    Panics,      \* may a turn task panic?
    PlanToggles  \* may a human toggle plan mode while a turn runs?

ASSUME BoundsAssumption ==
    /\ {MaxSeq, MaxHeld, MaxTodos, MaxCommands, MaxFaults, MaxCrashes} \subseteq Nat
    /\ {Interrupts, Panics, PlanToggles} \subseteq BOOLEAN

VARIABLES
    chan,     \* the writer's mpsc channel: forwarded units, oldest first
    batch,    \* the group the writer is committing
    wrote,    \* how many units of the group are in the file
    phase,    \* the writer thread: "idle", "write", "ack" or "dead"
    file,     \* the entries in the session log, in file order
    good,     \* how many of them lie below the last acked offset
    sealed,   \* the log's seal flag
    ack,      \* per unit, its ack channel: "none", "wait", "ok" or "err"
    entry,    \* per commit number, what was minted (and what its author saw)
    seq,      \* Pipeline.seq: the last commit number assigned
    lastId,   \* SessionLog.last_id: the queued leaf
    fifo,     \* Pipeline.fifo: forwarded units not yet settled
    head,     \* the actor's own head
    pub,      \* the head as last published to turn tasks
    held,     \* how many steers wait for a boundary
    op,       \* what the actor is in the middle of
    ticket,   \* per unit, what its proposer has been told
    turn,     \* the turn task
    artifact, \* the checklist in the plan file beside the log
    budget    \* commands, faults and crashes left

logVars   == <<chan, batch, wrote, phase, file, good, sealed, ack>>
actorVars == <<entry, seq, lastId, fifo, head, pub, held, op, ticket>>
others    == <<artifact, budget>>
vars      == <<logVars, actorVars, turn, others>>

Seqs      == 1..MaxSeq
ItemKinds == {"user", "steer", "call", "reply", "results", "fold"}
Kinds     == ItemKinds \cup {"todos", "mark", "none"}
Unit      == {u \in [first : Seqs, last : Seqs] : u.first <= u.last}
Snapshots == [items : SUBSET Seqs, todos : 0..MaxTodos]
NoSnap    == [items |-> {}, todos |-> 0]

Ids(u)      == [i \in 1..(u.last - u.first + 1) |-> u.first + i - 1]
Front(q)    == q[1]
Elems(s)    == {s[i] : i \in DOMAIN s}
Units(q)    == {q[i].last : i \in DOMAIN q}

-----------------------------------------------------------------------------
(* The head: what has been projected, and the checklist that rides it.      *)

Heads == [epoch : 0..MaxSeq, projected : Seq(Seqs), todos : 0..MaxTodos,
          closed : SUBSET Seqs]

\* apply_ack / SharedDeps::append: apply the unit's entries and advance the
\* leaf and the epoch, both of which are then the unit's last number.
Advance(h, u) == [h EXCEPT !.epoch = u.last, !.projected = @ \o Ids(u)]

\* A fold rewrites the front of the projection and keeps its tail, so its digest
\* is never the last item nor right behind another entry's.
IsItem(s, i) == i \in DOMAIN s /\ entry[s[i]].kind \in ItemKinds \ {"fold"}

\* s[j] is the item right after s[i] (j = Len(s) + 1: there is none).
NextItem(s, i, j) ==
    /\ IsItem(s, i) /\ i < j /\ (IsItem(s, j) \/ j = Len(s) + 1)
    /\ \A k \in DOMAIN s : i < k /\ k < j => ~IsItem(s, k)

LastItems(s) == {s[i] : i \in {j \in DOMAIN s : NextItem(s, j, Len(s) + 1)}}

\* ProjectionHead::snapshot: the items, and the checklist as its own channel.
Snapshot(h) ==
    [items |-> {i \in Elems(h.projected) : entry[i].kind \in ItemKinds},
     todos |-> h.todos]

\* awaiting_tool_results: the projection ends on unanswered tool calls.  A
\* batch that a crash cut off was answered in memory on resume (`closed`).
Awaiting(h) ==
    \E i \in LastItems(h.projected) : entry[i].kind = "call" /\ i \notin h.closed

\* needs_continuation: the projection ends on the model's turn to speak.
NeedsContinuation(h) ==
    \E i \in LastItems(h.projected) :
        entry[i].kind \in {"user", "steer", "results"} \/ i \in h.closed

\* close_dangling_batches: every call that no results follow.
Dangling(s) ==
    {s[i] : i \in {j \in DOMAIN s :
        /\ entry[s[j]].kind = "call"
        /\ \A k \in DOMAIN s : NextItem(s, j, k) => entry[s[k]].kind # "results"}}

\* apply_log: the last checklist the log carries.
LastList(s, list) ==
    LET lists == {i \in DOMAIN s : entry[s[i]].kind = "todos"}
    IN  \/ lists = {} /\ list = 0
        \/ \E i \in lists : /\ \A j \in lists : j <= i
                            /\ entry[s[i]].list = list

-----------------------------------------------------------------------------
Loop     == [at |-> "loop", work |-> <<>>, then |-> "loop", due |-> 0,
             verdict |-> "ok"]
NoTurn   == [at |-> "none", tickets |-> <<>>, mine |-> 0, ok |-> TRUE,
             fold |-> FALSE, own |-> {}, view |-> NoSnap,
             spec |-> [leaf |-> 0, snap |-> NoSnap], req |-> NoSnap]
NoEntry  == [kind |-> "none", parent |-> 0, saw |-> {}, list |-> 0]

Entries == [kind : Kinds, parent : 0..MaxSeq, saw : SUBSET Seqs, list : 0..MaxTodos]
Ops     == [at : {"loop", "append", "await", "done"}, work : Seq(Kinds),
            then : {"loop", "settle", "plan", "spawn", "respawn", "end"},
            due : 0..MaxSeq, verdict : {"ok", "sealed", "aborted"}]
Turns   == [at : {"none", "boundary", "sampling", "calls", "tools", "replied",
                  "finishing", "ended"},
            tickets : Seq(Seqs), mine : 0..MaxSeq, ok : BOOLEAN, fold : BOOLEAN,
            own : SUBSET Seqs, view : Snapshots,
            spec : [leaf : 0..MaxSeq, snap : Snapshots], req : Snapshots]

Init ==
    /\ chan = <<>> /\ batch = <<>> /\ wrote = 0 /\ phase = "idle"
    /\ file = <<>> /\ good = 0 /\ sealed = FALSE
    /\ ack = [s \in Seqs |-> "none"]
    /\ entry = [s \in Seqs |-> NoEntry]
    /\ seq = 0 /\ lastId = 0 /\ fifo = <<>>
    /\ head = [epoch |-> 0, projected |-> <<>>, todos |-> 0,
               closed |-> {}]
    /\ pub = head
    /\ held = 0 /\ op = Loop
    /\ ticket = [s \in Seqs |-> "none"]
    /\ turn = NoTurn /\ artifact = 0
    /\ budget = [commands |-> MaxCommands, faults |-> MaxFaults,
                 crashes |-> MaxCrashes]

-----------------------------------------------------------------------------
(* The writer thread.                                                       *)

Spend(what) == budget[what] > 0 /\ budget' = [budget EXCEPT ![what] = @ - 1]

\* Answer `a` on the ack channels of the units in q.
Answer(q, a) == [s \in Seqs |-> IF s \in Units(q) THEN a ELSE ack[s]]

\* Mutant: a sealed log drops the group without answering it.
MutSealedDrops ==
    /\ phase = "idle" /\ chan # <<>>
    /\ chan' = <<>>
    /\ IF sealed
       THEN UNCHANGED <<batch, wrote, phase>>
       ELSE batch' = chan /\ wrote' = 0 /\ phase' = "write"
    /\ UNCHANGED <<ack, file, good, sealed, actorVars, turn, others>>

\* recv, then try_recv until empty: the group is whatever has arrived.  A
\* sealed log fails the whole group without touching the file.
WriterTake ==
    /\ phase = "idle" /\ chan # <<>>
    /\ chan' = <<>>
    /\ IF sealed
       THEN /\ ack' = Answer(chan, "err")
            /\ UNCHANGED <<batch, wrote, phase>>
       ELSE /\ batch' = chan /\ wrote' = 0 /\ phase' = "write"
            /\ UNCHANGED ack
    /\ UNCHANGED <<file, good, sealed, actorVars, turn, others>>

\* One write_all per unit, a causal group's lines in one.
WriterWrite ==
    /\ phase = "write" /\ wrote < Len(batch)
    /\ file' = file \o Ids(batch[wrote + 1])
    /\ wrote' = wrote + 1
    /\ UNCHANGED <<chan, batch, phase, good, sealed, ack, actorVars, turn, others>>

\* Mutant: the acks go out, but the offset that backs them does not move.
MutSyncKeepsOffset ==
    /\ phase = "write" /\ wrote = Len(batch)
    /\ phase' = "ack"
    /\ UNCHANGED <<good, chan, batch, wrote, file, sealed, ack, actorVars, turn, others>>

\* sync_data covers the whole group; only then does the offset move.
WriterSync ==
    /\ phase = "write" /\ wrote = Len(batch)
    /\ good' = Len(file)
    /\ phase' = "ack"
    /\ UNCHANGED <<chan, batch, wrote, file, sealed, ack, actorVars, turn, others>>

\* The acks go out one by one, in file order.
WriterAck ==
    /\ phase = "ack"
    /\ ack' = [ack EXCEPT ![Front(batch).last] = "ok"]
    /\ batch' = Tail(batch)
    /\ phase' = IF Len(batch) = 1 THEN "idle" ELSE "ack"
    /\ wrote' = IF Len(batch) = 1 THEN 0 ELSE wrote - 1
    /\ UNCHANGED <<chan, file, good, sealed, actorVars, turn, others>>

\* Mutant: the roll-back forgets the last acked line.
MutRollBackShort ==
    /\ phase = "write" /\ Spend("faults")
    /\ file' = SubSeq(file, 1, good - 1) /\ good' = Len(file')
    /\ sealed' = TRUE
    /\ ack' = Answer(batch, "err")
    /\ batch' = <<>> /\ wrote' = 0 /\ phase' = "idle"
    /\ UNCHANGED <<chan, actorVars, turn, artifact>>

\* A failed write or sync: roll the file back to the last acked offset, seal,
\* and fail every unit of the group (seal_and_truncate, fail_all).
WriterFails ==
    /\ phase = "write" /\ Spend("faults")
    /\ file' = SubSeq(file, 1, good)
    /\ sealed' = TRUE
    /\ ack' = Answer(batch, "err")
    /\ batch' = <<>> /\ wrote' = 0 /\ phase' = "idle"
    /\ UNCHANGED <<chan, good, actorVars, turn, artifact>>

\* Mutant: nobody answers for the senders a dead writer dropped.
MutDeadWriterSilent ==
    /\ phase = "write" /\ Spend("faults")
    /\ phase' = "dead"
    /\ chan' = <<>> /\ batch' = <<>> /\ wrote' = 0
    /\ UNCHANGED <<ack, file, good, sealed, actorVars, turn, artifact>>

\* The writer thread dies mid-group: every ack sender it held, and every one
\* still in its channel, is dropped.  The written bytes stay.
WriterDies ==
    /\ phase = "write" /\ Spend("faults")
    /\ phase' = "dead"
    /\ ack' = Answer(batch \o chan, "err")
    /\ chan' = <<>> /\ batch' = <<>> /\ wrote' = 0
    /\ UNCHANGED <<file, good, sealed, actorVars, turn, artifact>>

Writer == WriterTake \/ WriterWrite \/ WriterSync \/ WriterAck

-----------------------------------------------------------------------------
(* The actor.                                                               *)

\* Assign the next numbers to entries of these kinds, chained onto `parent`;
\* `saw` is what the sample that produced them had been shown.
Minted(kinds, parent, saw) ==
    [s \in Seqs |->
        IF s \in seq + 1 .. seq + Len(kinds)
        THEN [kind   |-> kinds[s - seq],
              parent |-> IF s = seq + 1 THEN parent ELSE s - 1,
              saw    |-> saw,
              list   |-> head.todos]
        ELSE entry[s]]

Room(kinds) == seq + Len(kinds) <= MaxSeq
NewUnit(kinds) == [first |-> seq + 1, last |-> seq + Len(kinds)]
NewItems(kinds) == {seq + i : i \in {j \in DOMAIN kinds : kinds[j] \in ItemKinds}}

\* The log refuses a mint when it is sealed or its writer is gone (which
\* seals it).  The commit number is burned either way.  Running out of commit
\* numbers is treated as one more way for the log to refuse.
Refuses(kinds) == sealed \/ phase = "dead" \/ ~Room(kinds)

\* Mutant: the queued leaf does not move until the ack, as for an append.
MutForwardOnOldLeaf(kinds, saw) ==
    LET u == NewUnit(kinds)
    IN  /\ ~Refuses(kinds)
        /\ entry' = Minted(kinds, lastId, saw)
        /\ seq' = u.last
        /\ chan' = Append(chan, u)
        /\ fifo' = Append(fifo, u)
        /\ ack' = [ack EXCEPT ![u.last] = "wait"]
        /\ ticket' = [ticket EXCEPT ![u.last] = "wait"]
        /\ UNCHANGED <<batch, wrote, phase, file, good, sealed, lastId>>

\* forward_prepared / forward_group + push_pending: mint, hand to the writer,
\* remember in the FIFO, and issue the ticket.  Nothing waits.
Forward(kinds, saw) ==
    LET u == NewUnit(kinds)
    IN  /\ ~Refuses(kinds)
        /\ entry' = Minted(kinds, lastId, saw)
        /\ seq' = u.last /\ lastId' = u.last
        /\ chan' = Append(chan, u)
        /\ fifo' = Append(fifo, u)
        /\ ack' = [ack EXCEPT ![u.last] = "wait"]
        /\ ticket' = [ticket EXCEPT ![u.last] = "wait"]
        /\ UNCHANGED <<batch, wrote, phase, file, good, sealed>>

ForwardRefused(kinds) ==
    /\ Refuses(kinds)
    /\ sealed' = TRUE
    /\ seq' = IF Room(kinds) THEN seq + Len(kinds) ELSE seq
    /\ UNCHANGED <<chan, batch, wrote, phase, file, good, ack, entry, lastId, fifo, ticket>>

\* Begin a run of durable appends; `then` says how the arm continues.
Run(work, then) ==
    [Loop EXCEPT !.at = IF work = <<>> THEN "done" ELSE "append",
                 !.work = work, !.then = then]

\* Mutant: the unit is applied whatever the writer answered.
MutSettleAlways(tell) ==
    LET u == Front(fifo)
    IN  [ok |-> ack[u.last] = "ok",
         head |-> Advance(head, u),
         told |-> IF ack[u.last] = "ok" THEN tell ELSE "sealed"]

\* Pop the front of the FIFO once its ack has arrived; `tell` is what a
\* successful commit reports to its proposer.
SettleFront(tell) ==
    LET u == Front(fifo)
    IN  [ok |-> ack[u.last] = "ok",
         head |-> IF ack[u.last] = "ok" THEN Advance(head, u) ELSE head,
         told |-> IF ack[u.last] = "ok" THEN tell ELSE "sealed"]

FrontAnswered == fifo # <<>> /\ ack[Front(fifo).last] \in {"ok", "err"}

\* Mutant: held steers are released without looking at the open batch.
MutReleaseInBatch ==
    /\ op.at = "loop" /\ FrontAnswered
    /\ LET s == SettleFront("ok")
       IN  /\ head' = s.head
           /\ op' = [Run([i \in 1..held |-> "steer"], "settle")
                        EXCEPT !.due = Front(fifo).last, !.verdict = s.told]
           /\ held' = 0
    /\ fifo' = Tail(fifo)
    /\ UNCHANGED <<logVars, entry, seq, lastId, pub, ticket, turn, others>>

\* Mutant: the proposer is told before the head is published.
MutResolveFirst ==
    /\ op.at = "loop" /\ FrontAnswered
    /\ LET s == SettleFront("ok")
           free == ~Awaiting(s.head)
       IN  /\ head' = s.head
           /\ op' = [Run(IF free THEN [i \in 1..held |-> "steer"] ELSE <<>>, "settle")
                        EXCEPT !.due = Front(fifo).last, !.verdict = s.told]
           /\ held' = IF free THEN 0 ELSE held
           /\ ticket' = [ticket EXCEPT ![Front(fifo).last] = s.told]
    /\ fifo' = Tail(fifo)
    /\ UNCHANGED <<logVars, entry, seq, lastId, pub, turn, others>>

\* The ack arm of the select loop: apply, then release held steers behind the
\* commit, and only then publish and resolve (Settle, below).
AckArm ==
    /\ op.at = "loop" /\ FrontAnswered
    /\ LET s == SettleFront("ok")
           free == ~Awaiting(s.head)
       IN  /\ head' = s.head
           /\ op' = [Run(IF free THEN [i \in 1..held |-> "steer"] ELSE <<>>, "settle")
                        EXCEPT !.due = Front(fifo).last, !.verdict = s.told]
           /\ held' = IF free THEN 0 ELSE held
    /\ fifo' = Tail(fifo)
    /\ UNCHANGED <<logVars, entry, seq, lastId, pub, ticket, turn, others>>

\* Pipeline::drain, one front at a time: apply, publish, resolve.  A fold
\* resolves what it drains as aborted.
Drain ==
    /\ op.at = "append" /\ FrontAnswered
    /\ LET s == SettleFront(IF op.work[1] = "fold" THEN "aborted" ELSE "ok")
       IN  /\ head' = s.head
           /\ pub' = s.head
           /\ ticket' = [ticket EXCEPT ![Front(fifo).last] = s.told]
    /\ fifo' = Tail(fifo)
    /\ UNCHANGED <<logVars, entry, seq, lastId, held, op, turn, others>>

\* The log refused an append, and so will refuse the rest of the run.  A batch
\* that could not be closed keeps the steers behind it held (release_steers).
GiveUp ==
    /\ op' = [op EXCEPT !.at = "done", !.work = <<>>,
                        !.verdict = IF op.then = "settle" THEN @ ELSE "sealed"]
    /\ held' = IF op.work[1] = "results" THEN Len(op.work) - 1 ELSE held

\* Mutant: the append does not drain the FIFO first.
MutAppendUndrained ==
    /\ op.at = "append"
    /\ LET kinds == <<op.work[1]>>
           u == NewUnit(kinds)
       IN  /\ ~Refuses(kinds)
           /\ entry' = Minted(kinds, lastId, {})
           /\ seq' = u.last
           /\ chan' = Append(chan, u)
           /\ ack' = [ack EXCEPT ![u.last] = "wait"]
           /\ op' = [op EXCEPT !.at = "await"]
    /\ UNCHANGED <<batch, wrote, phase, file, good, sealed, lastId, fifo, head,
                   pub, held, ticket, turn, others>>

\* SharedDeps::append once the FIFO is empty: mint and send, then wait.
AppendSend ==
    /\ op.at = "append" /\ fifo = <<>>
    /\ LET kinds == <<op.work[1]>>
           u == NewUnit(kinds)
       IN  /\ ~Refuses(kinds)
           /\ entry' = Minted(kinds, lastId, {})
           /\ seq' = u.last
           /\ chan' = Append(chan, u)
           /\ ack' = [ack EXCEPT ![u.last] = "wait"]
           /\ op' = [op EXCEPT !.at = "await"]
    /\ UNCHANGED <<batch, wrote, phase, file, good, sealed, lastId, fifo, head,
                   pub, held, ticket, turn, others>>

AppendRefused ==
    /\ op.at = "append" /\ fifo = <<>>
    /\ ForwardRefused(<<op.work[1]>>)
    /\ GiveUp
    /\ UNCHANGED <<head, pub, turn, others>>

\* The ack came back: only now does the chain, the head and the published
\* head move.
AppendOk ==
    /\ op.at = "await" /\ ack[seq] = "ok"
    /\ head' = Advance(head, [first |-> seq, last |-> seq])
    /\ pub' = head'
    /\ lastId' = seq
    /\ op' = [op EXCEPT !.work = Tail(@),
                        !.at = IF Len(op.work) = 1 THEN "done" ELSE "append"]
    /\ UNCHANGED <<logVars, entry, seq, fifo, held, ticket, turn, others>>

AppendErr ==
    /\ op.at = "await" /\ ack[seq] = "err"
    /\ sealed' = TRUE
    /\ GiveUp
    /\ UNCHANGED <<chan, batch, wrote, phase, file, good, ack, entry, seq, lastId,
                   fifo, head, pub, ticket, turn, others>>

-----------------------------------------------------------------------------
(* How an arm ends once its appends are in (or the log refused them).       *)

\* The ack arm: publish, then resolve the ticket.
Settle ==
    /\ op.at = "done" /\ op.then = "settle"
    /\ pub' = head
    /\ ticket' = [ticket EXCEPT ![op.due] = op.verdict]
    /\ op' = Loop
    /\ UNCHANGED <<logVars, entry, seq, lastId, fifo, head, held, turn, others>>

\* A command whose appends are its whole effect.
Return ==
    /\ op.at = "done" /\ op.then = "loop"
    /\ op' = Loop
    /\ UNCHANGED <<logVars, entry, seq, lastId, fifo, head, pub, held, ticket, turn, others>>

\* write_plan_artifact: whatever became of the append.
PlanWritten ==
    /\ op.at = "done" /\ op.then = "plan"
    /\ artifact' = head.todos
    /\ op' = Loop
    /\ UNCHANGED <<logVars, entry, seq, lastId, fifo, head, pub, held, ticket, turn, budget>>

\* start_turn's awaited path and a fold's continuation: spawn the turn task.
Spawn ==
    /\ op.at = "done" /\ op.then \in {"spawn", "respawn"} /\ op.verdict = "ok"
    /\ op' = Loop
    /\ turn' = [NoTurn EXCEPT !.at = "boundary"]
    /\ UNCHANGED <<logVars, entry, seq, lastId, fifo, head, pub, held, ticket, others>>

\* The append failed, or the fold was interrupted just after it landed: no
\* task is spawned, and a turn that ends this way is annotated.
NoSpawn ==
    /\ op.at = "done"
    /\ \/ op.then \in {"spawn", "respawn"} /\ op.verdict # "ok"
       \/ op.then = "respawn" /\ Interrupts
    /\ op' = IF op.then = "respawn" THEN Run(<<"mark">>, "loop") ELSE Loop
    /\ turn' = NoTurn
    /\ UNCHANGED <<logVars, entry, seq, lastId, fifo, head, pub, held, ticket, others>>

\* TurnFinished, second half: fold or clear and continue the same logical
\* turn, or end it, annotating any outcome but a plain Done.
EndTurn ==
    /\ op.at = "done" /\ op.then = "end"
    /\ \/ /\ turn.fold
          /\ op' \in {Run(<<"fold">>, "respawn"), Run(<<"mark">>, "respawn")}
          /\ UNCHANGED turn
       \/ /\ ~turn.fold
          /\ op' \in {Run(<<"mark">>, "loop")} \cup (IF turn.ok THEN {Loop} ELSE {})
          /\ turn' = NoTurn
    /\ UNCHANGED <<logVars, entry, seq, lastId, fifo, head, pub, held, ticket, others>>

-----------------------------------------------------------------------------
(* The commands of the mailbox.                                             *)

Idle == op.at = "loop"

\* Rename, SetMode, SetGoal, a tool's ask journal, ...: one log-only entry.
Command ==
    /\ Idle /\ Spend("commands")
    /\ op' = Run(<<"mark">>, "loop")
    /\ UNCHANGED <<logVars, entry, seq, lastId, fifo, head, pub, held, ticket, turn, artifact>>

\* SetPlan: the entry, then a reminder item, whatever the turn is doing.
SetPlan ==
    /\ Idle /\ PlanToggles /\ Spend("commands")
    /\ op' = Run(<<"mark", "user">>, "loop")
    /\ UNCHANGED <<logVars, entry, seq, lastId, fifo, head, pub, held, ticket, turn, artifact>>

\* Mutant: the plan file is written on the way in, ahead of the append.
MutPlanFirst ==
    /\ Idle /\ head.todos < MaxTodos /\ turn.at = "tools"
    /\ head' = [head EXCEPT !.todos = @ + 1]
    /\ artifact' = head'.todos
    /\ op' = Run(<<"todos">>, "loop")
    /\ UNCHANGED <<logVars, entry, seq, lastId, fifo, pub, held, ticket, turn, budget>>

\* SetTodos and PresentPlan (sent by tools, so while a batch runs): the head
\* takes the list first, the entry follows, and then the plan file.
SetTodos ==
    /\ Idle /\ head.todos < MaxTodos /\ turn.at = "tools"
    /\ head' = [head EXCEPT !.todos = @ + 1]
    /\ op' = Run(<<"todos">>, "plan")
    /\ UNCHANGED <<logVars, entry, seq, lastId, fifo, pub, held, ticket, turn, others>>

\* Mutant: a steer is held for an open batch only, not for a live turn.
MutSteerMidSample ==
    /\ Idle
    /\ IF Awaiting(head)
       THEN held < MaxHeld /\ held' = held + 1 /\ UNCHANGED op
       ELSE op' = Run(<<"steer">>, "loop") /\ UNCHANGED held
    /\ UNCHANGED <<logVars, entry, seq, lastId, fifo, head, pub, ticket, turn, others>>

\* Mutant: the held buffer has no cap.
MutSteerUncapped ==
    /\ Idle
    /\ IF turn.at # "none" \/ Awaiting(head)
       THEN held' = held + 1 /\ UNCHANGED op
       ELSE op' = Run(<<"steer">>, "loop") /\ UNCHANGED held
    /\ UNCHANGED <<logVars, entry, seq, lastId, fifo, head, pub, ticket, turn, others>>

\* admit_steer: held while a turn runs or a batch is open, else appended.
Steer ==
    /\ Idle
    /\ IF turn.at # "none" \/ Awaiting(head)
       THEN held < MaxHeld /\ held' = held + 1 /\ UNCHANGED op
       ELSE op' = Run(<<"steer">>, "loop") /\ UNCHANGED held
    /\ UNCHANGED <<logVars, entry, seq, lastId, fifo, head, pub, ticket, turn, others>>

\* Prompt, ticketed fast path: forward the prompt, spawn the turn at once and
\* let it dispatch its first sample against the predicted head.
PromptFast ==
    /\ Idle /\ turn.at = "none" /\ held = 0
    /\ \/ /\ Forward(<<"user">>, {})
          /\ turn' = [NoTurn EXCEPT
                !.at = "boundary", !.tickets = <<seq'>>, !.mine = seq',
                !.spec = [leaf |-> seq',
                          snap |-> [Snapshot(head) EXCEPT !.items = @ \cup {seq'}]]]
       \/ /\ ForwardRefused(<<"user">>)
          /\ UNCHANGED turn
    /\ UNCHANGED <<head, pub, held, op, others>>

\* Prompt, awaited path (a prompt hook is installed, or steers are held): the
\* prompt and the hook's reminder are appended, then the turn is spawned.
PromptAwaited ==
    /\ Idle /\ turn.at = "none"
    /\ op' \in {Run(<<"user">>, "spawn"), Run(<<"user", "user">>, "spawn")}
    /\ UNCHANGED <<logVars, entry, seq, lastId, fifo, head, pub, held, ticket, turn, others>>

\* Continue: spawn a turn with no new prompt iff the projection ends on the
\* model's turn to speak.
Continue ==
    /\ Idle /\ turn.at = "none"
    /\ NeedsContinuation(head)
    /\ turn' = [NoTurn EXCEPT !.at = "boundary"]
    /\ UNCHANGED <<logVars, actorVars, others>>

\* A human fold between turns: nothing can interrupt it.
FoldNow ==
    /\ Idle /\ turn.at = "none" /\ head.projected # <<>>
    /\ op' = Run(<<"fold">>, "loop")
    /\ UNCHANGED <<logVars, entry, seq, lastId, fifo, head, pub, held, ticket, turn, others>>

\* TurnFinished, first half: close_open_batch, then release_steers.
TurnFinished ==
    /\ Idle /\ turn.at = "ended"
    /\ op' = Run((IF Awaiting(head) THEN <<"results">> ELSE <<>>)
                    \o [i \in 1..held |-> "steer"], "end")
    /\ held' = 0
    /\ UNCHANGED <<logVars, entry, seq, lastId, fifo, head, pub, ticket, turn, others>>

\* A human interrupt lands while a turn's fold is in flight: select! drops the
\* fold, wherever it was, and the turn ends as cancelled.
FoldInterrupted ==
    /\ Interrupts
    /\ op.at \in {"append", "await"} /\ op.work[1] = "fold" /\ op.then = "respawn"
    /\ op' = Run(<<"mark">>, "loop")
    /\ turn' = NoTurn
    /\ UNCHANGED <<logVars, entry, seq, lastId, fifo, head, pub, held, ticket, others>>

Actor ==
    \/ AckArm \/ Drain \/ AppendSend \/ AppendRefused \/ AppendOk \/ AppendErr
    \/ Settle \/ Return \/ PlanWritten \/ Spawn \/ NoSpawn \/ EndTurn \/ TurnFinished

-----------------------------------------------------------------------------
(* The turn task.                                                           *)

\* On the way out a turn keeps only its tickets and how it ends.
Ending(t, ok, fold) ==
    [NoTurn EXCEPT !.at = "finishing", !.tickets = t.tickets, !.ok = ok, !.fold = fold]

\* propose_pipelined: the actor answers with a ticket; the turn parks it and
\* goes on to `next`.  A refusal ends the turn.
Propose(kinds, saw, next) ==
    /\ Idle
    /\ \/ /\ Forward(kinds, saw)
          /\ turn' = [next EXCEPT !.tickets = Append(@, seq'), !.mine = seq',
                                  !.own = @ \cup NewItems(kinds)]
       \/ /\ ForwardRefused(kinds)
          /\ turn' = Ending(turn, FALSE, FALSE)
    /\ UNCHANGED <<head, pub, held, op, others>>

\* TicketPipeline::resolve_oldest, at any of the three barriers.
AtBarrier == turn.at \in {"boundary", "calls", "finishing"}

Resolve ==
    /\ AtBarrier /\ turn.tickets # <<>>
    /\ ticket[turn.tickets[1]] # "wait"
    /\ turn' = [turn EXCEPT !.tickets = Tail(@),
                            !.ok = @ /\ ticket[turn.tickets[1]] = "ok"]
    /\ UNCHANGED <<logVars, actorVars, others>>

\* A barrier that reports a failed commit ends the turn.
BarrierFails ==
    /\ turn.at \in {"boundary", "calls"} /\ turn.tickets = <<>> /\ ~turn.ok
    /\ turn' = Ending(turn, FALSE, FALSE)
    /\ UNCHANGED <<logVars, actorVars, others>>

\* Mutant: the next sample is built without waiting for this turn's commits.
MutNoBarrierB ==
    /\ turn.at = "boundary" /\ turn.ok
    /\ turn' = [turn EXCEPT !.at = "sampling", !.view = Snapshot(pub), !.own = {},
                            !.spec = NoTurn.spec, !.req = Snapshot(pub)]
    /\ UNCHANGED <<logVars, actorVars, others>>

\* Mutant: a speculative request is adopted without comparing leaves.
MutAdoptBlindly ==
    /\ turn.at = "boundary" /\ turn.tickets = <<>> /\ turn.ok
    /\ pub.epoch >= turn.mine
    /\ turn' = [turn EXCEPT !.at = "sampling", !.view = Snapshot(pub), !.own = {},
                            !.spec = NoTurn.spec,
                            !.req = IF turn.spec.leaf # 0 THEN turn.spec.snap
                                    ELSE Snapshot(pub)]
    /\ UNCHANGED <<logVars, actorVars, others>>

\* Barrier (b) and the refresh: with every ticket in, wait for a published
\* head at least as new as this turn's last commit, and adopt the speculative
\* request iff the head's leaf is the one it was built for.  The request may
\* also turn out not to fit, which ends the turn in a fold.
Boundary ==
    /\ turn.at = "boundary" /\ turn.tickets = <<>> /\ turn.ok
    /\ pub.epoch >= turn.mine
    /\ LET adopted == turn.spec.leaf # 0 /\ turn.spec.leaf = pub.epoch
           fresh == [turn EXCEPT !.at = "sampling", !.view = Snapshot(pub),
                        !.own = {}, !.spec = NoTurn.spec,
                        !.req = IF adopted THEN turn.spec.snap ELSE Snapshot(pub)]
       IN  \/ turn' = fresh
           \/ ~adopted /\ turn' = Ending(turn, TRUE, TRUE)
    /\ UNCHANGED <<logVars, actorVars, others>>

\* The sample completed: its assistant item and usage commit as one group.  A
\* refusal ends the turn whatever the item holds.
Sampled ==
    /\ turn.at = "sampling"
    /\ \/ Propose(<<"call", "mark">>, turn.req.items,
                  [turn EXCEPT !.at = "calls", !.req = NoSnap])
       \/ Propose(<<"call", "mark">>, turn.req.items, Ending(turn, TRUE, FALSE))
       \/ Propose(<<"reply", "mark">>, turn.req.items,
                  [turn EXCEPT !.at = "replied", !.req = NoSnap])

\* The sample failed or was cancelled, moved to a fallback model, or no longer
\* fits the window.
SampleEnds ==
    /\ turn.at = "sampling"
    /\ turn' \in {Ending(turn, TRUE, FALSE), Ending(turn, TRUE, TRUE),
                   [turn EXCEPT !.at = "boundary", !.req = NoSnap]}
    /\ UNCHANGED <<logVars, actorVars, others>>

\* Mutant: tools run while the ticket of their calls is out.
MutNoBarrierA ==
    /\ turn.at = "calls"
    /\ turn' = [turn EXCEPT !.at = "tools"]
    /\ UNCHANGED <<logVars, actorVars, others>>

\* Barrier (a): no tool runs before the calls that caused it are durable.
Dispatch ==
    /\ turn.at = "calls" /\ turn.tickets = <<>> /\ turn.ok
    /\ turn' = [turn EXCEPT !.at = "tools"]
    /\ UNCHANGED <<logVars, actorVars, others>>

\* The batch is over: its results commit, perhaps with a hint or a nudge
\* behind them, and the next request goes out against the snapshot this turn
\* last saw plus what it has committed since.  A turn that is out of budget or
\* was cancelled ends here instead.
ToolsDone ==
    /\ turn.at = "tools"
    /\ \E kinds \in {<<"results">>, <<"results", "user">>} :
         LET own  == turn.own \cup NewItems(kinds)
             spec == [leaf |-> NewUnit(kinds).last,
                      snap |-> [turn.view EXCEPT !.items = @ \cup own]]
         IN  \/ Propose(kinds, {}, [turn EXCEPT !.at = "boundary", !.spec = spec])
             \/ Propose(kinds, {}, Ending(turn, TRUE, FALSE))

\* The model stopped: done, sampled again, or nudged on by a gate.
Replied ==
    /\ turn.at = "replied"
    /\ \/ /\ turn' \in {Ending(turn, TRUE, FALSE), [turn EXCEPT !.at = "boundary"]}
          /\ UNCHANGED <<logVars, actorVars, others>>
       \/ Propose(<<"user">>, {}, [turn EXCEPT !.at = "boundary"])

\* Barrier (c): a turn never finishes holding a ticket.
Finish ==
    /\ turn.at = "finishing" /\ turn.tickets = <<>>
    /\ turn' = [turn EXCEPT !.at = "ended"]
    /\ UNCHANGED <<logVars, actorVars, others>>

\* The task panics: its supervisor reports the end, its tickets are dropped.
Panic ==
    /\ Panics /\ turn.at \notin {"none", "ended"}
    /\ turn' = [NoTurn EXCEPT !.at = "ended", !.ok = FALSE]
    /\ UNCHANGED <<logVars, actorVars, others>>

Turn ==
    \/ Resolve \/ BarrierFails \/ Boundary \/ Sampled \/ SampleEnds
    \/ Dispatch \/ ToolsDone \/ Replied \/ Finish

-----------------------------------------------------------------------------
\* The process is killed and the session resumed.  Every synced byte survives
\* and any run of later whole lines may; replay drops a torn last line, and
\* the projection is rebuilt from what is left.
Crash ==
    /\ Spend("crashes")
    /\ \E n \in good..Len(file), list \in 0..MaxTodos :
         /\ LastList(SubSeq(file, 1, n), list)
         /\ file' = SubSeq(file, 1, n)
         /\ good' = n
         /\ seq' = n /\ lastId' = n
         /\ head' = [epoch |-> n, projected |-> SubSeq(file, 1, n),
                     todos |-> list, closed |-> Dangling(SubSeq(file, 1, n))]
         /\ entry' = [s \in Seqs |-> IF s <= n THEN entry[s] ELSE NoEntry]
    /\ pub' = head'
    /\ chan' = <<>> /\ batch' = <<>> /\ wrote' = 0 /\ phase' = "idle"
    /\ sealed' = FALSE
    /\ ack' = [s \in Seqs |-> "none"] /\ ticket' = [s \in Seqs |-> "none"]
    /\ fifo' = <<>> /\ held' = 0 /\ op' = Loop /\ turn' = NoTurn
    /\ UNCHANGED artifact

Commands ==
    \/ Command \/ SetPlan \/ SetTodos \/ Steer
    \/ PromptFast \/ PromptAwaited \/ Continue \/ FoldNow

Next ==
    \/ Writer \/ WriterFails \/ WriterDies
    \/ Actor \/ FoldInterrupted \/ Commands
    \/ Turn \/ Panic
    \/ Crash

Spec == Init /\ [][Next]_vars

\* The writer thread and the actor are always scheduled, and a turn task is
\* woken whenever what it waits for has arrived.  A sample, a tool, a human, a
\* fault and a crash owe nobody anything.
Fairness ==
    /\ WF_vars(Writer) /\ WF_vars(Actor)
    /\ WF_vars(Resolve \/ BarrierFails \/ Boundary \/ Dispatch \/ Finish)

FairSpec == Spec /\ Fairness

-----------------------------------------------------------------------------
LogTypeOK ==
    /\ chan \in Seq(Unit) /\ batch \in Seq(Unit)
    /\ wrote \in 0..Len(batch)
    /\ phase \in {"idle", "write", "ack", "dead"}
    /\ file \in Seq(Seqs) /\ good \in 0..Len(file)
    /\ sealed \in BOOLEAN
    /\ ack \in [Seqs -> {"none", "wait", "ok", "err"}]

PipelineTypeOK ==
    /\ entry \in [Seqs -> Entries]
    /\ seq \in 0..MaxSeq /\ lastId \in 0..MaxSeq
    /\ fifo \in Seq(Unit)
    /\ ticket \in [Seqs -> {"none", "wait", "ok", "sealed", "aborted"}]

HeadTypeOK == head \in Heads /\ pub \in Heads

OpTypeOK == held \in 0..MaxHeld /\ op \in Ops

TurnTypeOK == turn \in Turns

OthersTypeOK ==
    /\ artifact \in 0..MaxTodos
    /\ budget \in [commands : 0..MaxCommands, faults : 0..MaxFaults,
                   crashes : 0..MaxCrashes]

TypeOK ==
    /\ LogTypeOK /\ PipelineTypeOK /\ HeadTypeOK
    /\ OpTypeOK /\ TurnTypeOK /\ OthersTypeOK

Durable == {file[i] : i \in 1..good}

\* A crash may leave the log ahead of the projection, never the reverse: all
\* the actor has projected, and so all a turn task can read, is on disk below
\* the last synced offset (apply_ack, SharedDeps::append).
ProjectionBehindLog == Elems(head.projected) \cup Elems(pub.projected) \subseteq Durable

\* The projection is the log read from its start: entries are applied in file
\* order and none that is durable is passed over (one FIFO in the actor, one
\* channel to the writer, and every append drains the FIFO first).
ProjectionIsLogPrefix == head.projected = SubSeq(file, 1, Len(head.projected))

\* Apply, publish, resolve: a proposer that has been told its commit landed
\* can already read a head that contains it, so the refresh at a sample
\* boundary never waits for a publish that will not come.
EpochGate == \A s \in Seqs : ticket[s] = "ok" => pub.epoch >= s

\* Barrier (a): while tools run, the calls that caused them, and all this turn
\* has committed, are durable.
ToolsAfterDurable == turn.at = "tools" /\ turn.mine # 0 => turn.mine \in Durable

\* Barrier (b): what a sample is built from holds every item committed up to
\* this turn's own last commit.
ReadYourWrites ==
    turn.at = "sampling" =>
        \A s \in 1..turn.mine : entry[s].kind \in ItemKinds => s \in turn.req.items

\* The adoption rule: a speculative request is adopted only if it is the one
\* the refreshed head would have produced, checklist included.
AdoptedIsCurrent == turn.at = "sampling" => turn.req = turn.view

\* A steer never precedes an assistant item that could not have seen it.
SteerNeverPrecedesUnseen ==
    \A a, s \in Elems(head.projected) :
        s < a /\ entry[s].kind = "steer" /\ entry[a].kind \in {"call", "reply"}
            => s \in entry[a].saw

\* Tool calls are answered by the very next item, and only calls are: nothing
\* the actor appends on its own lands inside an open batch or answers a batch
\* twice.  A batch a crash cut off is answered in memory.
BatchesStayPaired ==
    LET s == head.projected
    IN  \A i \in DOMAIN s :
          /\ entry[s[i]].kind = "call" =>
                \/ s[i] \in head.closed
                \/ \A j \in DOMAIN s : NextItem(s, i, j) => entry[s[j]].kind = "results"
          /\ entry[s[i]].kind = "results" =>
                \E j \in DOMAIN s : NextItem(s, j, i) /\ entry[s[j]].kind = "call"

\* Replay of a log only this program wrote finds every entry chained onto the
\* one before it in the file.
ChainUnbroken ==
    \A i \in 2..Len(file) : entry[file[i]].parent = file[i - 1]

\* The plan file is a view of the log and never leads it.
PlanBehindLog ==
    artifact > 0 =>
        \E s \in Durable : entry[s].kind = "todos" /\ entry[s].list >= artifact

\* As long as the log takes entries, the plan file is written after the entry
\* it is a view of is durable, and so no kill can leave it ahead.
PlanFollowsLog == [][~sealed => PlanBehindLog']_artifact

\* The commit path implements an append-only log with a projection behind it:
\* an acked entry stays where it is, whatever is rolled back, sealed, killed
\* or resumed afterwards, and what readers see moves only along the log.
Log == INSTANCE EventLog WITH
    Writes <- {Ids(u) : u \in Unit}, log <- file, promised <- good,
    view <- head.projected, published <- pub.projected

ImplementsEventLog == Log!Spec

\* A barrier never hangs: a sealed log and a dead writer are reported through
\* the tickets the turn waits on, and the head it then waits for is published.
BarriersEnd == AtBarrier ~> ~AtBarrier

\* A command or an ack the actor has begun is finished.
ActorReturns == ~Idle ~> Idle
=============================================================================

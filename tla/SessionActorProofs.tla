-------------------------- MODULE SessionActorProofs --------------------------
(***************************************************************************)
(* What holds of SessionActor for every bound: one turn at a time with one *)
(* TurnDone each, and an interrupt that no continuation swallows; what a   *)
(* caller sent is somewhere, and in one place only, prompts keep their     *)
(* order, and what is held has a turn in front of it.                      *)
(***************************************************************************)
EXTENDS SessionActor, TLAPS

\* How a turn task can end, and the places of the handler (run's TurnFinished arm).
Ends == {"done", "panic", "cancelled", "clear", "compact", "error", "fatal", "stopped"}
Handling == {"compact", "clear", "respawn", "done", "full", "error", "fatal", "stopped",
             "cancelled", "panic", "eval", "guide", "end", "annotate", "fold", "promote"}

\* The records keep their fields, the turn and the handler are at one of their places, and
\* what ends a turn is a place of the handler that still owes its TurnDone.
Records ==
    /\ DOMAIN turn = DOMAIN NoTurn /\ DOMAIN actor = DOMAIN Looping
    /\ turn.at \in {"none", "boundary", "sampling", "tools", "ended"} /\ turn.end \in Ends
    /\ actor.at \in Handling \cup {"loop"}
    /\ running \in BOOLEAN /\ cancelled \in BOOLEAN /\ escaped \in BOOLEAN

\* A turn task lives only while the loop takes commands: the handler of its end has
\* consumed it, and the handler's last step is the only one that starts another.
Alone ==
    /\ Alive => AtLoop
    /\ running <=> (Alive \/ ~AtLoop)
    /\ owed = IF running /\ actor.at \notin {"fold", "promote"} THEN 1 ELSE 0
    /\ ~running => queue = <<>>

\* In a session without a goal, an Esc within the logical turn is still in its token.
Carried ==
    /\ goal = NoGoal /\ "goal" \in DOMAIN budget /\ budget.goal = 0
    /\ actor.at \notin {"eval", "guide"}
    /\ escaped => cancelled

IInv == Records /\ Alone

\* A step that dispatches no sample.
NoSample == turn'.at = "sampling" => turn.at = "sampling"

-----------------------------------------------------------------------------
(* Steps. *)

\* A fresh turn: what Spawn leaves.
LEMMA Spawned ==
    ASSUME Spawn
    PROVE  /\ DOMAIN turn' = DOMAIN NoTurn /\ turn'.at = "boundary" /\ turn'.end \in Ends
           /\ cancelled' = FALSE
  BY DEF Spawn, Respawn, NoTurn, Ends

\* A step of the turn task leaves the actor alone, and the turn at one of its places.
LEMMA TurnStep ==
    ASSUME IInv, TurnSteps \/ Panic
    PROVE  /\ UNCHANGED <<queue, running, actor, cancelled, escaped, owed>>
           /\ DOMAIN turn' = DOMAIN NoTurn /\ turn'.end \in Ends
           /\ turn.at # "none" /\ turn'.at \in {"boundary", "sampling", "tools", "ended"}
           /\ (escaped => cancelled) => (escaped => NoSample)
  <1> USE DEF IInv, Records, TurnAt, TurnOnly, Ended, NoTurn, Ends, NoSample
  <1>1. CASE Sample
    BY <1>1 DEF Sample
  <1>2. CASE LadderClear \/ LadderFold
    BY <1>2 DEF LadderClear, LadderFold
  <1>3. CASE SampleCancelled \/ SampleFails
    BY <1>3 DEF SampleCancelled, SampleFails
  <1>4. CASE SampleText \/ SampleCalls
    BY <1>4 DEF SampleText, SampleCalls, Completes
  <1>5. CASE RunTools
    BY <1>5 DEF RunTools
  <1>6. CASE Panic
    BY <1>6 DEF Panic
  <1> QED BY <1>1, <1>2, <1>3, <1>4, <1>5, <1>6 DEF TurnSteps

LEMMA Initial == Init => IInv
  <1> SUFFICES ASSUME Init PROVE IInv
    OBVIOUS
  <1>1. Records
    BY DEF Init, Records, NoTurn, Looping, Ends, Handling
  <1>2. Alone
    BY DEF Init, Alone, Alive, AtLoop, NoTurn, Looping
  <1> QED BY <1>1, <1>2 DEF IInv

\* A fresh turn from an idle session, or from the end of one, is owed one TurnDone.
LEMMA Started ==
    ASSUME IInv, Spawn, Owes, DOMAIN actor' = DOMAIN Looping,
           actor'.at = "loop", ~running \/ actor.at \in {"fold", "promote"}
    PROVE  IInv' /\ NoSample
  <1>1. owed = 0
    BY DEF IInv, Alone, Records
  <1>2. Records'
    BY Spawned DEF Records, IInv, Owes
  <1>3. Alone'
    <2>1. Alive' /\ AtLoop'
      BY Spawned DEF Alive, AtLoop
    <2>2. owed' = 1 /\ running'
      BY <1>1 DEF Owes
    <2>3. actor'.at \notin {"fold", "promote"}
      OBVIOUS
    <2> QED BY <2>1, <2>2, <2>3 DEF Alone
  <1>4. NoSample
    BY Spawned DEF NoSample
  <1> QED BY <1>2, <1>3, <1>4 DEF IInv

\* admit_prompt, from the loop.
LEMMA Admitted ==
    ASSUME IInv, NEW ids, Admit(ids), AtLoop, UNCHANGED actor
    PROVE  IInv' /\ NoSample
  <1>1. CASE running
    BY <1>1 DEF Admit, IInv, Records, Alone, Alive, AtLoop, NoSample
  <1>2. CASE ~running
    BY <1>2, Started DEF Admit, Begin, AtLoop, IInv, Records
  <1> QED BY <1>1, <1>2

\* A command that finds the actor in its loop.
LEMMA CommandStep == ASSUME IInv, Commands PROVE IInv' /\ NoSample
  <1> USE DEF IInv, Records, Alone, Alive, AtLoop, NoSample
  <1>1. CASE Prompt
    BY <1>1, Admitted DEF Prompt
  <1>2. CASE Steer \/ Fold \/ SetModel \/ SetGoal
    BY <1>2 DEF Steer, Fold, SetModel, SetGoal
  <1>3. CASE Notify
    <2>1. CASE running \/ Open(log)
      BY <1>3, <2>1 DEF Notify
    <2>2. CASE ~(running \/ Open(log))
      BY <1>3, <2>2, Admitted DEF Notify
    <2> QED BY <2>1, <2>2
  <1>4. CASE Interrupt
    BY <1>4 DEF Interrupt
  <1> QED BY <1>1, <1>2, <1>3, <1>4 DEF Commands

\* A step of the actor's loop or of the handler of a turn's end.
LEMMA ActorStep == ASSUME IInv, ActorSteps PROVE IInv' /\ NoSample
  <1> USE DEF IInv, Records, Alone, Alive, AtLoop, NoSample
  <1>1. CASE Continue
    <2>1. CASE ContinueStarts
      BY <1>1, <2>1, Started DEF Continue, ContinueStarts
    <2>2. CASE ~ContinueStarts
      BY <1>1, <2>2 DEF Continue, env
    <2> QED BY <2>1, <2>2
  <1>2. CASE Ack
    BY <1>2 DEF Ack
  <1>3. CASE TurnFinished
    BY <1>3 DEF TurnFinished, ReleaseAtEnd, TurnAt, Looping, NoTurn, Ends, Handling
  <1>4. CASE CompactBegins
    BY <1>4 DEF CompactBegins, HandlerOnly, Handling, Looping
  <1>5. CASE CompactEnds
    BY <1>5 DEF CompactEnds, HandlerOnly, Handling, Looping
  <1>6. CASE Clear
    BY <1>6 DEF Clear, Outcome, HandlerOnly, Handling, Looping
  <1>7. CASE Continues
    BY <1>7 DEF Continues, Continuation, Respawn, Return, HandlerOnly, Looping, NoTurn
  <1>8. CASE Resolve
    BY <1>8 DEF Resolve, Outcome, HandlerOnly, Handling, Looping
  <1>9. CASE Verdict
    BY <1>9 DEF Verdict, Outcome, HandlerOnly, Handling, Looping
  <1>10. CASE Guide
    BY <1>10, Spawned DEF Guide, Begin, Return, HandlerOnly, Looping, NoTurn, Ends
  <1>11. CASE EndTurn
    BY <1>11 DEF EndTurn, TakeFold, Outcome, HandlerOnly, Handling, Looping
  <1>12. CASE FoldNow
    BY <1>12 DEF FoldNow, Outcome, HandlerOnly, Handling, Looping
  <1>13. CASE Promote
    <2>1. CASE queue = <<>>
      BY <1>13, <2>1 DEF Promote, Return, Looping
    <2>2. CASE queue # <<>>
      <3>1. actor' = Looping
        BY <1>13, <2>2 DEF Promote, Return
      <3> QED BY <1>13, <2>2, <3>1, Started DEF Promote, Begin, Looping
    <2> QED BY <2>1, <2>2
  <1> QED BY <1>1, <1>2, <1>3, <1>4, <1>5, <1>6, <1>7, <1>8, <1>9, <1>10, <1>11, <1>12, <1>13
          DEF ActorSteps

LEMMA Inductive == IInv /\ [Next]_vars => IInv'
  <1> SUFFICES ASSUME IInv, [Next]_vars PROVE IInv'
    OBVIOUS
  <1>1. CASE Commands
    BY <1>1, CommandStep
  <1>2. CASE TurnSteps \/ Panic
    BY <1>2, TurnStep DEF IInv, Records, Alone, Alive, AtLoop
  <1>3. CASE ActorSteps
    BY <1>3, ActorStep
  <1>4. CASE UNCHANGED vars
    BY <1>4 DEF vars, IInv, Records, Alone, Alive, AtLoop
  <1> QED BY <1>1, <1>2, <1>3, <1>4 DEF Next

LEMMA Always == Spec => []IInv
  BY Initial, Inductive, PTL DEF Spec

\* A budget that is spent stays spent, and only its own action draws on it.
LEMMA Spent ==
    ASSUME Carried, NEW k, Spend(k)
    PROVE  k # "goal" /\ "goal" \in DOMAIN budget' /\ budget'.goal = 0
  BY DEF Carried, Spend

\* Without a goal, every step keeps an Esc in the token until a logical turn begins.
LEMMA CarriedStep == ASSUME IInv, Carried, [Next]_vars PROVE Carried'
  <1> USE DEF Carried
  <1>1. CASE Prompt \/ Notify
    <2>1. budget'.goal = 0 /\ "goal" \in DOMAIN budget'
      BY <1>1, Spent DEF Prompt, Notify, Arrive
    <2>2. UNCHANGED <<goal, actor>>
      BY <1>1 DEF Prompt, Notify
    <2>3. UNCHANGED <<escaped, cancelled>> \/ escaped' = FALSE
      BY <1>1 DEF Prompt, Notify, Admit, Owes
    <2> QED BY <2>1, <2>2, <2>3
  <1>2. CASE Steer \/ Fold \/ SetModel
    BY <1>2, Spent DEF Steer, Fold, SetModel, Arrive
  <1>3. CASE SetGoal
    BY <1>3, Spent DEF SetGoal
  <1>4. CASE Interrupt
    BY <1>4, Spent DEF Interrupt
  <1>5. CASE TurnSteps \/ Panic
    <2>1. UNCHANGED <<goal, actor, escaped, cancelled>>
      BY <1>5 DEF TurnSteps, Panic, Sample, LadderClear, LadderFold, SampleCancelled,
                  SampleFails, SampleText, SampleCalls, Completes, RunTools, TurnOnly
    <2>2. budget'.goal = 0 /\ "goal" \in DOMAIN budget'
      BY <1>5, Spent DEF TurnSteps, Panic, Sample, LadderClear, LadderFold, SampleCancelled,
                         SampleFails, SampleText, SampleCalls, RunTools, Completes
    <2> QED BY <2>1, <2>2
  <1>6. CASE Continue
    BY <1>6 DEF Continue, Owes, env
  <1>7. CASE Ack \/ Continues
    BY <1>7 DEF Ack, Continues, Continuation, HandlerOnly, Return, Looping
  <1>8. CASE TurnFinished
    BY <1>8 DEF TurnFinished, ReleaseAtEnd, Looping, IInv, Records, Ends
  <1>9. CASE CompactBegins \/ CompactEnds \/ Clear
    <2> USE DEF HandlerOnly, IInv, Records, Looping
    <2>1. CASE CompactBegins
      BY <2>1 DEF CompactBegins
    <2>2. CASE CompactEnds
      BY <2>2 DEF CompactEnds
    <2>3. CASE Clear
      BY <2>3 DEF Clear, Outcome
    <2> QED BY <1>9, <2>1, <2>2, <2>3
  <1>10. CASE Resolve
    BY <1>10 DEF Resolve, Outcome, HandlerOnly, IInv, Records, Looping
  <1>11. CASE Verdict \/ Guide
    BY <1>11 DEF Verdict, Guide
  <1>12. CASE EndTurn \/ FoldNow
    BY <1>12 DEF EndTurn, TakeFold, FoldNow, Outcome, HandlerOnly, IInv, Records, Looping
  <1>13. CASE Promote
    BY <1>13 DEF Promote, Owes, Return, Looping, HandlerOnly
  <1>14. CASE UNCHANGED vars
    BY <1>14 DEF vars
  <1> QED BY <1>1, <1>2, <1>3, <1>4, <1>5, <1>6, <1>7, <1>8, <1>9, <1>10, <1>11, <1>12, <1>13,
             <1>14
          DEF Next, Commands, ActorSteps

-----------------------------------------------------------------------------
(* One turn at a time, and the interrupt. *)

\* However prompts, notices, continuations and queue promotions interleave with run's
\* TurnFinished arm, one turn task lives at a time, each logical turn is owed one TurnDone
\* (a panic and a fatal log included), and an idle session has no queue.
THEOREM OneTurn == Spec => []OneTurnAtATime
  <1>1. IInv => OneTurnAtATime
    BY DEF IInv, Records, Alone, Alive, AtLoop, OneTurnAtATime
  <1> QED BY <1>1, Always, PTL

\* Once SessionHandle::interrupt has fired within a logical turn no sample is dispatched in
\* it: respawn_turn hands the token on, whatever continuation of the context ladder the turn
\* goes through. Without a goal: the guidance of a goal loop takes a new token.
THEOREM EscHolds == MaxGoals = 0 => (Spec => InterruptSticks)
  <1> SUFFICES ASSUME MaxGoals = 0 PROVE Spec => InterruptSticks
    OBVIOUS
  <1>1. Init => Carried
    BY DEF Init, Carried, Looping
  <1>2. IInv /\ Carried /\ [Next]_vars
            => Carried' /\ [(turn.at # "sampling" /\ turn'.at = "sampling") => ~escaped]_vars
    <2> SUFFICES ASSUME IInv, Carried, [Next]_vars
                 PROVE  (turn.at # "sampling" /\ turn'.at = "sampling") => ~escaped
      BY CarriedStep
    <2>1. CASE Commands \/ ActorSteps
      BY <2>1, CommandStep, ActorStep DEF NoSample
    <2>2. CASE TurnSteps \/ Panic
      BY <2>2, TurnStep DEF NoSample, Carried
    <2>3. CASE UNCHANGED vars
      BY <2>3 DEF vars
    <2> QED BY <2>1, <2>2, <2>3 DEF Next
  <1> QED BY <1>1, <1>2, Always, PTL DEF Spec, InterruptSticks

-----------------------------------------------------------------------------
(* The invariants. *)

Kinds == {"prompt", "steer", "notice"}
Items == {"user", "calls", "results", "text"}
Units(I) == [item : Items, ids : SUBSET I]
Logs(I) == [last : Items \cup {"none"}, unread : SUBSET I, fifo : Seq(Units(I))]

\* The inputs and where they are kept.
InputTypes ==
    /\ inputs \in Seq(Kinds)
    /\ queue \in Seq(SUBSET Ids) /\ Len(queue) <= QueueMax
    /\ held \in Seq(Ids)
    /\ log \in Logs(Ids)
    /\ read \subseteq Ids /\ sampled \subseteq Ids

\* What the actor counts, switches and parks. The streak passes its cap only on the way to
\* the report that no room can be made.
CountTypes ==
    /\ released \in BOOLEAN /\ wakes \in Nat /\ chain \in 1..(Fallbacks + 1)
    /\ goal \in {NoGoal} \cup 0..(StallTurns - 1)
    /\ streak \in 0..(MaxStreak + 1) /\ (streak <= MaxStreak \/ actor.at = "full")
    /\ parked \in [fold : BOOLEAN, model : BOOLEAN]

\* The inputs a log shows or is about to show, each of them once.
Flight(l) == UNION {l.fifo[k].ids : k \in DOMAIN l.fifo}
Shown(l) == Flight(l) \cup l.unread
Clean(l) ==
    /\ Flight(l) \cap l.unread = {}
    /\ \A j, k \in DOMAIN l.fifo : j # k => l.fifo[j].ids \cap l.fifo[k].ids = {}

\* Q, H, S and R share nothing and make up I.
Split(I, Q, H, S, R) ==
    /\ Q \cup H \cup S \cup R = I
    /\ Q \cap H = {} /\ Q \cap S = {} /\ Q \cap R = {}
    /\ H \cap S = {} /\ H \cap R = {} /\ S \cap R = {}

\* Each input is queued, held, in the log, or read; a completing sample moves what it was
\* built from, which the log still shows.
Accounted ==
    /\ Split(Ids, InQueue, IdsOf(held), Shown(log), read)
    /\ Clean(log)
    /\ turn.at = "sampling" => turn.sees \subseteq log.unread

\* The queue is in the order of arrival, behind every prompt that was begun, and a prompt
\* is never held.
Sorted(q) == \A j, k \in DOMAIN q : \A x \in q[j], y \in q[k] : j < k => x < y
InOrder ==
    /\ Sorted(queue)
    /\ \A x \in InQueue, y \in Shown(log) \cup read : inputs[y] = "prompt" => y < x
    /\ \A x \in IdsOf(held) : inputs[x] # "prompt"

\* The item the log ends on once all in flight is acked.
Final(l) == IF l.fifo = <<>> THEN l.last ELSE l.fifo[Len(l.fifo)].item

\* As long as no turn panics with its calls in flight: only a turn at its tools leaves
\* calls without results, nothing is in flight beside a sample or between two turns, and
\* what is held is held while a turn lives.
Calm == "panic" \in DOMAIN budget /\ budget.panic = 0
Orderly ==
    /\ turn.at # "tools" => Final(log) # "calls"
    /\ turn.at \in {"none", "sampling"} => Settled
    /\ turn.at = "ended" /\ turn.end = "panic" => Settled
    /\ held # <<>> => Alive

-----------------------------------------------------------------------------
(* Sequences. *)

\* What a sequence of sets holds, without UNION over an image.
LEMMA InUnion ==
    ASSUME NEW q
    PROVE  \A x : x \in UNION IdsOf(q) <=> \E k \in DOMAIN q : x \in q[k]
  BY DEF IdsOf

\* What is in flight, likewise.
LEMMA InFlightOf ==
    ASSUME NEW l
    PROVE  \A x : x \in Flight(l) <=> \E k \in DOMAIN l.fifo : x \in l.fifo[k].ids
  BY DEF Flight

\* A sequence with one element more.
LEMMA AppendFacts ==
    ASSUME NEW S, NEW q \in Seq(S), NEW u \in S
    PROVE  /\ Append(q, u) \in Seq(S) /\ Append(q, u) # <<>>
           /\ Len(q) \in Nat /\ DOMAIN q = 1..Len(q) /\ Len(Append(q, u)) = Len(q) + 1
           /\ DOMAIN Append(q, u) = DOMAIN q \cup {Len(q) + 1} /\ Len(q) + 1 \notin DOMAIN q
           /\ Append(q, u)[Len(q) + 1] = u
           /\ \A i \in DOMAIN q : Append(q, u)[i] = q[i]
  <1>1. /\ Len(q) \in Nat /\ DOMAIN q = 1..Len(q)
        /\ DOMAIN Append(q, u) = 1..Len(q) + 1 /\ Append(q, u)[Len(q) + 1] = u
        /\ \A i \in 1..Len(q) : Append(q, u)[i] = q[i]
        /\ Append(q, u) \in Seq(S) /\ Len(Append(q, u)) = Len(q) + 1
    OBVIOUS
  <1>2. 1..Len(q) + 1 = (1..Len(q)) \cup {Len(q) + 1} /\ Len(q) + 1 \notin 1..Len(q)
    BY <1>1
  <1>3. Len(<<>>) = 0 /\ Len(q) + 1 # 0
    BY <1>1
  <1>4. Append(q, u) # <<>>
    BY <1>1, <1>3
  <1> QED BY <1>1, <1>2, <1>4

\* A sequence without its first element.
LEMMA TailOf ==
    ASSUME NEW S, NEW q \in Seq(S), q # <<>>
    PROVE  /\ Len(q) \in Nat /\ Len(q) >= 1 /\ Head(q) = q[1] /\ q[1] \in S
           /\ DOMAIN q = 1..Len(q) /\ 1 \in DOMAIN q
           /\ Tail(q) \in Seq(S) /\ Len(Tail(q)) = Len(q) - 1 /\ DOMAIN Tail(q) = 1..Len(q) - 1
           /\ \A i \in DOMAIN Tail(q) : i + 1 \in DOMAIN q /\ Tail(q)[i] = q[i + 1]
           /\ \A i \in DOMAIN q : i # 1 => i - 1 \in DOMAIN Tail(q) /\ Tail(q)[i - 1] = q[i]
  <1>1. /\ Len(q) \in Nat /\ Len(q) >= 1 /\ DOMAIN q = 1..Len(q) /\ Head(q) = q[1] /\ q[1] \in S
        /\ Tail(q) \in Seq(S) /\ Len(Tail(q)) = Len(q) - 1
        /\ \A i \in 1..Len(q) - 1 : Tail(q)[i] = q[i + 1]
    OBVIOUS
  <1>2. DOMAIN Tail(q) = 1..Len(q) - 1
    BY <1>1
  <1>3. \A i \in 1..Len(q) - 1 : i + 1 \in 1..Len(q)
    BY <1>1
  <1>4. ASSUME NEW i \in 1..Len(q), i # 1
        PROVE  i - 1 \in 1..Len(q) - 1 /\ Tail(q)[i - 1] = q[i]
    <2>1. i - 1 \in 1..Len(q) - 1 /\ (i - 1) + 1 = i
      BY <1>1, <1>4
    <2> QED BY <1>1, <2>1
  <1> QED BY <1>1, <1>2, <1>3, <1>4

-----------------------------------------------------------------------------
(* What the head's operations do to a log. *)

\* m has what l shows, and S; it is as clean, and nothing becomes less visible.
Gains(l, m, S, I) ==
    /\ m \in Logs(I) /\ Clean(m) /\ Shown(m) = Shown(l) \cup S /\ l.unread \subseteq m.unread

\* A record of three fields with the third replaced.
LEMMA WithFifo ==
    ASSUME NEW A, NEW B, NEW C, NEW l \in [last : A, unread : B, fifo : C], NEW q
    PROVE  [l EXCEPT !.fifo = q] = [last |-> l.last, unread |-> l.unread, fifo |-> q]
  OBVIOUS

\* Apply, field by field.
LEMMA ApplyIs ==
    ASSUME NEW I, NEW l \in Logs(I), NEW us
    PROVE  LET m == Apply(l, us)
           IN  /\ m = [last |-> m.last, unread |-> m.unread, fifo |-> m.fifo]
               /\ m.last = IF us = <<>> THEN l.last ELSE us[Len(us)].item
               /\ m.unread = l.unread \cup UNION {us[k].ids : k \in DOMAIN us}
               /\ m.fifo = l.fifo
  <1> DEFINE last == IF us = <<>> THEN l.last ELSE us[Len(us)].item
             unread == l.unread \cup UNION {us[k].ids : k \in DOMAIN us}
  <1>1. Apply(l, us) = [l EXCEPT !.last = last, !.unread = unread]
    BY Zenon DEF Apply
  <1> HIDE DEF last, unread
  <1>2. Apply(l, us) = [last |-> last, unread |-> unread, fifo |-> l.fifo]
    BY <1>1 DEF Logs
  <1> QED BY <1>2 DEF last, unread

\* The same, with another FIFO.
LEMMA FifoIs ==
    ASSUME NEW I, NEW l \in Logs(I), NEW us, NEW q
    PROVE  LET a == Apply(l, us)
               m == [a EXCEPT !.fifo = q]
           IN  /\ m = [last |-> a.last, unread |-> a.unread, fifo |-> q]
               /\ m.last = a.last /\ m.unread = a.unread /\ m.fifo = q
  <1> DEFINE a == Apply(l, us)
  <1>1. a = [last |-> a.last, unread |-> a.unread, fifo |-> a.fifo]
    BY ApplyIs, Zenon
  <1> HIDE DEF a
  <1>2. [a EXCEPT !.fifo = q] = [last |-> a.last, unread |-> a.unread, fifo |-> q]
    BY <1>1
  <1>3. /\ [a EXCEPT !.fifo = q].last = a.last /\ [a EXCEPT !.fifo = q].unread = a.unread
        /\ [a EXCEPT !.fifo = q].fifo = q
    BY <1>2
  <1> QED BY <1>2, <1>3 DEF a

\* A log is its three fields.
LEMMA IsALog ==
    ASSUME NEW I, NEW A \in Items \cup {"none"}, NEW B \in SUBSET I, NEW q \in Seq(Units(I))
    PROVE  [last |-> A, unread |-> B, fifo |-> q] \in Logs(I)
  BY DEF Logs

\* Nothing in flight, nothing to show twice.
LEMMA EmptyFlight ==
    ASSUME NEW l, l.fifo = <<>>
    PROVE  Flight(l) = {} /\ Shown(l) = l.unread /\ Clean(l) /\ Final(l) = l.last
  <1>1. DOMAIN l.fifo = {}
    OBVIOUS
  <1>2. Flight(l) = {}
    BY <1>1, InFlightOf
  <1> QED BY <1>1, <1>2 DEF Shown, Clean, Final

\* Pipeline::drain shows what was in flight, and no more.
LEMMA DrainGains ==
    ASSUME NEW I, NEW l \in Logs(I), Clean(l)
    PROVE  /\ Gains(l, Drain(l), {}, I)
           /\ Drain(l).fifo = <<>> /\ Drain(l).last = Final(l)
  <1>1. /\ l.fifo \in Seq(Units(I)) /\ l.unread \in SUBSET I /\ l.last \in Items \cup {"none"}
        /\ \A k \in DOMAIN l.fifo : l.fifo[k] \in Units(I)
    BY DEF Logs
  <1>2. Flight(l) \subseteq I
    BY <1>1, InFlightOf DEF Units
  <1>3. Apply(l, l.fifo).last = Final(l) /\ Apply(l, l.fifo).unread = l.unread \cup Flight(l)
    BY ApplyIs, Zenon DEF Final, Flight
  <1>4. /\ Drain(l) = [last |-> Final(l), unread |-> l.unread \cup Flight(l), fifo |-> <<>>]
        /\ Drain(l).last = Final(l) /\ Drain(l).unread = l.unread \cup Flight(l)
        /\ Drain(l).fifo = <<>>
    <2>1. /\ Drain(l) = [last |-> Apply(l, l.fifo).last, unread |-> Apply(l, l.fifo).unread,
                         fifo |-> <<>>]
          /\ Drain(l).last = Apply(l, l.fifo).last
          /\ Drain(l).unread = Apply(l, l.fifo).unread
          /\ Drain(l).fifo = <<>>
      BY FifoIs DEF Drain
    <2> QED BY <1>3, <2>1, Zenon
  <1>5. Final(l) \in Items \cup {"none"}
    <2>1. CASE l.fifo = <<>>
      BY <1>1, <2>1 DEF Final
    <2>2. CASE l.fifo # <<>>
      BY <1>1, <2>2 DEF Final, Units
    <2> QED BY <2>1, <2>2
  <1>6. Drain(l) \in Logs(I)
    <2>1. <<>> \in Seq(Units(I)) /\ l.unread \cup Flight(l) \in SUBSET I
      BY <1>1, <1>2
    <2>2. [last |-> Final(l), unread |-> l.unread \cup Flight(l), fifo |-> <<>>] \in Logs(I)
      BY <2>1, <1>5, IsALog, Zenon
    <2> QED BY <2>2, <1>4, Zenon
  <1>7. Shown(Drain(l)) = Drain(l).unread /\ Clean(Drain(l))
    BY <1>4, EmptyFlight
  <1> QED BY <1>4, <1>6, <1>7 DEF Gains, Shown

\* An append drains, and shows its own inputs behind that.
LEMMA LandGains ==
    ASSUME NEW I, NEW l \in Logs(I), Clean(l), NEW item \in Items, NEW ids \in SUBSET I
    PROVE  /\ Gains(l, Land(l, item, ids), ids, I)
           /\ Land(l, item, ids).fifo = <<>> /\ Land(l, item, ids).last = item
  <1> DEFINE d == Drain(l)
             u == [item |-> item, ids |-> ids]
             m == Land(l, item, ids)
  <1>1. /\ d \in Logs(I) /\ Shown(d) = Shown(l) /\ d.fifo = <<>> /\ l.unread \subseteq d.unread
        /\ d.unread \in SUBSET I
    BY DrainGains DEF Gains, Logs
  <1>2. Len(<<u>>) = 1 /\ <<u>>[1] = u /\ <<u>> # <<>> /\ DOMAIN <<u>> = {1}
    OBVIOUS
  <1>3. UNION {<<u>>[k].ids : k \in DOMAIN <<u>>} = ids
    BY <1>2
  <1>4. m.last = item /\ m.unread = d.unread \cup ids /\ m.fifo = <<>>
    <2>1. /\ Apply(d, <<u>>).last = <<u>>[Len(<<u>>)].item
          /\ Apply(d, <<u>>).unread = d.unread \cup UNION {<<u>>[k].ids : k \in DOMAIN <<u>>}
          /\ Apply(d, <<u>>).fifo = <<>>
      BY <1>1, <1>2, ApplyIs, Zenon
    <2>2. u.item = item
      OBVIOUS
    <2> QED BY <1>2, <1>3, <2>1, <2>2, Zenon DEF Land
  <1>5. d.unread = Shown(l)
    BY <1>1, EmptyFlight
  <1>6. Shown(m) = m.unread /\ Clean(m)
    BY <1>4, EmptyFlight
  <1>7. m \in Logs(I)
    <2>1. m = Apply(d, <<u>>)
      BY DEF Land
    <2>2. d.fifo \in Seq(Units(I)) /\ item \in Items \cup {"none"} /\ d.unread \cup ids \in SUBSET I
      BY <1>1
    <2>3. m = [last |-> m.last, unread |-> m.unread, fifo |-> m.fifo]
      BY <1>1, <2>1, ApplyIs
    <2>4. [last |-> item, unread |-> d.unread \cup ids, fifo |-> <<>>] \in Logs(I)
      BY <1>1, <2>2, IsALog, Zenon
    <2> QED BY <1>4, <2>3, <2>4, Zenon
  <1> QED BY <1>1, <1>4, <1>5, <1>6, <1>7 DEF Gains

\* A forwarded unit puts its inputs in flight.
LEMMA ForwardGains ==
    ASSUME NEW I, NEW l \in Logs(I), Clean(l), NEW item \in Items,
           NEW ids \in SUBSET I, ids \cap Shown(l) = {}
    PROVE  /\ Gains(l, Forward(l, item, ids), ids, I)
           /\ Final(Forward(l, item, ids)) = item
           /\ Forward(l, item, ids).fifo # <<>> /\ Forward(l, item, ids).unread = l.unread
  <1> DEFINE u == [item |-> item, ids |-> ids]
             m == Forward(l, item, ids)
             n == Len(l.fifo) + 1
  <1>1. l.fifo \in Seq(Units(I)) /\ u \in Units(I)
    BY DEF Logs, Units
  <1>2. m = [last |-> l.last, unread |-> l.unread, fifo |-> Append(l.fifo, u)]
    <2>1. m = [l EXCEPT !.fifo = Append(l.fifo, u)]
      BY DEF Forward
    <2> HIDE DEF m, u
    <2>2. l \in [last : Items \cup {"none"}, unread : SUBSET I, fifo : Seq(Units(I))]
      BY DEF Logs
    <2> QED BY <2>1, <2>2, WithFifo
  <1>3. /\ m.fifo \in Seq(Units(I)) /\ m.fifo # <<>> /\ Len(m.fifo) = n
        /\ DOMAIN m.fifo = DOMAIN l.fifo \cup {n} /\ n \notin DOMAIN l.fifo
        /\ m.fifo[n] = u /\ \A i \in DOMAIN l.fifo : m.fifo[i] = l.fifo[i]
    BY <1>1, <1>2, AppendFacts
  <1>4. m \in Logs(I)
    BY <1>2, <1>3 DEF Logs
  <1>5. Flight(m) = Flight(l) \cup ids
    <2>1. \A x : x \in Flight(m) <=> x \in Flight(l) \cup ids
      BY <1>3, InFlightOf
    <2> QED BY <2>1
  <1>6. ids \cap l.unread = {} /\ \A k \in DOMAIN l.fifo : l.fifo[k].ids \cap ids = {}
    BY InFlightOf DEF Shown
  <1>7. m.unread = l.unread /\ m.fifo[n].ids = ids
    BY <1>2, <1>3
  <1> HIDE DEF m, n
  <1>8. Flight(m) \cap m.unread = {}
    BY <1>5, <1>6, <1>7 DEF Clean
  <1>9. \A j, k \in DOMAIN m.fifo : j # k => m.fifo[j].ids \cap m.fifo[k].ids = {}
    BY <1>3, <1>6, <1>7 DEF Clean
  <1>10. Shown(m) = Shown(l) \cup ids
    BY <1>5, <1>7 DEF Shown
  <1>11. Final(m) = item
    BY <1>3 DEF Final
  <1> QED BY <1>3, <1>4, <1>7, <1>8, <1>9, <1>10, <1>11 DEF Gains, Clean, m

\* The head of the FIFO, applied (apply_ack).
Acked(l) == [Apply(l, <<Head(l.fifo)>>) EXCEPT !.fifo = Tail(@)]

\* An ack moves one unit's inputs from in flight to the projection.
LEMMA AckGains ==
    ASSUME NEW I, NEW l \in Logs(I), Clean(l), l.fifo # <<>>
    PROVE  /\ Gains(l, Acked(l), {}, I)
           /\ Final(Acked(l)) = Final(l) /\ Acked(l).fifo = Tail(l.fifo)
  <1> DEFINE h == Head(l.fifo)
             a == Apply(l, <<h>>)
             t == Tail(l.fifo)
             m == Acked(l)
  <1>1. /\ l.fifo \in Seq(Units(I)) /\ l.unread \in SUBSET I
        /\ h = l.fifo[1] /\ h \in Units(I) /\ h.ids \in SUBSET I /\ h.item \in Items
        /\ t \in Seq(Units(I))
    <2>1. l.fifo \in Seq(Units(I)) /\ l.unread \in SUBSET I
      BY DEF Logs
    <2>2. h = l.fifo[1] /\ h \in Units(I) /\ t \in Seq(Units(I))
      BY <2>1, TailOf
    <2> QED BY <2>1, <2>2 DEF Units
  <1>2. Len(<<h>>) = 1 /\ <<h>>[1] = h /\ <<h>> # <<>> /\ DOMAIN <<h>> = {1}
    OBVIOUS
  <1>3. UNION {<<h>>[k].ids : k \in DOMAIN <<h>>} = h.ids
    BY <1>2
  <1>4. a.last = h.item /\ a.unread = l.unread \cup h.ids /\ a.fifo = l.fifo
    <2>1. /\ a.last = <<h>>[Len(<<h>>)].item /\ a.fifo = l.fifo
          /\ a.unread = l.unread \cup UNION {<<h>>[k].ids : k \in DOMAIN <<h>>}
      BY <1>2, ApplyIs, Zenon
    <2> QED BY <1>2, <1>3, <2>1, Zenon
  <1>5. m = [a EXCEPT !.fifo = t]
    BY <1>4, Zenon DEF Acked
  <1>6. /\ m.last = h.item /\ m.unread = l.unread \cup h.ids /\ m.fifo = t
        /\ m = [last |-> h.item, unread |-> l.unread \cup h.ids, fifo |-> t]
    <2> DEFINE b == [a EXCEPT !.fifo = t]
    <2> HIDE DEF h, t
    <2>1. /\ b.last = a.last /\ b.unread = a.unread /\ b.fifo = t
          /\ b = [last |-> a.last, unread |-> a.unread, fifo |-> t]
      BY FifoIs
    <2> QED BY <1>4, <1>5, <2>1, Zenon
  <1>7. m \in Logs(I)
    <2>1. h.item \in Items \cup {"none"} /\ l.unread \cup h.ids \in SUBSET I
      BY <1>1
    <2>2. [last |-> h.item, unread |-> l.unread \cup h.ids, fifo |-> t] \in Logs(I)
      BY <1>1, <2>1, IsALog, Zenon
    <2> QED BY <1>6, <2>2, Zenon
  <1>8. /\ DOMAIN t = 1..Len(l.fifo) - 1 /\ 1 \in DOMAIN l.fifo /\ Len(l.fifo) \in Nat
        /\ \A i \in DOMAIN t : i + 1 \in DOMAIN l.fifo /\ t[i] = l.fifo[i + 1]
        /\ \A i \in DOMAIN l.fifo : i # 1 => i - 1 \in DOMAIN t /\ t[i - 1] = l.fifo[i]
        /\ DOMAIN l.fifo = 1..Len(l.fifo) /\ Len(t) = Len(l.fifo) - 1
    BY <1>1, TailOf
  <1> HIDE DEF h, a, t, m
  <1>9. \A x : x \in Flight(l) <=> x \in Flight(m) \/ x \in h.ids
    <2>1. \A x : (\E k \in DOMAIN l.fifo : x \in l.fifo[k].ids)
                 <=> (\E k \in DOMAIN t : x \in t[k].ids) \/ x \in h.ids
      BY <1>1, <1>8
    <2> QED BY <1>6, <2>1, InFlightOf, Zenon
  <1>10. \A j, k \in DOMAIN m.fifo : j # k => m.fifo[j].ids \cap m.fifo[k].ids = {}
    <2> SUFFICES ASSUME NEW j \in DOMAIN t, NEW k \in DOMAIN t, j # k
                 PROVE  t[j].ids \cap t[k].ids = {}
      BY <1>6
    <2>1. j + 1 \in DOMAIN l.fifo /\ k + 1 \in DOMAIN l.fifo /\ j + 1 # k + 1
      BY <1>8
    <2> QED BY <1>8, <2>1 DEF Clean
  <1>11. Flight(m) \cap h.ids = {}
    <2>1. \A k \in DOMAIN t : t[k].ids \cap h.ids = {}
      <3> SUFFICES ASSUME NEW k \in DOMAIN t PROVE t[k].ids \cap h.ids = {}
        OBVIOUS
      <3>1. k + 1 \in DOMAIN l.fifo /\ k + 1 # 1 /\ 1 \in DOMAIN l.fifo
        BY <1>8
      <3> QED BY <1>1, <1>8, <3>1 DEF Clean
    <2> QED BY <1>6, <2>1, InFlightOf
  <1>12. Clean(m)
    <2>1. Flight(m) \cap m.unread = {}
      BY <1>6, <1>9, <1>11 DEF Clean
    <2> QED BY <1>10, <2>1 DEF Clean
  <1>13. Shown(m) = Shown(l) /\ l.unread \subseteq m.unread
    BY <1>6, <1>9 DEF Shown
  <1>14. Final(m) = Final(l)
    <2>1. CASE t = <<>>
      <3>1. Len(l.fifo) = 1
        BY <1>8, <2>1
      <3> QED BY <1>1, <1>6, <2>1, <3>1 DEF Final
    <2>2. CASE t # <<>>
      <3>1. Len(t) \in DOMAIN t /\ Len(t) + 1 = Len(l.fifo)
        BY <1>1, <1>8, <2>2
      <3>2. t[Len(t)] = l.fifo[Len(l.fifo)]
        BY <1>8, <3>1
      <3> QED BY <1>6, <2>2, <3>2, Zenon DEF Final
    <2> QED BY <2>1, <2>2
  <1> QED BY <1>6, <1>7, <1>12, <1>13, <1>14 DEF Gains, t, m

\* What is held lands behind l, unless l ends on an open batch.
LEMMA ReleaseGains ==
    ASSUME InputTypes, NEW l \in Logs(Ids), Clean(l)
    PROVE  /\ Releases(l) => /\ Gains(l, Release(l), IdsOf(held), Ids)
                             /\ Final(Release(l)) = "user" /\ Release(l).fifo = <<>>
                             /\ StillHeld(l) = <<>>
           /\ ~Releases(l) => Release(l) = l /\ StillHeld(l) = held
  <1>1. IdsOf(held) \in SUBSET Ids /\ "user" \in Items
    BY DEF InputTypes, IdsOf, Items
  <1>2. LET m == Land(l, "user", IdsOf(held))
        IN  Gains(l, m, IdsOf(held), Ids) /\ m.fifo = <<>> /\ m.last = "user"
    BY <1>1, LandGains
  <1> QED BY <1>2 DEF Release, StillHeld, Final

-----------------------------------------------------------------------------
(* What a step does to the inputs. *)

\* A larger set of inputs.
LEMMA MoreIds ==
    ASSUME NEW I, NEW J, I \subseteq J
    PROVE  /\ Logs(I) \subseteq Logs(J)
           /\ Seq(I) \subseteq Seq(J) /\ Seq(SUBSET I) \subseteq Seq(SUBSET J)
  <1>1. Seq(I) \subseteq Seq(J)
    OBVIOUS
  <1>2. SUBSET I \subseteq SUBSET J
    OBVIOUS
  <1>3. Seq(SUBSET I) \subseteq Seq(SUBSET J)
    BY <1>2
  <1>4. Units(I) \subseteq Units(J)
    BY DEF Units
  <1>5. Seq(Units(I)) \subseteq Seq(Units(J))
    BY <1>4
  <1>6. Logs(I) \subseteq Logs(J)
    BY <1>5 DEF Logs
  <1> QED BY <1>1, <1>3, <1>6

\* An arrival is numbered one past the inputs before it.
LEMMA Arrival ==
    ASSUME InputTypes, NEW kind \in Kinds, Arrive(kind)
    PROVE  /\ inputs' \in Seq(Kinds) /\ Ids \subseteq Nat
           /\ Ids' = Ids \cup {New} /\ New \notin Ids /\ \A i \in Ids : i < New
           /\ inputs'[New] = kind /\ \A i \in Ids : inputs'[i] = inputs[i]
  <1>1. inputs \in Seq(Kinds) /\ inputs' = Append(inputs, kind)
    BY DEF InputTypes, Arrive
  <1>2. /\ Len(inputs) \in Nat /\ DOMAIN inputs = 1..Len(inputs)
        /\ inputs' \in Seq(Kinds) /\ Len(inputs') = Len(inputs) + 1
        /\ inputs'[Len(inputs) + 1] = kind
        /\ \A i \in 1..Len(inputs) : inputs'[i] = inputs[i]
    BY <1>1, AppendFacts
  <1>3. 1..Len(inputs) + 1 = (1..Len(inputs)) \cup {Len(inputs) + 1}
    BY <1>2
  <1> QED BY <1>2, <1>3 DEF Ids, New

\* Past the cap of the queue as below it, a prompt goes behind what is queued.
LEMMA QueuedUp ==
    ASSUME NEW I, queue \in Seq(SUBSET I), Len(queue) <= QueueMax, Sorted(queue),
           NEW ids \in SUBSET I, \A x \in InQueue, y \in ids : x < y
    PROVE  /\ Queued(ids) \in Seq(SUBSET I) /\ Len(Queued(ids)) <= QueueMax
           /\ UNION IdsOf(Queued(ids)) = InQueue \cup ids
           /\ Sorted(Queued(ids))
  <1> DEFINE n == Len(queue)
             q == Queued(ids)
  <1>1. n \in Nat /\ DOMAIN queue = 1..n /\ QueueMax \in Nat /\ QueueMax # 0
    BY ActorBounds
  <1>2. \A k \in DOMAIN queue : \A x \in queue[k], y \in ids : x < y
    BY InUnion DEF InQueue
  <1>3. CASE n >= QueueMax
    <2>1. q = [queue EXCEPT ![n] = @ \cup ids] /\ n \in DOMAIN queue
      BY <1>1, <1>3 DEF Queued
    <2>2. q \in Seq(SUBSET I) /\ Len(q) = n /\ DOMAIN q = DOMAIN queue
      BY <1>1, <2>1
    <2>3. q[n] = queue[n] \cup ids /\ \A k \in DOMAIN queue : k # n => q[k] = queue[k]
      BY <2>1
    <2> HIDE DEF q
    <2>4. \A x : x \in UNION IdsOf(q) <=> x \in InQueue \cup ids
      BY <2>1, <2>2, <2>3, InUnion DEF InQueue
    <2>5. Sorted(q)
      <3> SUFFICES ASSUME NEW j \in DOMAIN queue, NEW k \in DOMAIN queue, j < k,
                          NEW x \in q[j], NEW y \in q[k]
                   PROVE  x < y
        BY <2>2 DEF Sorted
      <3>1. j # n
        BY <1>1
      <3>2. x \in queue[j] /\ (y \in queue[k] \/ y \in ids)
        BY <2>3, <3>1
      <3> QED BY <1>2, <3>2 DEF Sorted
    <2> QED BY <2>2, <2>4, <2>5 DEF q
  <1>4. CASE ~(n >= QueueMax)
    <2>1. q = Append(queue, ids)
      BY <1>4 DEF Queued
    <2>2. /\ q \in Seq(SUBSET I) /\ Len(q) = n + 1 /\ DOMAIN q = DOMAIN queue \cup {n + 1}
          /\ q[n + 1] = ids /\ \A k \in DOMAIN queue : q[k] = queue[k]
      BY <2>1, AppendFacts
    <2>3. n + 1 <= QueueMax
      BY <1>1, <1>4
    <2> HIDE DEF q
    <2>4. \A x : x \in UNION IdsOf(q) <=> x \in InQueue \cup ids
      BY <2>2, InUnion DEF InQueue
    <2>5. Sorted(q)
      <3> SUFFICES ASSUME NEW j \in DOMAIN q, NEW k \in DOMAIN q, j < k,
                          NEW x \in q[j], NEW y \in q[k]
                   PROVE  x < y
        BY DEF Sorted
      <3>1. j \in DOMAIN queue
        BY <1>1, <2>2
      <3>2. x \in queue[j]
        BY <2>2, <3>1
      <3>3. CASE k \in DOMAIN queue
        <4>1. y \in queue[k]
          BY <2>2, <3>3
        <4> QED BY <3>1, <3>2, <3>3, <4>1 DEF Sorted
      <3>4. CASE k = n + 1
        BY <1>2, <2>2, <3>1, <3>2, <3>4
      <3> QED BY <2>2, <3>3, <3>4
    <2> QED BY <2>2, <2>3, <2>4, <2>5 DEF q
  <1> QED BY <1>3, <1>4

\* The accounting, as the step lemmas use it.
Books == InputTypes /\ Accounted /\ InOrder

\* A sample that is dispatched sees what the log shows.
Seen == turn'.at = "sampling" => turn' = turn \/ turn'.sees = log.unread

\* What a dispatched sample was built from stays visible until it completes.
LEMMA SeenStays ==
    ASSUME Accounted, Seen, log.unread \subseteq log'.unread
    PROVE  turn'.at = "sampling" => turn'.sees \subseteq log'.unread
  <1> SUFFICES ASSUME turn'.at = "sampling" PROVE turn'.sees \subseteq log'.unread
    OBVIOUS
  <1>1. CASE turn' = turn
    BY <1>1 DEF Accounted
  <1>2. CASE turn'.sees = log.unread
    BY <1>2
  <1> QED BY <1>1, <1>2 DEF Seen

\* The log changes its form, or drains: no input changes its place.
LEMMA Shifts ==
    ASSUME Books, UNCHANGED <<inputs, queue, held, read>>, Gains(log, log', {}, Ids),
           sampled' \subseteq Ids, Seen
    PROVE  Books'
  <1>1. Ids' = Ids /\ InQueue' = InQueue /\ Shown(log') = Shown(log)
    BY DEF Ids, InQueue, Gains
  <1>2. InputTypes'
    BY <1>1 DEF Books, InputTypes, Gains
  <1>3. Accounted'
    BY <1>1, SeenStays DEF Books, Accounted, Gains
  <1>4. InOrder'
    BY <1>1 DEF Books, InOrder
  <1> QED BY <1>2, <1>3, <1>4 DEF Books

\* A prompt is queued.
LEMMA Queues ==
    ASSUME Books, Arrive("prompt"), queue' = Queued({New}),
           UNCHANGED <<held, log, read, sampled, turn>>
    PROVE  Books'
  <1>1. /\ inputs' \in Seq(Kinds) /\ Ids' = Ids \cup {New} /\ New \notin Ids
        /\ \A i \in Ids : i < New
        /\ inputs'[New] = "prompt" /\ \A i \in Ids : inputs'[i] = inputs[i]
    BY Arrival DEF Books, Kinds
  <1>2. InQueue \subseteq Ids /\ IdsOf(held) \subseteq Ids /\ Shown(log) \cup read \subseteq Ids
    BY DEF Books, Accounted, Split
  <1>3. /\ queue' \in Seq(SUBSET Ids') /\ Len(queue') <= QueueMax
        /\ InQueue' = InQueue \cup {New} /\ Sorted(queue')
    <2>1. queue \in Seq(SUBSET Ids') /\ Len(queue) <= QueueMax
      BY <1>1, MoreIds DEF Books, InputTypes
    <2>2. {New} \in SUBSET Ids' /\ \A x \in InQueue, y \in {New} : x < y
      BY <1>1, <1>2
    <2>3. Sorted(queue)
      BY DEF Books, InOrder
    <2>4. InQueue' = UNION IdsOf(Queued({New}))
      BY DEF InQueue
    <2> QED BY <2>1, <2>2, <2>3, <2>4, QueuedUp
  <1>4. InputTypes'
    BY <1>1, <1>3, MoreIds DEF Books, InputTypes
  <1>5. Accounted'
    BY <1>1, <1>2, <1>3 DEF Books, Accounted, Split
  <1>6. InOrder'
    <2>1. \A x \in InQueue', y \in Shown(log) \cup read : inputs'[y] = "prompt" => y < x
      BY <1>1, <1>2, <1>3 DEF Books, InOrder
    <2>2. \A x \in IdsOf(held) : inputs'[x] # "prompt"
      BY <1>1, <1>2 DEF Books, InOrder
    <2> QED BY <1>3, <2>1, <2>2 DEF InOrder
  <1> QED BY <1>4, <1>5, <1>6 DEF Books

\* A steer or a notification is held.
LEMMA Holds ==
    ASSUME Books, NEW kind \in Kinds \ {"prompt"}, Arrive(kind), held' = Append(held, New),
           UNCHANGED <<queue, log, read, sampled, turn>>
    PROVE  Books'
  <1>1. /\ inputs' \in Seq(Kinds) /\ Ids' = Ids \cup {New} /\ New \notin Ids
        /\ inputs'[New] = kind /\ \A i \in Ids : inputs'[i] = inputs[i]
    BY Arrival DEF Books
  <1>2. InQueue \subseteq Ids /\ IdsOf(held) \subseteq Ids /\ Shown(log) \cup read \subseteq Ids
    BY DEF Books, Accounted, Split
  <1>3. held' \in Seq(Ids') /\ IdsOf(held') = IdsOf(held) \cup {New}
    <2>1. held \in Seq(Ids')
      BY <1>1, MoreIds DEF Books, InputTypes
    <2> QED BY <1>1, <2>1, AppendFacts DEF IdsOf
  <1>4. InQueue' = InQueue
    BY DEF InQueue
  <1>5. InputTypes'
    BY <1>1, <1>3, MoreIds DEF Books, InputTypes
  <1>6. Accounted'
    BY <1>1, <1>2, <1>3, <1>4 DEF Books, Accounted, Split
  <1>7. InOrder'
    BY <1>1, <1>2, <1>3, <1>4 DEF Books, InOrder
  <1> QED BY <1>5, <1>6, <1>7 DEF Books

\* An input goes to the log at once; a prompt only if none is queued.
LEMMA Lands ==
    ASSUME Books, NEW kind \in Kinds, Arrive(kind), kind = "prompt" => queue = <<>>,
           Gains(log, log', {New}, Ids'), UNCHANGED <<queue, held, read, sampled>>, Seen
    PROVE  Books'
  <1>1. /\ inputs' \in Seq(Kinds) /\ Ids' = Ids \cup {New} /\ New \notin Ids
        /\ inputs'[New] = kind /\ \A i \in Ids : inputs'[i] = inputs[i]
    BY Arrival DEF Books
  <1>2. InQueue \subseteq Ids /\ IdsOf(held) \subseteq Ids /\ Shown(log) \cup read \subseteq Ids
    BY DEF Books, Accounted, Split
  <1>3. InQueue' = InQueue /\ (kind = "prompt" => InQueue = {})
    <2>1. DOMAIN <<>> = {}
      OBVIOUS
    <2>2. queue = <<>> => InQueue = {}
      BY <2>1, InUnion DEF InQueue
    <2> QED BY <2>2 DEF InQueue
  <1>4. InputTypes'
    BY <1>1, MoreIds DEF Books, InputTypes, Gains
  <1>5. Accounted'
    <2>1. Split(Ids', InQueue', IdsOf(held'), Shown(log'), read')
      BY <1>1, <1>2, <1>3 DEF Books, Accounted, Split, Gains
    <2> QED BY <2>1, SeenStays DEF Books, Accounted, Gains
  <1>6. InOrder'
    <2>1. \A x \in InQueue, y \in Shown(log') \cup read : inputs'[y] = "prompt" => y < x
      BY <1>1, <1>2, <1>3 DEF Books, InOrder, Gains
    <2>2. \A x \in IdsOf(held) : inputs'[x] # "prompt"
      BY <1>1, <1>2 DEF Books, InOrder
    <2> QED BY <1>3, <2>1, <2>2 DEF Books, InOrder
  <1> QED BY <1>4, <1>5, <1>6 DEF Books

\* What is held lands in the log, if the log lets it.
LEMMA Releasing ==
    ASSUME Books, UNCHANGED <<inputs, queue, read, sampled>>, Seen,
           NEW l, Gains(log, l, {}, Ids), log' = Release(l), held' = StillHeld(l)
    PROVE  Books'
  <1>1. Ids' = Ids /\ InQueue' = InQueue /\ l \in Logs(Ids) /\ Clean(l)
    BY DEF Ids, InQueue, Gains
  <1>2. CASE ~Releases(l)
    BY <1>1, <1>2, ReleaseGains, Shifts DEF Books, InputTypes
  <1>3. CASE Releases(l)
    <2>1. /\ Gains(log, log', IdsOf(held), Ids) /\ held' = <<>>
      BY <1>1, <1>3, ReleaseGains DEF Books, Gains
    <2>2. IdsOf(held') = {} /\ held' \in Seq(Ids)
      BY <2>1 DEF IdsOf
    <2>3. InputTypes'
      BY <1>1, <2>1, <2>2 DEF Books, InputTypes, Gains
    <2>4. Accounted'
      <3>1. Split(Ids', InQueue', IdsOf(held'), Shown(log'), read')
        BY <1>1, <2>1, <2>2 DEF Books, Accounted, Split, Gains
      <3> QED BY <2>1, <3>1, SeenStays DEF Books, Accounted, Gains
    <2>5. InOrder'
      BY <1>1, <2>1, <2>2 DEF Books, InOrder, Gains
    <2> QED BY <2>3, <2>4, <2>5 DEF Books
  <1> QED BY <1>2, <1>3

\* The next queued entry goes to the log.
LEMMA Promotes ==
    ASSUME Books, queue # <<>>, queue' = Tail(queue), UNCHANGED <<inputs, held, read, sampled>>,
           Gains(log, log', Head(queue), Ids), Seen
    PROVE  Books'
  <1>1. Ids' = Ids /\ Ids \subseteq Nat
    BY DEF Ids, Books, InputTypes
  <1>2. /\ queue' \in Seq(SUBSET Ids) /\ Len(queue') = Len(queue) - 1 /\ Len(queue) \in Nat
        /\ Head(queue) = queue[1] /\ 1 \in DOMAIN queue
        /\ DOMAIN queue = 1..Len(queue) /\ DOMAIN queue' = 1..Len(queue) - 1
        /\ \A i \in DOMAIN queue' : i + 1 \in DOMAIN queue /\ queue'[i] = queue[i + 1]
        /\ \A i \in DOMAIN queue : i # 1 => i - 1 \in DOMAIN queue' /\ queue'[i - 1] = queue[i]
    BY TailOf DEF Books, InputTypes
  <1>3. \A x : x \in InQueue <=> x \in InQueue' \/ x \in Head(queue)
    <2>1. \A x : (\E k \in DOMAIN queue : x \in queue[k])
                 <=> (\E k \in DOMAIN queue' : x \in queue'[k]) \/ x \in Head(queue)
      BY <1>2
    <2> QED BY <2>1, InUnion DEF InQueue
  <1>4. \A x \in InQueue', y \in Head(queue) : y < x
    <2>1. \A k \in DOMAIN queue' : \A x \in queue'[k], y \in queue[1] : y < x
      <3> SUFFICES ASSUME NEW k \in DOMAIN queue', NEW x \in queue'[k], NEW y \in queue[1]
                   PROVE  y < x
        OBVIOUS
      <3>1. k + 1 \in DOMAIN queue /\ x \in queue[k + 1] /\ 1 < k + 1
        BY <1>2
      <3> QED BY <1>2, <3>1 DEF Books, InOrder, Sorted
    <2> QED BY <1>2, <2>1, InUnion DEF InQueue
  <1>5. InQueue \subseteq Ids
    BY DEF Books, Accounted, Split
  <1>6. InQueue' \cap Head(queue) = {}
    <2> SUFFICES ASSUME NEW x \in InQueue', x \in Head(queue) PROVE FALSE
      OBVIOUS
    <2>1. x \in Nat /\ x < x
      BY <1>1, <1>3, <1>4, <1>5
    <2> QED BY <2>1
  <1>7. Sorted(queue')
    <2> SUFFICES ASSUME NEW j \in DOMAIN queue', NEW k \in DOMAIN queue', j < k,
                        NEW x \in queue'[j], NEW y \in queue'[k]
                 PROVE  x < y
      BY DEF Sorted
    <2>1. /\ j + 1 \in DOMAIN queue /\ k + 1 \in DOMAIN queue /\ j + 1 < k + 1
          /\ x \in queue[j + 1] /\ y \in queue[k + 1]
      BY <1>2
    <2> QED BY <2>1 DEF Books, InOrder, Sorted
  <1>8. InputTypes'
    <2>1. InputTypes /\ log' \in Logs(Ids')
      BY <1>1 DEF Books, Gains
    <2>2. queue' \in Seq(SUBSET Ids') /\ Len(queue') <= QueueMax
      BY <1>1, <1>2, <2>1, ActorBounds DEF InputTypes
    <2>3. /\ inputs' \in Seq(Kinds) /\ held' \in Seq(Ids')
          /\ read' \subseteq Ids' /\ sampled' \subseteq Ids'
      BY <1>1, <2>1 DEF InputTypes
    <2> QED BY <2>1, <2>2, <2>3 DEF InputTypes
  <1>9. Accounted'
    <2>1. Split(Ids', InQueue', IdsOf(held'), Shown(log'), read')
      BY <1>1, <1>3, <1>6 DEF Books, Accounted, Split, Gains
    <2> QED BY <2>1, SeenStays DEF Books, Accounted, Gains
  <1>10. InOrder'
    <2>1. \A x \in InQueue', y \in Shown(log') \cup read' : inputs[y] = "prompt" => y < x
      BY <1>3, <1>4 DEF Books, InOrder, Gains
    <2> QED BY <1>7, <2>1 DEF Books, InOrder
  <1> QED BY <1>8, <1>9, <1>10 DEF Books

\* A sample completes: what it was built from is read.
LEMMA Completing ==
    ASSUME Books, NEW item \in Items, Completes(item), turn'.at # "sampling",
           UNCHANGED <<inputs, queue, held>>
    PROVE  Books'
  <1> DEFINE l == [log EXCEPT !.unread = @ \ turn.sees]
  <1>1. /\ turn.sees \subseteq log.unread /\ log \in Logs(Ids) /\ Clean(log)
        /\ log' = Forward(l, item, {}) /\ read' = read \cup turn.sees /\ sampled' = sampled
    BY DEF Books, Accounted, InputTypes, Completes, TurnAt
  <1>2. /\ l.unread = log.unread \ turn.sees /\ l.fifo = log.fifo /\ l.last = log.last
        /\ l \in Logs(Ids)
    BY <1>1 DEF Logs
  <1>3. Flight(l) = Flight(log) /\ Clean(l)
    BY <1>1, <1>2 DEF Flight, Clean
  <1>4. Shown(l) \cup turn.sees = Shown(log) /\ Shown(l) \cap turn.sees = {}
    BY <1>1, <1>2, <1>3 DEF Shown, Clean
  <1> HIDE DEF l
  <1>5. Gains(l, log', {}, Ids)
    BY <1>1, <1>2, <1>3, ForwardGains
  <1>6. Ids' = Ids /\ InQueue' = InQueue
    BY DEF Ids, InQueue
  <1>7. turn.sees \subseteq Ids
    BY <1>1 DEF Logs
  <1>8. InputTypes'
    BY <1>1, <1>5, <1>6, <1>7 DEF Books, InputTypes, Gains
  <1>9. Accounted'
    <2>1. Split(Ids', InQueue', IdsOf(held'), Shown(log'), read')
      BY <1>1, <1>4, <1>5, <1>6 DEF Books, Accounted, Split, Gains
    <2> QED BY <1>5, <2>1 DEF Accounted, Gains
  <1>10. InOrder'
    BY <1>1, <1>4, <1>5, <1>6 DEF Books, InOrder, Gains
  <1> QED BY <1>8, <1>9, <1>10 DEF Books

\* The log drains, gets an item that shows no input, or stays.
LEMMA NothingGained ==
    ASSUME Books,
           log' = log \/ log' = Drain(log) \/ \E item \in Items : log' = Forward(log, item, {})
    PROVE  Gains(log, log', {}, Ids)
  <1>1. log \in Logs(Ids) /\ Clean(log)
    BY DEF Books, InputTypes, Accounted
  <1>2. Gains(log, log, {}, Ids)
    BY <1>1 DEF Gains
  <1>3. Gains(log, Drain(log), {}, Ids)
    BY <1>1, DrainGains
  <1>4. ASSUME NEW item \in Items
        PROVE  Gains(log, Forward(log, item, {}), {}, Ids)
    BY <1>1, ForwardGains
  <1> QED BY <1>2, <1>3, <1>4

\* start_turn: what a turn begins with rides the pipeline, or lands.
LEMMA Begins ==
    ASSUME Books, NEW I, Ids \subseteq I, NEW ids \in SUBSET I, ids \cap Shown(log) = {},
           Begin(log, ids)
    PROVE  Gains(log, log', ids, I) /\ Seen
  <1>1. log \in Logs(I) /\ Clean(log) /\ "user" \in Items
    BY MoreIds DEF Books, InputTypes, Accounted, Items
  <1>2. Gains(log, log', ids, I)
    BY <1>1, ForwardGains, LandGains DEF Begin
  <1> QED BY <1>2, Spawned DEF Begin, Seen

\* admit_prompt starts a turn or queues.
LEMMA Admits ==
    ASSUME Books, ~running => queue = <<>>, NEW kind \in Kinds, Arrive(kind), Admit({New}),
           running => kind = "prompt", UNCHANGED <<held, read, sampled>>
    PROVE  Books'
  <1>1. CASE running
    BY <1>1, Queues DEF Admit
  <1>2. CASE ~running
    <2>1. Ids' = Ids \cup {New} /\ New \notin Ids
      BY Arrival DEF Books
    <2>2. Shown(log) \subseteq Ids
      BY DEF Books, Accounted, Split
    <2>3. Gains(log, log', {New}, Ids') /\ Seen
      BY <1>2, <2>1, <2>2, Begins DEF Admit
    <2> QED BY <1>2, <2>3, Lands DEF Admit
  <1> QED BY <1>1, <1>2

\* A command puts its input in one place.
LEMMA CommandBooks == ASSUME IInv, Books, Commands PROVE Books'
  <1>0. ~running => queue = <<>>
    BY DEF IInv, Alone
  <1>1. CASE Prompt
    BY <1>0, <1>1, Admits DEF Prompt, Kinds
  <1>2. CASE Steer
    <2>1. "steer" \in Kinds \ {"prompt"} /\ Arrive("steer")
      BY <1>2 DEF Steer, Kinds
    <2>2. CASE running \/ Open(log)
      BY <1>2, <2>1, <2>2, Holds DEF Steer
    <2>3. CASE ~(running \/ Open(log))
      <3>1. Ids' = Ids \cup {New} /\ log \in Logs(Ids') /\ Clean(log) /\ "user" \in Items
        BY <2>1, Arrival, MoreIds DEF Books, InputTypes, Accounted, Items
      <3>2. Gains(log, log', {New}, Ids')
        BY <1>2, <2>3, <3>1, LandGains DEF Steer
      <3> QED BY <1>2, <2>1, <2>3, <3>2, Lands DEF Steer, Seen
    <2> QED BY <2>2, <2>3
  <1>3. CASE Notify
    <2>1. "notice" \in Kinds \ {"prompt"} /\ Arrive("notice")
      BY <1>3 DEF Notify, Kinds
    <2>2. CASE running \/ Open(log)
      BY <1>3, <2>1, <2>2, Holds DEF Notify
    <2>3. CASE ~(running \/ Open(log))
      BY <1>0, <1>3, <2>1, <2>3, Admits DEF Notify
    <2> QED BY <2>2, <2>3
  <1>4. CASE Fold \/ SetModel \/ SetGoal \/ Interrupt
    <2>1. /\ UNCHANGED <<inputs, queue, held, read, sampled, turn>>
          /\ log' = log \/ log' = Drain(log)
      BY <1>4 DEF Fold, SetModel, SetGoal, Interrupt
    <2> QED BY <2>1, NothingGained, Shifts DEF Seen, Books, InputTypes
  <1> QED BY <1>1, <1>2, <1>3, <1>4 DEF Commands

\* A turn moves what its sample was built from, and nothing else.
LEMMA TurnBooks == ASSUME IInv, Books, TurnSteps \/ Panic PROVE Books'
  <1>0. /\ UNCHANGED <<inputs, queue, held>> /\ DOMAIN turn = DOMAIN NoTurn
        /\ "results" \in Items /\ "text" \in Items /\ "calls" \in Items
    BY DEF TurnSteps, Panic, Sample, LadderClear, LadderFold, SampleCancelled, SampleFails,
           SampleText, SampleCalls, Completes, RunTools, TurnOnly, IInv, Records, Items
  <1>1. log.unread \subseteq Ids /\ sampled \subseteq Ids
    BY DEF Books, InputTypes, Logs
  <1>2. CASE Sample
    <2>1. /\ UNCHANGED <<read, log>> /\ sampled' \in {sampled, sampled \cup log.unread}
      BY <1>2 DEF Sample
    <2>2. Seen
      BY <1>0, <1>2 DEF Sample, Seen, Ended, NoTurn
    <2> QED BY <1>0, <1>1, <2>1, <2>2, NothingGained, Shifts
  <1>3. CASE LadderClear \/ LadderFold \/ SampleCancelled \/ SampleFails \/ Panic
    <2>1. UNCHANGED <<read, sampled, log>>
      BY <1>3 DEF LadderClear, LadderFold, SampleCancelled, SampleFails, Panic
    <2>2. turn'.at # "sampling"
      BY <1>0, <1>3 DEF LadderClear, LadderFold, SampleCancelled, SampleFails, Panic, Ended, NoTurn
    <2> QED BY <1>0, <1>1, <2>1, <2>2, NothingGained, Shifts DEF Seen
  <1>4. CASE SampleText
    <2>1. turn'.at # "sampling"
      BY <1>0, <1>4 DEF SampleText, Ended, NoTurn
    <2> QED BY <1>0, <1>4, <2>1, Completing DEF SampleText
  <1>5. CASE SampleCalls
    <2>1. turn'.at # "sampling"
      BY <1>0, <1>5 DEF SampleCalls, NoTurn
    <2> QED BY <1>0, <1>5, <2>1, Completing DEF SampleCalls
  <1>6. CASE RunTools
    <2>1. UNCHANGED <<read, sampled>> /\ log' = Forward(log, "results", {})
      BY <1>6 DEF RunTools
    <2>2. turn'.at # "sampling"
      BY <1>0, <1>6 DEF RunTools, Ended, NoTurn
    <2> QED BY <1>0, <1>1, <2>1, <2>2, NothingGained, Shifts DEF Seen
  <1> QED BY <1>2, <1>3, <1>4, <1>5, <1>6 DEF TurnSteps

\* The actor releases, promotes, drains and appends without losing an input.
LEMMA ActorBooks == ASSUME IInv, Books, ActorSteps PROVE Books'
  <1>0. log \in Logs(Ids) /\ Clean(log) /\ sampled \subseteq Ids /\ DOMAIN turn = DOMAIN NoTurn
    BY DEF Books, InputTypes, Accounted, IInv, Records
  <1>1. CASE Ack
    <2>1. /\ log.fifo # <<>> /\ log' = Release(Acked(log)) /\ held' = StillHeld(Acked(log))
          /\ UNCHANGED <<inputs, queue, read, sampled, turn>>
      BY <1>1 DEF Ack, Acked
    <2> QED BY <1>0, <2>1, AckGains, Releasing DEF Seen
  <1>2. CASE TurnFinished
    <2> DEFINE l == IF Open(log) THEN Land(log, "results", {}) ELSE log
    <2>1. /\ log' = Release(l) /\ held' = StillHeld(l)
          /\ UNCHANGED <<inputs, queue, read, sampled>>
      BY <1>2 DEF TurnFinished, ReleaseAtEnd
    <2>2. turn'.at # "sampling"
      BY <1>0, <1>2 DEF TurnFinished, NoTurn
    <2>3. Gains(log, l, {}, Ids)
      <3>1. Gains(log, log, {}, Ids)
        BY NothingGained DEF Gains, Shown, Books, InputTypes, Accounted
      <3> QED BY <1>0, <3>1, LandGains DEF Items
    <2> HIDE DEF l
    <2> QED BY <2>1, <2>2, <2>3, Releasing DEF Seen
  <1>3. CASE Continue \/ Continues \/ CompactBegins
    <2>1. UNCHANGED <<inputs, queue, held, read, sampled, log>>
      BY <1>3 DEF Continue, Continues, CompactBegins, HandlerOnly, env
    <2>2. Seen
      BY <1>0, <1>3, Spawned DEF Continue, Continues, CompactBegins, Continuation, Respawn, Seen, NoTurn
    <2> QED BY <1>0, <2>1, <2>2, NothingGained, Shifts
  <1>4. CASE CompactEnds \/ Clear \/ Resolve \/ Verdict \/ EndTurn \/ FoldNow
    <2>1. /\ UNCHANGED <<inputs, queue, held, read, sampled, turn>>
          /\ log' = log \/ log' = Drain(log)
      BY <1>4 DEF CompactEnds, Clear, Resolve, Verdict, EndTurn, FoldNow, HandlerOnly
    <2> QED BY <1>0, <2>1, NothingGained, Shifts DEF Seen
  <1>5. CASE Guide
    <2>1. Begin(log, {}) /\ UNCHANGED <<inputs, queue, held, read, sampled>>
      BY <1>5 DEF Guide, HandlerOnly
    <2>2. Gains(log, log', {}, Ids) /\ Seen
      BY <2>1, Begins
    <2> QED BY <1>0, <2>1, <2>2, Shifts
  <1>6. CASE Promote
    <2>1. UNCHANGED <<inputs, held, read, sampled>>
      BY <1>6 DEF Promote, HandlerOnly
    <2>2. CASE queue = <<>>
      <3>1. UNCHANGED <<queue, log, turn>>
        BY <1>6, <2>2 DEF Promote
      <3> QED BY <1>0, <2>1, <3>1, NothingGained, Shifts DEF Seen
    <2>3. CASE queue # <<>>
      <3>1. Begin(log, Head(queue)) /\ queue' = Tail(queue)
        BY <1>6, <2>3 DEF Promote
      <3>2. /\ Head(queue) = queue[1] /\ 1 \in DOMAIN queue /\ Head(queue) \in SUBSET Ids
        BY <2>3, TailOf DEF Books, InputTypes
      <3>3. Head(queue) \subseteq InQueue
        BY <3>2, InUnion DEF InQueue
      <3>4. Head(queue) \cap Shown(log) = {}
        BY <3>3 DEF Books, Accounted, Split
      <3>5. Gains(log, log', Head(queue), Ids) /\ Seen
        BY <3>1, <3>2, <3>4, Begins
      <3> QED BY <2>1, <2>3, <3>1, <3>5, Promotes
    <2> QED BY <2>2, <2>3
  <1> QED BY <1>1, <1>2, <1>3, <1>4, <1>5, <1>6 DEF ActorSteps

\* Nothing has arrived.
LEMMA BooksStart == Init => Books
  <1> SUFFICES ASSUME Init PROVE Books
    OBVIOUS
  <1>1. /\ inputs = <<>> /\ queue = <<>> /\ held = <<>> /\ read = {} /\ sampled = {}
        /\ log.fifo = <<>> /\ log.unread = {} /\ log.last = "none" /\ turn.at = "none"
        /\ log = [last |-> "none", unread |-> {}, fifo |-> <<>>]
    BY DEF Init, NoTurn
  <1>2. Ids = {} /\ DOMAIN <<>> = {} /\ Len(<<>>) = 0
    BY <1>1 DEF Ids
  <1>3. log \in Logs(Ids)
    <2>1. "none" \in Items \cup {"none"} /\ {} \in SUBSET Ids /\ <<>> \in Seq(Units(Ids))
      OBVIOUS
    <2> QED BY <1>1, <2>1, IsALog, Zenon
  <1>4. InQueue = {} /\ IdsOf(held) = {}
    BY <1>1, <1>2, InUnion DEF InQueue, IdsOf
  <1>5. Shown(log) = {} /\ Clean(log)
    BY <1>1, EmptyFlight
  <1>6. InputTypes
    BY <1>1, <1>2, <1>3, ActorBounds DEF InputTypes
  <1>7. Accounted
    BY <1>1, <1>2, <1>4, <1>5 DEF Accounted, Split
  <1>8. InOrder
    BY <1>1, <1>2, <1>4, <1>5 DEF InOrder, Sorted
  <1> QED BY <1>6, <1>7, <1>8 DEF Books

\* The accounting is inductive, given one turn at a time.
LEMMA BooksStep == IInv /\ Books /\ [Next]_vars => Books'
  <1> SUFFICES ASSUME IInv, Books, [Next]_vars PROVE Books'
    OBVIOUS
  <1>1. CASE UNCHANGED vars
    <2>1. UNCHANGED <<inputs, queue, held, read, sampled, log, turn>>
      BY <1>1 DEF vars
    <2> QED BY <2>1, NothingGained, Shifts DEF Seen, Books, InputTypes
  <1> QED BY <1>1, CommandBooks, TurnBooks, ActorBooks DEF Next

\* The accounting holds in every reachable state.
LEMMA BooksAlways == Spec => []Books
  BY BooksStart, BooksStep, Always, PTL DEF Spec

-----------------------------------------------------------------------------
(* What the actor counts. *)

\* Nothing is counted.
LEMMA CountsStart == Init => CountTypes
  <1>1. MaxStreak \in Nat /\ Fallbacks \in Nat
    BY ActorBounds
  <1>2. 0 \in 0..(MaxStreak + 1) /\ 0 <= MaxStreak /\ Fallbacks + 1 \in 1..(Fallbacks + 1)
    BY <1>1
  <1> SUFFICES ASSUME Init PROVE CountTypes
    OBVIOUS
  <1>3. /\ released = FALSE /\ wakes = 0 /\ chain = Fallbacks + 1 /\ goal = NoGoal /\ streak = 0
        /\ parked = [fold |-> FALSE, model |-> FALSE]
    BY DEF Init
  <1>4. parked \in [fold : BOOLEAN, model : BOOLEAN]
    BY <1>3
  <1> QED BY <1>2, <1>3, <1>4 DEF CountTypes

\* A step of the turn or a command counts nothing but a goal that is set or cleared, and a
\* continuation that is taken.
LEMMA CountsStep == IInv /\ CountTypes /\ [Next]_vars => CountTypes'
  <1> SUFFICES ASSUME IInv, CountTypes, [Next]_vars PROVE CountTypes'
    OBVIOUS
  <1>0. /\ {QueueMax, StallTurns, MaxStreak, Fallbacks} \subseteq Nat /\ StallTurns # 0
        /\ DOMAIN actor = DOMAIN Looping /\ running \in BOOLEAN
        /\ actor.at \in Handling \cup {"loop"}
    BY ActorBounds DEF IInv, Records
  <1> USE DEF CountTypes
  <1>1. CASE UNCHANGED <<released, wakes, chain, goal, streak, parked, actor>>
    BY <1>1
  <1>2. CASE Prompt \/ Steer \/ Notify \/ Interrupt
    BY <1>1, <1>2 DEF Prompt, Steer, Notify, Interrupt
  <1>3. CASE TurnSteps \/ Panic
    BY <1>1, <1>3 DEF TurnSteps, Panic, Sample, LadderClear, LadderFold, SampleCancelled,
       SampleFails, SampleText, SampleCalls, Completes, RunTools, TurnOnly
  <1>4. CASE Fold
    BY <1>4 DEF Fold
  <1>5. CASE SetModel
    <2>1. parked' \in [fold : BOOLEAN, model : BOOLEAN] /\ chain' \in {chain, 1}
      BY <1>5 DEF SetModel
    <2>2. 1 \in 1..(Fallbacks + 1)
      BY <1>0
    <2>3. UNCHANGED <<released, wakes, goal, streak, actor>>
      BY <1>5 DEF SetModel
    <2> QED BY <2>1, <2>2, <2>3
  <1>6. CASE SetGoal
    BY <1>0, <1>6 DEF SetGoal, NoGoal
  <1>7. CASE Continue
    BY <1>7 DEF Continue
  <1>8. CASE Ack
    BY <1>0, <1>8 DEF Ack
  <1>9. CASE TurnFinished
    <2>1. /\ parked' \in [fold : BOOLEAN, model : BOOLEAN] /\ chain' \in {chain, 1}
          /\ UNCHANGED <<released, wakes, goal, streak>> /\ actor.at = "loop"
      BY <1>9 DEF TurnFinished, AtLoop
    <2>2. 1 \in 1..(Fallbacks + 1) /\ streak <= MaxStreak
      BY <1>0, <2>1
    <2> QED BY <2>1, <2>2
  <1>10. CASE CompactBegins
    <2>1. /\ parked' \in [fold : BOOLEAN, model : BOOLEAN] /\ chain' = chain
          /\ UNCHANGED <<released, wakes, goal>> /\ streak' = Streak /\ streak <= MaxStreak
      BY <1>10 DEF CompactBegins, HandlerOnly
    <2>2. Streak \in 0..(MaxStreak + 1)
      BY <1>0, <2>1 DEF Streak
    <2>3. Streak > MaxStreak => actor'.at = "full"
      BY <1>0, <1>10 DEF CompactBegins, Looping
    <2> QED BY <1>0, <2>1, <2>2, <2>3
  <1>11. CASE CompactEnds
    BY <1>0, <1>11 DEF CompactEnds, HandlerOnly
  <1>12. CASE Clear
    BY <1>0, <1>12 DEF Clear, HandlerOnly
  <1>13. CASE Continues
    BY <1>0, <1>13 DEF Continues, Return, HandlerOnly
  <1>14. CASE Resolve
    BY <1>0, <1>14 DEF Resolve, HandlerOnly, NoGoal
  <1>15. CASE Verdict
    BY <1>0, <1>15 DEF Verdict, HandlerOnly, IdleTurns, NoGoal
  <1>16. CASE Guide
    BY <1>0, <1>16 DEF Guide, Return, HandlerOnly
  <1>17. CASE EndTurn
    BY <1>0, <1>17 DEF EndTurn, TakeFold, HandlerOnly
  <1>18. CASE FoldNow
    BY <1>0, <1>18 DEF FoldNow, HandlerOnly
  <1>19. CASE Promote
    BY <1>0, <1>19 DEF Promote, Return, HandlerOnly
  <1>20. CASE UNCHANGED vars
    BY <1>1, <1>20 DEF vars
  <1> QED BY <1>2, <1>3, <1>4, <1>5, <1>6, <1>7, <1>8, <1>9, <1>10, <1>11, <1>12, <1>13, <1>14,
             <1>15, <1>16, <1>17, <1>18, <1>19, <1>20
          DEF Next, Commands, ActorSteps

\* The counts hold in every reachable state.
LEMMA CountsAlways == Spec => []CountTypes
  BY CountsStart, CountsStep, Always, PTL DEF Spec

-----------------------------------------------------------------------------
(* What is held. *)

\* Final and Settled survive a drain, an append behind it, and a unit in flight.
LEMMA FinalOf ==
    ASSUME Books
    PROVE  /\ Drain(log).fifo = <<>> /\ Final(Drain(log)) = Final(log)
           /\ \A ids \in SUBSET Ids' : Ids \subseteq Ids' =>
                 LET m == Land(log, "user", ids) IN m.fifo = <<>> /\ Final(m) = "user"
           /\ \A item \in Items : Final(Forward(log, item, {})) = item
  <1>1. log \in Logs(Ids) /\ Clean(log)
    BY DEF Books, InputTypes, Accounted
  <1>2. Drain(log).fifo = <<>> /\ Drain(log).last = Final(log)
    BY <1>1, DrainGains
  <1>3. ASSUME NEW ids \in SUBSET Ids', Ids \subseteq Ids'
        PROVE  LET m == Land(log, "user", ids) IN m.fifo = <<>> /\ m.last = "user"
    <2>1. log \in Logs(Ids') /\ "user" \in Items
      BY <1>1, <1>3, MoreIds DEF Items
    <2> QED BY <1>1, <2>1, LandGains
  <1>4. \A item \in Items : Final(Forward(log, item, {})) = item
    BY <1>1, ForwardGains
  <1> QED BY <1>2, <1>3, <1>4 DEF Final

\* Only Panic draws on its budget.
LEMMA NoPanics ==
    ASSUME Calm, [Next]_vars
    PROVE  ~Panic /\ Calm'
  <1>1. ASSUME NEW k, Spend(k)
        PROVE  k # "panic" /\ Calm'
    BY <1>1 DEF Calm, Spend
  <1>2. ~Panic
    BY <1>1 DEF Panic
  <1>3. UNCHANGED budget => Calm'
    BY DEF Calm
  <1>4. CASE Commands
    BY <1>1, <1>2, <1>4 DEF Commands, Prompt, Steer, Notify, Fold, SetModel, SetGoal, Interrupt, Arrive
  <1>5. CASE TurnSteps
    BY <1>1, <1>2, <1>3, <1>5 DEF TurnSteps, Sample, LadderClear, LadderFold, SampleCancelled,
       SampleFails, SampleText, SampleCalls, RunTools
  <1>6. CASE ActorSteps
    <2>1. UNCHANGED budget
      BY <1>6 DEF ActorSteps, Continue, Ack, TurnFinished, CompactBegins, CompactEnds, Clear,
         Continues, Resolve, Verdict, Guide, EndTurn, FoldNow, Promote, HandlerOnly, env
    <2> QED BY <1>2, <1>3, <2>1
  <1>7. CASE UNCHANGED vars
    BY <1>2, <1>3, <1>7 DEF vars
  <1> QED BY <1>2, <1>4, <1>5, <1>6, <1>7 DEF Next

\* What a turn begins with is what the log ends on.
LEMMA BeginsWithUser ==
    ASSUME Books, NEW I, Ids \subseteq I, NEW ids \in SUBSET I, Begin(log, ids)
    PROVE  Final(log') = "user"
  <1>1. log \in Logs(I) /\ Clean(log) /\ "user" \in Items
    BY MoreIds DEF Books, InputTypes, Accounted, Items
  <1>2. CASE held = <<>>
    <2> DEFINE u == [item |-> "user", ids |-> ids]
    <2>1. log.fifo \in Seq(Units(I)) /\ u \in Units(I) /\ u.item = "user"
      BY <1>1 DEF Logs, Units
    <2>2. log'.fifo = Append(log.fifo, u)
      BY <1>1, <1>2 DEF Begin, Forward, Logs
    <2>3. /\ log'.fifo # <<>> /\ Len(log'.fifo) = Len(log.fifo) + 1
          /\ log'.fifo[Len(log.fifo) + 1] = u
      BY <2>1, <2>2, AppendFacts
    <2> HIDE DEF u
    <2>4. log'.fifo[Len(log'.fifo)] = u
      BY <2>3, Zenon
    <2> QED BY <2>1, <2>3, <2>4, Zenon DEF Final
  <1>3. CASE held # <<>>
    BY <1>1, <1>3, LandGains DEF Begin, Final
  <1> QED BY <1>2, <1>3

\* A turn begins: whatever it begins with, its log ends on no calls.
LEMMA OrderlyBegin ==
    ASSUME Books, turn'.at = "boundary",
           \/ log' = log /\ Orderly /\ turn.at # "tools"
           \/ \E ids \in SUBSET Ids' : Begin(log, ids) /\ Ids \subseteq Ids'
    PROVE  Orderly'
  <1>1. Final(log') # "calls"
    BY BeginsWithUser DEF Orderly
  <1> QED BY <1>1 DEF Orderly, Alive

\* The log drains or stays, and turn and held with it.
LEMMA OrderlyDrain ==
    ASSUME Books, Orderly, UNCHANGED <<turn, held>>, log' = log \/ log' = Drain(log)
    PROVE  Orderly'
  BY FinalOf DEF Orderly, Alive, Settled

\* admit_prompt, again.
LEMMA OrderlyAdmits ==
    ASSUME IInv, Books, Orderly, NEW kind \in Kinds, Arrive(kind), Admit({New}), UNCHANGED held
    PROVE  Orderly'
  <1>1. CASE running
    BY <1>1, OrderlyDrain DEF Admit
  <1>2. CASE ~running
    <2>1. Begin(log, {New}) /\ turn'.at = "boundary"
      BY <1>2, Spawned DEF Admit, Begin
    <2>2. Ids' = Ids \cup {New}
      BY Arrival DEF Books
    <2> QED BY <2>1, <2>2, OrderlyBegin
  <1> QED BY <1>1, <1>2

\* A steer or a notification that is held is held behind a turn.
LEMMA OrderlyHolds ==
    ASSUME IInv, Orderly, AtLoop, running \/ Open(log), UNCHANGED <<turn, log>>
    PROVE  Orderly'
  <1>1. Alive
    <2>1. running => Alive
      BY DEF IInv, Alone
    <2>2. ~Alive => turn.at = "none"
      BY DEF Alive
    <2>3. turn.at = "none" => ~Open(log)
      BY DEF Orderly, Settled, Final, Open
    <2> QED BY <2>1, <2>2, <2>3
  <1> QED BY <1>1 DEF Orderly, Alive, Settled

\* A command.
LEMMA OrderlyCommand == ASSUME IInv, Books, Orderly, Commands PROVE Orderly'
  <1>1. CASE Prompt
    BY <1>1, OrderlyAdmits DEF Prompt, Kinds
  <1>2. CASE Steer
    <2>1. CASE running \/ Open(log)
      BY <1>2, <2>1, OrderlyHolds DEF Steer
    <2>2. CASE ~(running \/ Open(log))
      <3>1. "steer" \in Kinds /\ Arrive("steer")
        BY <1>2 DEF Steer, Kinds
      <3>2. Ids' = Ids \cup {New}
        BY <3>1, Arrival DEF Books
      <3>3. log'.fifo = <<>> /\ Final(log') = "user" /\ UNCHANGED <<turn, held>>
        BY <1>2, <2>2, <3>2, FinalOf DEF Steer
      <3> QED BY <3>3 DEF Orderly, Alive, Settled
    <2> QED BY <2>1, <2>2
  <1>3. CASE Notify
    <2>1. CASE running \/ Open(log)
      BY <1>3, <2>1, OrderlyHolds DEF Notify
    <2>2. CASE ~(running \/ Open(log))
      BY <1>3, <2>2, OrderlyAdmits DEF Notify, Kinds
    <2> QED BY <2>1, <2>2
  <1>4. CASE Fold \/ SetModel \/ SetGoal \/ Interrupt
    BY <1>4, OrderlyDrain DEF Fold, SetModel, SetGoal, Interrupt
  <1> QED BY <1>1, <1>2, <1>3, <1>4 DEF Commands

\* Only a turn that asks for tools leaves calls, and it goes to them.
LEMMA OrderlyTurn == ASSUME IInv, Books, Orderly, TurnSteps PROVE Orderly'
  <1>0. /\ DOMAIN turn = DOMAIN NoTurn /\ held' = held
        /\ "results" \in Items /\ "text" \in Items /\ "calls" \in Items
    BY DEF TurnSteps, Sample, LadderClear, LadderFold, SampleCancelled, SampleFails, SampleText,
           SampleCalls, Completes, RunTools, TurnOnly, IInv, Records, Items
  <1> USE DEF Alive, TurnAt, Ended, NoTurn
  <1>1. CASE Sample
    <2>1. turn.at = "boundary" /\ Settled /\ turn'.at \in {"ended", "sampling"} /\ log' = log
      BY <1>0, <1>1 DEF Sample
    <2> QED BY <1>0, <2>1 DEF Orderly, Settled
  <1>2. CASE LadderClear \/ LadderFold
    <2>1. turn.at = "boundary" /\ Settled /\ turn'.at = "ended" /\ log' = log
      BY <1>0, <1>2 DEF LadderClear, LadderFold
    <2> QED BY <1>0, <2>1 DEF Orderly, Settled
  <1>3. CASE SampleCancelled \/ SampleFails
    <2>1. turn.at = "sampling" /\ turn'.at \in {"ended", "boundary"} /\ log' = log
      BY <1>0, <1>3 DEF SampleCancelled, SampleFails
    <2> QED BY <1>0, <2>1 DEF Orderly, Settled
  <1>4. ASSUME NEW item \in Items, Completes(item)
        PROVE  Final(log') = item
    <2> DEFINE l == [log EXCEPT !.unread = @ \ turn.sees]
    <2>1. log \in Logs(Ids) /\ Clean(log) /\ log' = Forward(l, item, {})
      BY <1>4 DEF Books, InputTypes, Accounted, Completes
    <2>2. l.unread = log.unread \ turn.sees /\ l.fifo = log.fifo /\ l \in Logs(Ids)
      BY <2>1 DEF Logs
    <2>3. Clean(l)
      BY <2>1, <2>2 DEF Clean, Flight
    <2> HIDE DEF l
    <2> QED BY <2>1, <2>2, <2>3, ForwardGains
  <1>5. CASE SampleText
    <2>1. turn'.at = "ended" /\ turn'.end = "done" /\ Final(log') = "text"
      BY <1>0, <1>4, <1>5 DEF SampleText
    <2> QED BY <1>0, <2>1 DEF Orderly
  <1>6. CASE SampleCalls
    <2>1. turn'.at = "tools"
      BY <1>0, <1>6 DEF SampleCalls
    <2> QED BY <1>0, <2>1 DEF Orderly
  <1>7. CASE RunTools
    <2>1. Final(log') = "results"
      BY <1>0, <1>7, FinalOf DEF RunTools
    <2>2. turn'.at = "boundary" \/ (turn'.at = "ended" /\ turn'.end \in {"cancelled", "stopped"})
      BY <1>0, <1>7 DEF RunTools
    <2> QED BY <1>0, <2>1, <2>2 DEF Orderly
  <1> QED BY <1>1, <1>2, <1>3, <1>5, <1>6, <1>7 DEF TurnSteps

\* An ack and a turn's end release what is held.
LEMMA OrderlyActor == ASSUME IInv, Books, Orderly, ActorSteps PROVE Orderly'
  <1>0. /\ log \in Logs(Ids) /\ Clean(log) /\ DOMAIN turn = DOMAIN NoTurn
        /\ ~AtLoop => turn.at = "none"
        /\ ~running => turn.at = "none"
    BY DEF Books, InputTypes, Accounted, IInv, Records, Alone, Alive
  <1>1. CASE Ack
    <2> DEFINE l == Acked(log)
    <2>1. /\ log.fifo # <<>> /\ log' = Release(l) /\ held' = StillHeld(l) /\ turn' = turn
      BY <1>1 DEF Ack, Acked
    <2>2. l \in Logs(Ids) /\ Clean(l) /\ Final(l) = Final(log)
      BY <1>0, <2>1, AckGains DEF Gains
    <2> HIDE DEF l
    <2>3. /\ Final(log') \in {"user", Final(log)} /\ held' \in {<<>>, held}
      BY <2>1, <2>2, ReleaseGains DEF Books
    <2>4. turn.at \notin {"none", "sampling"} /\ ~(turn.at = "ended" /\ turn.end = "panic")
      BY <2>1 DEF Orderly, Settled
    <2> QED BY <2>1, <2>3, <2>4 DEF Orderly, Alive
  <1>2. CASE TurnFinished
    <2>1. turn.at = "ended" /\ log.fifo = <<>> /\ turn'.at = "none"
      BY <1>0, <1>2 DEF TurnFinished, TurnAt, Orderly, Settled, NoTurn
    <2>2. ~Open(log)
      BY <2>1 DEF Orderly, Final, Open
    <2>3. log' = Release(log) /\ held' = StillHeld(log)
      BY <1>2, <2>2 DEF TurnFinished, ReleaseAtEnd
    <2>4. CASE held = <<>>
      BY <2>1, <2>3, <2>4 DEF Release, StillHeld, Releases, Orderly, Settled
    <2>5. CASE held # <<>>
      <3>1. Releases(log)
        BY <2>2, <2>5 DEF Releases
      <3>2. Final(log') = "user" /\ log'.fifo = <<>> /\ held' = <<>>
        BY <1>0, <2>3, <3>1, ReleaseGains DEF Books
      <3> QED BY <2>1, <3>2 DEF Orderly, Settled
    <2> QED BY <2>4, <2>5
  <1>3. CASE Continue
    <2>1. CASE ContinueStarts
      <3>1. turn'.at = "boundary" /\ log' = log /\ turn.at = "none"
        BY <1>0, <1>3, <2>1, Spawned DEF Continue, ContinueStarts
      <3> QED BY <3>1, OrderlyBegin
    <2>2. CASE ~ContinueStarts
      BY <1>3, <2>2, OrderlyDrain DEF Continue, env
    <2> QED BY <2>1, <2>2
  <1>4. CASE CompactBegins \/ CompactEnds \/ Clear \/ Resolve \/ Verdict \/ EndTurn \/ FoldNow
    <2>1. UNCHANGED <<turn, held>> /\ (log' = log \/ log' = Drain(log))
      BY <1>4 DEF CompactBegins, CompactEnds, Clear, Resolve, Verdict, EndTurn, FoldNow, HandlerOnly
    <2> QED BY <2>1, OrderlyDrain
  <1>5. CASE Continues
    <2>1. turn'.at = "boundary" /\ log' = log /\ turn.at = "none"
      BY <1>0, <1>5 DEF Continues, Continuation, Respawn, NoTurn, AtLoop
    <2> QED BY <2>1, OrderlyBegin
  <1>6. CASE Guide
    <2>1. Begin(log, {}) /\ turn'.at = "boundary" /\ Ids' = Ids
      BY <1>6, Spawned DEF Guide, Begin, HandlerOnly, Ids
    <2> QED BY <2>1, OrderlyBegin
  <1>7. CASE Promote
    <2>1. CASE queue = <<>>
      BY <1>7, <2>1, OrderlyDrain DEF Promote, HandlerOnly
    <2>2. CASE queue # <<>>
      <3>1. Begin(log, Head(queue)) /\ turn'.at = "boundary" /\ Ids' = Ids
        BY <1>7, <2>2, Spawned DEF Promote, Begin, HandlerOnly, Ids
      <3>2. Head(queue) \in SUBSET Ids
        BY <2>2, TailOf DEF Books, InputTypes
      <3> QED BY <3>1, <3>2, OrderlyBegin
    <2> QED BY <2>1, <2>2
  <1> QED BY <1>1, <1>2, <1>3, <1>4, <1>5, <1>6, <1>7 DEF ActorSteps

\* The order of calls and results is inductive without panics.
LEMMA OrderlyStep == IInv /\ Books /\ Calm /\ Orderly /\ [Next]_vars => Calm' /\ Orderly'
  <1> SUFFICES ASSUME IInv, Books, Calm, Orderly, [Next]_vars PROVE Calm' /\ Orderly'
    OBVIOUS
  <1>1. ~Panic /\ Calm'
    BY NoPanics
  <1>2. CASE UNCHANGED vars
    <2>1. UNCHANGED <<turn, held, log>>
      BY <1>2 DEF vars
    <2> QED BY <1>1, <2>1, OrderlyDrain
  <1> QED BY <1>1, <1>2, OrderlyCommand, OrderlyTurn, OrderlyActor DEF Next

-----------------------------------------------------------------------------
(* The inputs. *)

\* Every variable of the actor keeps its type, whatever arrives and however turns end: in
\* particular the queue never passes QUEUE_MAX, the compaction streak its cap by more than
\* the one that reports it, and the goal's idle turns GOAL_STALL_TURNS.
THEOREM TypesHold == Spec => []TypeOK
  <1>1. IInv /\ Books /\ CountTypes => TypeOK
    <2> SUFFICES ASSUME IInv, Books, CountTypes PROVE TypeOK
      OBVIOUS
    <2>1. /\ inputs \in Seq({"prompt", "steer", "notice"})
          /\ queue \in Seq(SUBSET Ids) /\ Len(queue) <= QueueMax
          /\ held \in Seq(Ids) /\ {read, sampled} \subseteq SUBSET Ids
      BY DEF Books, InputTypes, Kinds
    <2>2. log \in [last : {"none", "user", "calls", "results", "text"}, unread : SUBSET Ids,
                   fifo : Seq([item : {"user", "calls", "results", "text"}, ids : SUBSET Ids])]
      <3>1. Items \cup {"none"} = {"none", "user", "calls", "results", "text"}
        BY DEF Items
      <3> QED BY <3>1, Zenon DEF Books, InputTypes, Logs, Units, Items
    <2>3. {running, released, cancelled, escaped} \subseteq BOOLEAN /\ owed \in Int
      BY DEF IInv, Records, Alone, CountTypes
    <2>4. /\ turn.at \in {"none", "boundary", "sampling", "tools", "ended"}
          /\ actor.at \in {"loop"} \cup Handling
      BY DEF IInv, Records
    <2>5. /\ wakes \in Nat /\ chain \in 1..(Fallbacks + 1)
          /\ goal \in {NoGoal} \cup 0..(StallTurns - 1) /\ streak \in 0..(MaxStreak + 1)
          /\ parked \in [fold : BOOLEAN, model : BOOLEAN]
      BY DEF CountTypes
    <2> QED BY <2>1, <2>2, <2>3, <2>4, <2>5, Zenon DEF TypeOK, Handling
  <1> QED BY <1>1, Always, BooksAlways, CountsAlways, PTL

\* No input is dropped or doubled, past the cap of the queue and across every way a turn
\* can end, a panic and an interrupt included: it is in exactly one of the queue, the held
\* inputs, the FIFO, the projection and what a sample has read (admit_prompt,
\* release_steers, apply_ack, TurnFinished).
THEOREM InputsAccounted == Spec => []NothingDropped
  <1>1. Books => NothingDropped
    <2> SUFFICES ASSUME Books PROVE NothingDropped
      OBVIOUS
    <2> DEFINE places == <<InQueue, IdsOf(held), InFlight, log.unread, read>>
    <2>1. /\ DOMAIN places = 1..5 /\ places[1] = InQueue /\ places[2] = IdsOf(held)
          /\ places[3] = InFlight /\ places[4] = log.unread /\ places[5] = read
      OBVIOUS
    <2>2. InFlight = Flight(log) /\ Shown(log) = Flight(log) \cup log.unread
      BY DEF InFlight, Flight, Shown
    <2>3. 1..5 = {1, 2, 3, 4, 5}
      OBVIOUS
    <2> HIDE DEF places
    <2>4. UNION IdsOf(places) = InQueue \cup IdsOf(held) \cup InFlight \cup log.unread \cup read
      <3>1. \A x : x \in UNION IdsOf(places) <=> \E k \in {1, 2, 3, 4, 5} : x \in places[k]
        BY <2>1, <2>3, InUnion
      <3> QED BY <2>1, <3>1
    <2>5. UNION IdsOf(places) = Ids
      BY <2>2, <2>4 DEF Books, Accounted, Split
    <2>6. /\ InQueue \cap IdsOf(held) = {} /\ InQueue \cap Shown(log) = {} /\ InQueue \cap read = {}
          /\ IdsOf(held) \cap Shown(log) = {} /\ IdsOf(held) \cap read = {}
          /\ Shown(log) \cap read = {} /\ Flight(log) \cap log.unread = {}
      BY DEF Books, Accounted, Split, Clean
    <2>7. \A j, k \in {1, 2, 3, 4, 5} : j # k => places[j] \cap places[k] = {}
      BY <2>1, <2>2, <2>6
    <2> QED BY <2>1, <2>3, <2>5, <2>7 DEF NothingDropped, places
  <1> QED BY <1>1, BooksAlways, PTL

\* Prompts are begun in the order they were sent, past the cap of the queue too, where one
\* joins the last entry, and while the actor is between two turns (admit_prompt).
THEOREM PromptsKeepOrder == Spec => []PromptsInOrder
  <1>1. Books => PromptsInOrder
    <2> SUFFICES ASSUME Books, NEW i \in Ids, NEW j \in Ids, i < j,
                        inputs[i] = "prompt", inputs[j] = "prompt", j \in Begun
                 PROVE  i \in Begun
      BY DEF PromptsInOrder
    <2>1. Begun = Shown(log) \cup read
      BY DEF Begun, InFlight, Flight, Shown
    <2>2. i \notin IdsOf(held)
      BY DEF Books, InOrder
    <2>3. i \notin InQueue
      <3>1. i \in InQueue => j < i
        BY <2>1 DEF Books, InOrder
      <3>2. i \in Int /\ j \in Int
        BY DEF Ids, Books, InputTypes
      <3> QED BY <3>1, <3>2
    <2> QED BY <2>1, <2>2, <2>3 DEF Books, Accounted, Split
  <1> QED BY <1>1, BooksAlways, PTL

\* What is held has a turn in front of it whose end releases it, whatever way that turn
\* ends. As long as no turn panics: one that dies with its calls unacked leaves an idle
\* session with an open batch, behind which the next steer is held (close_open_batch).
THEOREM HeldIsReleased == MaxPanics = 0 => (Spec => []HeldWaitsForATurn)
  <1> SUFFICES ASSUME MaxPanics = 0 PROVE Spec => []HeldWaitsForATurn
    OBVIOUS
  <1>1. Init => Calm /\ Orderly
    BY DEF Init, Calm, Orderly, NoTurn, Settled, Final
  <1>2. IInv /\ Orderly => HeldWaitsForATurn
    BY DEF IInv, Alone, Orderly, HeldWaitsForATurn
  <1> QED BY <1>1, <1>2, OrderlyStep, Always, BooksAlways, PTL DEF Spec
=============================================================================

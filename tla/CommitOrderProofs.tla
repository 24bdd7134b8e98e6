-------------------------- MODULE CommitOrderProofs --------------------------
(***************************************************************************)
(* Proofs about CommitPipeline, continued: a proposer that was told its    *)
(* commit landed can read it, tools run behind durable calls, the log      *)
(* chains, the projection is a prefix of it, and so the commit path        *)
(* implements EventLog.                                                     *)
(***************************************************************************)
EXTENDS CommitPipelineProofs

-----------------------------------------------------------------------------
(* What proposers have been told.                                           *)

\* What is with the writer, and what the actor waits for an answer on.
InFlight  == Elems(chan) \cup Elems(batch)
Unsettled == Elems(fifo) \cup Awaited

\* The unit the ack arm is about to report as committed has been.
DueInv ==
    op.then = "settle" /\ op.verdict = "ok" => op.due <= head.epoch /\ op.due \in Durable

\* The published head trails the actor's, and both trail what is in flight; an
\* answer the actor gives, or is about to give, is about something durable that
\* its own head has, and the published head once it is given.
GateInv ==
    /\ pub.epoch <= head.epoch /\ head.epoch <= seq
    /\ op.at = "await" => fifo = <<>>
    /\ \A u \in Unsettled : head.epoch < u.last
    /\ \A i, j \in DOMAIN fifo : i < j => fifo[i].last < fifo[j].last
    /\ DueInv
    /\ EpochGate
    /\ \A s \in Seqs : ticket[s] = "ok" => s \in Durable

\* A turn in good standing waits for its last commit or knows it to be durable.
TurnInv ==
    turn.ok /\ turn.mine # 0 => turn.mine \in Elems(turn.tickets) \cup Durable

\* While tools run the turn holds no ticket.
ToolsInv == turn.at = "tools" => turn.tickets = <<>> /\ turn.ok

-----------------------------------------------------------------------------
(* The order of the log.                                                    *)

\* The log still takes entries.
Live == ~sealed /\ phase # "dead"

Contiguous(q) == \A i \in 1..Len(q) - 1 : q[i + 1].first = q[i].last + 1

\* The last number in the file once the group at hand is, and once all that was
\* handed to the writer is.
Frontier == IF phase = "write" THEN batch[Len(batch)].last ELSE Len(file)
Tip      == IF chan # <<>> THEN chan[Len(chan)].last ELSE Frontier

\* Commit numbers have no gaps as long as the log takes entries, so an entry's
\* number is its place in the file.
FileInv ==
    /\ \A i \in DOMAIN file : file[i] = i
    /\ phase \in {"idle", "dead"} => batch = <<>>
    /\ phase = "write" =>
          IF wrote = 0 THEN batch[1].first = Len(file) + 1 ELSE batch[wrote].last = Len(file)
    /\ Contiguous(batch) /\ Contiguous(chan)
    /\ phase = "dead" => chan = <<>>
    /\ ~sealed /\ chan # <<>> => chan[1].first = Frontier + 1
    /\ Live => seq = Tip

\* The log can no longer take the unit.
Doomed(u) == ack[u.last] = "err" \/ (u \in Elems(chan) /\ sealed)

\* The acks come in order: what waits is with the writer, what was answered "ok"
\* lies before all that is, and behind a unit that failed there is none that will not.
AckInv ==
    /\ \A v \in InFlight : ack[v.last] = "wait"
    /\ \A u \in Unsettled : ack[u.last] \in {"ok", "err"} \/ u \in InFlight
    /\ \A u \in Unsettled, v \in InFlight : ack[u.last] = "ok" => u.last < v.last
    /\ \A u, v \in Unsettled : ack[u.last] = "err" /\ u.last < v.last => Doomed(v)
    /\ \A u \in Unsettled : ack[u.last] = "err" => ~Live

\* The next unit to be applied starts where the projection ends, unless the log
\* has failed it.
Tied ==
    /\ fifo # <<>> => fifo[1].first = head.epoch + 1
    /\ op.at = "await" => seq = head.epoch + 1

\* The first n entries of a log whose entries are numbered as they are placed.
UpTo(n) == [i \in 1..n |-> i]

\* The projection is the first entries of the log, and as long as the log takes
\* entries, what is neither projected nor awaited is in the FIFO, without gaps.
HeadInv ==
    /\ head.projected = UpTo(head.epoch)
    /\ pub.projected = UpTo(pub.epoch)
    /\ Contiguous(fifo)
    /\ Live /\ fifo # <<>> => fifo[Len(fifo)].last = seq
    /\ Live /\ fifo = <<>> /\ op.at # "await" => head.epoch = seq
    /\ (\E u \in Unsettled : ~Doomed(u)) => Tied

\* The entries the writer has been given, in the file or on the way to it.
Given == {s \in Seqs : s <= Len(file) \/ \E u \in InFlight : s \in Covered(u)}

\* Every entry that reached the writer is chained onto the one before it, and
\* the queued leaf is the last of them.
LeafInv ==
    /\ Live /\ op.at # "await" => lastId = seq
    /\ op.at = "await" /\ Live => lastId = seq - 1
    /\ \A s \in Given : entry[s].parent = s - 1

OrderInv == FileInv /\ AckInv /\ HeadInv /\ LeafInv

\* The inductive invariant of the commit path: a commit goes through the actor's
\* numbering, the writer's queue and file, the acks, the head and the tickets, and
\* this is all that one of them may assume of the others.
PipelineInv == IInv /\ GateInv /\ TurnInv /\ ToolsInv /\ OrderInv

-----------------------------------------------------------------------------
(* Facts about the data.                                                    *)

\* What the type invariant says of the log, the queues and the heads.
LEMMA Ground ==
    ASSUME Shape
    PROVE  /\ chan \in Seq(Unit) /\ batch \in Seq(Unit) /\ fifo \in Seq(Unit)
           /\ Len(chan) \in Nat /\ Len(batch) \in Nat /\ Len(fifo) \in Nat
           /\ DOMAIN chan = 1..Len(chan) /\ DOMAIN batch = 1..Len(batch)
           /\ DOMAIN fifo = 1..Len(fifo)
           /\ file \in Seq(Seqs) /\ Len(file) \in Nat /\ DOMAIN file = 1..Len(file)
           /\ good \in 0..Len(file) /\ wrote \in 0..Len(batch)
           /\ seq \in Nat /\ lastId \in Nat /\ sealed \in BOOLEAN
           /\ head.epoch \in Nat /\ pub.epoch \in Nat
           /\ head \in Heads /\ pub \in Heads /\ op \in Ops
           /\ ack \in [Seqs -> {"none", "wait", "ok", "err"}]
           /\ ticket \in [Seqs -> {"none", "wait", "ok", "sealed", "aborted"}]
<1>1. /\ chan \in Seq(Unit) /\ batch \in Seq(Unit) /\ fifo \in Seq(Unit)
      /\ file \in Seq(Seqs) /\ good \in 0..Len(file) /\ wrote \in 0..Len(batch)
      /\ seq \in Nat /\ lastId \in Nat /\ sealed \in BOOLEAN
      /\ ack \in [Seqs -> {"none", "wait", "ok", "err"}]
      /\ ticket \in [Seqs -> {"none", "wait", "ok", "sealed", "aborted"}]
  BY DEF Shape, TypeOK, LogTypeOK, PipelineTypeOK
<1>2. head.epoch \in Nat /\ pub.epoch \in Nat /\ head \in Heads /\ pub \in Heads /\ op \in Ops
  BY DEF Shape, TypeOK, HeadTypeOK, OpTypeOK, Heads
<1> QED
  BY <1>1, <1>2

\* A unit's numbers are natural numbers.
LEMMA UnitNumbers ==
    ASSUME NEW u \in Unit
    PROVE  u.first \in Nat /\ u.last \in Nat /\ 1 <= u.first /\ u.first <= u.last
           /\ u.last \in Seqs /\ u.last \in Covered(u)
BY BoundsAreNats DEF Unit, Seqs, Covered

\* A sequence that is not empty is its first element and the rest.
LEMMA FrontAndTail ==
    ASSUME NEW S, NEW q \in Seq(S), q # <<>>
    PROVE  /\ Elems(q) = {Front(q)} \cup Elems(Tail(q))
           /\ Front(q) = q[1]
           /\ DOMAIN q = 1..Len(q) /\ DOMAIN Tail(q) = 1..Len(q) - 1
           /\ \A i \in DOMAIN Tail(q) : i + 1 \in DOMAIN q /\ Tail(q)[i] = q[i + 1]
<1>1. /\ Len(q) \in Nat /\ Len(q) >= 1 /\ Tail(q) \in Seq(S) /\ Len(Tail(q)) = Len(q) - 1
      /\ Elems(Tail(q)) \subseteq Elems(q) /\ Front(q) \in Elems(q)
      /\ \A i \in 1..Len(q) - 1 : Tail(q)[i] = q[i + 1]
  BY TailFacts
<1>2. DOMAIN q = 1..Len(q) /\ DOMAIN Tail(q) = 1..Len(q) - 1
  BY <1>1
<1>3. ASSUME NEW i \in 1..Len(q), i # 1
      PROVE  q[i] \in Elems(Tail(q))
  <2>1. i - 1 \in 1..Len(q) - 1 /\ (i - 1) + 1 = i
    BY <1>1, <1>3
  <2> QED
    BY <1>1, <1>2, <2>1 DEF Elems
<1>4. Elems(q) \subseteq {q[1]} \cup Elems(Tail(q))
  BY <1>2, <1>3 DEF Elems
<1>5. \A i \in 1..Len(q) - 1 : i + 1 \in 1..Len(q)
  BY <1>1
<1> QED
  BY <1>1, <1>2, <1>4, <1>5 DEF Front

\* What a queue holds after an append.
LEMMA AppendFacts ==
    ASSUME NEW S, NEW q \in Seq(S), NEW u \in S
    PROVE  /\ Elems(Append(q, u)) = Elems(q) \cup {u}
           /\ Len(Append(q, u)) = Len(q) + 1 /\ DOMAIN Append(q, u) = 1..Len(q) + 1
           /\ \A i \in 1..Len(q) : Append(q, u)[i] = q[i]
           /\ Append(q, u)[Len(q) + 1] = u
<1>1. Elems(Append(q, u)) = Elems(q) \cup {u}
  BY AppendElems
<1> QED
  BY <1>1

-----------------------------------------------------------------------------
(* The gate between a commit and its proposer.                              *)

\* What a mint, a settlement and the other steps do to the units waited for.
LEMMA UnsettledStep ==
    ASSUME Shape, [Next]_vars
    PROVE  /\ \A u \in Unit : Grow(u) => Unsettled' = Elems(fifo) \cup {u} /\ Awaited = {}
           /\ Writer \/ WriterFails \/ WriterDies => Unsettled' = Unsettled
           /\ Settles => Unsettled' = Elems(Tail(fifo)) /\ Unsettled = Elems(fifo)
           /\ AppendOk => Unsettled' = Elems(fifo)
           /\ Quiet => Unsettled' \subseteq Unsettled
           /\ Crash => Unsettled' = {}
<1>0. fifo \in Seq(Unit)
  BY Ground
<1>1. ASSUME NEW u \in Unit, Grow(u)
      PROVE  Unsettled' = Elems(fifo) \cup {u} /\ Awaited = {}
  <2>1. Awaited = {}
    BY <1>1 DEF Grow, Awaited
  <2>2. CASE fifo' = Append(fifo, u) /\ op' = op
    <3>1. Awaited' = {}
      BY <1>1, <2>2 DEF Grow, Awaited
    <3>2. Elems(Append(fifo, u)) = Elems(fifo) \cup {u}
      BY <1>0, AppendElems
    <3> QED
      BY <2>1, <2>2, <3>1, <3>2, Zenon DEF Unsettled
  <2>3. CASE fifo' = fifo /\ op'.at = "await" /\ u = [first |-> seq', last |-> seq']
    <3>1. Awaited' = {u}
      BY <2>3 DEF Awaited
    <3> QED
      BY <2>1, <2>3, <3>1, Zenon DEF Unsettled
  <2> QED
    BY <1>1, <2>1, <2>2, <2>3 DEF Grow
<1>2. ASSUME Writer \/ WriterFails \/ WriterDies
      PROVE  Unsettled' = Unsettled
  <2>1. UNCHANGED <<fifo, op, seq>>
    BY <1>2 DEF Writer, WriterTake, WriterWrite, WriterSync, WriterAck, WriterFails,
                WriterDies, actorVars
  <2> QED
    BY <2>1 DEF Unsettled, Awaited, Elems
<1>3. ASSUME Settles
      PROVE  Unsettled' = Elems(Tail(fifo)) /\ Unsettled = Elems(fifo)
  <2>1. Awaited' = {} /\ Awaited = {} /\ fifo' = Tail(fifo)
    BY <1>3 DEF Settles, Awaited
  <2> QED
    BY <2>1, Zenon DEF Unsettled
<1>4. ASSUME AppendOk
      PROVE  Unsettled' = Elems(fifo)
  <2>1. op'.at # "await" /\ fifo' = fifo
    <3>1. op \in Ops
      BY Ground
    <3> QED
      BY <1>4, <3>1 DEF AppendOk, Ops
  <2>2. Awaited' = {}
    BY <2>1 DEF Awaited
  <2> QED
    BY <2>1, <2>2, Zenon DEF Unsettled
<1>5. ASSUME Quiet
      PROVE  Unsettled' \subseteq Unsettled
  <2>1. Awaited' \subseteq Awaited /\ fifo' = fifo
    BY <1>5 DEF Quiet, Awaited
  <2> QED
    BY <2>1, Zenon DEF Unsettled
<1>6. ASSUME Crash
      PROVE  Unsettled' = {}
  <2>1. fifo' = <<>> /\ op'.at # "await" /\ Elems(<<>>) = {}
    BY <1>6 DEF Crash, Loop, Elems
  <2>2. Awaited' = {}
    BY <2>1 DEF Awaited
  <2> QED
    BY <2>1, <2>2, Zenon DEF Unsettled
<1> QED
  BY <1>1, <1>2, <1>3, <1>4, <1>5, <1>6
\* What is unsettled is in flight towards the actor, and is numbered.
LEMMA UnsettledType ==
    ASSUME Shape, UnitsInv
    PROVE  /\ Unsettled \subseteq Out /\ InFlight \subseteq Out /\ Out \subseteq Unit
           /\ \A u \in Unsettled \cup InFlight :
                u \in Unit /\ u.last \in Seqs /\ u.last \in Nat /\ u.last <= seq
           /\ fifo # <<>> => Front(fifo) \in Unsettled
           /\ op.at = "await" => [first |-> seq, last |-> seq] \in Unsettled
<1>1. Out \subseteq Unit /\ \A u \in Unit : u.last \in Seqs /\ u.last \in Nat
  BY OutType
<1>2. Unsettled \subseteq Out /\ InFlight \subseteq Out
  BY DEF Unsettled, InFlight, Out
<1>3. fifo # <<>> => Front(fifo) \in Elems(fifo)
  BY Ground, TailFacts
<1>4. op.at = "await" => [first |-> seq, last |-> seq] \in Unsettled
  BY DEF Unsettled, Awaited
<1> QED
  BY <1>1, <1>2, <1>3, <1>4 DEF UnitsInv, Unsettled

\* What settling the front of the FIFO does to the actor's own head.
LEMMA SettleFacts ==
    ASSUME Shape, UnitsInv, DurableInv, GateInv, fifo # <<>>, NEW tell \in {"ok", "aborted"}
    PROVE  LET u == Front(fifo)
               s == SettleFront(tell)
           IN  /\ u \in Unit /\ u \in Unsettled /\ head.epoch < u.last /\ u.last <= seq
               /\ u.last \in Seqs
               /\ ack[u.last] = "ok" => /\ s.head = Advance(head, u) /\ s.head.epoch = u.last
                                        /\ u.last \in Durable
               /\ ack[u.last] # "ok" => s.head = head
               /\ s.told = "ok" => ack[u.last] = "ok"
<1> DEFINE u == Front(fifo)
<1>1. /\ u \in Unit /\ u \in Unsettled /\ u \in Out /\ u.last \in Seqs /\ u.last <= seq
      /\ head \in Heads
  BY UnsettledType, Ground
<1>2. head.epoch < u.last
  BY <1>1 DEF GateInv
<1>3. ack[u.last] = "ok" => u.last \in Durable
  BY <1>1, UnitNumbers DEF DurableInv
<1>4. Advance(head, u).epoch = u.last
  BY <1>1, AdvanceType
<1> QED
  BY <1>1, <1>2, <1>3, <1>4 DEF SettleFront

LEMMA GateStep ==
    ASSUME Shape, Shape', UnitsInv, DurableInv, GateInv, [Next]_vars
    PROVE  GateInv'
<1>0. /\ fifo \in Seq(Unit) /\ seq \in Nat /\ seq' \in Nat /\ head.epoch \in Nat /\ pub.epoch \in Nat
      /\ DOMAIN fifo = 1..Len(fifo) /\ Len(fifo) \in Nat
      /\ head'.epoch \in Nat /\ pub'.epoch \in Nat /\ op \in Ops
      /\ ticket \in [Seqs -> {"none", "wait", "ok", "sealed", "aborted"}]
  <2>1. seq' \in Nat /\ head'.epoch \in Nat /\ pub'.epoch \in Nat
    BY BoundsAreNats DEF Shape, TypeOK, PipelineTypeOK, HeadTypeOK, Heads
  <2> QED
    BY <2>1, Ground
<1>n. \A s \in Seqs : s \in Nat
  BY DEF Seqs
<1>d. Durable \subseteq Durable'
  BY DurableGrows
<1>t. \A u \in Unsettled : u.last \in Seqs /\ u.last \in Nat /\ u.last <= seq
  BY UnsettledType
<1>1. CASE Writer \/ WriterFails \/ WriterDies
  <2>1. UNCHANGED <<fifo, op, seq, head, pub, ticket>>
    BY <1>1 DEF Writer, WriterTake, WriterWrite, WriterSync, WriterAck, WriterFails,
                WriterDies, actorVars
  <2>2. Unsettled' = Unsettled
    BY <1>1, UnsettledStep
  <2> QED
    BY <1>d, <2>1, <2>2 DEF GateInv, DueInv, EpochGate
<1>2. ASSUME NEW u \in Unit, Grow(u)
      PROVE  GateInv'
  <2>1. u.last = seq' /\ seq' > seq /\ u.last \in Seqs /\ UNCHANGED <<head, pub>>
    BY <1>0, <1>2, UnitNumbers DEF Grow
  <2>2. Unsettled' = Elems(fifo) \cup {u}
    BY <1>2, UnsettledStep
  <2>3. \A v \in Unsettled' : head'.epoch < v.last
    BY <1>0, <2>1, <2>2 DEF GateInv, Unsettled
  <2>4. DueInv'
    BY <1>d, <1>2, <2>1 DEF Grow, KeepsDue, GateInv, DueInv
  <2>5. \A s \in Seqs : ticket'[s] = "ok" => ticket[s] = "ok"
    BY <1>0, <1>2, <2>1 DEF Grow
  <2>6. op'.at = "await" => fifo' = <<>>
    BY <1>2 DEF Grow
  <2>7. \A i, j \in DOMAIN fifo' : i < j => fifo'[i].last < fifo'[j].last
    <3>1. CASE fifo' = fifo
      BY <3>1 DEF GateInv
    <3>2. CASE fifo' = Append(fifo, u)
      <4>1. /\ DOMAIN fifo' = 1..Len(fifo) + 1 /\ fifo'[Len(fifo) + 1] = u
            /\ \A i \in 1..Len(fifo) : fifo'[i] = fifo[i]
        BY <1>0, <3>2, AppendFacts
      <4>2. \A i \in 1..Len(fifo) : fifo[i].last \in Nat /\ fifo[i].last <= seq
        BY <1>0, <1>t DEF Unsettled, Elems
      <4> QED
        BY <1>0, <2>1, <4>1, <4>2 DEF GateInv
    <3> QED
      BY <1>2, <3>1, <3>2 DEF Grow
  <2>8. pub'.epoch <= head'.epoch /\ head'.epoch <= seq'
    BY <1>0, <2>1 DEF GateInv
  <2> QED
    BY <1>d, <2>1, <2>3, <2>4, <2>5, <2>6, <2>7, <2>8 DEF GateInv, EpochGate
<1>3. CASE Settles
  <2> DEFINE u == Front(fifo)
  <2>1. fifo # <<>> /\ fifo' = Tail(fifo) /\ op'.at # "await" /\ seq' = seq
    BY <1>3 DEF Settles, FrontAnswered
  <2>2. PICK tell \in {"ok", "aborted"} :
          /\ head' = SettleFront(tell).head
          /\ \/ /\ op'.due = u.last /\ op'.verdict = SettleFront(tell).told
                /\ UNCHANGED <<pub, ticket>>
             \/ /\ pub' = head' /\ op' = op
                /\ ticket' = [ticket EXCEPT ![u.last] = SettleFront(tell).told]
    BY <1>3 DEF Settles
  <2> DEFINE told == SettleFront(tell).told
  <2>3. /\ head.epoch < u.last /\ u.last <= seq /\ u.last \in Seqs
        /\ told = "ok" => head'.epoch = u.last /\ u.last \in Durable
        /\ head'.epoch \in {head.epoch, u.last}
    BY <2>1, <2>2, SettleFacts
  <2> HIDE DEF u, told
  <2>4. pub'.epoch <= head'.epoch /\ head'.epoch <= seq' /\ head.epoch <= head'.epoch
    BY <1>0, <1>n, <2>1, <2>2, <2>3 DEF GateInv
  <2>5. \A v \in Unsettled' : head'.epoch < v.last
    <3>1. Unsettled' = Elems(Tail(fifo)) /\ Unsettled = Elems(fifo)
      BY <1>3, UnsettledStep
    <3>2. ASSUME NEW i \in DOMAIN Tail(fifo)
          PROVE  u.last < Tail(fifo)[i].last /\ head.epoch < Tail(fifo)[i].last
      <4>1. i + 1 \in DOMAIN fifo /\ 1 \in DOMAIN fifo /\ 1 < i + 1 /\ u = fifo[1]
            /\ Tail(fifo)[i] = fifo[i + 1]
        BY <1>0, <2>1, FrontAndTail DEF u
      <4>2. fifo[i + 1] \in Unsettled
        BY <3>1, <4>1 DEF Elems
      <4> QED
        BY <4>1, <4>2 DEF GateInv
    <3> QED
      BY <2>3, <3>1, <3>2 DEF Elems
  <2>6. \A i, j \in DOMAIN fifo' : i < j => fifo'[i].last < fifo'[j].last
    <3>1. /\ DOMAIN fifo' \subseteq Nat
          /\ \A i \in DOMAIN fifo' : i + 1 \in DOMAIN fifo /\ fifo'[i] = fifo[i + 1]
      BY <1>0, <2>1, FrontAndTail
    <3> QED
      BY <3>1 DEF GateInv
  <2>7. DueInv' /\ \A s \in Seqs : ticket'[s] = "ok" => pub'.epoch >= s /\ s \in Durable
    <3>1. CASE /\ op'.due = u.last /\ op'.verdict = told
               /\ UNCHANGED <<pub, ticket>>
      <4>1. DueInv'
        BY <1>0, <1>n, <1>d, <2>3, <3>1 DEF DueInv
      <4> QED
        BY <3>1, <4>1 DEF GateInv, EpochGate
    <3>2. CASE pub' = head' /\ op' = op /\ ticket' = [ticket EXCEPT ![u.last] = told]
      <4>1. DueInv'
        BY <1>0, <1>n, <1>d, <2>4, <3>2 DEF DueInv, GateInv, Ops
      <4>2. ASSUME NEW s \in Seqs, ticket'[s] = "ok"
            PROVE  pub'.epoch >= s /\ s \in Durable
        <5>1. CASE s = u.last
          BY <1>0, <1>n, <2>3, <3>2, <4>2, <5>1
        <5>2. CASE s # u.last
          <6>1. ticket[s] = "ok"
            BY <1>0, <3>2, <4>2, <5>2
          <6>2. pub.epoch >= s /\ s \in Durable /\ pub.epoch <= head.epoch
            BY <6>1 DEF GateInv, EpochGate
          <6> QED
            BY <1>0, <1>n, <2>4, <3>2, <6>2
        <5> QED
          BY <5>1, <5>2
      <4> QED
        BY <4>1, <4>2
    <3> QED
      BY <2>2, <3>1, <3>2 DEF u, told
  <2> QED
    BY <1>d, <2>1, <2>4, <2>5, <2>6, <2>7 DEF GateInv, EpochGate
<1>4. CASE AppendOk
  <2> DEFINE u == [first |-> seq, last |-> seq]
  <2>1. /\ op.at = "await" /\ head' = Advance(head, u) /\ pub' = head'
        /\ UNCHANGED <<seq, fifo, ticket>>
    BY <1>4 DEF AppendOk
  <2>2. u \in Unit /\ head \in Heads /\ u \in Unsettled
    BY <2>1, AwaitedType, Ground DEF Unsettled, Awaited
  <2>3. head'.epoch = seq /\ head.epoch < seq
    <3>1. Advance(head, u).epoch = u.last /\ head.epoch < u.last
      BY <2>2, AdvanceType DEF GateInv
    <3> QED
      BY <2>1, <3>1
  <2>4. fifo = <<>> /\ Elems(fifo) = {} /\ Unsettled' = {}
    <3>1. fifo = <<>> /\ Elems(<<>>) = {}
      BY <2>1 DEF GateInv, Elems
    <3> QED
      BY <1>4, <3>1, UnsettledStep
  <2>5. KeepsDue
    BY <1>0, <1>4 DEF AppendOk, KeepsDue, Ops
  <2>6. DueInv'
    BY <1>0, <1>n, <1>d, <2>3, <2>5 DEF GateInv, DueInv, KeepsDue, Ops
  <2>7. \A s \in Seqs : ticket[s] = "ok" => seq >= s /\ s \in Durable
    BY <1>0, <1>n, <2>3 DEF GateInv, EpochGate
  <2>8. DOMAIN fifo' = {}
    BY <2>1, <2>4
  <2> QED
    BY <1>0, <1>d, <2>1, <2>3, <2>4, <2>6, <2>7, <2>8 DEF GateInv, EpochGate
<1>5. CASE Quiet
  <2>1. /\ fifo' = fifo /\ head'.epoch = head.epoch /\ pub'.epoch \in {pub.epoch, head.epoch}
        /\ seq' >= seq /\ (op'.at = "await" => op.at = "await")
        /\ KeepsDue
    BY <1>5 DEF Quiet
  <2>2. Unsettled' \subseteq Unsettled
    BY <1>5, UnsettledStep
  <2>3. DueInv'
    BY <1>d, <2>1 DEF GateInv, DueInv, KeepsDue
  <2>4. pub.epoch <= pub'.epoch /\ pub'.epoch <= head'.epoch /\ head'.epoch <= seq'
    BY <1>0, <2>1 DEF GateInv
  <2>5. ASSUME NEW s \in Seqs, ticket'[s] = "ok"
        PROVE  pub'.epoch >= s /\ s \in Durable
    <3>1. CASE ticket[s] = "ok"
      BY <1>0, <1>n, <2>4, <3>1 DEF GateInv, EpochGate
    <3>2. CASE ticket[s] # "ok"
      <4>1. /\ op.then = "settle" /\ ticket' = [ticket EXCEPT ![op.due] = op.verdict]
            /\ pub' = head
        BY <1>5, <2>5, <3>2 DEF Quiet
      <4>2. s = op.due /\ op.verdict = "ok"
        BY <1>0, <2>5, <3>2, <4>1
      <4> QED
        BY <1>0, <1>n, <4>1, <4>2 DEF GateInv, DueInv
    <3> QED
      BY <3>1, <3>2
  <2> QED
    BY <1>d, <2>1, <2>2, <2>3, <2>4, <2>5 DEF GateInv, EpochGate
<1>6. CASE Crash
  <2>1. /\ seq' = head'.epoch /\ pub' = head' /\ fifo' = <<>> /\ op' = Loop
        /\ ticket' = [s \in Seqs |-> "none"]
    BY <1>6 DEF Crash
  <2>2. Unsettled' = {} /\ DOMAIN <<>> = {}
    BY <1>6, UnsettledStep
  <2> QED
    BY <1>0, <2>1, <2>2 DEF GateInv, DueInv, EpochGate, Loop
<1> QED
  BY <1>1, <1>2, <1>3, <1>4, <1>5, <1>6, Steps
-----------------------------------------------------------------------------
(* The tickets a turn holds.                                                *)

\* A turn task keeps its tickets and its last commit, forgets them, adds its newest
\* commit to both, or resolves its oldest ticket; tools start with none left.
TurnKeeps ==
    /\ turn'.at = "tools" => (turn'.tickets = <<>> /\ turn'.ok) \/ turn' = turn
    /\ \/ turn'.mine = 0
       \/ /\ turn'.tickets = turn.tickets /\ turn'.mine = turn.mine
          /\ turn'.ok => turn.ok
       \/ \E q \in Seq(Seqs) : turn'.tickets = Append(q, turn'.mine)
       \/ Resolve

LEMMA ProposeKeeps ==
    ASSUME NEW kinds, NEW saw, NEW next, Propose(kinds, saw, next),
           {"at", "tickets", "mine", "own"} \subseteq DOMAIN next,
           next.tickets \in Seq(Seqs), next.at # "tools"
    PROVE  TurnKeeps
<1>1. CASE /\ Forward(kinds, saw)
           /\ turn' = [next EXCEPT !.tickets = Append(@, seq'), !.mine = seq',
                                   !.own = @ \cup NewItems(kinds)]
  <2>1. turn'.tickets = Append(next.tickets, seq') /\ turn'.mine = seq' /\ turn'.at = next.at
    BY <1>1
  <2> QED
    BY <2>1 DEF TurnKeeps
<1>2. CASE turn' = Ending(turn, FALSE, FALSE)
  BY <1>2 DEF TurnKeeps, Ending, NoTurn
<1> QED
  BY <1>1, <1>2 DEF Propose

LEMMA TurnsMove ==
    ASSUME Shape, [Next]_vars
    PROVE  TurnKeeps
<1>0. turn \in Turns
  BY DEF Shape, TypeOK, TurnTypeOK
<1>1. CASE turn' = turn
  BY <1>1 DEF TurnKeeps
<1>2. CASE \/ Writer \/ WriterFails \/ WriterDies \/ AckArm \/ Drain \/ AppendSend
           \/ AppendRefused \/ AppendOk \/ AppendErr \/ Settle \/ Return \/ PlanWritten
           \/ TurnFinished \/ Command \/ SetPlan \/ SetTodos \/ Steer \/ PromptAwaited \/ FoldNow
  <2>1. turn' = turn
    BY <1>2 DEF Writer, WriterTake, WriterWrite, WriterSync, WriterAck, WriterFails,
                WriterDies, AckArm, Drain, AppendSend, AppendRefused, AppendOk, AppendErr,
                Settle, Return, PlanWritten, TurnFinished, Command, SetPlan, SetTodos,
                Steer, PromptAwaited, FoldNow
  <2> QED
    BY <1>1, <2>1
<1>3. CASE Spawn \/ NoSpawn \/ EndTurn \/ FoldInterrupted \/ Continue \/ Panic \/ Crash
  <2>1. \/ turn' \in {turn, NoTurn, [NoTurn EXCEPT !.at = "boundary"]}
        \/ turn' = [NoTurn EXCEPT !.at = "ended", !.ok = FALSE]
    <3>1. CASE EndTurn
      BY <3>1, Zenon DEF EndTurn
    <3>2. CASE Spawn \/ NoSpawn \/ FoldInterrupted \/ Continue \/ Panic
      BY <3>2 DEF Spawn, NoSpawn, FoldInterrupted, Continue, Panic
    <3>3. CASE Crash
      BY <3>3 DEF Crash
    <3> QED
      BY <1>3, <3>1, <3>2, <3>3
  <2>2. \A at \in {"none", "boundary", "ended"} :
          /\ NoTurn.mine = 0 /\ NoTurn.at # "tools"
          /\ [NoTurn EXCEPT !.at = at].mine = 0 /\ [NoTurn EXCEPT !.at = at].at = at
          /\ [NoTurn EXCEPT !.at = at, !.ok = FALSE].mine = 0
          /\ [NoTurn EXCEPT !.at = at, !.ok = FALSE].at = at
    BY DEF NoTurn
  <2> QED
    BY <1>1, <2>1, <2>2 DEF TurnKeeps
<1>4. CASE PromptFast
  <2>1. CASE turn' = turn
    BY <1>1, <2>1
  <2>2. CASE /\ turn'.at = "boundary" /\ turn'.tickets = <<seq'>> /\ turn'.mine = seq'
    <3>1. <<>> \in Seq(Seqs) /\ Append(<<>>, seq') = <<seq'>>
      OBVIOUS
    <3> QED
      BY <2>2, <3>1 DEF TurnKeeps
  <2> QED
    BY <1>4, <2>1, <2>2 DEF PromptFast, NoTurn
<1>5. CASE Resolve
  <2>1. turn'.at = turn.at /\ turn.at # "tools"
    BY <1>0, <1>5 DEF Resolve, AtBarrier, Turns
  <2> QED
    BY <1>5, <2>1 DEF TurnKeeps
<1>6. CASE BarrierFails \/ SampleEnds \/ Boundary \/ Dispatch \/ Finish
  <2>1. \A ok, fold \in BOOLEAN : /\ Ending(turn, ok, fold).mine = 0
                                  /\ Ending(turn, ok, fold).at = "finishing"
    <3> TAKE ok \in BOOLEAN, fold \in BOOLEAN
    <3> QED
      BY DEF Ending, NoTurn
  <2>2. CASE BarrierFails \/ SampleEnds
    <3>1. \/ \E ok, fold \in BOOLEAN : turn' = Ending(turn, ok, fold)
          \/ turn' = [turn EXCEPT !.at = "boundary", !.req = NoSnap]
      BY <2>2 DEF BarrierFails, SampleEnds
    <3>2. CASE \E ok, fold \in BOOLEAN : turn' = Ending(turn, ok, fold)
      <4>1. turn'.mine = 0 /\ turn'.at = "finishing"
        BY <2>1, <3>2
      <4> QED
        BY <4>1 DEF TurnKeeps
    <3>3. CASE turn' = [turn EXCEPT !.at = "boundary", !.req = NoSnap]
      <4>1. /\ turn'.at = "boundary" /\ turn'.tickets = turn.tickets
            /\ turn'.mine = turn.mine /\ turn'.ok = turn.ok
        BY <1>0, <3>3 DEF Turns
      <4> QED
        BY <4>1 DEF TurnKeeps
    <3> QED
      BY <3>1, <3>2, <3>3
  <2>3. CASE Boundary
    BY <1>0, <2>1, <2>3 DEF Boundary, TurnKeeps, Turns
  <2>4. CASE Dispatch \/ Finish
    BY <1>0, <2>4 DEF Dispatch, Finish, TurnKeeps, Turns
  <2> QED
    BY <1>6, <2>2, <2>3, <2>4
<1>7. /\ {"at", "tickets", "mine", "own", "spec", "req"} \subseteq DOMAIN turn
      /\ turn.tickets \in Seq(Seqs)
  BY <1>0 DEF Turns
<1>8. /\ {"at", "tickets", "mine", "own"} \subseteq DOMAIN Ending(turn, TRUE, FALSE)
      /\ Ending(turn, TRUE, FALSE).tickets \in Seq(Seqs)
      /\ Ending(turn, TRUE, FALSE).at # "tools"
  BY <1>7 DEF Ending, NoTurn
<1>9. CASE Sampled
  <2>1. \A at \in {"calls", "replied"} :
          /\ {"at", "tickets", "mine", "own"} \subseteq DOMAIN [turn EXCEPT !.at = at, !.req = NoSnap]
          /\ [turn EXCEPT !.at = at, !.req = NoSnap].tickets \in Seq(Seqs)
          /\ [turn EXCEPT !.at = at, !.req = NoSnap].at # "tools"
    BY <1>7
  <2> QED
    BY <1>8, <1>9, <2>1, ProposeKeeps DEF Sampled
<1>10. CASE ToolsDone
  <2>1. \A spec :
          /\ {"at", "tickets", "mine", "own"}
                \subseteq DOMAIN [turn EXCEPT !.at = "boundary", !.spec = spec]
          /\ [turn EXCEPT !.at = "boundary", !.spec = spec].tickets \in Seq(Seqs)
          /\ [turn EXCEPT !.at = "boundary", !.spec = spec].at # "tools"
    BY <1>7
  <2> QED
    BY <1>8, <1>10, <2>1, ProposeKeeps, Zenon DEF ToolsDone
<1>11. CASE Replied
  <2>1. LET next == [turn EXCEPT !.at = "boundary"]
        IN  /\ {"at", "tickets", "mine", "own"} \subseteq DOMAIN next
            /\ next.tickets = turn.tickets /\ next.mine = turn.mine /\ next.ok = turn.ok
            /\ next.at # "tools"
    BY <1>0, <1>7 DEF Turns
  <2>2. Ending(turn, TRUE, FALSE).mine = 0
    BY DEF Ending, NoTurn
  <2>3. CASE Propose(<<"user">>, {}, [turn EXCEPT !.at = "boundary"])
    BY <1>7, <2>1, <2>3, ProposeKeeps
  <2>4. CASE turn' \in {Ending(turn, TRUE, FALSE), [turn EXCEPT !.at = "boundary"]}
    BY <1>8, <2>1, <2>2, <2>4 DEF TurnKeeps
  <2> QED
    BY <1>11, <2>3, <2>4 DEF Replied
<1> QED
  BY <1>1, <1>2, <1>3, <1>4, <1>5, <1>6, <1>9, <1>10, <1>11
     DEF vars, Next, Actor, Commands, Turn
LEMMA TurnInvStep ==
    ASSUME Shape, Shape', GateInv, TurnInv, [Next]_vars
    PROVE  TurnInv'
<1>0. turn \in Turns /\ turn' \in Turns
  BY DEF Shape, TypeOK, TurnTypeOK
<1>1. Durable \subseteq Durable'
  BY DurableGrows
<1>2. ASSUME NEW q \in Seq(Seqs), turn'.tickets = Append(q, turn'.mine), turn'.mine # 0
      PROVE  turn'.mine \in Elems(turn'.tickets)
  <2>1. turn'.mine \in Seqs
    BY <1>0, <1>2, BoundsAreNats DEF Turns, Seqs
  <2>2. Elems(Append(q, turn'.mine)) = Elems(q) \cup {turn'.mine}
    BY <2>1, AppendElems
  <2> QED
    BY <1>2, <2>2
<1>3. CASE Resolve
  <2>1. /\ turn.tickets # <<>> /\ turn.tickets \in Seq(Seqs)
        /\ turn'.tickets = Tail(turn.tickets) /\ turn'.mine = turn.mine
        /\ turn'.ok => turn.ok /\ ticket[turn.tickets[1]] = "ok"
    BY <1>0, <1>3 DEF Resolve, Turns
  <2>2. /\ Elems(turn.tickets) = {turn.tickets[1]} \cup Elems(Tail(turn.tickets))
        /\ turn.tickets[1] \in Seqs
    BY <2>1, FrontAndTail, TailFacts DEF Front
  <2>3. turn'.ok => turn.tickets[1] \in Durable
    BY <2>1, <2>2 DEF GateInv
  <2> QED
    BY <1>1, <2>1, <2>2, <2>3 DEF TurnInv
<1> QED
  BY <1>1, <1>2, <1>3, TurnsMove DEF TurnKeeps, TurnInv

LEMMA GateInductive ==
    /\ Init => GateInv /\ TurnInv /\ ToolsInv
    /\ IInv /\ GateInv /\ TurnInv /\ ToolsInv /\ [Next]_vars => (GateInv /\ TurnInv /\ ToolsInv)'
<1>1. ASSUME Init
      PROVE  GateInv /\ TurnInv /\ ToolsInv
  <2>1. Elems(<<>>) = {} /\ DOMAIN <<>> = {}
    BY DEF Elems
  <2>2. Unsettled = {}
    BY <1>1, <2>1, Zenon DEF Init, Unsettled, Awaited, Loop
  <2>3. GateInv
    BY <1>1, <2>1, <2>2 DEF Init, GateInv, DueInv, EpochGate, Loop
  <2> QED
    BY <1>1, <2>3 DEF Init, TurnInv, ToolsInv, NoTurn
<1>2. ASSUME IInv, GateInv, TurnInv, ToolsInv, [Next]_vars
      PROVE  GateInv' /\ TurnInv' /\ ToolsInv'
  <2>1. Shape /\ Shape' /\ UnitsInv /\ DurableInv
    BY <1>2, Inductive DEF IInv
  <2>2. ToolsInv'
    BY <1>2, <2>1, TurnsMove DEF TurnKeeps, ToolsInv
  <2> QED
    BY <1>2, <2>1, <2>2, GateStep, TurnInvStep
<1> QED
  BY <1>1, <1>2

\* A proposer that has been told its commit landed can already read a head that
\* contains it, in every reachable state: the refresh at a sample boundary never
\* waits for a publish that will not come (Settle, Pipeline::drain, refresh).
THEOREM GateSafe == Spec => []EpochGate
<1>1. GateInv => EpochGate
  BY DEF GateInv
<1> QED
  BY <1>1, Inductive, GateInductive, PTL DEF Spec

\* No tool runs before the calls that caused it, and all the turn committed before
\* them, are durable, however the writer groups, fails or dies (barrier (a)).
THEOREM ToolsSafe == Spec => []ToolsAfterDurable
<1>1. TurnInv /\ ToolsInv => ToolsAfterDurable
  BY DEF TurnInv, ToolsInv, ToolsAfterDurable, Elems
<1> QED
  BY <1>1, Inductive, GateInductive, PTL DEF Spec
-----------------------------------------------------------------------------
(* The order of the file.                                                   *)

\* A queue without gaps stays one when its first unit leaves, and when the next
\* number's is appended.
LEMMA ContiguousTail ==
    ASSUME NEW q \in Seq(Unit), q # <<>>, Contiguous(q)
    PROVE  /\ Contiguous(Tail(q))
           /\ Tail(q) # <<>> =>
                /\ Tail(q)[1].first = q[1].last + 1
                /\ Tail(q)[Len(Tail(q))] = q[Len(q)]
<1>1. /\ Len(q) \in Nat /\ Len(q) >= 1 /\ Len(Tail(q)) = Len(q) - 1
      /\ \A i \in 1..Len(q) - 1 : Tail(q)[i] = q[i + 1]
  BY TailFacts
<1>2. Tail(q) # <<>> => Len(q) - 1 >= 1
  BY <1>1
<1>3. Contiguous(Tail(q))
  BY <1>1 DEF Contiguous
<1> QED
  BY <1>1, <1>2, <1>3 DEF Contiguous

LEMMA ContiguousAppend ==
    ASSUME NEW q \in Seq(Unit), Contiguous(q), NEW u \in Unit,
           q # <<>> => u.first = q[Len(q)].last + 1
    PROVE  Contiguous(Append(q, u))
<1>1. /\ Len(Append(q, u)) = Len(q) + 1 /\ Len(q) \in Nat
      /\ \A i \in 1..Len(q) : Append(q, u)[i] = q[i]
      /\ Append(q, u)[Len(q) + 1] = u
  BY AppendFacts
<1>2. ASSUME NEW i \in 1..Len(q)
      PROVE  Append(q, u)[i + 1].first = Append(q, u)[i].last + 1
  <2>1. CASE i = Len(q)
    <3>1. q # <<>>
      BY <1>1, <1>2
    <3> QED
      BY <1>1, <2>1, <3>1
  <2>2. CASE i # Len(q)
    <3>1. i \in 1..Len(q) - 1 /\ i + 1 \in 1..Len(q)
      BY <1>1, <2>2
    <3> QED
      BY <1>1, <3>1 DEF Contiguous
  <2> QED
    BY <2>1, <2>2
<1> QED
  BY <1>1, <1>2 DEF Contiguous

\* What the next write adds to the file.
LEMMA WriteFacts ==
    ASSUME Shape, FileInv, WriterWrite
    PROVE  LET b == batch[wrote + 1]
           IN  /\ wrote + 1 \in 1..Len(batch) /\ b \in Unit /\ b \in Elems(batch)
               /\ b.first = Len(file) + 1 /\ Len(file') = b.last
               /\ file' \in Seq(Seqs) /\ \A i \in 1..Len(file') : file'[i] = i
               /\ Ids(b) \in Seq(Seqs) /\ file' = file \o Ids(b)
<1> DEFINE b == batch[wrote + 1]
<1>1. wrote + 1 \in 1..Len(batch) /\ wrote \in Nat /\ phase = "write"
  BY Ground DEF WriterWrite
<1>2. b \in Unit /\ b \in Elems(batch)
  BY <1>1, Ground DEF Elems
<1>3. b.first = Len(file) + 1
  <2>1. CASE wrote = 0
    BY <1>1, <2>1 DEF FileInv
  <2>2. CASE wrote # 0
    <3>1. wrote \in 1..Len(batch) - 1 /\ batch[wrote].last = Len(file)
      BY <1>1, <2>2, Ground DEF FileInv
    <3> QED
      BY <3>1 DEF FileInv, Contiguous
  <2> QED
    BY <2>1, <2>2
<1>4. b.first \in Nat /\ b.last \in Nat /\ b.first <= b.last
  BY <1>2, UnitNumbers
<1>5. /\ Ids(b) \in Seq(Seqs) /\ Len(Ids(b)) = b.last - b.first + 1
      /\ \A i \in 1..b.last - b.first + 1 : Ids(b)[i] = b.first + i - 1
  <2>1. b.last - b.first + 1 \in Nat
    BY <1>4
  <2> QED
    BY <1>2, <2>1, IdsType DEF Ids
<1>6. file' = file \o Ids(b)
  BY DEF WriterWrite
<1> HIDE DEF b
<1>7. /\ file' \in Seq(Seqs) /\ Len(file') = b.last
      /\ \A i \in 1..Len(file') :
            file'[i] = IF i <= Len(file) THEN file[i] ELSE Ids(b)[i - Len(file)]
  <2> DEFINE t == Ids(b)
  <2>1. file \in Seq(Seqs) /\ t \in Seq(Seqs) /\ Len(file) \in Nat /\ file' = file \o t
    BY <1>5, <1>6, Ground
  <2>2. Len(file) + Len(t) = b.last
    BY <1>3, <1>4, <1>5, <2>1
  <2> HIDE DEF t
  <2>3. /\ file \o t \in Seq(Seqs) /\ Len(file \o t) = Len(file) + Len(t)
        /\ \A i \in 1..Len(file) + Len(t) :
              (file \o t)[i] = IF i <= Len(file) THEN file[i] ELSE t[i - Len(file)]
    BY <2>1
  <2> QED
    BY <2>1, <2>2, <2>3 DEF t
<1>8. ASSUME NEW i \in 1..Len(file')
      PROVE  file'[i] = i
  <2>1. CASE i <= Len(file)
    <3>1. i \in 1..Len(file) /\ DOMAIN file = 1..Len(file)
      BY <1>7, <2>1, Ground
    <3>2. file'[i] = file[i]
      BY <1>7, <2>1
    <3> QED
      BY <3>1, <3>2 DEF FileInv
  <2>2. CASE ~(i <= Len(file))
    <3>0. /\ Len(file) \in Nat /\ b.first = Len(file) + 1 /\ b.last \in Nat
          /\ i \in 1..b.last
      BY <1>3, <1>4, <1>7, Ground
    <3>1. i - Len(file) \in 1..b.last - b.first + 1
      BY <2>2, <3>0
    <3>2. Ids(b)[i - Len(file)] = b.first + (i - Len(file)) - 1
      BY <1>5, <3>1
    <3>3. file'[i] = Ids(b)[i - Len(file)]
      BY <1>7, <2>2
    <3> QED
      BY <3>0, <3>2, <3>3
  <2> QED
    BY <2>1, <2>2
<1> QED
  BY <1>1, <1>2, <1>3, <1>5, <1>6, <1>7, <1>8 DEF b

LEMMA FileStep ==
    ASSUME Shape, Shape', FileInv, [Next]_vars
    PROVE  FileInv'
<1>0. /\ chan \in Seq(Unit) /\ batch \in Seq(Unit) /\ file \in Seq(Seqs)
      /\ Len(chan) \in Nat /\ Len(batch) \in Nat /\ Len(file) \in Nat /\ seq \in Nat
      /\ DOMAIN file = 1..Len(file) /\ good \in 0..Len(file) /\ wrote \in 0..Len(batch)
  BY Ground
<1>u. \A u \in Unit : u.first \in Nat /\ u.last \in Nat
  BY UnitNumbers
<1>e. Contiguous(<<>>) /\ Len(<<>>) = 0
  BY DEF Contiguous
<1>1. CASE WriterTake
  <2>1. /\ phase = "idle" /\ chan # <<>> /\ chan' = <<>> /\ batch = <<>>
        /\ UNCHANGED <<file, sealed, seq>>
    BY <1>1 DEF WriterTake, FileInv, actorVars
  <2>2. CASE sealed
    BY <1>1, <1>e, <2>1, <2>2 DEF WriterTake, FileInv, Live
  <2>3. CASE ~sealed
    <3>1. batch' = chan /\ wrote' = 0 /\ phase' = "write"
      BY <1>1, <2>3 DEF WriterTake
    <3>2. chan[1].first = Len(file) + 1 /\ seq = chan[Len(chan)].last
      BY <2>1, <2>3 DEF FileInv, Frontier, Tip, Live
    <3> QED
      BY <1>e, <2>1, <3>1, <3>2 DEF FileInv, Frontier, Tip
  <2> QED
    BY <2>2, <2>3
<1>2. CASE WriterWrite
  <2>1. /\ phase = "write" /\ UNCHANGED <<chan, batch, phase, sealed, seq>> /\ wrote' = wrote + 1
    BY <1>2 DEF WriterWrite, actorVars
  <2>2. /\ batch[wrote'].last = Len(file') /\ wrote' # 0
        /\ \A i \in DOMAIN file' : file'[i] = i
    <3>1. /\ Len(file') = batch[wrote + 1].last /\ file' \in Seq(Seqs)
          /\ \A i \in 1..Len(file') : file'[i] = i
      BY <1>2, WriteFacts
    <3>2. DOMAIN file' = 1..Len(file')
      BY <3>1
    <3> QED
      BY <1>0, <2>1, <3>1, <3>2
  <2> QED
    BY <2>1, <2>2 DEF FileInv, Frontier, Tip, Live
<1>3. CASE WriterSync
  <2>1. /\ phase = "write" /\ phase' = "ack" /\ wrote = Len(batch) /\ batch # <<>>
        /\ UNCHANGED <<chan, batch, wrote, file, sealed, seq>>
    BY <1>3 DEF WriterSync, actorVars, Shape, WriterInv
  <2>2. batch[Len(batch)].last = Len(file)
    BY <1>0, <2>1 DEF FileInv
  <2> QED
    BY <2>1, <2>2 DEF FileInv, Frontier, Tip, Live
<1>4. CASE WriterAck
  <2>1. /\ phase = "ack" /\ batch' = Tail(batch) /\ batch # <<>>
        /\ phase' = (IF Len(batch) = 1 THEN "idle" ELSE "ack")
        /\ UNCHANGED <<chan, file, sealed, seq>>
    BY <1>4 DEF WriterAck, actorVars, Shape, WriterInv
  <2>2. Contiguous(batch')
    BY <1>0, <2>1, ContiguousTail DEF FileInv
  <2>3. phase' = "idle" => batch' = <<>>
    BY <1>0, <2>1
  <2> QED
    BY <2>1, <2>2, <2>3 DEF FileInv, Frontier, Tip, Live
<1>5. CASE WriterFails
  <2>1. /\ file' = SubSeq(file, 1, good) /\ sealed' = TRUE /\ batch' = <<>> /\ phase' = "idle"
        /\ UNCHANGED chan
    BY <1>5 DEF WriterFails
  <2>2. \A i \in DOMAIN file' : i \in DOMAIN file /\ file'[i] = file[i]
    BY <1>0, <2>1
  <2> QED
    BY <1>e, <2>1, <2>2 DEF FileInv, Live
<1>6. CASE WriterDies
  <2>1. phase' = "dead" /\ chan' = <<>> /\ batch' = <<>> /\ UNCHANGED <<file, sealed>>
    BY <1>6 DEF WriterDies
  <2> QED
    BY <1>e, <2>1 DEF FileInv, Live
<1>7. ASSUME NEW u \in Unit, Grow(u)
      PROVE  FileInv'
  <2>1. /\ Live /\ chan' = Append(chan, u) /\ u.first = seq + 1 /\ u.last = seq'
        /\ UNCHANGED <<batch, wrote, phase, file, sealed>>
    BY <1>7 DEF Grow, Live
  <2>2. /\ Len(chan') = Len(chan) + 1 /\ chan'[Len(chan) + 1] = u
        /\ \A i \in 1..Len(chan) : chan'[i] = chan[i]
    BY <1>0, <2>1, AppendFacts
  <2>3. seq = Tip /\ Frontier' = Frontier
    BY <2>1 DEF FileInv, Frontier
  <2>4. Contiguous(chan')
    BY <1>0, <2>1, <2>3, ContiguousAppend DEF FileInv, Tip
  <2>5. chan'[1].first = Frontier + 1
    <3>1. CASE chan = <<>>
      BY <2>1, <2>2, <2>3, <3>1 DEF Tip
    <3>2. CASE chan # <<>>
      <4>1. 1 \in 1..Len(chan)
        BY <1>0, <3>2
      <4> QED
        BY <2>1, <2>2, <3>2, <4>1 DEF FileInv, Live
    <3> QED
      BY <3>1, <3>2
  <2>6. chan' # <<>> /\ Tip' = seq'
    BY <1>0, <2>1, <2>2 DEF Tip
  <2> QED
    BY <2>1, <2>3, <2>4, <2>5, <2>6 DEF FileInv, Live
<1>8. CASE Settles \/ AppendOk
  <2>1. UNCHANGED <<chan, batch, wrote, phase, file, sealed, seq>>
    BY <1>8 DEF Settles, AppendOk, logVars
  <2> QED
    BY <2>1 DEF FileInv, Frontier, Tip, Live
<1>9. CASE Quiet
  <2>1. /\ UNCHANGED <<chan, batch, wrote, phase, file>> /\ (sealed => sealed')
        /\ (seq' = seq \/ sealed')
    BY <1>9 DEF Quiet
  <2> QED
    BY <2>1 DEF FileInv, Frontier, Tip, Live
<1>10. CASE Crash
  <2>1. PICK n \in good..Len(file) : file' = SubSeq(file, 1, n) /\ seq' = n
    BY <1>10 DEF Crash
  <2>2. chan' = <<>> /\ batch' = <<>> /\ phase' = "idle"
    BY <1>10 DEF Crash
  <2>3. Len(file') = n /\ \A i \in DOMAIN file' : i \in DOMAIN file /\ file'[i] = file[i]
    BY <1>0, <2>1
  <2> QED
    BY <1>e, <2>1, <2>2, <2>3 DEF FileInv, Frontier, Tip
<1> QED
  BY <1>1, <1>2, <1>3, <1>4, <1>5, <1>6, <1>7, <1>8, <1>9, <1>10, Steps DEF Writer
-----------------------------------------------------------------------------
(* The order of the acks.                                                   *)

\* A step of the writer answers the units G with `a` and lets them go: "ok" to the
\* oldest of those in flight, "err" to all but what a seal holds back.
Answers(G, a) ==
    /\ G \subseteq InFlight /\ InFlight' \subseteq InFlight /\ InFlight \subseteq InFlight' \cup G
    /\ \A u \in Unit : ack'[u.last] =
          IF \E g \in G : g.last = u.last THEN a ELSE ack[u.last]
    /\ \A g \in G, v \in InFlight' : g.last # v.last
    /\ a = "ok" => \A g \in G, v \in InFlight' : g.last < v.last
    /\ a = "err" => ~Live' /\ \A v \in InFlight' : v \in Elems(chan') /\ sealed'
    /\ sealed => \A v \in Elems(chan) : v \in Elems(chan') \/ (v \in G /\ a = "err")
    /\ (sealed => sealed') /\ (Live' => Live)

LEMMA WriterAnswers ==
    ASSUME Shape, QueueInv, UnitsInv, FileInv, Writer \/ WriterFails \/ WriterDies
    PROVE  \E G \in SUBSET Unit, a \in {"ok", "err"} : Answers(G, a)
<1>0. /\ chan \in Seq(Unit) /\ batch \in Seq(Unit) /\ Len(chan) \in Nat /\ Len(batch) \in Nat
      /\ DOMAIN chan = 1..Len(chan) /\ DOMAIN batch = 1..Len(batch)
      /\ ack \in [Seqs -> {"none", "wait", "ok", "err"}]
  BY Ground
<1>u. \A u \in Unit : u.last \in Seqs /\ u.last \in Nat /\ u.first \in Nat /\ u.first <= u.last
  BY UnitNumbers
<1>e. Elems(<<>>) = {}
  BY DEF Elems
<1>i. Elems(chan) \subseteq Unit /\ Elems(batch) \subseteq Unit
  BY <1>0 DEF Elems
<1>s. \A q \in Seq(Unit) : Units(q) = {u.last : u \in Elems(q)}
  BY DEF Units, Elems
<1>1. CASE WriterTake
  <2>1. /\ phase = "idle" /\ batch = <<>> /\ Elems(batch) = {} /\ chan' = <<>> /\ Elems(chan') = {}
        /\ UNCHANGED sealed
    BY <1>1, <1>e, Zenon DEF WriterTake, FileInv
  <2>2. CASE sealed
    <3>1. ack' = Answer(chan, "err") /\ UNCHANGED <<batch, phase>>
      BY <1>1, <2>2 DEF WriterTake
    <3>2. InFlight = Elems(chan) /\ InFlight' = {}
      BY <2>1, <3>1, Zenon DEF InFlight
    <3>3. \A u \in Unit : ack'[u.last] =
            IF \E g \in Elems(chan) : g.last = u.last THEN "err" ELSE ack[u.last]
      BY <1>0, <1>u, <1>s, <3>1 DEF Answer
    <3>4. Answers(Elems(chan), "err")
      BY <2>1, <2>2, <3>2, <3>3 DEF Answers, Live
    <3> QED
      BY <1>i, <3>4
  <2>3. CASE ~sealed
    <3>1. ack' = ack /\ batch' = chan /\ phase' = "write"
      BY <1>1, <2>3 DEF WriterTake
    <3>2. InFlight = Elems(chan) /\ InFlight' = Elems(chan)
      BY <2>1, <3>1, Zenon DEF InFlight
    <3>3. Answers({}, "ok")
      BY <2>1, <2>3, <3>1, <3>2 DEF Answers, Live
    <3> QED
      BY <3>3
  <2> QED
    BY <2>2, <2>3
<1>2. CASE WriterWrite \/ WriterSync
  <2>1. UNCHANGED <<chan, batch, ack, sealed>> /\ phase = "write"
    BY <1>2 DEF WriterWrite, WriterSync
  <2>2. InFlight' = InFlight /\ Elems(chan') = Elems(chan)
    BY <2>1, Zenon DEF InFlight
  <2>3. Answers({}, "ok")
    BY <2>1, <2>2 DEF Answers, Live
  <2> QED
    BY <2>3
<1>3. CASE WriterAck
  <2> DEFINE g == Front(batch)
  <2>1. /\ batch # <<>> /\ phase = "ack" /\ batch' = Tail(batch) /\ UNCHANGED <<chan, sealed>>
        /\ ack' = [ack EXCEPT ![g.last] = "ok"]
    BY <1>3 DEF WriterAck, Shape, WriterInv
  <2>2. /\ Elems(batch) = {g} \cup Elems(batch') /\ g = batch[1] /\ g \in Elems(batch)
        /\ DOMAIN batch' = 1..Len(batch) - 1
        /\ \A i \in DOMAIN batch' : i + 1 \in DOMAIN batch /\ batch'[i] = batch[i + 1]
    BY <1>0, <2>1, FrontAndTail
  <2>3. g \in Unit /\ g.last \in Nat
    BY <1>u, <1>i, <2>2
  <2>4. ASSUME NEW v \in Elems(batch')
        PROVE  g.last < v.last
    <3>1. PICK i \in DOMAIN batch' : v = batch'[i]
      BY DEF Elems
    <3>2. i + 1 \in DOMAIN batch /\ 1 \in DOMAIN batch /\ 1 < i + 1 /\ v = batch[i + 1]
      BY <1>0, <2>2, <3>1
    <3>3. g.last < v.first /\ v \in Unit
      BY <1>0, <2>2, <3>2 DEF QueueInv
    <3> QED
      BY <1>u, <2>3, <3>3
  <2>5. ASSUME NEW v \in Elems(chan)
        PROVE  g.last < v.last
    <3>1. g.last < v.first
      BY <2>2 DEF QueueInv
    <3> QED
      BY <1>u, <1>i, <2>3, <3>1
  <2>6. \A u \in Unit : ack'[u.last] = IF g.last = u.last THEN "ok" ELSE ack[u.last]
    BY <1>0, <1>u, <2>1
  <2>7. InFlight' = Elems(chan) \cup Elems(batch') /\ Elems(chan') = Elems(chan)
    BY <2>1, Zenon DEF InFlight
  <2> HIDE DEF g
  <2>8. \A v \in InFlight' : g.last < v.last /\ g.last # v.last
    <3>1. \A v \in InFlight' : g.last < v.last /\ v \in Unit
      BY <1>i, <2>2, <2>4, <2>5, <2>7
    <3> QED
      BY <1>u, <2>3, <3>1
  <2>9. Live' => Live
    BY <2>1 DEF Live
  <2>10. /\ {g} \subseteq InFlight /\ InFlight' \subseteq InFlight
         /\ InFlight \subseteq InFlight' \cup {g}
    BY <2>2, <2>7, Zenon DEF InFlight
  <2>11. Answers({g}, "ok")
    BY <2>1, <2>6, <2>7, <2>8, <2>9, <2>10 DEF Answers
  <2> QED
    BY <2>3, <2>11
<1>4. CASE WriterFails
  <2>1. /\ batch' = <<>> /\ Elems(batch') = {} /\ sealed' = TRUE /\ UNCHANGED chan
        /\ ack' = Answer(batch, "err") /\ phase = "write"
    BY <1>4, <1>e, Zenon DEF WriterFails
  <2>2. InFlight' = Elems(chan) /\ Elems(chan') = Elems(chan)
    BY <2>1, Zenon DEF InFlight
  <2>3. \A u \in Unit : ack'[u.last] =
          IF \E g \in Elems(batch) : g.last = u.last THEN "err" ELSE ack[u.last]
    BY <1>0, <1>u, <1>s, <2>1 DEF Answer
  <2>4. \A g \in Elems(batch), v \in Elems(chan) : g.last # v.last
    <3>1. \A g \in Elems(batch), v \in Elems(chan) : g.last < v.first
      BY DEF QueueInv
    <3> QED
      BY <1>u, <1>i, <3>1
  <2>5. Answers(Elems(batch), "err")
    BY <2>1, <2>2, <2>3, <2>4 DEF Answers, Live, InFlight
  <2> QED
    BY <1>i, <2>5
<1>5. CASE WriterDies
  <2>1. /\ chan' = <<>> /\ batch' = <<>> /\ Elems(chan') = {} /\ Elems(batch') = {}
        /\ ack' = Answer(batch \o chan, "err") /\ phase' = "dead" /\ UNCHANGED sealed
    BY <1>5, <1>e, Zenon DEF WriterDies
  <2>2. InFlight' = {}
    BY <2>1, Zenon DEF InFlight
  <2>3. batch \o chan \in Seq(Unit) /\ Elems(batch \o chan) = InFlight
    <3>1. /\ batch \o chan \in Seq(Unit)
          /\ Elems(batch \o chan) = Elems(batch) \cup Elems(chan)
      BY <1>0, ConcatElems
    <3> QED
      BY <3>1 DEF InFlight
  <2>4. \A u \in Unit : ack'[u.last] =
          IF \E g \in InFlight : g.last = u.last THEN "err" ELSE ack[u.last]
    <3>1. Units(batch \o chan) = {u.last : u \in InFlight}
      BY <1>s, <2>3
    <3> QED
      BY <1>u, <2>1, <3>1 DEF Answer
  <2>5. Answers(InFlight, "err")
    BY <2>1, <2>2, <2>4 DEF Answers, Live, InFlight
  <2> QED
    BY <1>i, <2>5 DEF InFlight
<1> QED
  BY <1>1, <1>2, <1>3, <1>4, <1>5 DEF Writer

\* The acks keep their order when the writer answers.
LEMMA AnswersOrder ==
    ASSUME Shape, UnitsInv, AckInv, Unsettled' = Unsettled,
           NEW G \in SUBSET Unit, NEW a \in {"ok", "err"}, Answers(G, a)
    PROVE  AckInv' /\ \A u \in Unsettled : Doomed(u) => Doomed(u)'
<1>1. \A u \in Unsettled \cup InFlight : u \in Unit /\ u.last \in Nat
  BY UnsettledType
<1>2. \A u \in Unit : ack'[u.last] =
        IF \E g \in G : g.last = u.last THEN a ELSE ack[u.last]
  BY DEF Answers
<1>3. ASSUME NEW u \in Unit, ack[u.last] = "err" PROVE ack'[u.last] = "err"
  <2>1. \A g \in G : ack[g.last] = "wait"
    BY DEF AckInv, Answers
  <2>2. ~(\E g \in G : g.last = u.last)
    BY <1>3, <2>1
  <2> QED
    BY <1>2, <1>3, <2>2
<1>4. ASSUME NEW u \in Unsettled, Doomed(u) PROVE Doomed(u)'
  <2>1. CASE ack[u.last] = "err"
    BY <1>1, <1>3, <2>1 DEF Doomed
  <2>2. CASE u \in Elems(chan) /\ sealed
    <3>1. sealed' /\ (u \in Elems(chan') \/ (u \in G /\ a = "err"))
      BY <2>2 DEF Answers
    <3> QED
      BY <1>1, <1>2, <3>1 DEF Doomed
  <2> QED
    BY <1>4, <2>1, <2>2 DEF Doomed
<1>5. \A v \in InFlight' : ack'[v.last] = "wait"
  <2>1. \A v \in InFlight' : v \in InFlight /\ ~(\E g \in G : g.last = v.last)
    BY DEF Answers
  <2> QED
    BY <1>1, <1>2, <2>1 DEF AckInv
<1>6. \A u \in Unsettled : ack'[u.last] \in {"ok", "err"} \/ u \in InFlight'
  <2> TAKE u \in Unsettled
  <2>1. CASE \E g \in G : g.last = u.last
    BY <1>1, <1>2, <2>1
  <2>2. CASE ~(\E g \in G : g.last = u.last)
    <3>1. ack'[u.last] = ack[u.last] /\ u \notin G
      BY <1>1, <1>2, <2>2
    <3> QED
      BY <3>1 DEF AckInv, Answers
  <2> QED
    BY <2>1, <2>2
<1>7. \A u \in Unsettled, v \in InFlight' : ack'[u.last] = "ok" => u.last < v.last
  <2> SUFFICES ASSUME NEW u \in Unsettled, NEW v \in InFlight', ack'[u.last] = "ok"
               PROVE  u.last < v.last
    OBVIOUS
  <2>1. CASE \E g \in G : g.last = u.last
    <3>1. a = "ok"
      BY <1>1, <1>2, <2>1
    <3> QED
      BY <2>1, <3>1 DEF Answers
  <2>2. CASE ~(\E g \in G : g.last = u.last)
    <3>1. ack[u.last] = "ok" /\ v \in InFlight
      BY <1>1, <1>2, <2>2 DEF Answers
    <3> QED
      BY <3>1 DEF AckInv
  <2> QED
    BY <2>1, <2>2
<1>8. \A u, v \in Unsettled : ack'[u.last] = "err" /\ u.last < v.last => Doomed(v)'
  <2> SUFFICES ASSUME NEW u \in Unsettled, NEW v \in Unsettled, ack'[u.last] = "err",
                      u.last < v.last
               PROVE  Doomed(v)'
    OBVIOUS
  <2>1. CASE ack[u.last] = "err"
    BY <1>4, <2>1 DEF AckInv
  <2>2. CASE ack[u.last] # "err"
    <3>1. PICK g \in G : g.last = u.last
      BY <1>1, <1>2, <2>2
    <3>2. a = "err"
      BY <1>1, <1>2, <2>2
    <3>3. CASE \E h \in G : h.last = v.last
      BY <1>1, <1>2, <3>2, <3>3 DEF Doomed
    <3>4. CASE ~(\E h \in G : h.last = v.last)
      <4>1. ack'[v.last] = ack[v.last] /\ v \notin G
        BY <1>1, <1>2, <3>4
      <4>2. ack[v.last] # "ok"
        <5>1. g \in InFlight
          BY DEF Answers
        <5>2. ack[v.last] = "ok" => v.last < u.last
          BY <3>1, <5>1 DEF AckInv
        <5> QED
          BY <1>1, <5>2
      <4>3. CASE ack[v.last] = "err"
        BY <4>1, <4>3 DEF Doomed
      <4>4. CASE v \in InFlight
        BY <3>2, <4>1, <4>4 DEF Answers, Doomed
      <4> QED
        BY <4>2, <4>3, <4>4 DEF AckInv
    <3> QED
      BY <3>3, <3>4
  <2> QED
    BY <2>1, <2>2
<1>9. \A u \in Unsettled : ack'[u.last] = "err" => ~Live'
  <2> SUFFICES ASSUME NEW u \in Unsettled, ack'[u.last] = "err"
               PROVE  ~Live'
    OBVIOUS
  <2>1. ack[u.last] = "err" \/ a = "err"
    BY <1>1, <1>2
  <2> QED
    BY <2>1 DEF Answers, AckInv
<1> QED
  BY <1>4, <1>5, <1>6, <1>7, <1>8, <1>9 DEF AckInv
\* A log that still takes entries has failed no unit that is waited for.
LEMMA LiveDoomsNone ==
    ASSUME AckInv, Live, NEW u \in Unsettled
    PROVE  ~Doomed(u) /\ ack[u.last] # "err"
BY DEF AckInv, Live, Doomed

LEMMA AckStep ==
    ASSUME Shape, Shape', QueueInv, UnitsInv, FileInv, AckInv, [Next]_vars
    PROVE  /\ AckInv'
           /\ Writer \/ WriterFails \/ WriterDies \/ Settles \/ AppendOk \/ Quiet
                 => \A u \in Unsettled : Doomed(u) => Doomed(u)'
<1>0. ack \in [Seqs -> {"none", "wait", "ok", "err"}] /\ seq \in Nat /\ chan \in Seq(Unit)
  BY Ground
<1>u. \A u \in Unsettled \cup InFlight :
        u \in Unit /\ u.last \in Seqs /\ u.last \in Nat /\ u.last <= seq
  BY UnsettledType
<1>1. CASE Writer \/ WriterFails \/ WriterDies
  <2>1. Unsettled' = Unsettled
    BY <1>1, UnsettledStep
  <2>2. PICK G \in SUBSET Unit, a \in {"ok", "err"} : Answers(G, a)
    BY <1>1, WriterAnswers
  <2> QED
    BY <2>1, <2>2, AnswersOrder
<1>2. ASSUME NEW u \in Unit, Grow(u)
      PROVE  AckInv'
  <2>1. /\ Live /\ Live' /\ u.last = seq' /\ u.last \in Seqs /\ u.last \in Nat /\ seq < u.last
        /\ ack' = [ack EXCEPT ![u.last] = "wait"] /\ chan' = Append(chan, u) /\ batch' = batch
    BY <1>0, <1>2, UnitNumbers DEF Grow, Live
  <2>2. Unsettled' \subseteq Unsettled \cup {u}
    BY <1>2, UnsettledStep DEF Unsettled
  <2>3. InFlight' = InFlight \cup {u}
    <3>1. Elems(chan') = Elems(chan) \cup {u}
      BY <1>0, <2>1, AppendElems
    <3>2. Elems(batch') = Elems(batch)
      BY <2>1, Zenon
    <3> QED
      BY <3>1, <3>2 DEF InFlight
  <2>4. \A v \in Unsettled \cup InFlight : v.last < u.last /\ ack'[v.last] = ack[v.last]
    BY <1>0, <1>u, <2>1
  <2>5. ack'[u.last] = "wait"
    BY <1>0, <2>1
  <2>6. \A v \in Unsettled' : ack'[v.last] # "err"
    BY <2>1, <2>2, <2>4, <2>5, LiveDoomsNone
  <2> QED
    BY <2>2, <2>3, <2>4, <2>5, <2>6 DEF AckInv
<1>3. CASE Settles \/ AppendOk \/ Quiet
  <2>1. UNCHANGED <<chan, batch, phase, ack>> /\ (sealed => sealed')
    BY <1>3 DEF Settles, AppendOk, Quiet, logVars
  <2>2. Unsettled' \subseteq Unsettled
    <3>1. CASE Settles
      <4>1. Unsettled' = Elems(Tail(fifo)) /\ Unsettled = Elems(fifo)
        BY <3>1, UnsettledStep
      <4>2. Elems(Tail(fifo)) \subseteq Elems(fifo)
        BY <3>1, Ground, TailFacts DEF Settles, FrontAnswered
      <4> QED
        BY <4>1, <4>2
    <3>2. CASE AppendOk
      BY <3>2, UnsettledStep DEF Unsettled
    <3>3. CASE Quiet
      BY <3>3, UnsettledStep
    <3> QED
      BY <1>3, <3>1, <3>2, <3>3
  <2>3. InFlight' = InFlight /\ Elems(chan') = Elems(chan)
    BY <2>1, Zenon DEF InFlight
  <2>4. \A u \in Unsettled : Doomed(u) => Doomed(u)'
    BY <2>1, <2>3 DEF Doomed
  <2>5. Live' => Live
    BY <2>1 DEF Live
  <2>6. \A u, v \in Unsettled' : ack'[u.last] = "err" /\ u.last < v.last => Doomed(v)'
    BY <2>1, <2>2, <2>4 DEF AckInv
  <2> QED
    BY <2>1, <2>2, <2>3, <2>4, <2>5, <2>6 DEF AckInv
<1>4. ASSUME Crash
      PROVE  AckInv'
  <2>1. Unsettled' = {}
    BY <1>4, UnsettledStep
  <2>2. InFlight' = {}
    <3>1. chan' = <<>> /\ batch' = <<>> /\ Elems(<<>>) = {}
      BY <1>4 DEF Crash, Elems
    <3> QED
      BY <3>1, Zenon DEF InFlight
  <2> QED
    BY <1>4, <2>1, <2>2 DEF AckInv
<1> QED
  BY <1>1, <1>2, <1>3, <1>4, Steps

-----------------------------------------------------------------------------
(* The order of the projection.                                             *)

LEMMA UpToFacts ==
    ASSUME NEW n \in Nat
    PROVE  /\ UpTo(n) \in Seq(Nat) /\ Len(UpTo(n)) = n /\ Elems(UpTo(n)) = 1..n
           /\ \A i \in 1..n : UpTo(n)[i] = i
BY DEF UpTo, Elems

LEMMA IsUpTo ==
    ASSUME NEW S, NEW q \in Seq(S), NEW n \in Nat, Len(q) = n, \A i \in 1..n : q[i] = i
    PROVE  q = UpTo(n)
<1>1. q = [i \in 1..Len(q) |-> q[i]]
  OBVIOUS
<1> QED
  BY <1>1 DEF UpTo

LEMMA AdvanceOrder ==
    ASSUME NEW h \in Heads, NEW u \in Unit, h.projected = UpTo(h.epoch), u.first = h.epoch + 1
    PROVE  Advance(h, u).projected = UpTo(u.last) /\ Advance(h, u).epoch = u.last
<1>1. /\ u.first \in Nat /\ u.last \in Nat /\ u.first <= u.last
      /\ h.epoch \in Nat /\ h.projected \in Seq(Seqs)
  BY UnitNumbers DEF Heads
<1> DEFINE n == h.epoch
           t == Ids(u)
<1>2. /\ Len(t) = u.last - n /\ t \in Seq(Seqs)
      /\ \A i \in 1..u.last - n : t[i] = n + i
  <2>1. u.last - u.first + 1 = u.last - n /\ u.last - n \in Nat
    BY <1>1
  <2>2. t \in Seq(Seqs)
    BY IdsType
  <2>3. t = [i \in 1..u.last - n |-> u.first + i - 1]
    BY <2>1 DEF Ids
  <2> HIDE DEF t
  <2>4. \A i \in 1..u.last - n : u.first + i - 1 = n + i
    BY <1>1
  <2> QED
    BY <2>1, <2>2, <2>3, <2>4
<1>3. Len(h.projected) = n /\ \A i \in 1..n : h.projected[i] = i
  BY <1>1, UpToFacts
<1> HIDE DEF t
<1>4. /\ Len(h.projected \o t) = u.last /\ h.projected \o t \in Seq(Seqs)
      /\ \A i \in 1..u.last : (h.projected \o t)[i] = i
  <2> DEFINE p == h.projected
  <2>1. p \in Seq(Seqs) /\ Len(p) = n
    BY <1>1, <1>3
  <2> HIDE DEF p
  <2>2. /\ Len(p \o t) = Len(p) + Len(t) /\ p \o t \in Seq(Seqs)
        /\ \A i \in 1..Len(p) + Len(t) :
              (p \o t)[i] = IF i <= Len(p) THEN p[i] ELSE t[i - Len(p)]
    <3>1. t \in Seq(Seqs) /\ p \in Seq(Seqs)
      BY <1>2, <2>1
    <3>2. Len(p \o t) = Len(p) + Len(t) /\ p \o t \in Seq(Seqs)
      BY <3>1
    <3>3. ASSUME NEW i \in 1..Len(p) + Len(t)
          PROVE  (p \o t)[i] = IF i <= Len(p) THEN p[i] ELSE t[i - Len(p)]
      BY <3>1
    <3> QED BY <3>2, <3>3
  <2>3. Len(p) + Len(t) = u.last
    BY <1>1, <1>2, <2>1
  <2>4. ASSUME NEW i \in 1..u.last
        PROVE  (p \o t)[i] = i
    <3>1. CASE i <= n
      BY <1>1, <1>3, <2>1, <2>2, <2>3, <3>1 DEF p
    <3>2. CASE ~(i <= n)
      <4>1. i - n \in 1..u.last - n /\ n + (i - n) = i
        BY <1>1, <3>2
      <4> QED
        BY <1>2, <2>1, <2>2, <2>3, <3>2, <4>1
    <3> QED
      BY <3>1, <3>2
  <2> QED
    BY <2>2, <2>3, <2>4 DEF p
<1>5. h.projected \o t = UpTo(u.last)
  BY <1>1, <1>4, IsUpTo
<1>6. Advance(h, u).projected = h.projected \o t /\ Advance(h, u).epoch = u.last
  BY DEF Advance, Heads, t
<1> QED
  BY <1>5, <1>6
\* A unit that was acked was not doomed.
LEMMA OkIsNotDoomed ==
    ASSUME AckInv, NEW u, ack[u.last] = "ok"
    PROVE  ~Doomed(u)
BY DEF AckInv, Doomed, InFlight

\* An interrupted wait leaves an entry in the log that is never projected, so the
\* projection follows the log as long as folds are not interrupted.
LEMMA HeadStep ==
    ASSUME Interrupts = FALSE, Shape, Shape', QueueInv, UnitsInv, DurableInv, GateInv,
           FileInv, AckInv, HeadInv, [Next]_vars
    PROVE  HeadInv'
<1>0. /\ fifo \in Seq(Unit) /\ Len(fifo) \in Nat /\ seq \in Nat /\ head.epoch \in Nat
      /\ head \in Heads /\ op \in Ops
  BY Ground
<1>d. Writer \/ WriterFails \/ WriterDies \/ Settles
         => \A u \in Unsettled : Doomed(u) => Doomed(u)'
  BY AckStep
<1>1. CASE Writer \/ WriterFails \/ WriterDies
  <2>1. UNCHANGED <<fifo, op, seq, head, pub>> /\ phase # "dead"
    BY <1>1 DEF Writer, WriterTake, WriterWrite, WriterSync, WriterAck, WriterFails,
                WriterDies, actorVars
  <2>2. sealed => sealed'
    BY <1>1 DEF Writer, WriterTake, WriterWrite, WriterSync, WriterAck, WriterFails, WriterDies
  <2>3. Live' => Live
    BY <2>1, <2>2 DEF Live
  <2>4. Unsettled' = Unsettled
    BY <1>1, UnsettledStep
  <2>5. (\E u \in Unsettled' : ~Doomed(u)') => Tied
    BY <1>1, <1>d, <2>4 DEF HeadInv
  <2> QED
    BY <2>1, <2>3, <2>5 DEF HeadInv, Tied
<1>2. ASSUME NEW u \in Unit, Grow(u)
      PROVE  HeadInv'
  <2>1. /\ Live /\ op.at # "await" /\ u.first = seq + 1 /\ u.last = seq'
        /\ UNCHANGED <<head, pub>>
    BY <1>2 DEF Grow, Live
  <2>2. CASE fifo' = Append(fifo, u) /\ op' = op
    <3>1. /\ Len(fifo') = Len(fifo) + 1 /\ fifo'[Len(fifo) + 1] = u
          /\ \A i \in 1..Len(fifo) : fifo'[i] = fifo[i]
      BY <1>0, <2>2, AppendFacts
    <3>2. fifo' # <<>> /\ fifo'[Len(fifo')] = u
      <4>1. Append(fifo, u) # <<>>
        BY <1>0
      <4> QED
        BY <2>2, <3>1, <4>1
    <3>3. CASE fifo = <<>>
      <4>1. fifo'[1] = u /\ Contiguous(fifo')
        <5>1. Len(fifo) = 0 /\ Len(fifo') = 1
          BY <1>0, <3>1, <3>3
        <5>2. \A i \in 1..Len(fifo') - 1 : FALSE
          BY <5>1
        <5>3. fifo'[1] = u
          BY <3>1, <5>1
        <5> QED
          BY <5>2, <5>3 DEF Contiguous
      <4>2. head.epoch = seq
        BY <2>1, <3>3 DEF HeadInv
      <4> QED
        BY <2>1, <2>2, <3>2, <4>1, <4>2 DEF HeadInv, Tied
    <3>4. CASE fifo # <<>>
      <4>1. Front(fifo) \in Unsettled /\ 1 \in 1..Len(fifo)
        BY <1>0, <3>4, UnsettledType
      <4>2. Tied
        BY <2>1, <4>1, LiveDoomsNone DEF HeadInv
      <4>3. fifo[Len(fifo)].last = seq
        BY <2>1, <3>4 DEF HeadInv
      <4>4. Contiguous(fifo')
        BY <1>0, <2>1, <2>2, <4>3, ContiguousAppend DEF HeadInv
      <4> QED
        BY <2>1, <2>2, <3>1, <3>2, <3>4, <4>1, <4>2, <4>4 DEF HeadInv, Tied
    <3> QED
      BY <3>3, <3>4
  <2>3. CASE /\ fifo = <<>> /\ fifo' = <<>> /\ op'.at = "await"
             /\ u = [first |-> seq', last |-> seq']
    <3>1. head.epoch = seq /\ seq' = seq + 1
      BY <2>1, <2>3 DEF HeadInv
    <3> QED
      BY <2>1, <2>3, <3>1 DEF HeadInv, Tied
  <2> QED
    BY <1>2, <2>2, <2>3 DEF Grow
<1>3. CASE Settles
  <2> DEFINE u == Front(fifo)
  <2>1. /\ fifo # <<>> /\ fifo' = Tail(fifo) /\ op'.at # "await" /\ op.at # "await"
        /\ ack[u.last] \in {"ok", "err"}
        /\ UNCHANGED <<seq, chan, phase, sealed, ack>>
    BY <1>3 DEF Settles, FrontAnswered, logVars
  <2>2. PICK tell \in {"ok", "aborted"} :
          head' = SettleFront(tell).head /\ pub' \in {pub, head'}
    BY <1>3 DEF Settles
  <2>3. u \in Unit /\ u \in Unsettled /\ u = fifo[1]
    BY <1>0, <2>1, UnsettledType DEF Front
  <2>4. /\ Contiguous(Tail(fifo)) /\ Len(Tail(fifo)) = Len(fifo) - 1
        /\ Tail(fifo) # <<>> => /\ Tail(fifo)[1].first = u.last + 1
                                /\ Tail(fifo)[Len(Tail(fifo))] = fifo[Len(fifo)]
        /\ Tail(fifo) = <<>> => u = fifo[Len(fifo)]
    <3>1. /\ Len(Tail(fifo)) = Len(fifo) - 1 /\ (Len(fifo) # 1 => Tail(fifo) # <<>>)
      BY <1>0, <2>1, TailFacts
    <3> QED
      BY <1>0, <2>1, <2>3, <3>1, ContiguousTail DEF HeadInv
  <2>5. Live' <=> Live
    BY <2>1 DEF Live
  <2>6. CASE ack[u.last] = "ok"
    <3>1. ~Doomed(u)
      BY <2>6, OkIsNotDoomed
    <3>2. u.first = head.epoch + 1
      BY <2>1, <2>3, <3>1 DEF HeadInv, Tied
    <3>3. head' = Advance(head, u)
      BY <2>1, <2>2, <2>6, SettleFacts
    <3> HIDE DEF u
    <3>4. head'.projected = UpTo(u.last) /\ head'.epoch = u.last
      BY <1>0, <2>3, <3>2, <3>3, AdvanceOrder DEF HeadInv
    <3>5. pub'.projected = UpTo(pub'.epoch) /\ head'.projected = UpTo(head'.epoch)
      BY <2>2, <3>4 DEF HeadInv
    <3>6. Tied'
      BY <2>1, <2>4, <3>4 DEF Tied
    <3>7. Live /\ Tail(fifo) = <<>> => head'.epoch = seq
      BY <2>1, <2>4, <3>4 DEF HeadInv
    <3> QED
      BY <2>1, <2>4, <2>5, <3>5, <3>6, <3>7 DEF HeadInv
  <2>7. CASE ack[u.last] = "err"
    <3>1. head' = head /\ ~Live
      BY <2>1, <2>2, <2>3, <2>7, SettleFacts DEF AckInv
    <3>2. pub'.projected = UpTo(pub'.epoch)
      BY <2>2, <3>1 DEF HeadInv
    <3>3. ASSUME NEW v \in Unsettled'
          PROVE  Doomed(v)'
      <4>1. Unsettled' = Elems(Tail(fifo)) /\ Unsettled = Elems(fifo)
        BY <1>3, UnsettledStep
      <4>2. PICK i \in DOMAIN Tail(fifo) : v = Tail(fifo)[i]
        BY <4>1 DEF Elems
      <4>3. i + 1 \in DOMAIN fifo /\ 1 \in DOMAIN fifo /\ 1 < i + 1 /\ v = fifo[i + 1]
        BY <1>0, <2>1, <4>2, FrontAndTail
      <4>4. u.last < v.last /\ v \in Unsettled
        BY <2>3, <4>1, <4>3 DEF GateInv, Elems
      <4>5. Doomed(v)
        BY <2>3, <2>7, <4>4 DEF AckInv
      <4> QED
        BY <1>3, <1>d, <4>4, <4>5
    <3> QED
      BY <2>1, <2>4, <2>5, <3>1, <3>2, <3>3 DEF HeadInv
  <2> QED
    BY <2>1, <2>6, <2>7
<1>4. CASE AppendOk
  <2> DEFINE u == [first |-> seq, last |-> seq]
  <2>1. /\ op.at = "await" /\ head' = Advance(head, u) /\ pub' = head' /\ ack[seq] = "ok"
        /\ UNCHANGED <<seq, fifo>>
    BY <1>4 DEF AppendOk
  <2>2. u \in Unit /\ u.last = seq /\ u.first = seq /\ u \in Unsettled
    BY <2>1, AwaitedType, UnsettledType
  <2>3. ~Doomed(u) /\ fifo = <<>>
    BY <2>1, <2>2, OkIsNotDoomed DEF GateInv
  <2>4. seq = head.epoch + 1
    BY <2>1, <2>2, <2>3 DEF HeadInv, Tied
  <2> HIDE DEF u
  <2>5. head'.projected = UpTo(seq) /\ head'.epoch = seq
    BY <1>0, <2>1, <2>2, <2>4, AdvanceOrder DEF HeadInv
  <2>6. Unsettled' = {}
    <3>1. Elems(<<>>) = {}
      BY DEF Elems
    <3> QED
      BY <1>4, <2>3, <3>1, UnsettledStep
  <2> QED
    BY <2>1, <2>3, <2>5, <2>6 DEF HeadInv
<1>5. CASE Quiet
  <2>1. /\ fifo' = fifo /\ head'.epoch = head.epoch /\ head'.projected = head.projected
        /\ pub' \in {pub, head} /\ (sealed => sealed') /\ phase' = phase /\ ack' = ack
        /\ chan' = chan
        /\ (seq' # seq => sealed')
        /\ (op'.at = "await" => op.at = "await" /\ seq' = seq)
        /\ (op.at = "await" => op'.at = "await" \/ sealed')
    BY <1>5 DEF Quiet
  <2>2. Unsettled' \subseteq Unsettled
    BY <1>5, UnsettledStep
  <2>3. \A u \in Unsettled : Doomed(u) => Doomed(u)'
    BY <2>1 DEF Doomed
  <2>4. pub'.projected = UpTo(pub'.epoch)
    BY <2>1 DEF HeadInv
  <2>5. Live' => Live /\ seq' = seq
    BY <2>1 DEF Live
  <2>6. (\E u \in Unsettled' : ~Doomed(u)') => Tied'
    BY <2>1, <2>2, <2>3 DEF HeadInv, Tied
  <2>7. Live' /\ fifo' = <<>> /\ op'.at # "await" => head'.epoch = seq'
    BY <2>1, <2>5 DEF HeadInv, Live
  <2> QED
    BY <2>1, <2>4, <2>5, <2>6, <2>7 DEF HeadInv
<1>6. CASE Crash
  <2>1. PICK n \in good..Len(file) :
          /\ seq' = n /\ head'.epoch = n /\ head'.projected = SubSeq(file, 1, n)
    BY <1>6 DEF Crash
  <2>2. pub' = head' /\ fifo' = <<>>
    BY <1>6 DEF Crash
  <2>3. /\ n \in Nat /\ SubSeq(file, 1, n) \in Seq(Seqs) /\ Len(SubSeq(file, 1, n)) = n
        /\ \A i \in 1..n : SubSeq(file, 1, n)[i] = i
    <3>1. n \in 0..Len(file) /\ file \in Seq(Seqs) /\ \A i \in 1..n : i \in DOMAIN file
      BY <2>1, Ground
    <3> QED
      BY <3>1 DEF FileInv
  <2>4. head'.projected = UpTo(n)
    BY <2>1, <2>3, IsUpTo
  <2>5. Unsettled' = {}
    BY <1>6, UnsettledStep
  <2>6. Contiguous(<<>>)
    BY DEF Contiguous
  <2> QED
    BY <2>1, <2>2, <2>4, <2>5, <2>6 DEF HeadInv
<1> QED
  BY <1>1, <1>2, <1>3, <1>4, <1>5, <1>6, Steps
-----------------------------------------------------------------------------
(* The chain of the entries.                                                *)

LEMMA GivenStep ==
    ASSUME Shape, Shape', QueueInv, UnitsInv, FileInv, AckInv, [Next]_vars
    PROVE  /\ \A u \in Unit : Grow(u) => Given' \subseteq Given \cup Covered(u)
           /\ Given' \subseteq Given \/ Crash \/ \E u \in Unit : Grow(u)
<1>0. Len(file) \in Nat /\ file \in Seq(Seqs) /\ good \in 0..Len(file) /\ chan \in Seq(Unit)
  BY Ground
<1>n. \A s \in Seqs : s \in Nat
  BY DEF Seqs
<1>1. CASE Writer \/ WriterFails \/ WriterDies
  <2>1. InFlight' \subseteq InFlight
    BY <1>1, WriterAnswers DEF Answers
  <2>2. CASE WriterWrite
    <3>1. /\ batch[wrote + 1] \in InFlight
          /\ batch[wrote + 1].first = Len(file) + 1 /\ Len(file') = batch[wrote + 1].last
      BY <2>2, WriteFacts DEF InFlight
    <3>2. \A s \in Seqs : s <= Len(file') => s <= Len(file) \/ s \in Covered(batch[wrote + 1])
      BY <1>0, <1>n, <3>1 DEF Covered
    <3> QED
      BY <2>1, <3>1, <3>2 DEF Given
  <2>3. CASE ~WriterWrite
    <3>1. Len(file') \in Nat /\ Len(file') <= Len(file)
      <4>1. file' = file \/ file' = SubSeq(file, 1, good)
        BY <1>1, <2>3 DEF Writer, WriterTake, WriterSync, WriterAck, WriterFails, WriterDies
      <4> QED
        BY <1>0, <4>1
    <3>2. \A s \in Seqs : s <= Len(file') => s <= Len(file)
      BY <1>0, <1>n, <3>1
    <3> QED
      BY <2>1, <3>2 DEF Given
  <2> QED
    BY <2>2, <2>3
<1>2. ASSUME NEW u \in Unit, Grow(u)
      PROVE  Given' \subseteq Given \cup Covered(u)
  <2>1. chan' = Append(chan, u) /\ batch' = batch /\ file' = file
    BY <1>2 DEF Grow
  <2>2. InFlight' = InFlight \cup {u}
    <3>1. Elems(chan') = Elems(chan) \cup {u}
      BY <1>0, <2>1, AppendElems
    <3>2. Elems(batch') = Elems(batch)
      BY <2>1, Zenon
    <3> QED
      BY <3>1, <3>2 DEF InFlight
  <2> QED
    BY <2>1, <2>2 DEF Given, Covered
<1>3. CASE Settles \/ AppendOk \/ Quiet
  <2>1. UNCHANGED <<chan, batch, file>>
    BY <1>3 DEF Settles, AppendOk, Quiet, logVars
  <2>2. Elems(chan') = Elems(chan) /\ Elems(batch') = Elems(batch)
    BY <2>1, Zenon
  <2> QED
    BY <2>1, <2>2 DEF Given, InFlight
<1>4. \A u \in Unit : Grow(u) => Given' \subseteq Given \cup Covered(u)
  BY <1>2
<1>5. Given' \subseteq Given \/ Crash \/ \E u \in Unit : Grow(u)
  BY <1>1, <1>3, Steps
<1> QED
  BY <1>4, <1>5

LEMMA LeafStep ==
    ASSUME Interrupts = FALSE, Shape, Shape', QueueInv, UnitsInv, FileInv, AckInv, LeafInv,
           [Next]_vars
    PROVE  LeafInv'
<1>0. seq \in Nat /\ lastId \in Nat /\ op \in Ops /\ Len(file) \in Nat
  BY Ground
<1>1. ASSUME NEW u \in Unit, Grow(u)
      PROVE  LeafInv'
  <2>1. /\ Live /\ op.at # "await" /\ lastId = seq /\ u.first = seq + 1 /\ u.last = seq'
        /\ \A s \in Seqs : entry'[s].parent =
              IF s = u.first THEN lastId ELSE IF s \in Covered(u) THEN s - 1 ELSE entry[s].parent
    BY <1>1 DEF Grow, Live, LeafInv
  <2>2. Given' \subseteq Given \cup Covered(u) /\ Given' \subseteq Seqs
    BY <1>1, GivenStep DEF Given
  <2>3. \A s \in Given' : entry'[s].parent = s - 1
    BY <1>0, <2>1, <2>2 DEF LeafInv
  <2>4. IF op'.at = "await" THEN lastId' = seq' - 1 ELSE lastId' = seq'
    <3>1. CASE op' = op /\ lastId' = u.last
      BY <2>1, <3>1
    <3>2. CASE op'.at = "await" /\ u = [first |-> seq', last |-> seq'] /\ lastId' = lastId
      BY <1>0, <2>1, <3>2
    <3> QED
      BY <1>1, <3>1, <3>2 DEF Grow
  <2> QED
    BY <2>3, <2>4 DEF LeafInv
<1>2. CASE Crash
  <2>1. PICK n \in good..Len(file) :
          /\ file' = SubSeq(file, 1, n) /\ seq' = n /\ lastId' = n
          /\ entry' = [s \in Seqs |-> IF s <= n THEN entry[s] ELSE NoEntry]
    BY <1>2 DEF Crash
  <2>2. op' = Loop /\ InFlight' = {}
    <3>1. op' = Loop /\ chan' = <<>> /\ batch' = <<>> /\ Elems(<<>>) = {}
      BY <1>2 DEF Crash, Elems
    <3> QED
      BY <3>1, Zenon DEF InFlight
  <2>3. Len(file') = n /\ n \in Nat /\ n <= Len(file)
    BY <2>1, Ground
  <2>4. \A s \in Given' : s \in Given /\ entry'[s] = entry[s]
    BY <1>0, <2>1, <2>2, <2>3 DEF Given, Seqs
  <2> QED
    BY <2>1, <2>2, <2>4 DEF LeafInv, Loop
<1>3. CASE Given' \subseteq Given
  <2>1. CASE Writer \/ WriterFails \/ WriterDies
    <3>1. UNCHANGED <<entry, lastId, op, seq>> /\ phase # "dead" /\ (sealed => sealed')
      BY <2>1 DEF Writer, WriterTake, WriterWrite, WriterSync, WriterAck, WriterFails,
                  WriterDies, actorVars
    <3>2. Live' => Live
      BY <3>1 DEF Live
    <3> QED
      BY <1>3, <3>1, <3>2 DEF LeafInv
  <2>2. CASE Settles
    <3>1. /\ UNCHANGED <<entry, lastId, seq, sealed, phase>>
          /\ op.at # "await" /\ op'.at # "await"
      BY <2>2 DEF Settles, logVars
    <3> QED
      BY <1>3, <3>1 DEF LeafInv, Live
  <2>3. CASE AppendOk
    <3>1. UNCHANGED <<entry, seq>> /\ lastId' = seq /\ op'.at # "await"
      BY <1>0, <2>3 DEF AppendOk, Ops
    <3> QED
      BY <1>3, <3>1 DEF LeafInv
  <2>4. CASE Quiet
    <3>1. /\ UNCHANGED <<entry, lastId, phase>> /\ (sealed => sealed')
          /\ (seq' # seq => sealed')
          /\ (op'.at = "await" => op.at = "await")
          /\ (op.at = "await" => op'.at = "await" \/ sealed')
      BY <2>4 DEF Quiet
    <3>2. Live' => Live /\ seq' = seq /\ (op'.at = "await" <=> op.at = "await")
      BY <3>1 DEF Live
    <3> QED
      BY <1>3, <3>1, <3>2 DEF LeafInv
  <2> QED
    BY <1>1, <1>2, <2>1, <2>2, <2>3, <2>4, Steps
<1> QED
  BY <1>1, <1>2, <1>3, GivenStep
-----------------------------------------------------------------------------
(* The commit path implements the log.                                      *)

\* OrderInv holds initially and, as long as no interrupt drops a fold that waits
\* for its ack, every step keeps it.
LEMMA OrderInductive ==
    ASSUME Interrupts = FALSE
    PROVE  /\ Init => OrderInv
           /\ IInv /\ GateInv /\ OrderInv /\ [Next]_vars => OrderInv'
<1>1. ASSUME Init
      PROVE  OrderInv
  <2>1. Elems(<<>>) = {} /\ DOMAIN <<>> = {} /\ Len(<<>>) = 0 /\ UpTo(0) = <<>>
        /\ Contiguous(<<>>)
    BY DEF Elems, UpTo, Contiguous
  <2>2. Unsettled = {} /\ InFlight = {}
    BY <1>1, <2>1, Zenon DEF Init, Unsettled, InFlight, Awaited, Loop
  <2>3. FileInv
    BY <1>1, <2>1 DEF Init, FileInv, Frontier, Tip
  <2>4. AckInv
    BY <2>2 DEF AckInv
  <2>5. HeadInv
    BY <1>1, <2>1, <2>2 DEF Init, HeadInv
  <2>6. Given = {}
    BY <1>1, <2>1, <2>2 DEF Init, Given, Seqs
  <2>7. LeafInv
    BY <1>1, <2>6 DEF Init, LeafInv, Loop
  <2> QED
    BY <2>3, <2>4, <2>5, <2>7 DEF OrderInv
<1>2. ASSUME IInv, GateInv, OrderInv, [Next]_vars
      PROVE  OrderInv'
  <2>1. Shape /\ Shape' /\ QueueInv /\ UnitsInv /\ DurableInv
    BY <1>2, Inductive DEF IInv
  <2>2. FileInv' /\ AckInv'
    BY <1>2, <2>1, FileStep, AckStep DEF OrderInv
  <2>3. HeadInv' /\ LeafInv'
    BY <1>2, <2>1, HeadStep, LeafStep DEF OrderInv
  <2> QED
    BY <2>2, <2>3 DEF OrderInv
<1> QED
  BY <1>1, <1>2

\* In every reachable state the queue, the writer, the file, the acks, the heads and
\* the tickets agree on how far each commit has got, as long as no interrupt drops a
\* fold (Pipeline, SharedDeps::append, writer_loop).
THEOREM PipelineAgrees ==
    ASSUME Interrupts = FALSE
    PROVE  Spec => []PipelineInv
BY Inductive, GateInductive, OrderInductive, PTL DEF Spec, PipelineInv

\* What has been projected of the first n entries is durable, so there are as many
\* promised, and they are the first n of the file.
LEMMA PrefixFacts ==
    ASSUME Shape, FileInv, NEW n \in Nat, Elems(UpTo(n)) \subseteq Durable
    PROVE  /\ n <= good /\ n <= Len(file) /\ Len(UpTo(n)) = n
           /\ UpTo(n) = SubSeq(file, 1, n)
<1>1. /\ file \in Seq(Seqs) /\ good \in 0..Len(file) /\ Len(file) \in Nat
      /\ \A i \in 1..Len(file) : file[i] = i
  BY Ground DEF FileInv
<1>2. n <= good
  <2>1. CASE n = 0
    BY <1>1, <2>1
  <2>2. CASE n # 0
    <3>1. n \in Durable
      BY <2>2, UpToFacts
    <3>2. PICK i \in 1..good : n = file[i]
      BY <3>1 DEF Durable
    <3>3. file[i] = i
      BY <1>1, <3>2
    <3> QED
      BY <1>1, <3>2, <3>3
  <2> QED
    BY <2>1, <2>2
<1>3. /\ SubSeq(file, 1, n) \in Seq(Seqs) /\ Len(SubSeq(file, 1, n)) = n
      /\ \A i \in 1..n : SubSeq(file, 1, n)[i] = i
  BY <1>1, <1>2
<1>4. n <= Len(file)
  BY <1>1, <1>2
<1> QED
  BY <1>2, <1>3, <1>4, IsUpTo, UpToFacts

\* The projection is the log read from its start in every reachable state, as long
\* as no interrupt drops a fold: entries are applied in file order and none that
\* is durable is passed over (apply_ack, SharedDeps::append, close_open_batch).
THEOREM ProjectionInOrder ==
    ASSUME Interrupts = FALSE
    PROVE  Spec => []ProjectionIsLogPrefix
<1>1. IInv /\ OrderInv => ProjectionIsLogPrefix
  <2> SUFFICES ASSUME IInv, OrderInv
               PROVE  ProjectionIsLogPrefix
    OBVIOUS
  <2>1. Shape /\ FileInv /\ head.epoch \in Nat /\ head.projected = UpTo(head.epoch)
        /\ Elems(head.projected) \subseteq Durable
    BY Ground DEF IInv, OrderInv, HeadInv, ProjectionBehindLog
  <2> QED
    BY <2>1, PrefixFacts DEF ProjectionIsLogPrefix
<1> QED
  BY <1>1, Inductive, GateInductive, OrderInductive, PTL DEF Spec

\* Every entry of the log is chained onto the one before it in the file, whatever
\* was burned, rolled back or cut off, as long as no interrupt drops a fold: the
\* queued leaf is the last entry the writer was given (last_id, forward_prepared).
THEOREM ChainSafe ==
    ASSUME Interrupts = FALSE
    PROVE  Spec => []ChainUnbroken
<1>1. IInv /\ OrderInv => ChainUnbroken
  <2> SUFFICES ASSUME IInv, OrderInv, NEW i \in 2..Len(file)
               PROVE  entry[file[i]].parent = file[i - 1]
    BY DEF ChainUnbroken
  <2>1. /\ file \in Seq(Seqs) /\ Len(file) \in Nat
        /\ \A j \in 1..Len(file) : file[j] = j
    BY Ground DEF IInv, OrderInv, FileInv
  <2>2. file[i] = i /\ file[i - 1] = i - 1 /\ i \in Seqs /\ i <= Len(file)
    <3>1. i \in 1..Len(file) /\ i - 1 \in 1..Len(file)
      BY <2>1
    <3>2. file[i] \in Seqs
      BY <2>1, <3>1
    <3> QED
      BY <2>1, <3>1, <3>2
  <2>3. i \in Given
    BY <2>2 DEF Given
  <2> QED
    BY <2>2, <2>3 DEF OrderInv, LeafInv
<1> QED
  BY <1>1, Inductive, GateInductive, OrderInductive, PTL DEF Spec

\* What a settlement does to the projections, seen as steps of the log.
LEMMA ApplyStep ==
    ASSUME IInv, IInv', OrderInv, OrderInv', UNCHANGED <<file, good>>,
           head.epoch < head'.epoch, pub' \in {pub, head'}
    PROVE  Log!Apply
<1> DEFINE n == head'.epoch
<1>1. /\ n \in Nat /\ head.epoch \in Nat /\ head.projected = UpTo(head.epoch)
      /\ head'.projected = UpTo(n) /\ Elems(head'.projected) \subseteq Durable
  <2>1. n \in Nat
    BY BoundsAreNats DEF IInv, Shape, TypeOK, HeadTypeOK, Heads
  <2>2. Durable' = Durable
    BY DEF Durable
  <2> QED
    BY <2>1, <2>2, Ground DEF IInv, OrderInv, HeadInv, ProjectionBehindLog
<1>2. n <= good /\ head'.projected = SubSeq(file, 1, n)
  BY <1>1, PrefixFacts DEF IInv, OrderInv
<1>3. Len(head.projected) = head.epoch
  BY <1>1, UpToFacts
<1>4. n \in Len(head.projected) + 1 .. good
  BY <1>1, <1>2, <1>3, Ground DEF IInv
<1> QED
  BY <1>2, <1>4 DEF Log!Apply

LEMMA LogStep ==
    ASSUME IInv, IInv', GateInv, OrderInv, OrderInv', [Next]_vars
    PROVE  [Log!Next]_(Log!vars)
<1>0. Shape /\ UnitsInv /\ DurableInv /\ FileInv
  BY DEF IInv, OrderInv
<1>1. CASE WriterTake \/ WriterAck \/ WriterDies
  BY <1>1 DEF WriterTake, WriterAck, WriterDies, actorVars, Log!vars
<1>2. CASE WriterWrite
  <2>1. batch[wrote + 1] \in Unit
    BY <1>0, <1>2, WriteFacts
  <2>2. Log!Write
    BY <1>2, <2>1 DEF WriterWrite, actorVars, Log!Write
  <2> QED
    BY <2>2 DEF Log!Next
<1>3. CASE WriterSync
  BY <1>3 DEF WriterSync, actorVars, Log!Next, Log!Promise
<1>4. CASE WriterFails
  BY <1>4 DEF WriterFails, actorVars, Log!Next, Log!RollBack
<1>5. ASSUME NEW u \in Unit, Grow(u)
      PROVE  [Log!Next]_(Log!vars)
  BY <1>5 DEF Grow, Log!vars
<1>6. CASE Settles
  <2>1. PICK tell \in {"ok", "aborted"} :
          head' = SettleFront(tell).head /\ pub' \in {pub, head'}
    BY <1>6 DEF Settles
  <2>2. UNCHANGED <<file, good>> /\ fifo # <<>>
    BY <1>6 DEF Settles, FrontAnswered, logVars
  <2>3. head' = head \/ head.epoch < head'.epoch
    BY <1>0, <2>1, <2>2, SettleFacts
  <2>4. CASE head' = head
    BY <2>1, <2>2, <2>4 DEF Log!Next, Log!Publish, Log!vars
  <2>5. CASE head.epoch < head'.epoch
    BY <2>1, <2>2, <2>5, ApplyStep DEF Log!Next
  <2> QED
    BY <2>3, <2>4, <2>5
<1>7. CASE AppendOk
  <2> DEFINE u == [first |-> seq, last |-> seq]
  <2>1. /\ op.at = "await" /\ head' = Advance(head, u) /\ pub' = head'
        /\ UNCHANGED <<file, good>>
    BY <1>7 DEF AppendOk, logVars
  <2>2. u \in Unit /\ u \in Unsettled /\ head \in Heads
    BY <1>0, <2>1, AwaitedType, UnsettledType, Ground
  <2>3. head.epoch < u.last
    BY <2>2 DEF GateInv
  <2>4. Advance(head, u).epoch = u.last
    BY <2>2, AdvanceType
  <2>5. head.epoch < head'.epoch
    BY <2>1, <2>3, <2>4
  <2> QED
    BY <2>1, <2>5, ApplyStep DEF Log!Next
<1>8. CASE Quiet
  BY <1>8 DEF Quiet, Log!Next, Log!Publish, Log!vars
<1>9. CASE Crash
  <2>1. PICK n \in good..Len(file) :
          /\ file' = SubSeq(file, 1, n) /\ good' = n /\ head'.projected = SubSeq(file, 1, n)
    BY <1>9 DEF Crash
  <2>2. pub' = head'
    BY <1>9 DEF Crash
  <2> QED
    BY <2>1, <2>2 DEF Log!Next, Log!Resume
<1> QED
  BY <1>0, <1>1, <1>2, <1>3, <1>4, <1>5, <1>6, <1>7, <1>8, <1>9, Steps DEF Writer

\* The commit path implements an append-only log with a projection behind it: every
\* step of the writer thread, of the actor, of a turn, of the disk and of a restart
\* is a step of the abstract log or changes nothing it can see, as long as no
\* interrupt drops a fold (SessionLog, writer_loop, Pipeline, SessionLog::resume).
THEOREM Implementation ==
    ASSUME Interrupts = FALSE
    PROVE  Spec => ImplementsEventLog
<1>1. Init => Log!Init
  BY DEF Init, Log!Init
<1>2. /\ IInv /\ IInv' /\ GateInv /\ OrderInv /\ OrderInv' /\ [Next]_vars
      => [Log!Next]_(Log!vars)
  BY LogStep
<1> QED
  BY <1>1, <1>2, Inductive, GateInductive, OrderInductive, PTL
     DEF Spec, ImplementsEventLog, Log!Spec
=============================================================================

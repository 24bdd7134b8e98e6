------------------------- MODULE CommitPipelineProofs -------------------------
(***************************************************************************)
(* Proofs about CommitPipeline, for every value of its constants: the      *)
(* program's state stays well formed, and the projection never leads the   *)
(* durable log.                                                            *)
(***************************************************************************)
EXTENDS CommitPipeline, TLAPS

-----------------------------------------------------------------------------
(* The inductive invariant.                                                 *)

\* A group being committed is not empty, and its acks start once all of it is
\* in the file.
WriterInv ==
    /\ phase \in {"write", "ack"} => batch # <<>>
    /\ phase = "ack" => wrote = Len(batch)

\* Only the first of a run of appends may close a batch, and the steers that
\* fitted the held buffer are all that follows it.
WorkOK(work) ==
    /\ work # <<>> /\ work[1] = "results" => Len(work) <= MaxHeld + 1
    /\ \A i \in 2..Len(work) : work[i] # "results"

\* A run of appends ends when its entries do.
OpInv ==
    /\ WorkOK(op.work)
    /\ op.at \in {"append", "await"} => op.work # <<>>
    /\ op.at = "await" => seq >= 1

Shape == TypeOK /\ WriterInv /\ OpInv

\* Units reach the writer in the order they were numbered, so that the file is
\* never longer than the numbers assigned.
QueueInv ==
    /\ Len(file) <= seq
    /\ \A u \in Elems(chan) \cup Elems(batch) : u.last <= seq
    /\ \A i, j \in DOMAIN chan : i < j => chan[i].last < chan[j].first
    /\ \A i, j \in DOMAIN batch : i < j => batch[i].last < batch[j].first
    /\ \A u \in Elems(batch), v \in Elems(chan) : u.last < v.first
    /\ \A u \in Elems(chan) : Len(file) < u.first
    /\ phase = "write" => \A i \in wrote + 1 .. Len(batch) : Len(file) < batch[i].first

Covered(u) == u.first .. u.last

\* The units somebody still waits for an answer on, or is about to give one.
Awaited == IF op.at = "await" THEN {[first |-> seq, last |-> seq]} ELSE {}
Out     == Elems(chan) \cup Elems(batch) \cup Elems(fifo) \cup Awaited

\* A unit is known by its last number, and none is newer than the last assigned.
UnitsInv ==
    /\ \A u \in Out : u.last <= seq
    /\ \A u, v \in Out : u.last = v.last => u = v

\* What has been written of a group is in the file; what is being acked lies
\* below the synced offset; and so does every unit whose ack says so.
DurableInv ==
    /\ phase = "write" => \A i \in 1..wrote : Covered(batch[i]) \subseteq Elems(file)
    /\ phase = "ack" => \A u \in Elems(batch) : Covered(u) \subseteq Durable
    /\ \A u \in Out : ack[u.last] = "ok" => Covered(u) \subseteq Durable

IInv == Shape /\ QueueInv /\ UnitsInv /\ DurableInv /\ ProjectionBehindLog

-----------------------------------------------------------------------------
(* Facts about the data.                                                    *)

\* The bounds are natural numbers and commit numbers are integers.
LEMMA BoundsAreNats ==
    /\ MaxSeq \in Nat /\ MaxHeld \in Nat /\ MaxTodos \in Nat
    /\ MaxCommands \in Nat /\ MaxFaults \in Nat /\ MaxCrashes \in Nat
    /\ Interrupts \in BOOLEAN /\ Panics \in BOOLEAN /\ PlanToggles \in BOOLEAN
BY BoundsAssumption DEF BoundsAssumption

\* The entries of a unit are a sequence of commit numbers.
LEMMA IdsType ==
    ASSUME NEW u \in Unit
    PROVE  /\ Ids(u) \in Seq(Seqs)
           /\ Elems(Ids(u)) = u.first .. u.last
<1>1. /\ u.first \in Nat /\ u.last \in Nat /\ u.first >= 1 /\ u.last <= MaxSeq
      /\ u.first <= u.last
  BY BoundsAreNats DEF Unit, Seqs
<1> DEFINE n == u.last - u.first + 1
<1>2. n \in Nat
  BY <1>1
<1>3. \A i \in 1..n : u.first + i - 1 \in Seqs
  BY <1>1, BoundsAreNats DEF Seqs
<1>4. Ids(u) \in Seq(Seqs)
  BY <1>2, <1>3 DEF Ids
<1>5. DOMAIN Ids(u) = 1..n
  BY DEF Ids
<1>6. \A i \in 1..n : Ids(u)[i] = u.first + i - 1
  BY DEF Ids
<1>7. \A x \in u.first .. u.last : x - u.first + 1 \in 1..n /\ Ids(u)[x - u.first + 1] = x
  <2> TAKE x \in u.first .. u.last
  <2>1. x - u.first + 1 \in 1..n
    BY <1>1
  <2> QED
    BY <1>1, <1>6, <2>1
<1>8. Elems(Ids(u)) \subseteq u.first .. u.last
  BY <1>1, <1>5, <1>6 DEF Elems
<1>9. u.first .. u.last \subseteq Elems(Ids(u))
  BY <1>5, <1>7 DEF Elems
<1> QED
  BY <1>4, <1>8, <1>9

\* A concatenation has the elements of both parts.
LEMMA ConcatElems ==
    ASSUME NEW S, NEW s \in Seq(S), NEW t \in Seq(S)
    PROVE  s \o t \in Seq(S) /\ Elems(s \o t) = Elems(s) \cup Elems(t)
<1>1. s \o t \in Seq(S) /\ Len(s \o t) = Len(s) + Len(t)
  OBVIOUS
<1>2. \A i \in 1..Len(s) + Len(t) :
        (s \o t)[i] = IF i <= Len(s) THEN s[i] ELSE t[i - Len(s)]
  OBVIOUS
<1>3. Len(s) \in Nat /\ Len(t) \in Nat /\ DOMAIN s = 1..Len(s) /\ DOMAIN t = 1..Len(t)
      /\ DOMAIN (s \o t) = 1..Len(s) + Len(t)
  BY <1>1
<1>4. Elems(s \o t) \subseteq Elems(s) \cup Elems(t)
  BY <1>2, <1>3 DEF Elems
<1>5. Elems(s) \subseteq Elems(s \o t)
  BY <1>2, <1>3 DEF Elems
<1>6. ASSUME NEW i \in DOMAIN t
      PROVE  t[i] \in Elems(s \o t)
  <2>1. Len(s) + i \in DOMAIN (s \o t) /\ ~(Len(s) + i <= Len(s)) /\ Len(s) + i - Len(s) = i
    BY <1>3
  <2> QED
    BY <1>2, <1>3, <2>1 DEF Elems
<1> QED
  BY <1>1, <1>4, <1>5, <1>6 DEF Elems

\* The rest of a sequence that is not empty.
LEMMA TailFacts ==
    ASSUME NEW S, NEW q \in Seq(S), q # <<>>
    PROVE  /\ Len(q) \in Nat /\ Len(q) >= 1
           /\ Front(q) \in S /\ Front(q) \in Elems(q)
           /\ Tail(q) \in Seq(S) /\ Len(Tail(q)) = Len(q) - 1
           /\ Elems(Tail(q)) \subseteq Elems(q)
           /\ Len(q) # 1 => Tail(q) # <<>>
           /\ \A i \in 1..Len(q) - 1 : Tail(q)[i] = q[i + 1]
<1>1. Len(q) \in Nat /\ Len(q) >= 1 /\ DOMAIN q = 1..Len(q)
  OBVIOUS
<1>2. /\ Tail(q) \in Seq(S) /\ Len(Tail(q)) = Len(q) - 1
      /\ \A i \in 1..Len(q) - 1 : Tail(q)[i] = q[i + 1]
  OBVIOUS
<1>3. DOMAIN Tail(q) = 1..Len(q) - 1
  BY <1>2
<1>4. Elems(Tail(q)) \subseteq Elems(q)
  BY <1>1, <1>2, <1>3 DEF Elems
<1>5. Len(q) # 1 => Tail(q) # <<>>
  <2>1. Len(<<>>) = 0
    OBVIOUS
  <2>2. Tail(q) = <<>> => Len(q) - 1 = 0
    BY <1>2, <2>1, Zenon
  <2>3. Len(q) # 1 => Len(q) - 1 # 0
    BY <1>1
  <2> QED
    BY <2>2, <2>3, Zenon
<1>6. Front(q) \in S /\ Front(q) \in Elems(q)
  BY <1>1 DEF Front, Elems
<1> QED
  BY <1>1, <1>2, <1>4, <1>5, <1>6

\* The entries minted are well formed.
LEMMA MintedType ==
    ASSUME TypeOK, NEW kinds \in Seq(Kinds), NEW saw \in SUBSET Seqs, NEW p \in 0..MaxSeq
    PROVE  Minted(kinds, p, saw) \in [Seqs -> Entries]
<1>1. ASSUME NEW s \in Seqs, s \in seq + 1 .. seq + Len(kinds)
      PROVE  /\ kinds[s - seq] \in Kinds
             /\ (IF s = seq + 1 THEN p ELSE s - 1) \in 0..MaxSeq
  <2>1. seq \in Nat /\ Len(kinds) \in Nat /\ s \in 1..MaxSeq /\ s - seq \in 1..Len(kinds)
    BY <1>1, BoundsAreNats DEF TypeOK, PipelineTypeOK, Seqs
  <2>2. kinds[s - seq] \in Kinds
    BY <2>1
  <2> QED
    BY <2>1, <2>2, BoundsAreNats
<1>2. head.todos \in 0..MaxTodos
  BY DEF TypeOK, HeadTypeOK, Heads
<1> QED
  BY <1>1, <1>2 DEF Minted, TypeOK, PipelineTypeOK, Entries

\* Advancing the head by a unit keeps it well formed.
LEMMA AdvanceType ==
    ASSUME NEW h \in Heads, NEW u \in Unit
    PROVE  /\ Advance(h, u) \in Heads
           /\ Elems(Advance(h, u).projected) = Elems(h.projected) \cup u.first .. u.last
           /\ Advance(h, u).epoch = u.last
<1>1. h.projected \in Seq(Seqs) /\ u.last \in 0..MaxSeq
  BY DEF Heads, Unit, Seqs
<1>2. Ids(u) \in Seq(Seqs) /\ Elems(Ids(u)) = u.first .. u.last
  BY IdsType
<1>3. /\ h.projected \o Ids(u) \in Seq(Seqs)
      /\ Elems(h.projected \o Ids(u)) = Elems(h.projected) \cup Elems(Ids(u))
  <2> DEFINE s == h.projected
             t == Ids(u)
  <2>1. s \in Seq(Seqs) /\ t \in Seq(Seqs)
    BY <1>1, <1>2
  <2> HIDE DEF s, t
  <2>2. s \o t \in Seq(Seqs) /\ Elems(s \o t) = Elems(s) \cup Elems(t)
    BY <2>1, ConcatElems
  <2> QED
    BY <2>2 DEF s, t
<1>4. ASSUME NEW e \in 0..MaxSeq, NEW t \in Seq(Seqs)
      PROVE  /\ [h EXCEPT !.epoch = e, !.projected = t] \in Heads
             /\ [h EXCEPT !.epoch = e, !.projected = t].projected = t
             /\ [h EXCEPT !.epoch = e, !.projected = t].epoch = e
  BY DEF Heads
<1>5. /\ Advance(h, u) \in Heads /\ Advance(h, u).epoch = u.last
      /\ Advance(h, u).projected = h.projected \o Ids(u)
  BY <1>1, <1>3, <1>4 DEF Advance
<1> QED
  BY <1>2, <1>3, <1>5

\* A unit about to be minted is one, if the log has room for it.
LEMMA NewUnitType ==
    ASSUME TypeOK, NEW kinds \in Seq(Kinds), kinds # <<>>, Room(kinds)
    PROVE  /\ NewUnit(kinds) \in Unit
           /\ NewUnit(kinds).first = seq + 1
           /\ NewUnit(kinds).last = seq + Len(kinds)
           /\ Len(kinds) \in Nat /\ Len(kinds) >= 1
           /\ seq + 1 \in Seqs /\ seq + Len(kinds) \in Seqs
<1>1. seq \in Nat /\ MaxSeq \in Nat /\ seq + Len(kinds) <= MaxSeq
  BY BoundsAreNats DEF TypeOK, PipelineTypeOK, Room
<1>2. Len(kinds) \in Nat /\ Len(kinds) >= 1
  OBVIOUS
<1> QED
  BY <1>1, <1>2 DEF NewUnit, Unit, Seqs

LEMMA NewItemsType ==
    ASSUME TypeOK, NEW kinds \in Seq(Kinds), Room(kinds)
    PROVE  NewItems(kinds) \in SUBSET Seqs
<1>1. seq \in Nat /\ MaxSeq \in Nat /\ seq + Len(kinds) <= MaxSeq
  BY BoundsAreNats DEF TypeOK, PipelineTypeOK, Room
<1>2. DOMAIN kinds = 1..Len(kinds) /\ Len(kinds) \in Nat
  OBVIOUS
<1> QED
  BY <1>1, <1>2 DEF NewItems, Seqs

LEMMA SnapshotType ==
    ASSUME NEW h \in Heads
    PROVE  Snapshot(h) \in Snapshots
BY DEF Snapshot, Snapshots, Heads, Elems

\* A run of n steers is a run of appends.
LEMMA SteersType ==
    ASSUME NEW n \in Nat
    PROVE  [i \in 1..n |-> "steer"] \in Seq(Kinds)
BY DEF Kinds, ItemKinds

\* What a step leaves alone stays well formed.
LEMMA Frames ==
    /\ LogTypeOK /\ UNCHANGED logVars => LogTypeOK'
    /\ PipelineTypeOK /\ UNCHANGED <<entry, seq, lastId, fifo, ticket>> => PipelineTypeOK'
    /\ HeadTypeOK /\ UNCHANGED <<head, pub>> => HeadTypeOK'
    /\ OpTypeOK /\ UNCHANGED <<held, op>> => OpTypeOK'
    /\ TurnTypeOK /\ UNCHANGED turn => TurnTypeOK'
    /\ OthersTypeOK /\ UNCHANGED others => OthersTypeOK'
<1>1. LogTypeOK /\ UNCHANGED logVars => LogTypeOK'
  BY DEF LogTypeOK, logVars
<1>2. PipelineTypeOK /\ UNCHANGED <<entry, seq, lastId, fifo, ticket>> => PipelineTypeOK'
  BY DEF PipelineTypeOK
<1>3. HeadTypeOK /\ UNCHANGED <<head, pub>> => HeadTypeOK'
  BY DEF HeadTypeOK
<1>4. OpTypeOK /\ UNCHANGED <<held, op>> => OpTypeOK'
  BY DEF OpTypeOK
<1>5. TurnTypeOK /\ UNCHANGED turn => TurnTypeOK'
  BY DEF TurnTypeOK
<1>6. OthersTypeOK /\ UNCHANGED others => OthersTypeOK'
  BY DEF OthersTypeOK, others
<1> QED
  BY <1>1, <1>2, <1>3, <1>4, <1>5, <1>6

\* The runs of entries the program commits.
LEMMA KindsType ==
    /\ <<>> \in Seq(Kinds)
    /\ \A k \in Kinds : <<k>> \in Seq(Kinds)
    /\ \A k, l \in Kinds : <<k, l>> \in Seq(Kinds)
    /\ {"user", "steer", "call", "reply", "results", "fold", "todos", "mark"} \subseteq Kinds
BY DEF Kinds, ItemKinds

LEMMA RunType ==
    ASSUME NEW work \in Seq(Kinds),
           NEW then \in {"loop", "settle", "plan", "spawn", "respawn", "end"}
    PROVE  /\ Run(work, then) \in Ops /\ Loop \in Ops
           /\ Run(work, then).work = work /\ Run(work, then).then = then
           /\ Run(work, then).at \in {"append", "done"}
<1>1. Loop \in Ops
  BY KindsType, BoundsAreNats DEF Loop, Ops
<1> QED
  BY <1>1 DEF Run, Loop, Ops

LEMMA SettleType ==
    ASSUME TypeOK, fifo # <<>>, NEW tell \in {"ok", "aborted"}
    PROVE  /\ Front(fifo) \in Unit /\ Front(fifo).last \in Seqs
           /\ Tail(fifo) \in Seq(Unit)
           /\ SettleFront(tell).head \in Heads
           /\ SettleFront(tell).told \in {"ok", "sealed", "aborted"}
<1>1. Front(fifo) \in Unit /\ Tail(fifo) \in Seq(Unit)
  BY DEF TypeOK, PipelineTypeOK, Front
<1>2. Front(fifo).last \in Seqs
  BY <1>1 DEF Unit
<1>3. head \in Heads
  BY DEF TypeOK, HeadTypeOK
<1>4. Advance(head, Front(fifo)) \in Heads
  BY <1>1, <1>3, AdvanceType
<1> QED
  BY <1>1, <1>2, <1>3, <1>4 DEF SettleFront

LEMMA ForwardType ==
    ASSUME TypeOK, NEW kinds \in Seq(Kinds), kinds # <<>>, NEW saw \in SUBSET Seqs,
           Forward(kinds, saw)
    PROVE  LogTypeOK' /\ PipelineTypeOK' /\ seq' \in Seqs /\ seq' = NewUnit(kinds).last
<1> DEFINE u == NewUnit(kinds)
<1>1. Room(kinds)
  BY DEF Forward, Refuses
<1>2. u \in Unit /\ u.last \in Seqs /\ seq' = u.last
  BY <1>1, NewUnitType DEF Forward
<1>3. LogTypeOK'
  <2>1. Append(chan, u) \in Seq(Unit)
    BY <1>2 DEF TypeOK, LogTypeOK
  <2>2. [ack EXCEPT ![u.last] = "wait"] \in [Seqs -> {"none", "wait", "ok", "err"}]
    BY DEF TypeOK, LogTypeOK
  <2> QED
    BY <2>1, <2>2 DEF Forward, TypeOK, LogTypeOK
<1>4. PipelineTypeOK'
  <2>1. Append(fifo, u) \in Seq(Unit)
    BY <1>2 DEF TypeOK, PipelineTypeOK
  <2>2. [ticket EXCEPT ![u.last] = "wait"] \in [Seqs -> {"none", "wait", "ok", "sealed", "aborted"}]
    BY DEF TypeOK, PipelineTypeOK
  <2>3. Minted(kinds, lastId, saw) \in [Seqs -> Entries]
    BY MintedType DEF TypeOK, PipelineTypeOK
  <2>4. u.last \in 0..MaxSeq
    BY <1>2, BoundsAreNats DEF Seqs
  <2> QED
    BY <1>2, <2>1, <2>2, <2>3, <2>4 DEF Forward, PipelineTypeOK
<1> QED
  BY <1>2, <1>3, <1>4

LEMMA RefusedType ==
    ASSUME TypeOK, NEW kinds \in Seq(Kinds), ForwardRefused(kinds)
    PROVE  LogTypeOK' /\ PipelineTypeOK'
<1>1. LogTypeOK'
  BY DEF ForwardRefused, TypeOK, LogTypeOK
<1>2. seq' \in 0..MaxSeq
  <2>1. seq \in 0..MaxSeq /\ Len(kinds) \in Nat
    BY DEF TypeOK, PipelineTypeOK
  <2>2. Room(kinds) => seq + Len(kinds) \in 0..MaxSeq
    BY <2>1, BoundsAreNats DEF Room
  <2> QED
    BY <2>1, <2>2 DEF ForwardRefused
<1> QED
  BY <1>1, <1>2 DEF ForwardRefused, TypeOK, PipelineTypeOK

LEMMA NoTurnType ==
    /\ NoSnap \in Snapshots /\ NoTurn \in Turns
    /\ \A at \in {"none", "boundary", "ended"}, ok \in BOOLEAN :
          [NoTurn EXCEPT !.at = at] \in Turns /\ [NoTurn EXCEPT !.at = at, !.ok = ok] \in Turns
<1>1. NoSnap \in Snapshots
  BY BoundsAreNats DEF NoSnap, Snapshots
<1>2. <<>> \in Seq(Seqs)
  OBVIOUS
<1>3. NoTurn \in Turns
  BY <1>1, <1>2, BoundsAreNats DEF NoTurn, Turns
<1> QED
  BY <1>1, <1>3 DEF NoTurn, Turns

LEMMA EndingType ==
    ASSUME NEW t \in Turns, NEW ok \in BOOLEAN, NEW fold \in BOOLEAN
    PROVE  Ending(t, ok, fold) \in Turns
<1>1. NoTurn \in Turns
  BY NoTurnType
<1>2. t.tickets \in Seq(Seqs)
  BY DEF Turns
<1> QED
  BY <1>1, <1>2 DEF Ending, Turns

LEMMA ProposeType ==
    ASSUME TypeOK, NEW kinds \in Seq(Kinds), kinds # <<>>, NEW saw \in SUBSET Seqs,
           NEW next \in Turns, Propose(kinds, saw, next)
    PROVE  TypeOK'
<1>1. HeadTypeOK' /\ OpTypeOK' /\ OthersTypeOK'
  BY Frames DEF Propose, TypeOK, others
<1>2. CASE /\ Forward(kinds, saw)
           /\ turn' = [next EXCEPT !.tickets = Append(@, seq'), !.mine = seq',
                                   !.own = @ \cup NewItems(kinds)]
  <2>1. LogTypeOK' /\ PipelineTypeOK' /\ seq' \in Seqs
    BY <1>2, ForwardType
  <2>2. NewItems(kinds) \in SUBSET Seqs
    BY <1>2, NewItemsType DEF Forward, Refuses
  <2>3. Append(next.tickets, seq') \in Seq(Seqs) /\ next.own \cup NewItems(kinds) \in SUBSET Seqs
    BY <2>1, <2>2 DEF Turns
  <2>4. seq' \in 0..MaxSeq
    BY <2>1, BoundsAreNats DEF Seqs
  <2>5. turn' \in Turns
    BY <1>2, <2>3, <2>4 DEF Turns
  <2> QED
    BY <1>1, <2>1, <2>5 DEF TypeOK, TurnTypeOK
<1>3. CASE ForwardRefused(kinds) /\ turn' = Ending(turn, FALSE, FALSE)
  <2>1. turn' \in Turns
    BY <1>3, EndingType DEF TypeOK, TurnTypeOK
  <2> QED
    BY <1>1, <1>3, <2>1, RefusedType DEF TypeOK, TurnTypeOK
<1> QED
  BY <1>2, <1>3 DEF Propose

\* The writer thread keeps the state well formed.
LEMMA WriterShape ==
    ASSUME Shape, Writer \/ WriterFails \/ WriterDies
    PROVE  Shape'
<1>1. PipelineTypeOK' /\ HeadTypeOK' /\ OpTypeOK' /\ TurnTypeOK' /\ OpInv'
  <2>1. UNCHANGED <<entry, seq, lastId, fifo, ticket, head, pub, held, op, turn>>
    BY DEF Writer, WriterTake, WriterWrite, WriterSync, WriterAck,
           WriterFails, WriterDies, actorVars
  <2> QED
    BY <2>1, Frames DEF Shape, TypeOK, OpInv
<1>2. OthersTypeOK'
  <2>1. CASE Writer
    BY <2>1, Frames DEF Shape, TypeOK, Writer, WriterTake, WriterWrite, WriterSync, WriterAck
  <2>2. CASE WriterFails \/ WriterDies
    BY <2>2, BoundsAreNats DEF Shape, TypeOK, OthersTypeOK, WriterFails, WriterDies, Spend
  <2> QED
    BY <2>1, <2>2
<1>3. \A q, a : a \in {"ok", "err"} => Answer(q, a) \in [Seqs -> {"none", "wait", "ok", "err"}]
  BY DEF Shape, TypeOK, LogTypeOK, Answer
<1>4. \A n \in 0..Len(file) : SubSeq(file, 1, n) \in Seq(Seqs) /\ Len(SubSeq(file, 1, n)) = n
  BY DEF Shape, TypeOK, LogTypeOK
<1> SUFFICES LogTypeOK' /\ WriterInv'
  BY <1>1, <1>2 DEF Shape, TypeOK
<1> USE DEF Shape, TypeOK, LogTypeOK, WriterInv
<1>5. CASE WriterTake
  BY <1>3, <1>5 DEF WriterTake
<1>6. CASE WriterWrite
  <2>1. wrote + 1 \in 1..Len(batch) /\ batch[wrote + 1] \in Unit
    BY <1>6 DEF WriterWrite
  <2>2. Ids(batch[wrote + 1]) \in Seq(Seqs)
    BY <2>1, IdsType
  <2>3. file' \in Seq(Seqs) /\ Len(file') >= Len(file)
    BY <1>6, <2>2 DEF WriterWrite
  <2>4. good \in 0..Len(file')
    BY <2>3
  <2> QED
    BY <1>6, <2>1, <2>3, <2>4 DEF WriterWrite
<1>7. CASE WriterSync
  BY <1>7 DEF WriterSync
<1>8. CASE WriterAck
  <2>1. /\ Tail(batch) \in Seq(Unit) /\ Len(Tail(batch)) = Len(batch) - 1
        /\ Len(batch) # 1 => Tail(batch) # <<>>
    BY <1>8, TailFacts DEF WriterAck
  <2>2. ack' \in [Seqs -> {"none", "wait", "ok", "err"}]
    BY <1>8 DEF WriterAck
  <2>3. wrote = Len(batch) /\ batch' = Tail(batch)
    BY <1>8 DEF WriterAck
  <2>4. CASE Len(batch) = 1
    BY <1>8, <2>1, <2>2, <2>3, <2>4 DEF WriterAck
  <2>5. CASE Len(batch) # 1
    <3>1. wrote' = wrote - 1 /\ phase' = "ack"
      BY <1>8, <2>5 DEF WriterAck
    <3> QED
      BY <1>8, <2>1, <2>2, <2>3, <2>5, <3>1 DEF WriterAck
  <2> QED
    BY <2>4, <2>5
<1>9. CASE WriterFails
  BY <1>3, <1>4, <1>9 DEF WriterFails
<1>10. CASE WriterDies
  BY <1>3, <1>10 DEF WriterDies
<1> QED
  BY <1>5, <1>6, <1>7, <1>8, <1>9, <1>10 DEF Writer

\* The runs of appends the actor begins.
LEMMA WorkLemma ==
    ASSUME NEW n \in 0..MaxHeld
    PROVE  /\ LET w == [i \in 1..n |-> "steer"] IN w \in Seq(Kinds) /\ WorkOK(w)
           /\ LET w == <<"results">> \o [i \in 1..n |-> "steer"]
              IN  w \in Seq(Kinds) /\ WorkOK(w)
           /\ LET w == <<>> \o [i \in 1..n |-> "steer"]
              IN  w \in Seq(Kinds) /\ WorkOK(w)
           /\ <<>> \in Seq(Kinds) /\ WorkOK(<<>>)
           /\ \A k \in {"mark", "fold", "steer", "user", "todos"} :
                 <<k>> \in Seq(Kinds) /\ WorkOK(<<k>>)
           /\ <<"mark", "user">> \in Seq(Kinds) /\ WorkOK(<<"mark", "user">>)
           /\ <<"user", "user">> \in Seq(Kinds) /\ WorkOK(<<"user", "user">>)
<1> DEFINE s == [i \in 1..n |-> "steer"]
<1>1. n \in Nat /\ n <= MaxHeld /\ MaxHeld \in Nat
  BY BoundsAreNats
<1>2. s \in Seq(Kinds) /\ Len(s) = n /\ \A i \in 1..n : s[i] = "steer"
  BY <1>1, SteersType
<1>3. WorkOK(s)
  BY <1>1, <1>2 DEF WorkOK
<1>4. <<>> \o s = s
  BY <1>2
<1> DEFINE r == <<"results">> \o s
<1>5. r \in Seq(Kinds)
  BY <1>2, KindsType
<1>6. Len(r) = n + 1 /\ \A i \in 2..n + 1 : r[i] = s[i - 1]
  BY <1>1, <1>2
<1>7. WorkOK(r)
  <2>1. \A i \in 2..n + 1 : i - 1 \in 1..n
    BY <1>1
  <2>2. \A i \in 2..n + 1 : r[i] # "results"
    BY <1>2, <1>6, <2>1
  <2> QED
    BY <1>1, <1>6, <2>2 DEF WorkOK
<1>8. WorkOK(<<>>)
  BY DEF WorkOK
<1>9. \A k \in {"mark", "fold", "steer", "user", "todos"} : WorkOK(<<k>>)
  BY DEF WorkOK
<1>10. WorkOK(<<"mark", "user">>) /\ WorkOK(<<"user", "user">>)
  BY DEF WorkOK
<1>11. \A k \in {"mark", "fold", "steer", "user", "todos"} : <<k>> \in Seq(Kinds)
  BY KindsType
<1>12. <<"mark", "user">> \in Seq(Kinds) /\ <<"user", "user">> \in Seq(Kinds)
  BY KindsType
<1> QED
  BY <1>2, <1>3, <1>4, <1>5, <1>7, <1>8, <1>9, <1>10, <1>11, <1>12, KindsType

\* Beginning a run, or ending one, keeps the actor's state well formed.
LEMMA RunOpShape ==
    ASSUME NEW work \in Seq(Kinds), WorkOK(work),
           NEW then \in {"loop", "settle", "plan", "spawn", "respawn", "end"},
           op' = Run(work, then) \/ op' = Loop
    PROVE  op' \in Ops /\ OpInv'
<1>1. op' \in Ops
  BY RunType
<1>2. WorkOK(<<>>)
  BY DEF WorkOK
<1>3. CASE op' = Run(work, then)
  <2>1. /\ op'.work = work /\ op'.at # "await"
        /\ op'.at \in {"append", "await"} => op'.work # <<>>
    BY <1>3 DEF Run, Loop
  <2> QED
    BY <1>1, <2>1 DEF OpInv, WorkOK
<1>4. CASE op' = Loop
  <2>1. op'.work = <<>> /\ op'.at = "loop"
    BY <1>4 DEF Loop
  <2> QED
    BY <1>1, <1>2, <2>1 DEF OpInv, WorkOK
<1> QED
  BY <1>3, <1>4

\* An arm that ends returns the actor to its loop.
LEMMA LoopShape ==
    ASSUME op' = Loop
    PROVE  op' \in Ops /\ OpInv'
<1>1. WorkOK(<<>>)
  BY DEF WorkOK
<1> QED
  BY <1>1, RunOpShape, KindsType

\* What settling the front of the FIFO leaves behind is well formed.
LEMMA SettleShape ==
    ASSUME Shape, fifo # <<>>, NEW tell \in {"ok", "aborted"},
           head' = SettleFront(tell).head, fifo' = Tail(fifo), pub' \in {pub, head'},
           ticket' \in {ticket,
                        [ticket EXCEPT ![Front(fifo).last] = SettleFront(tell).told]},
           UNCHANGED <<entry, seq, lastId>>
    PROVE  PipelineTypeOK' /\ HeadTypeOK'
<1>1. /\ Front(fifo).last \in Seqs /\ Tail(fifo) \in Seq(Unit)
      /\ SettleFront(tell).head \in Heads
      /\ SettleFront(tell).told \in {"ok", "sealed", "aborted"}
  BY SettleType DEF Shape
<1>2. HeadTypeOK'
  BY <1>1 DEF Shape, TypeOK, HeadTypeOK
<1>3. ticket' \in [Seqs -> {"none", "wait", "ok", "sealed", "aborted"}]
  BY <1>1 DEF Shape, TypeOK, PipelineTypeOK
<1> QED
  BY <1>1, <1>2, <1>3 DEF Shape, TypeOK, PipelineTypeOK

LEMMA AckArmShape ==
    ASSUME Shape, AckArm
    PROVE  Shape'
<1> DEFINE s == SettleFront("ok")
           steers == [i \in 1..held |-> "steer"]
           work == IF ~Awaiting(s.head) THEN steers ELSE <<>>
<1>1. fifo # <<>>
  BY DEF AckArm, FrontAnswered
<1>2. /\ Front(fifo).last \in Seqs /\ s.told \in {"ok", "sealed", "aborted"}
  BY <1>1, SettleType DEF Shape
<1>3. PipelineTypeOK' /\ HeadTypeOK'
  BY <1>1, SettleShape DEF AckArm
<1>4. LogTypeOK' /\ TurnTypeOK' /\ OthersTypeOK' /\ WriterInv'
  BY Frames DEF Shape, TypeOK, AckArm, logVars, WriterInv
<1>5. held \in 0..MaxHeld /\ 0 \in 0..MaxHeld
  BY BoundsAreNats DEF Shape, TypeOK, OpTypeOK
<1>6. work \in Seq(Kinds) /\ WorkOK(work)
  BY <1>5, WorkLemma, Zenon
<1>7. op' = [Run(work, "settle") EXCEPT !.due = Front(fifo).last, !.verdict = s.told]
  BY DEF AckArm
<1>8. /\ Run(work, "settle") \in Ops /\ Run(work, "settle").work = work
      /\ Run(work, "settle").at = IF work = <<>> THEN "done" ELSE "append"
  BY <1>6, RunType DEF Run, Loop
<1>9. op' \in Ops /\ op'.work = work /\ op'.at = IF work = <<>> THEN "done" ELSE "append"
  <2>1. Front(fifo).last \in 0..MaxSeq
    BY <1>2, BoundsAreNats DEF Seqs
  <2> QED
    BY <1>2, <1>7, <1>8, <2>1 DEF Ops
<1>10. OpInv'
  BY <1>6, <1>9 DEF OpInv, WorkOK
<1>11. held' \in 0..MaxHeld
  BY <1>5 DEF AckArm
<1> QED
  BY <1>3, <1>4, <1>9, <1>10, <1>11 DEF Shape, TypeOK, OpTypeOK

LEMMA DrainShape ==
    ASSUME Shape, Drain
    PROVE  Shape'
<1>1. fifo # <<>>
  BY DEF Drain, FrontAnswered
<1>2. LogTypeOK' /\ OpTypeOK' /\ TurnTypeOK' /\ OthersTypeOK' /\ WriterInv' /\ OpInv'
  BY Frames DEF Shape, TypeOK, Drain, logVars, WriterInv, OpInv, WorkOK
<1>3. \E tell \in {"ok", "aborted"} :
        /\ head' = SettleFront(tell).head /\ pub' = SettleFront(tell).head
        /\ ticket' = [ticket EXCEPT ![Front(fifo).last] = SettleFront(tell).told]
  BY DEF Drain
<1>4. fifo' = Tail(fifo) /\ UNCHANGED <<entry, seq, lastId>>
  BY DEF Drain
<1>5. PipelineTypeOK' /\ HeadTypeOK'
  BY <1>1, <1>3, <1>4, SettleShape
<1> QED
  BY <1>2, <1>5 DEF Shape, TypeOK

\* A run the log refused ends, and hands back the steers it could not append.
LEMMA GiveUpShape ==
    ASSUME Shape, op.at \in {"append", "await"}, GiveUp
    PROVE  OpTypeOK' /\ OpInv'
<1>1. op \in Ops /\ op.work # <<>> /\ op.work \in Seq(Kinds) /\ held \in 0..MaxHeld
  BY DEF Shape, TypeOK, OpTypeOK, OpInv, Ops
<1>2. op.work[1] = "results" => Len(op.work) - 1 \in 0..MaxHeld
  <2>1. Len(op.work) \in Nat /\ Len(op.work) >= 1
    BY <1>1
  <2>2. op.work[1] = "results" => Len(op.work) <= MaxHeld + 1
    BY <1>1 DEF Shape, OpInv, WorkOK
  <2> QED
    BY <2>1, <2>2, BoundsAreNats
<1>3. held' \in 0..MaxHeld
  BY <1>1, <1>2 DEF GiveUp
<1>4. op' \in Ops /\ op'.at = "done" /\ op'.work = <<>>
  BY <1>1, KindsType DEF GiveUp, Ops
<1>5. OpInv'
  BY <1>4 DEF OpInv, WorkOK
<1> QED
  BY <1>3, <1>4, <1>5 DEF OpTypeOK

\* The entry a run is at.
LEMMA WorkFront ==
    ASSUME Shape, op.at \in {"append", "await"}
    PROVE  /\ op \in Ops /\ op.work \in Seq(Kinds) /\ op.work # <<>>
           /\ op.work[1] \in Kinds
           /\ <<op.work[1]>> \in Seq(Kinds) /\ <<op.work[1]>> # <<>>
           /\ Len(<<op.work[1]>>) = 1
<1>1. op \in Ops /\ op.work # <<>> /\ op.work \in Seq(Kinds)
  BY DEF Shape, TypeOK, OpTypeOK, OpInv, Ops
<1>2. op.work[1] \in Kinds
  BY <1>1
<1> QED
  BY <1>1, <1>2

LEMMA AppendSendShape ==
    ASSUME Shape, AppendSend
    PROVE  Shape'
<1> DEFINE kinds == <<op.work[1]>>
           u == NewUnit(kinds)
<1>1. /\ kinds \in Seq(Kinds) /\ kinds # <<>> /\ Len(kinds) = 1 /\ op \in Ops
      /\ op.work # <<>>
  BY WorkFront DEF AppendSend
<1>2. Room(kinds) /\ seq' = u.last
  BY DEF AppendSend, Refuses
<1>3. u \in Unit /\ u.last \in Seqs /\ u.last = seq + 1 /\ seq \in Nat
  <2>1. u \in Unit /\ u.last = seq + Len(kinds) /\ seq + Len(kinds) \in Seqs
    BY <1>1, <1>2, NewUnitType DEF Shape
  <2>2. seq \in Nat
    BY BoundsAreNats DEF Shape, TypeOK, PipelineTypeOK
  <2> QED
    BY <1>1, <2>1, <2>2
<1>4. HeadTypeOK' /\ TurnTypeOK' /\ OthersTypeOK'
  BY Frames DEF Shape, TypeOK, AppendSend
<1>5. LogTypeOK' /\ WriterInv'
  <2>1. Append(chan, u) \in Seq(Unit)
    BY <1>3 DEF Shape, TypeOK, LogTypeOK
  <2>2. [ack EXCEPT ![u.last] = "wait"] \in [Seqs -> {"none", "wait", "ok", "err"}]
    BY DEF Shape, TypeOK, LogTypeOK
  <2> QED
    BY <2>1, <2>2 DEF AppendSend, Shape, TypeOK, LogTypeOK, WriterInv
<1>6. PipelineTypeOK'
  <2>1. Minted(kinds, lastId, {}) \in [Seqs -> Entries]
    BY <1>1, MintedType DEF Shape, TypeOK, PipelineTypeOK
  <2>2. u.last \in 0..MaxSeq
    BY <1>3, BoundsAreNats DEF Seqs
  <2> QED
    BY <1>2, <2>1, <2>2 DEF AppendSend, Shape, TypeOK, PipelineTypeOK
<1>7. op' = [op EXCEPT !.at = "await"] /\ held' = held
  BY DEF AppendSend
<1>8. op' \in Ops /\ op'.work = op.work
  BY <1>1, <1>7 DEF Ops
<1>9. OpTypeOK' /\ OpInv'
  <2>1. seq' >= 1
    BY <1>2, <1>3
  <2> QED
    BY <1>1, <1>7, <1>8, <2>1 DEF Shape, TypeOK, OpTypeOK, OpInv, WorkOK
<1> QED
  BY <1>4, <1>5, <1>6, <1>9 DEF Shape, TypeOK

LEMMA AppendFailsShape ==
    ASSUME Shape, AppendRefused \/ AppendErr
    PROVE  Shape'
<1>1. op.at \in {"append", "await"} /\ GiveUp
  BY DEF AppendRefused, AppendErr
<1>2. OpTypeOK' /\ OpInv'
  BY <1>1, GiveUpShape
<1>3. HeadTypeOK' /\ TurnTypeOK' /\ OthersTypeOK'
  BY Frames DEF Shape, TypeOK, AppendRefused, AppendErr
<1>4. LogTypeOK' /\ PipelineTypeOK'
  <2>1. CASE AppendRefused
    <3>1. <<op.work[1]>> \in Seq(Kinds)
      BY <1>1, WorkFront
    <3> QED
      BY <2>1, <3>1, RefusedType DEF AppendRefused, Shape
  <2>2. CASE AppendErr
    BY <2>2 DEF AppendErr, Shape, TypeOK, LogTypeOK, PipelineTypeOK
  <2> QED
    BY <2>1, <2>2
<1>5. WriterInv'
  BY DEF AppendRefused, AppendErr, ForwardRefused, Shape, WriterInv
<1> QED
  BY <1>2, <1>3, <1>4, <1>5 DEF Shape, TypeOK

\* The unit an append waits for.
LEMMA AwaitedType ==
    ASSUME Shape, op.at = "await"
    PROVE  LET u == [first |-> seq, last |-> seq]
           IN  u \in Unit /\ u.first = seq /\ u.last = seq /\ seq \in Seqs
BY BoundsAreNats DEF Shape, TypeOK, PipelineTypeOK, OpInv, Unit, Seqs

LEMMA AppendOkShape ==
    ASSUME Shape, AppendOk
    PROVE  Shape'
<1>1. op \in Ops /\ op.work \in Seq(Kinds) /\ op.work # <<>>
  BY WorkFront DEF AppendOk
<1>2. [first |-> seq, last |-> seq] \in Unit /\ head \in Heads
  BY AwaitedType DEF AppendOk, Shape, TypeOK, HeadTypeOK
<1>3. HeadTypeOK'
  BY <1>2, AdvanceType DEF AppendOk, HeadTypeOK
<1>4. LogTypeOK' /\ TurnTypeOK' /\ OthersTypeOK' /\ WriterInv'
  BY Frames DEF Shape, TypeOK, AppendOk, logVars, WriterInv
<1>5. PipelineTypeOK'
  BY DEF Shape, TypeOK, PipelineTypeOK, AppendOk
<1>6. /\ Tail(op.work) \in Seq(Kinds) /\ Len(Tail(op.work)) = Len(op.work) - 1
      /\ Len(op.work) # 1 => Tail(op.work) # <<>>
      /\ \A i \in 1..Len(op.work) - 1 : Tail(op.work)[i] = op.work[i + 1]
      /\ Len(op.work) \in Nat /\ Len(op.work) >= 1
  BY <1>1, TailFacts
<1>7. op' = [op EXCEPT !.work = Tail(op.work),
                       !.at = IF Len(op.work) = 1 THEN "done" ELSE "append"]
  BY DEF AppendOk
<1>8. op' \in Ops /\ op'.work = Tail(op.work) /\ op'.at \in {"done", "append"}
      /\ (op'.at = "append" => Len(op.work) # 1)
  BY <1>1, <1>6, <1>7 DEF Ops
<1>9. \A i \in 1..Len(op.work) - 1 : Tail(op.work)[i] # "results"
  <2>1. \A i \in 1..Len(op.work) - 1 : i + 1 \in 2..Len(op.work)
    BY <1>6
  <2> QED
    BY <1>6, <2>1 DEF Shape, OpInv, WorkOK
<1>10. WorkOK(Tail(op.work))
  <2>1. Tail(op.work) # <<>> => 1 \in 1..Len(op.work) - 1
    <3>1. Tail(op.work) # <<>> => Len(Tail(op.work)) >= 1
      BY <1>6
    <3> QED
      BY <1>6, <3>1
  <2>2. \A i \in 2..Len(Tail(op.work)) : i \in 1..Len(op.work) - 1
    BY <1>6
  <2> QED
    BY <1>9, <2>1, <2>2 DEF WorkOK
<1>11. OpInv'
  BY <1>6, <1>8, <1>10 DEF OpInv, WorkOK
<1> QED
  BY <1>3, <1>4, <1>5, <1>8, <1>11 DEF Shape, TypeOK, OpTypeOK, AppendOk

\* An arm that changes neither the log nor the commit numbers.
LEMMA QuietFrames ==
    ASSUME Shape, UNCHANGED <<logVars, entry, seq, lastId, fifo, ticket>>
    PROVE  LogTypeOK' /\ PipelineTypeOK' /\ WriterInv'
BY Frames DEF Shape, TypeOK, logVars, WriterInv

\* The actor begins or ends an arm.
LEMMA ArmShape ==
    ASSUME Shape, UNCHANGED <<logVars, entry, seq, lastId, fifo, ticket>>,
           HeadTypeOK', TurnTypeOK', OthersTypeOK', held' \in 0..MaxHeld,
           \/ op' = Loop
           \/ \E work \in Seq(Kinds),
                 then \in {"loop", "settle", "plan", "spawn", "respawn", "end"} :
                 WorkOK(work) /\ op' = Run(work, then)
    PROVE  Shape'
<1>1. LogTypeOK' /\ PipelineTypeOK' /\ WriterInv'
  BY QuietFrames
<1>2. op' \in Ops /\ OpInv'
  BY LoopShape, RunOpShape
<1> QED
  BY <1>1, <1>2 DEF Shape, TypeOK, OpTypeOK

LEMMA ArmEndsShape ==
    ASSUME Shape,
           Settle \/ Return \/ PlanWritten \/ Spawn \/ NoSpawn \/ EndTurn \/ TurnFinished
              \/ FoldInterrupted
    PROVE  Shape'
<1>1. /\ HeadTypeOK /\ TurnTypeOK /\ OthersTypeOK /\ held \in 0..MaxHeld /\ 0 \in 0..MaxHeld
      /\ PipelineTypeOK /\ op \in Ops
  BY BoundsAreNats DEF Shape, TypeOK, OpTypeOK
<1>2. WorkOK(<<"mark">>) /\ <<"mark">> \in Seq(Kinds) /\ WorkOK(<<"fold">>) /\ <<"fold">> \in Seq(Kinds)
  BY <1>1, WorkLemma
<1>3. NoTurn \in Turns /\ [NoTurn EXCEPT !.at = "boundary"] \in Turns
  BY NoTurnType
<1>4. CASE Settle
  <2>1. LogTypeOK' /\ WriterInv' /\ TurnTypeOK' /\ OthersTypeOK'
    BY <1>4, Frames DEF Settle, Shape, TypeOK, logVars, WriterInv
  <2>2. op.verdict \in {"ok", "sealed", "aborted"}
    BY <1>1 DEF Ops
  <2>3. PipelineTypeOK' /\ HeadTypeOK'
    BY <1>1, <1>4, <2>2 DEF Settle, PipelineTypeOK, HeadTypeOK
  <2>4. OpTypeOK' /\ OpInv'
    BY <1>1, <1>4, LoopShape DEF Settle, OpTypeOK
  <2> QED
    BY <2>1, <2>3, <2>4 DEF Shape, TypeOK
<1>5. CASE Return
  BY <1>1, <1>5, ArmShape, Frames DEF Return, others
<1>6. CASE PlanWritten
  <2>1. OthersTypeOK'
    BY <1>1, <1>6 DEF PlanWritten, OthersTypeOK, HeadTypeOK, Heads
  <2> QED
    BY <1>1, <1>6, <2>1, ArmShape, Frames DEF PlanWritten
<1>7. CASE Spawn
  BY <1>1, <1>3, <1>7, ArmShape, Frames DEF Spawn, TurnTypeOK
<1>8. CASE NoSpawn
  <2>1. TurnTypeOK' /\ HeadTypeOK' /\ OthersTypeOK' /\ held' \in 0..MaxHeld
    BY <1>1, <1>3, <1>8, Frames DEF NoSpawn, TurnTypeOK
  <2>2. op' = Loop \/ op' = Run(<<"mark">>, "loop")
    BY <1>8 DEF NoSpawn
  <2> QED
    BY <1>2, <1>8, <2>1, <2>2, ArmShape DEF NoSpawn
<1>9. CASE EndTurn
  <2>1. TurnTypeOK' /\ HeadTypeOK' /\ OthersTypeOK' /\ held' \in 0..MaxHeld
    BY <1>1, <1>3, <1>9, Frames DEF EndTurn, TurnTypeOK
  <2>2. \/ op' = Loop \/ op' = Run(<<"mark">>, "loop")
        \/ op' = Run(<<"fold">>, "respawn") \/ op' = Run(<<"mark">>, "respawn")
    BY <1>9 DEF EndTurn
  <2>3. UNCHANGED <<logVars, entry, seq, lastId, fifo, ticket>>
    BY <1>9 DEF EndTurn
  <2> QED
    BY <1>2, <2>1, <2>2, <2>3, ArmShape
<1>10. CASE TurnFinished
  <2> DEFINE work == (IF Awaiting(head) THEN <<"results">> ELSE <<>>)
                        \o [i \in 1..held |-> "steer"]
  <2>1. work \in Seq(Kinds) /\ WorkOK(work)
    <3>1. CASE Awaiting(head)
      BY <1>1, <3>1, WorkLemma, Zenon
    <3>2. CASE ~Awaiting(head)
      BY <1>1, <3>2, WorkLemma, Zenon
    <3> QED
      BY <3>1, <3>2
  <2>2. op' = Run(work, "end")
    BY <1>10 DEF TurnFinished
  <2>3. TurnTypeOK' /\ HeadTypeOK' /\ OthersTypeOK' /\ held' \in 0..MaxHeld
    BY <1>1, <1>10, Frames DEF TurnFinished
  <2>4. UNCHANGED <<logVars, entry, seq, lastId, fifo, ticket>>
    BY <1>10 DEF TurnFinished
  <2> QED
    BY <2>1, <2>2, <2>3, <2>4, ArmShape, Zenon
<1>11. CASE FoldInterrupted
  BY <1>1, <1>2, <1>3, <1>11, ArmShape, Frames DEF FoldInterrupted, TurnTypeOK
<1> QED
  BY <1>4, <1>5, <1>6, <1>7, <1>8, <1>9, <1>10, <1>11

\* The commands of the mailbox keep the state well formed.
LEMMA CommandsShape ==
    ASSUME Shape, Commands
    PROVE  Shape'
<1>1. /\ HeadTypeOK /\ TurnTypeOK /\ OthersTypeOK /\ held \in 0..MaxHeld /\ 0 \in 0..MaxHeld
  BY BoundsAreNats DEF Shape, TypeOK, OpTypeOK
<1>2. \A k \in {"mark", "fold", "steer", "user", "todos"} : <<k>> \in Seq(Kinds) /\ WorkOK(<<k>>)
  BY <1>1, WorkLemma
<1>3. /\ <<"mark", "user">> \in Seq(Kinds) /\ WorkOK(<<"mark", "user">>)
      /\ <<"user", "user">> \in Seq(Kinds) /\ WorkOK(<<"user", "user">>)
  BY <1>1, WorkLemma
<1>4. CASE Command \/ SetPlan
  <2>1. OthersTypeOK'
    BY <1>1, <1>4, BoundsAreNats DEF Command, SetPlan, Spend, OthersTypeOK
  <2>2. HeadTypeOK' /\ TurnTypeOK' /\ held' \in 0..MaxHeld
        /\ UNCHANGED <<logVars, entry, seq, lastId, fifo, ticket>>
    BY <1>1, <1>4, Frames DEF Command, SetPlan
  <2>3. op' = Run(<<"mark">>, "loop") \/ op' = Run(<<"mark", "user">>, "loop")
    BY <1>4 DEF Command, SetPlan
  <2> QED
    BY <1>2, <1>3, <2>1, <2>2, <2>3, ArmShape
<1>5. CASE SetTodos
  <2>1. HeadTypeOK'
    <3>1. head \in Heads /\ pub \in Heads
      BY <1>1 DEF HeadTypeOK
    <3>2. head.todos + 1 \in 0..MaxTodos
      BY <1>5, <3>1, BoundsAreNats DEF SetTodos, Heads
    <3>3. head' \in Heads
      BY <1>5, <3>1, <3>2 DEF SetTodos, Heads
    <3> QED
      BY <1>5, <3>1, <3>3 DEF SetTodos, HeadTypeOK
  <2> QED
    BY <1>1, <1>2, <1>5, <2>1, ArmShape, Frames DEF SetTodos
<1>6. CASE Steer
  <2>1. held' \in 0..MaxHeld
    BY <1>1, <1>6, BoundsAreNats DEF Steer
  <2>2. HeadTypeOK' /\ TurnTypeOK' /\ OthersTypeOK'
        /\ UNCHANGED <<logVars, entry, seq, lastId, fifo, ticket>>
    BY <1>1, <1>6, Frames DEF Steer
  <2>3. op' = op \/ op' = Run(<<"steer">>, "loop")
    BY <1>6 DEF Steer
  <2>4. CASE op' = op
    BY <2>1, <2>2, <2>4, QuietFrames, Frames DEF Shape, TypeOK, OpTypeOK, OpInv, WorkOK
  <2>5. CASE op' = Run(<<"steer">>, "loop")
    BY <1>2, <2>1, <2>2, <2>5, ArmShape
  <2> QED
    BY <2>3, <2>4, <2>5
<1>7. CASE PromptFast
  <2>1. <<"user">> \in Seq(Kinds) /\ <<"user">> # <<>>
    BY KindsType
  <2>2. HeadTypeOK' /\ OpTypeOK' /\ OthersTypeOK'
    BY <1>7, Frames DEF PromptFast, Shape, TypeOK
  <2>3. CASE ForwardRefused(<<"user">>) /\ turn' = turn
    <3>1. WriterInv' /\ OpInv'
      BY <1>7, <2>3 DEF PromptFast, ForwardRefused, Shape, WriterInv, OpInv, WorkOK, Idle
    <3> QED
      BY <1>1, <2>1, <2>2, <2>3, <3>1, RefusedType, Frames DEF Shape, TypeOK
  <2>4. CASE /\ Forward(<<"user">>, {})
             /\ turn' = [NoTurn EXCEPT
                   !.at = "boundary", !.tickets = <<seq'>>, !.mine = seq',
                   !.spec = [leaf |-> seq',
                             snap |-> [Snapshot(head) EXCEPT !.items = @ \cup {seq'}]]]
    <3>1. LogTypeOK' /\ PipelineTypeOK' /\ seq' \in Seqs
      <4>1. {} \in SUBSET Seqs
        OBVIOUS
      <4>2. TypeOK /\ Forward(<<"user">>, {})
        BY <2>4 DEF Shape
      <4> QED
        BY <2>1, <4>1, <4>2, ForwardType, Zenon
    <3>2. WriterInv' /\ OpInv'
      BY <1>7, <2>4 DEF PromptFast, Forward, Shape, WriterInv, OpInv, WorkOK, Idle
    <3>3. [Snapshot(head) EXCEPT !.items = @ \cup {seq'}] \in Snapshots
      BY <1>1, <3>1, SnapshotType DEF HeadTypeOK, Snapshots
    <3>4. seq' \in 0..MaxSeq /\ <<seq'>> \in Seq(Seqs)
      BY <3>1, BoundsAreNats DEF Seqs
    <3>5. turn' \in Turns
      <4> DEFINE spec == [leaf |-> seq', snap |-> [Snapshot(head) EXCEPT !.items = @ \cup {seq'}]]
      <4>1. turn' = [at |-> "boundary", tickets |-> <<seq'>>, mine |-> seq', ok |-> TRUE,
                     fold |-> FALSE, own |-> {}, view |-> NoSnap, spec |-> spec,
                     req |-> NoSnap]
        BY <2>4 DEF NoTurn
      <4>2. spec \in [leaf : 0..MaxSeq, snap : Snapshots]
        BY <3>3, <3>4
      <4>3. NoSnap \in Snapshots
        BY NoTurnType
      <4> HIDE DEF spec
      <4> QED
        BY <3>4, <4>1, <4>2, <4>3 DEF Turns
    <3> QED
      BY <2>2, <3>1, <3>2, <3>5 DEF Shape, TypeOK, TurnTypeOK
  <2> QED
    BY <1>7, <2>3, <2>4 DEF PromptFast
<1>8. CASE PromptAwaited \/ FoldNow
  <2>1. HeadTypeOK' /\ TurnTypeOK' /\ OthersTypeOK' /\ held' \in 0..MaxHeld
        /\ UNCHANGED <<logVars, entry, seq, lastId, fifo, ticket>>
    BY <1>1, <1>8, Frames DEF PromptAwaited, FoldNow
  <2>2. \/ op' = Run(<<"user">>, "spawn") \/ op' = Run(<<"user", "user">>, "spawn")
        \/ op' = Run(<<"fold">>, "loop")
    BY <1>8 DEF PromptAwaited, FoldNow
  <2> QED
    BY <1>2, <1>3, <2>1, <2>2, ArmShape
<1>9. CASE Continue
  <2>1. TurnTypeOK'
    BY <1>9, NoTurnType DEF Continue, TurnTypeOK
  <2> QED
    BY <1>9, <2>1, Frames
       DEF Continue, Shape, TypeOK, logVars, actorVars, WriterInv, OpInv, WorkOK
<1> QED
  BY <1>4, <1>5, <1>6, <1>7, <1>8, <1>9 DEF Commands

\* A proposal keeps the state well formed.
LEMMA ProposeShape ==
    ASSUME Shape, NEW kinds \in Seq(Kinds), kinds # <<>>, NEW saw \in SUBSET Seqs,
           NEW next \in Turns, Propose(kinds, saw, next)
    PROVE  Shape'
<1>1. TypeOK'
  BY ProposeType DEF Shape
<1>2. WriterInv' /\ OpInv'
  BY DEF Propose, Idle, Forward, ForwardRefused, Shape, WriterInv, OpInv, WorkOK
<1> QED
  BY <1>1, <1>2 DEF Shape

\* A step of the turn task alone.
LEMMA TurnAlone ==
    ASSUME Shape, turn' \in Turns, UNCHANGED <<logVars, actorVars, others>>
    PROVE  Shape'
BY Frames
   DEF Shape, TypeOK, TurnTypeOK, logVars, actorVars, WriterInv, OpInv, WorkOK

\* The turn task keeps the state well formed.
LEMMA TurnShape ==
    ASSUME Shape, Turn \/ Panic
    PROVE  Shape'
<1>1. turn \in Turns /\ pub \in Heads
  BY DEF Shape, TypeOK, TurnTypeOK, HeadTypeOK
<1>2. \A ok, fold \in BOOLEAN : Ending(turn, ok, fold) \in Turns
  BY <1>1, EndingType
<1>3. NoSnap \in Snapshots /\ Snapshot(pub) \in Snapshots /\ turn.req.items \in SUBSET Seqs
      /\ NoTurn.spec \in [leaf : 0..MaxSeq, snap : Snapshots]
  <2>1. NoSnap \in Snapshots /\ Snapshot(pub) \in Snapshots
    BY <1>1, NoTurnType, SnapshotType
  <2>2. turn.req \in Snapshots /\ NoTurn \in Turns
    BY <1>1, NoTurnType DEF Turns
  <2>3. NoTurn.spec \in [leaf : 0..MaxSeq, snap : Snapshots]
    BY <2>2 DEF Turns
  <2> QED
    BY <2>1, <2>2, <2>3 DEF Snapshots
<1>4. \A at \in {"boundary", "sampling", "calls", "tools", "replied", "ended"} :
        /\ [turn EXCEPT !.at = at] \in Turns
        /\ [turn EXCEPT !.at = at, !.req = NoSnap] \in Turns
  <2> TAKE at \in {"boundary", "sampling", "calls", "tools", "replied", "ended"}
  <2>1. at \in {"none", "boundary", "sampling", "calls", "tools", "replied", "finishing", "ended"}
    OBVIOUS
  <2>2. [turn EXCEPT !.at = at] \in Turns
    BY <1>1, <2>1 DEF Turns
  <2>3. [turn EXCEPT !.at = at, !.req = NoSnap] = [[turn EXCEPT !.at = at] EXCEPT !.req = NoSnap]
    OBVIOUS
  <2>4. \A t \in Turns : [t EXCEPT !.req = NoSnap] \in Turns
    BY <1>3 DEF Turns
  <2> QED
    BY <2>2, <2>3, <2>4
<1>5. CASE Resolve
  <2>1. Tail(turn.tickets) \in Seq(Seqs)
    BY <1>1, <1>5 DEF Resolve, Turns
  <2>2. turn' \in Turns
    BY <1>1, <1>5, <2>1 DEF Resolve, Turns
  <2> QED
    BY <1>5, <2>2, TurnAlone DEF Resolve
<1>6. CASE BarrierFails
  BY <1>2, <1>6, TurnAlone DEF BarrierFails
<1>7. CASE Boundary
  <2> DEFINE fresh(r) == [turn EXCEPT !.at = "sampling", !.view = Snapshot(pub), !.own = {},
                             !.spec = NoTurn.spec, !.req = r]
  <2>1. \A r \in Snapshots : fresh(r) \in Turns
    BY <1>1, <1>3 DEF Turns
  <2>2. turn.spec.snap \in Snapshots
    BY <1>1 DEF Turns
  <2>3. turn' \in Turns
    BY <1>2, <1>3, <1>7, <2>1, <2>2 DEF Boundary
  <2> QED
    BY <1>7, <2>3, TurnAlone DEF Boundary
<1>8. CASE Sampled
  <2>1. \A k \in {"call", "reply"} : <<k, "mark">> \in Seq(Kinds) /\ <<k, "mark">> # <<>>
    BY KindsType
  <2> QED
    BY <1>2, <1>3, <1>4, <1>8, <2>1, ProposeShape DEF Sampled
<1>9. CASE SampleEnds
  BY <1>2, <1>4, <1>9, TurnAlone DEF SampleEnds
<1>10. CASE Dispatch
  BY <1>4, <1>10, TurnAlone DEF Dispatch
<1>11. CASE ToolsDone
  <2>1. PICK kinds \in {<<"results">>, <<"results", "user">>} :
          LET own  == turn.own \cup NewItems(kinds)
              spec == [leaf |-> NewUnit(kinds).last,
                       snap |-> [turn.view EXCEPT !.items = @ \cup own]]
          IN  \/ Propose(kinds, {}, [turn EXCEPT !.at = "boundary", !.spec = spec])
              \/ Propose(kinds, {}, Ending(turn, TRUE, FALSE))
    BY <1>11, Zenon DEF ToolsDone
  <2> DEFINE own  == turn.own \cup NewItems(kinds)
             spec == [leaf |-> NewUnit(kinds).last,
                      snap |-> [turn.view EXCEPT !.items = @ \cup own]]
             next == [turn EXCEPT !.at = "boundary", !.spec = spec]
  <2>2. kinds \in Seq(Kinds) /\ kinds # <<>> /\ {} \in SUBSET Seqs
    <3>1. <<"results">> \in Seq(Kinds) /\ <<"results", "user">> \in Seq(Kinds)
      BY KindsType
    <3>2. <<"results">> # <<>> /\ <<"results", "user">> # <<>>
      OBVIOUS
    <3> QED
      BY <3>1, <3>2, Zenon
  <2>3. CASE Propose(kinds, {}, Ending(turn, TRUE, FALSE))
    BY <1>2, <2>2, <2>3, ProposeShape
  <2>4. CASE Propose(kinds, {}, next) /\ Forward(kinds, {})
    <3>1. Room(kinds) /\ TypeOK
      BY <2>4 DEF Forward, Refuses, Shape
    <3>2. NewItems(kinds) \in SUBSET Seqs /\ NewUnit(kinds).last \in Seqs
      BY <2>2, <3>1, NewItemsType, NewUnitType
    <3>3. own \in SUBSET Seqs /\ NewUnit(kinds).last \in 0..MaxSeq
      BY <1>1, <3>2, BoundsAreNats DEF Turns, Seqs
    <3>4. spec \in [leaf : 0..MaxSeq, snap : Snapshots]
      BY <1>1, <3>3 DEF Turns, Snapshots
    <3>5. next \in Turns
      BY <1>1, <3>4 DEF Turns
    <3> QED
      BY <2>2, <2>4, <3>5, ProposeShape
  <2>5. CASE Propose(kinds, {}, next) /\ ForwardRefused(kinds) /\ turn' = Ending(turn, FALSE, FALSE)
    <3>1. Propose(kinds, {}, Ending(turn, TRUE, FALSE))
      BY <2>5 DEF Propose
    <3> QED
      BY <1>2, <2>2, <3>1, ProposeShape
  <2>6. Propose(kinds, {}, next) =>
           \/ Forward(kinds, {})
           \/ ForwardRefused(kinds) /\ turn' = Ending(turn, FALSE, FALSE)
    BY DEF Propose
  <2> QED
    BY <2>1, <2>3, <2>4, <2>5, <2>6
<1>12. CASE Replied
  <2>1. CASE /\ turn' \in {Ending(turn, TRUE, FALSE), [turn EXCEPT !.at = "boundary"]}
             /\ UNCHANGED <<logVars, actorVars, others>>
    BY <1>2, <1>4, <2>1, TurnAlone
  <2>2. CASE Propose(<<"user">>, {}, [turn EXCEPT !.at = "boundary"])
    <3>1. <<"user">> \in Seq(Kinds) /\ <<"user">> # <<>> /\ {} \in SUBSET Seqs
      BY KindsType
    <3> QED
      BY <1>4, <2>2, <3>1, ProposeShape
  <2> QED
    BY <1>12, <2>1, <2>2 DEF Replied
<1>13. CASE Finish
  BY <1>4, <1>13, TurnAlone DEF Finish
<1>14. CASE Panic
  BY <1>14, NoTurnType, TurnAlone DEF Panic
<1> QED
  BY <1>5, <1>6, <1>7, <1>8, <1>9, <1>10, <1>11, <1>12, <1>13, <1>14 DEF Turn

\* A killed and resumed process is well formed.
LEMMA CrashShape ==
    ASSUME Shape, QueueInv, Crash
    PROVE  Shape'
<1>1. PICK n \in good..Len(file), list \in 0..MaxTodos :
        /\ file' = SubSeq(file, 1, n)
        /\ good' = n
        /\ seq' = n /\ lastId' = n
        /\ head' = [epoch |-> n, projected |-> SubSeq(file, 1, n),
                    todos |-> list, closed |-> Dangling(SubSeq(file, 1, n))]
        /\ entry' = [s \in Seqs |-> IF s <= n THEN entry[s] ELSE NoEntry]
  BY DEF Crash
<1>2. file \in Seq(Seqs) /\ good \in 0..Len(file) /\ Len(file) \in Nat /\ seq \in 0..MaxSeq
  BY DEF Shape, TypeOK, LogTypeOK, PipelineTypeOK
<1>3. n \in 0..Len(file) /\ n \in 0..MaxSeq
  BY <1>2, BoundsAreNats DEF QueueInv
<1> DEFINE s == SubSeq(file, 1, n)
<1>4. s \in Seq(Seqs) /\ Len(s) = n
  BY <1>2, <1>3
<1>5. <<>> \in Seq(Unit) /\ Len(<<>>) = 0
  OBVIOUS
<1>6. /\ chan' = <<>> /\ batch' = <<>> /\ wrote' = 0 /\ phase' = "idle" /\ sealed' = FALSE
      /\ ack' = [x \in Seqs |-> "none"] /\ ticket' = [x \in Seqs |-> "none"]
      /\ fifo' = <<>> /\ held' = 0 /\ op' = Loop /\ turn' = NoTurn /\ pub' = head'
      /\ UNCHANGED artifact
  BY DEF Crash
<1>7. LogTypeOK' /\ WriterInv'
  <2>1. file' \in Seq(Seqs) /\ Len(file') = n
    BY <1>1, <1>4, Zenon
  <2>2. good' \in 0..Len(file')
    BY <1>1, <1>3, <2>1
  <2>3. chan' \in Seq(Unit) /\ batch' \in Seq(Unit) /\ Len(batch') = 0
    BY <1>5, <1>6, Zenon
  <2>4. ack' \in [Seqs -> {"none", "wait", "ok", "err"}]
    BY <1>6
  <2>5. wrote' \in 0..Len(batch')
    BY <1>6, <2>3
  <2> QED
    BY <1>6, <2>1, <2>2, <2>3, <2>4, <2>5 DEF LogTypeOK, WriterInv
<1>8. PipelineTypeOK'
  <2>1. NoEntry \in Entries
    BY BoundsAreNats DEF NoEntry, Entries, Kinds
  <2>2. entry' \in [Seqs -> Entries]
    BY <1>1, <2>1 DEF Shape, TypeOK, PipelineTypeOK
  <2> QED
    BY <1>1, <1>3, <1>5, <1>6, <2>2 DEF PipelineTypeOK
<1>9. HeadTypeOK'
  <2>1. Dangling(s) \in SUBSET Seqs
    BY <1>4 DEF Dangling
  <2>2. head' \in Heads
    BY <1>1, <1>3, <1>4, <2>1 DEF Heads
  <2> QED
    BY <1>6, <2>2 DEF HeadTypeOK
<1>10. OpTypeOK' /\ OpInv' /\ TurnTypeOK'
  <2>1. op' \in Ops /\ OpInv'
    BY <1>6, LoopShape
  <2>2. turn' \in Turns
    BY <1>6, NoTurnType
  <2>3. held' \in 0..MaxHeld
    BY <1>6, BoundsAreNats
  <2> QED
    BY <2>1, <2>2, <2>3 DEF OpTypeOK, TurnTypeOK
<1>11. OthersTypeOK'
  BY <1>6, BoundsAreNats DEF Crash, Spend, Shape, TypeOK, OthersTypeOK
<1> QED
  BY <1>7, <1>8, <1>9, <1>10, <1>11 DEF Shape, TypeOK

\* Initially.
LEMMA InitShape == Init => Shape /\ QueueInv
<1> SUFFICES ASSUME Init PROVE Shape /\ QueueInv
  OBVIOUS
<1>1. <<>> \in Seq(Unit) /\ <<>> \in Seq(Seqs) /\ Len(<<>>) = 0 /\ Elems(<<>>) = {}
  BY DEF Elems
<1>2. LogTypeOK /\ WriterInv
  <2>1. chan \in Seq(Unit) /\ batch \in Seq(Unit) /\ file \in Seq(Seqs)
        /\ Len(batch) = 0 /\ Len(file) = 0
    BY <1>1, Zenon DEF Init
  <2>2. wrote \in 0..Len(batch) /\ good \in 0..Len(file)
    BY <2>1 DEF Init
  <2>3. /\ phase = "idle" /\ sealed = FALSE
        /\ ack \in [Seqs -> {"none", "wait", "ok", "err"}]
    BY DEF Init
  <2> QED
    BY <2>1, <2>2, <2>3 DEF LogTypeOK, WriterInv
<1>3. PipelineTypeOK
  <2>1. NoEntry \in Entries
    BY BoundsAreNats DEF NoEntry, Entries, Kinds
  <2> QED
    BY <1>1, <2>1, BoundsAreNats DEF Init, PipelineTypeOK
<1>4. HeadTypeOK
  BY <1>1, BoundsAreNats DEF Init, HeadTypeOK, Heads
<1>5. OpTypeOK /\ OpInv /\ TurnTypeOK
  <2>1. Loop \in Ops /\ op = Loop /\ turn \in Turns /\ held \in 0..MaxHeld
    <3>1. <<>> \in Seq(Kinds)
      OBVIOUS
    <3>2. Loop \in Ops
      BY <3>1, RunType
    <3>3. op = Loop /\ turn = NoTurn /\ held = 0
      BY DEF Init
    <3>4. 0 \in 0..MaxHeld
      BY BoundsAreNats
    <3> QED
      BY <3>2, <3>3, <3>4, NoTurnType
  <2>2. op.work = <<>> /\ op.at = "loop"
    BY <2>1 DEF Loop
  <2>3. WorkOK(<<>>)
    BY DEF WorkOK
  <2> QED
    BY <2>1, <2>2, <2>3 DEF OpTypeOK, TurnTypeOK, OpInv
<1>6. OthersTypeOK
  BY BoundsAreNats DEF Init, OthersTypeOK
<1>7. QueueInv
  BY <1>1 DEF Init, QueueInv
<1> QED
  BY <1>2, <1>3, <1>4, <1>5, <1>6, <1>7 DEF Shape, TypeOK

\* Every step keeps the state well formed.
LEMMA ShapeStep ==
    ASSUME Shape, QueueInv, [Next]_vars
    PROVE  Shape'
<1>1. CASE Writer \/ WriterFails \/ WriterDies
  BY <1>1, WriterShape
<1>2. CASE Actor \/ FoldInterrupted
  BY <1>2, AckArmShape, DrainShape, AppendSendShape, AppendFailsShape, AppendOkShape,
     ArmEndsShape DEF Actor
<1>3. CASE Commands
  BY <1>3, CommandsShape
<1>4. CASE Turn \/ Panic
  BY <1>4, TurnShape
<1>5. CASE Crash
  BY <1>5, CrashShape
<1>6. CASE UNCHANGED vars
  <2>1. turn' \in Turns /\ UNCHANGED <<logVars, actorVars, others>>
    BY <1>6 DEF vars, Shape, TypeOK, TurnTypeOK
  <2> QED
    BY <2>1, TurnAlone
<1> QED
  BY <1>1, <1>2, <1>3, <1>4, <1>5, <1>6 DEF Next

-----------------------------------------------------------------------------
(* What a step can do to the log, to the units in flight and to the heads.  *)

\* Only the ack arm begins to settle a unit; what it is about to tell the unit's
\* proposer stays until it has.
KeepsDue ==
    op'.then = "settle" =>
        op.then = "settle" /\ op'.due = op.due /\ op'.verdict = op.verdict

\* The actor mints a unit and hands it to the writer, to settle it later or to
\* wait for it.  Its entries are chained onto the queued leaf and each other.
Grow(u) ==
    /\ ~sealed /\ phase # "dead"
    /\ u.first = seq + 1 /\ u.last = seq'
    /\ \A s \in Seqs : entry'[s].parent =
          IF s = u.first THEN lastId ELSE IF s \in Covered(u) THEN s - 1 ELSE entry[s].parent
    /\ chan' = Append(chan, u)
    /\ ack' = [ack EXCEPT ![u.last] = "wait"]
    /\ UNCHANGED <<batch, wrote, phase, file, good, sealed, head, pub>>
    /\ op.at # "await" /\ KeepsDue
    /\ \/ /\ fifo' = Append(fifo, u) /\ op' = op /\ lastId' = u.last
          /\ ticket' = [ticket EXCEPT ![u.last] = "wait"]
       \/ /\ fifo = <<>> /\ op'.at = "await" /\ u = [first |-> seq', last |-> seq']
          /\ UNCHANGED <<fifo, lastId, ticket>>

\* The front of the FIFO is answered and comes off it, to be published and
\* told to its proposer later or at once.
Settles ==
    /\ FrontAnswered /\ fifo' = Tail(fifo)
    /\ \E tell \in {"ok", "aborted"} :
          /\ head' = SettleFront(tell).head
          /\ \/ /\ op'.due = Front(fifo).last /\ op'.verdict = SettleFront(tell).told
                /\ UNCHANGED <<pub, ticket>>
             \/ /\ pub' = head' /\ op' = op
                /\ ticket' = [ticket EXCEPT ![Front(fifo).last] = SettleFront(tell).told]
    /\ op.at # "await" /\ op'.at # "await"
    /\ UNCHANGED <<logVars, seq, lastId, entry>>

\* Nothing is sent, settled, applied or synced.  A number is burned only by a log
\* that is sealed, and only such a log or an interrupt ends a wait.
Quiet ==
    /\ UNCHANGED <<chan, batch, wrote, phase, file, good, ack, entry, lastId, fifo>>
    /\ head'.projected = head.projected /\ head'.epoch = head.epoch
    /\ pub' \in {pub, head}
    /\ sealed => sealed'
    /\ seq' >= seq /\ (seq' # seq => sealed')
    /\ op'.at = "await" => op.at = "await" /\ seq' = seq
    /\ op.at = "await" => op'.at = "await" \/ sealed' \/ Interrupts
    /\ KeepsDue
    /\ \/ ticket' = ticket
       \/ /\ op.then = "settle" /\ ticket' = [ticket EXCEPT ![op.due] = op.verdict]
          /\ pub' = head

\* A mint chains its entries and leaves the others alone.
LEMMA MintChains ==
    ASSUME Shape, NEW kinds \in Seq(Kinds), kinds # <<>>, NEW saw, Room(kinds),
           entry' = Minted(kinds, lastId, saw)
    PROVE  LET u == NewUnit(kinds)
           IN  \A s \in Seqs : entry'[s].parent =
                 IF s = u.first THEN lastId
                 ELSE IF s \in Covered(u) THEN s - 1 ELSE entry[s].parent
<1>1. /\ NewUnit(kinds).first = seq + 1
      /\ Covered(NewUnit(kinds)) = seq + 1 .. seq + Len(kinds)
      /\ seq + 1 \in seq + 1 .. seq + Len(kinds)
  <2>1. seq \in Nat /\ Len(kinds) \in Nat /\ Len(kinds) >= 1
    BY BoundsAreNats DEF Shape, TypeOK, PipelineTypeOK
  <2> QED
    BY <2>1 DEF NewUnit, Covered
<1> QED
  BY <1>1 DEF Minted

LEMMA ForwardGrows ==
    ASSUME Shape, NEW kinds \in Seq(Kinds), kinds # <<>>, NEW saw,
           Forward(kinds, saw), Idle, UNCHANGED <<head, pub, op>>
    PROVE  \E u \in Unit : Grow(u)
<1> DEFINE u == NewUnit(kinds)
<1>1. Room(kinds) /\ ~sealed /\ phase # "dead"
  BY DEF Forward, Refuses
<1>2. u \in Unit /\ u.first = seq + 1
  BY <1>1, NewUnitType DEF Shape
<1>3. \A s \in Seqs : entry'[s].parent =
        IF s = u.first THEN lastId ELSE IF s \in Covered(u) THEN s - 1 ELSE entry[s].parent
  BY <1>1, MintChains DEF Forward
<1>4. Grow(u)
  <2> HIDE DEF u
  <2> QED
    BY <1>1, <1>2, <1>3 DEF Grow, Forward, Idle, KeepsDue, u
<1> QED
  BY <1>2, <1>4

LEMMA RefusedIsQuiet ==
    ASSUME Shape, NEW kinds \in Seq(Kinds), ForwardRefused(kinds), op'.at # "await",
           KeepsDue, UNCHANGED <<head, pub>>
    PROVE  Quiet
<1>1. seq' >= seq
  BY BoundsAreNats DEF ForwardRefused, Shape, TypeOK, PipelineTypeOK
<1> QED
  BY <1>1 DEF Quiet, ForwardRefused

LEMMA ProposeGrows ==
    ASSUME Shape, NEW kinds \in Seq(Kinds), kinds # <<>>, NEW saw, NEW next,
           Propose(kinds, saw, next)
    PROVE  Quiet \/ \E u \in Unit : Grow(u)
<1>1. Idle /\ UNCHANGED <<head, pub, op>> /\ op'.at # "await" /\ KeepsDue
  BY DEF Propose, Idle, KeepsDue
<1> QED
  BY <1>1, ForwardGrows, RefusedIsQuiet DEF Propose

\* Every step is one of the writer's, a mint, a settlement, an append that
\* landed, a crash, or none of these.
LEMMA Steps ==
    ASSUME Shape, [Next]_vars
    PROVE  \/ Writer \/ WriterFails \/ WriterDies
           \/ \E u \in Unit : Grow(u)
           \/ Settles \/ AppendOk \/ Quiet \/ Crash
<1>0. seq \in Nat /\ head \in Heads
  BY DEF Shape, TypeOK, PipelineTypeOK, HeadTypeOK
<1>1. CASE AckArm
  <2>1. op'.at # "await"
    BY <1>1 DEF AckArm, Run, Loop
  <2>2. op'.due = Front(fifo).last /\ op'.verdict = SettleFront("ok").told
    BY <1>1 DEF AckArm, Run, Loop
  <2> QED
    BY <1>1, <2>1, <2>2 DEF Settles, AckArm
<1>2. CASE Drain
  <2>1. op.at = "append" /\ op' = op
    BY <1>2 DEF Drain
  <2> QED
    BY <1>2, <2>1 DEF Settles, Drain
<1>3. CASE AppendSend
  <2> DEFINE kinds == <<op.work[1]>>
  <2>1. kinds \in Seq(Kinds) /\ kinds # <<>> /\ Len(kinds) = 1 /\ op \in Ops
    BY <1>3, WorkFront DEF AppendSend
  <2>2. Room(kinds)
    BY <1>3 DEF AppendSend, Refuses
  <2>3. NewUnit(kinds) \in Unit
    BY <2>1, <2>2, NewUnitType DEF Shape
  <2>4. NewUnit(kinds) = [first |-> seq + 1, last |-> seq + 1] /\ seq' = seq + 1
    BY <1>3, <2>1 DEF NewUnit, AppendSend
  <2>5. op'.at = "await"
    BY <1>3, <2>1 DEF AppendSend, Ops
  <2>6. op.at = "append" /\ KeepsDue /\ ~sealed /\ phase # "dead"
    BY <1>3, <2>1 DEF AppendSend, KeepsDue, Ops, Refuses
  <2>7. LET u == NewUnit(kinds)
        IN  \A s \in Seqs : entry'[s].parent =
              IF s = u.first THEN lastId ELSE IF s \in Covered(u) THEN s - 1 ELSE entry[s].parent
    BY <1>3, <2>1, <2>2, MintChains DEF AppendSend
  <2>8. ASSUME NEW u, u = NewUnit(kinds)
        PROVE  Grow(u)
    BY <1>3, <2>4, <2>5, <2>6, <2>7, <2>8 DEF Grow, AppendSend
  <2>9. Grow(NewUnit(kinds))
    BY <2>8
  <2> QED
    BY <2>3, <2>9
<1>4. CASE AppendRefused \/ AppendErr
  <2>1. op \in Ops /\ <<op.work[1]>> \in Seq(Kinds)
    BY <1>4, WorkFront DEF AppendRefused, AppendErr
  <2>2. op'.at = "done" /\ KeepsDue
    <3>1. op' = [op EXCEPT !.at = "done", !.work = <<>>,
                           !.verdict = IF op.then = "settle" THEN @ ELSE "sealed"]
      BY <1>4 DEF AppendRefused, AppendErr, GiveUp
    <3> QED
      BY <2>1, <3>1 DEF KeepsDue, Ops
  <2>3. CASE AppendRefused
    BY <2>1, <2>2, <2>3, RefusedIsQuiet DEF AppendRefused
  <2>4. CASE AppendErr
    BY <1>0, <2>2, <2>4 DEF AppendErr, Quiet
  <2> QED
    BY <1>4, <2>3, <2>4
<1>5. CASE Settle \/ Return \/ PlanWritten \/ Spawn \/ NoSpawn \/ EndTurn \/ TurnFinished
             \/ FoldInterrupted
  <2>1. op'.at # "await" /\ KeepsDue
    <3>1. \A work, then : /\ Run(work, then).at # "await" /\ Run(work, then).then = then
                          /\ Loop.at # "await" /\ Loop.then # "settle"
      BY DEF Run, Loop
    <3>2. op' = Loop \/ \E work, then : op' = Run(work, then) /\ then # "settle"
      <4>1. CASE EndTurn
        BY <4>1 DEF EndTurn
      <4>2. CASE TurnFinished
        <5>1. \E work : op' = Run(work, "end")
          BY <4>2, Zenon DEF TurnFinished
        <5> QED
          BY <5>1
      <4>3. CASE Settle \/ Return \/ PlanWritten \/ Spawn \/ NoSpawn \/ FoldInterrupted
        BY <4>3 DEF Settle, Return, PlanWritten, Spawn, NoSpawn, FoldInterrupted
      <4> QED
        BY <1>5, <4>1, <4>2, <4>3
    <3> QED
      BY <3>1, <3>2 DEF KeepsDue
  <2>2. UNCHANGED <<logVars, entry, seq, lastId, fifo, head>> /\ pub' \in {pub, head}
    BY <1>5 DEF Settle, Return, PlanWritten, Spawn, NoSpawn, EndTurn, TurnFinished,
                FoldInterrupted
  <2>3. op.at = "await" => Interrupts
    BY <1>5 DEF Settle, Return, PlanWritten, Spawn, NoSpawn, EndTurn, TurnFinished, Idle,
                FoldInterrupted
  <2>4. \/ ticket' = ticket
        \/ /\ op.then = "settle" /\ ticket' = [ticket EXCEPT ![op.due] = op.verdict]
           /\ pub' = head
    BY <1>5 DEF Settle, Return, PlanWritten, Spawn, NoSpawn, EndTurn, TurnFinished,
                FoldInterrupted
  <2> QED
    BY <1>0, <2>1, <2>2, <2>3, <2>4 DEF Quiet, logVars
<1>6. CASE Commands
  <2>1. CASE PromptFast
    <3>1. <<"user">> \in Seq(Kinds) /\ <<"user">> # <<>>
      BY KindsType
    <3>2. Idle /\ UNCHANGED <<head, pub, op>> /\ op'.at # "await" /\ KeepsDue
      BY <2>1 DEF PromptFast, Idle, KeepsDue
    <3> QED
      BY <2>1, <3>1, <3>2, ForwardGrows, RefusedIsQuiet DEF PromptFast
  <2>2. CASE Command \/ SetPlan \/ SetTodos \/ Steer \/ PromptAwaited \/ Continue \/ FoldNow
    <3>1. op.at = "loop" /\ op'.at # "await" /\ KeepsDue
      BY <2>2 DEF Command, SetPlan, SetTodos, Steer, PromptAwaited, Continue, FoldNow,
                  Run, Loop, Idle, actorVars, KeepsDue
    <3>2. /\ UNCHANGED <<logVars, entry, seq, lastId, fifo, pub, ticket>>
          /\ head'.projected = head.projected /\ head'.epoch = head.epoch
      BY <1>0, <2>2 DEF Command, SetPlan, SetTodos, Steer, PromptAwaited, Continue, FoldNow,
                  actorVars, Heads
    <3> QED
      BY <1>0, <3>1, <3>2 DEF Quiet, logVars
  <2> QED
    BY <1>6, <2>1, <2>2 DEF Commands
<1>7. CASE Turn \/ Panic
  <2>1. \A k \in Kinds, l \in Kinds :
          /\ <<k>> \in Seq(Kinds) /\ <<k>> # <<>>
          /\ <<k, l>> \in Seq(Kinds) /\ <<k, l>> # <<>>
    BY KindsType
  <2>2. {"call", "reply", "mark", "results", "user"} \subseteq Kinds
    BY KindsType
  <2>3. CASE Sampled
    BY <2>1, <2>2, <2>3, ProposeGrows DEF Sampled
  <2>4. CASE ToolsDone
    BY <2>1, <2>2, <2>4, ProposeGrows DEF ToolsDone
  <2>5. CASE UNCHANGED <<logVars, actorVars>>
    BY <1>0, <2>5 DEF Quiet, KeepsDue, logVars, actorVars
  <2>6. CASE Replied
    BY <2>1, <2>2, <2>5, <2>6, ProposeGrows DEF Replied
  <2>7. \/ Sampled \/ ToolsDone \/ Replied
        \/ UNCHANGED <<logVars, actorVars>>
    BY <1>7 DEF Turn, Panic, Resolve, BarrierFails, Boundary, SampleEnds, Dispatch, Finish
  <2> QED
    BY <2>3, <2>4, <2>5, <2>6, <2>7
<1>8. CASE UNCHANGED vars
  BY <1>0, <1>8 DEF vars, Quiet, KeepsDue, logVars, actorVars
<1> QED
  BY <1>1, <1>2, <1>3, <1>4, <1>5, <1>6, <1>7, <1>8 DEF Next, Actor

\* The units of the queue keep their order.
LEMMA QueueStep ==
    ASSUME Shape, QueueInv, [Next]_vars
    PROVE  QueueInv'
<1>0. /\ chan \in Seq(Unit) /\ batch \in Seq(Unit) /\ wrote \in 0..Len(batch)
      /\ file \in Seq(Seqs) /\ good \in 0..Len(file) /\ seq \in Nat
      /\ Len(chan) \in Nat /\ Len(batch) \in Nat /\ Len(file) \in Nat
      /\ DOMAIN chan = 1..Len(chan) /\ DOMAIN batch = 1..Len(batch)
  BY DEF Shape, TypeOK, LogTypeOK, PipelineTypeOK
<1>u. \A u \in Unit : u.first \in Nat /\ u.last \in Nat /\ u.first <= u.last
  BY BoundsAreNats DEF Unit, Seqs
<1>e. \A u \in Elems(chan) \cup Elems(batch) : u \in Unit
  BY <1>0 DEF Elems
<1>1. CASE Quiet
  <2>1. /\ UNCHANGED <<chan, batch, wrote, phase, file>> /\ seq' \in Nat /\ seq' >= seq
    BY <1>0, <1>1, ShapeStep DEF Quiet, Shape, TypeOK, PipelineTypeOK
  <2>2. Len(file) <= seq' /\ \A u \in Elems(chan) \cup Elems(batch) : u.last <= seq'
    BY <1>0, <1>u, <1>e, <2>1 DEF QueueInv
  <2> QED
    BY <2>1, <2>2 DEF QueueInv
<1>2. CASE Settles \/ AppendOk
  BY <1>2 DEF Settles, AppendOk, QueueInv, logVars
<1>3. ASSUME NEW u \in Unit, Grow(u)
      PROVE  QueueInv'
  <2>1. /\ Len(chan') = Len(chan) + 1 /\ DOMAIN chan' = 1..Len(chan) + 1
        /\ \A i \in 1..Len(chan) : chan'[i] = chan[i]
        /\ chan'[Len(chan) + 1] = u
    BY <1>0, <1>3 DEF Grow
  <2>2. Elems(chan') \subseteq Elems(chan) \cup {u}
    BY <1>0, <2>1 DEF Elems
  <2>3. seq' >= seq /\ u.first > seq /\ u.last = seq'
    BY <1>0, <1>3 DEF Grow, Unit, Seqs
  <2>4. \A v \in Elems(chan) \cup Elems(batch) : v \in Unit /\ v.last <= seq
    BY <1>0 DEF QueueInv, Elems
  <2>5. \A i, j \in DOMAIN chan' : i < j => chan'[i].last < chan'[j].first
    <3> SUFFICES ASSUME NEW i \in DOMAIN chan', NEW j \in DOMAIN chan', i < j
                 PROVE  chan'[i].last < chan'[j].first
      OBVIOUS
    <3>1. i \in 1..Len(chan)
      BY <1>0, <2>1
    <3>2. CASE j \in 1..Len(chan)
      BY <1>0, <2>1, <3>1, <3>2 DEF QueueInv
    <3>3. CASE j = Len(chan) + 1
      <4>1. chan[i] \in Elems(chan) /\ chan[i] \in Unit
        BY <1>0, <3>1 DEF Elems
      <4>2. chan[i].last \in Nat /\ u.first \in Nat
        BY <4>1 DEF Unit, Seqs
      <4> QED
        BY <1>0, <2>1, <2>3, <2>4, <3>1, <3>3, <4>1, <4>2
    <3> QED
      BY <1>0, <2>1, <3>2, <3>3
  <2>6. \A v \in Elems(batch), w \in Elems(chan') : v.last < w.first
    <3> SUFFICES ASSUME NEW v \in Elems(batch), NEW w \in Elems(chan')
                 PROVE  v.last < w.first
      OBVIOUS
    <3>1. CASE w \in Elems(chan)
      BY <3>1 DEF QueueInv
    <3>2. CASE w = u
      BY <1>0, <2>3, <2>4, <3>2 DEF Unit, Seqs
    <3> QED
      BY <2>2, <3>1, <3>2
  <2>7. \A w \in Elems(chan') : Len(file) < w.first
    BY <1>0, <2>2, <2>3 DEF QueueInv, Unit, Seqs
  <2>8. Len(file) <= seq' /\ \A v \in Elems(chan') \cup Elems(batch) : v.last <= seq'
    <3>1. seq' \in Nat
      BY <1>u, <2>3
    <3>2. \A v \in Elems(chan) \cup Elems(batch) : v.last <= seq'
      BY <1>0, <1>u, <2>3, <2>4, <3>1
    <3> QED
      BY <1>0, <2>2, <2>3, <3>1, <3>2 DEF QueueInv
  <2>9. UNCHANGED <<batch, wrote, phase, file>>
    BY <1>3 DEF Grow
  <2> QED
    BY <2>5, <2>6, <2>7, <2>8, <2>9 DEF QueueInv
<1>4. CASE Writer \/ WriterFails \/ WriterDies
  <2>0. seq' = seq /\ Elems(<<>>) = {} /\ DOMAIN <<>> = {}
    BY <1>4 DEF Writer, WriterTake, WriterWrite, WriterSync, WriterAck, WriterFails,
                WriterDies, actorVars, Elems
  <2>1. CASE WriterTake
    <3>1. chan' = <<>> /\ UNCHANGED file /\ Elems(chan') = {} /\ DOMAIN chan' = {}
      BY <2>0, <2>1, Zenon DEF WriterTake
    <3>2. \/ UNCHANGED <<batch, wrote, phase>>
          \/ batch' = chan /\ wrote' = 0 /\ phase' = "write"
      BY <2>1 DEF WriterTake
    <3>3. CASE UNCHANGED <<batch, wrote, phase>>
      BY <2>0, <3>1, <3>3 DEF QueueInv
    <3>4. CASE batch' = chan /\ wrote' = 0 /\ phase' = "write"
      <4>1. \A i \in 1..Len(chan) : chan[i] \in Elems(chan)
        BY <1>0 DEF Elems
      <4> QED
        BY <1>0, <2>0, <3>1, <3>4, <4>1 DEF QueueInv
    <3> QED
      BY <3>2, <3>3, <3>4
  <2>2. CASE WriterWrite
    <3>1. wrote + 1 \in 1..Len(batch) /\ wrote \in Nat
      BY <1>0, <2>2 DEF WriterWrite
    <3> DEFINE b == batch[wrote + 1]
    <3>2. /\ b \in Unit /\ b \in Elems(batch) /\ b.first \in Nat /\ b.last \in Nat
          /\ b.first <= b.last
      <4>1. b \in Unit
        BY <1>0, <3>1
      <4>2. b \in Elems(batch)
        BY <1>0, <3>1 DEF Elems
      <4> QED
        BY <1>u, <4>1, <4>2
    <3>3. Len(Ids(b)) = b.last - b.first + 1 /\ Ids(b) \in Seq(Seqs)
      BY <3>2, IdsType DEF Ids
    <3>4. Len(file') = Len(file) + (b.last - b.first + 1)
      BY <1>0, <2>2, <3>3 DEF WriterWrite
    <3>5. Len(file) < b.first
      BY <2>2, <3>1 DEF WriterWrite, QueueInv
    <3>6. Len(file') <= b.last
      BY <1>0, <3>2, <3>4, <3>5
    <3>7. UNCHANGED <<chan, batch, phase>> /\ wrote' = wrote + 1
      BY <2>2 DEF WriterWrite
    <3>8. \A v \in Elems(chan) : Len(file') < v.first
      <4>1. \A v \in Elems(chan) : b.last < v.first /\ v \in Unit
        BY <1>e, <3>2 DEF QueueInv
      <4>2. Len(file') \in Nat
        BY <1>0, <3>2, <3>4
      <4> QED
        BY <1>u, <3>2, <3>6, <4>1, <4>2
    <3>9. \A i \in wrote + 2 .. Len(batch) : Len(file') < batch[i].first
      <4>1. \A i \in wrote + 2 .. Len(batch) : b.last < batch[i].first /\ batch[i] \in Unit
        <5>1. Len(batch) \in Nat /\ DOMAIN batch = 1..Len(batch) /\ batch \in Seq(Unit)
          BY <1>0
        <5>2. \A i \in wrote + 2 .. Len(batch) :
                 i \in DOMAIN batch /\ wrote + 1 \in DOMAIN batch /\ wrote + 1 < i
          BY <3>1, <5>1
        <5> QED
          BY <5>1, <5>2 DEF QueueInv
      <4> QED
        BY <1>0, <1>u, <3>2, <3>4, <3>6, <4>1
    <3>10. Len(file') <= seq
      BY <1>0, <3>2, <3>4, <3>6 DEF QueueInv
    <3>11. wrote' + 1 = wrote + 2
      BY <3>1, <3>7
    <3> QED
      BY <2>0, <3>7, <3>8, <3>9, <3>10, <3>11 DEF QueueInv
  <2>3. CASE WriterSync
    BY <2>0, <2>3 DEF WriterSync, QueueInv
  <2>4. CASE WriterAck
    <3>1. /\ Elems(Tail(batch)) \subseteq Elems(batch)
          /\ Tail(batch) \in Seq(Unit) /\ Len(Tail(batch)) = Len(batch) - 1
          /\ \A i \in 1..Len(batch) - 1 : Tail(batch)[i] = batch[i + 1]
      BY <1>0, <2>4, TailFacts DEF WriterAck, Shape, WriterInv
    <3>2. \A i, j \in DOMAIN Tail(batch) : i < j => Tail(batch)[i].last < Tail(batch)[j].first
      <4>1. DOMAIN Tail(batch) = 1..Len(batch) - 1
        BY <3>1
      <4>2. \A i \in 1..Len(batch) - 1 : i + 1 \in DOMAIN batch
        BY <1>0
      <4> QED
        BY <1>0, <3>1, <4>1, <4>2 DEF QueueInv
    <3>3. batch' = Tail(batch) /\ phase' # "write" /\ UNCHANGED <<chan, file>>
      BY <2>4 DEF WriterAck
    <3> QED
      BY <2>0, <3>1, <3>2, <3>3 DEF QueueInv
  <2>5. CASE WriterFails
    <3>1. batch' = <<>> /\ phase' # "write" /\ UNCHANGED chan /\ file' = SubSeq(file, 1, good)
      BY <2>5 DEF WriterFails
    <3>2. Len(file') <= Len(file) /\ Len(file') \in Nat
      BY <1>0, <3>1
    <3>3. Elems(batch') = {} /\ DOMAIN batch' = {}
      BY <2>0, <3>1, Zenon
    <3>4. \A v \in Elems(chan) : Len(file') < v.first
      <4>1. \A v \in Elems(chan) : v.first \in Nat /\ Len(file) < v.first
        BY <1>0 DEF QueueInv, Elems, Unit, Seqs
      <4> QED
        BY <1>0, <3>2, <4>1
    <3>5. Len(file') <= seq
      BY <1>0, <3>2 DEF QueueInv
    <3> QED
      BY <2>0, <3>1, <3>3, <3>4, <3>5 DEF QueueInv
  <2>6. CASE WriterDies
    <3>1. batch' = <<>> /\ chan' = <<>> /\ phase' # "write" /\ UNCHANGED file
      BY <2>6 DEF WriterDies
    <3>2. Elems(batch') = {} /\ Elems(chan') = {} /\ DOMAIN batch' = {} /\ DOMAIN chan' = {}
      BY <2>0, <3>1, Zenon
    <3> QED
      BY <2>0, <3>1, <3>2 DEF QueueInv
  <2> QED
    BY <1>4, <2>1, <2>2, <2>3, <2>4, <2>5, <2>6 DEF Writer
<1>5. CASE Crash
  <2>1. \E n \in good..Len(file) : file' = SubSeq(file, 1, n) /\ seq' = n
    BY <1>5 DEF Crash
  <2>2. Len(file') <= seq'
    BY <1>0, <2>1
  <2>3. batch' = <<>> /\ chan' = <<>> /\ phase' # "write"
    BY <1>5 DEF Crash
  <2>4. Elems(<<>>) = {} /\ DOMAIN <<>> = {}
    BY DEF Elems
  <2>5. Elems(batch') = {} /\ Elems(chan') = {} /\ DOMAIN batch' = {} /\ DOMAIN chan' = {}
    BY <2>3, <2>4, Zenon
  <2> QED
    BY <2>2, <2>3, <2>5 DEF QueueInv
<1> QED
  BY <1>1, <1>2, <1>3, <1>4, <1>5, Steps

-----------------------------------------------------------------------------
\* In every reachable state the state of the program is well formed: the held
\* buffer never outgrows its cap, though the steers it held come back when the
\* batch in front of them cannot be closed (admit_steer, release_steers).
THEOREM TypeCorrect == Spec => []TypeOK
<1>1. Init => Shape /\ QueueInv
  BY InitShape
<1>2. Shape /\ QueueInv /\ [Next]_vars => (Shape /\ QueueInv)'
  BY ShapeStep, QueueStep
<1>3. Shape => TypeOK
  BY DEF Shape
<1> QED
  BY <1>1, <1>2, <1>3, PTL DEF Spec

-----------------------------------------------------------------------------
(* The projection and the durable log.                                      *)

\* Units in flight are units.
LEMMA OutType ==
    ASSUME Shape
    PROVE  /\ Out \subseteq Unit
           /\ \A u \in Unit : u.first \in Nat /\ u.last \in Nat /\ u.last \in Seqs
<1>1. Awaited \subseteq Unit
  BY AwaitedType DEF Awaited
<1>2. Elems(chan) \cup Elems(batch) \cup Elems(fifo) \subseteq Unit
  BY DEF Shape, TypeOK, LogTypeOK, PipelineTypeOK, Elems
<1> QED
  BY <1>1, <1>2, BoundsAreNats DEF Out, Unit, Seqs

\* An append to a queue adds its unit and nothing else.
LEMMA AppendElems ==
    ASSUME NEW S, NEW q \in Seq(S), NEW u \in S
    PROVE  Elems(Append(q, u)) = Elems(q) \cup {u}
<1>1. /\ Len(q) \in Nat /\ DOMAIN q = 1..Len(q)
      /\ DOMAIN Append(q, u) = 1..Len(q) + 1
      /\ Append(q, u)[Len(q) + 1] = u
      /\ \A i \in 1..Len(q) : Append(q, u)[i] = q[i]
  OBVIOUS
<1>2. 1..Len(q) + 1 = (1..Len(q)) \cup {Len(q) + 1}
  BY <1>1
<1> QED
  BY <1>1, <1>2 DEF Elems

\* Only a mint adds a unit in flight.
LEMMA OutStep ==
    ASSUME Shape, [Next]_vars
    PROVE  /\ Writer \/ WriterFails \/ WriterDies \/ Quiet \/ Settles \/ AppendOk
                 => Out' \subseteq Out
           /\ (Out' \subseteq Out /\ seq' >= seq) \/ Crash \/ \E u \in Unit : Grow(u)
           /\ \A u \in Unit : Grow(u) => Out' \subseteq Out \cup {u}
           /\ Crash => Out' = {}
<1>0. /\ chan \in Seq(Unit) /\ batch \in Seq(Unit) /\ fifo \in Seq(Unit) /\ seq \in Nat
  BY DEF Shape, TypeOK, LogTypeOK, PipelineTypeOK
<1>e. Elems(<<>>) = {}
  BY DEF Elems
<1>1. ASSUME NEW u \in Unit, Grow(u)
      PROVE  Out' \subseteq Out \cup {u}
  <2>1. chan' = Append(chan, u) /\ batch' = batch
    BY <1>1 DEF Grow
  <2>2. Elems(chan') = Elems(chan) \cup {u} /\ Elems(Append(fifo, u)) = Elems(fifo) \cup {u}
    <3>1. /\ Elems(Append(chan, u)) = Elems(chan) \cup {u}
          /\ Elems(Append(fifo, u)) = Elems(fifo) \cup {u}
      BY <1>0, AppendElems
    <3> QED
      BY <2>1, <3>1, Zenon
  <2>3. CASE fifo' = Append(fifo, u) /\ op' = op /\ op.at # "await"
    <3>1. Elems(fifo') = Elems(fifo) \cup {u} /\ Awaited' = {}
      BY <2>2, <2>3, Zenon DEF Awaited
    <3> QED
      BY <2>1, <2>2, <3>1, Zenon DEF Out
  <2>4. CASE fifo' = fifo /\ op'.at = "await" /\ u = [first |-> seq', last |-> seq']
    <3>1. Awaited' = {u}
      BY <2>4 DEF Awaited
    <3> QED
      BY <2>1, <2>2, <2>4, <3>1, Zenon DEF Out
  <2> QED
    BY <1>1, <2>3, <2>4 DEF Grow
<1>2. ASSUME Crash
      PROVE  Out' = {}
  <2>1. chan' = <<>> /\ batch' = <<>> /\ fifo' = <<>> /\ op'.at # "await"
    BY <1>2 DEF Crash, Loop
  <2> QED
    <3>1. Awaited' = {}
      BY <2>1 DEF Awaited
    <3>2. Out' = {}
      BY <1>e, <2>1, <3>1, Zenon DEF Out
    <3> QED
      BY <3>2
<1>3. ASSUME Quiet
      PROVE  Out' \subseteq Out /\ seq' >= seq
  <2>1. Awaited' \subseteq Awaited
    BY <1>3 DEF Quiet, Awaited
  <2>2. UNCHANGED <<chan, batch, fifo>> /\ seq' >= seq
    BY <1>3 DEF Quiet
  <2>3. Elems(chan)' = Elems(chan) /\ Elems(batch)' = Elems(batch) /\ Elems(fifo)' = Elems(fifo)
    BY <2>2 DEF Elems
  <2> QED
    <3>1. Out' \subseteq Out
      BY <2>1, <2>3, Zenon DEF Out
    <3> QED
      BY <1>3, <2>2, <3>1
<1>4. ASSUME Settles
      PROVE  Out' \subseteq Out /\ seq' >= seq
  <2>1. Awaited' = {} /\ seq' = seq /\ UNCHANGED <<chan, batch>> /\ fifo' = Tail(fifo) /\ fifo # <<>>
    BY <1>4 DEF Settles, FrontAnswered, Awaited, logVars
  <2>2. Elems(fifo') \subseteq Elems(fifo)
    BY <1>0, <2>1, TailFacts
  <2> QED
    <3>1. Out' \subseteq Out
      BY <2>1, <2>2, Zenon DEF Out
    <3> QED
      BY <1>0, <2>1, <3>1
<1>5. ASSUME AppendOk
      PROVE  Out' \subseteq Out /\ seq' >= seq
  <2>1. op \in Ops
    BY <1>5, WorkFront DEF AppendOk
  <2>2. op'.at # "await"
    BY <1>5, <2>1 DEF AppendOk, Ops
  <2>3. Awaited' = {} /\ seq' = seq /\ UNCHANGED <<chan, batch, fifo>>
    BY <1>5, <2>2 DEF AppendOk, Awaited, logVars
  <2> QED
    <3>1. Out' \subseteq Out
      BY <2>3, Zenon DEF Out
    <3> QED
      BY <1>0, <2>3, <3>1
<1>6. ASSUME Writer \/ WriterFails \/ WriterDies
      PROVE  Out' \subseteq Out /\ seq' >= seq
  <2>1. UNCHANGED <<fifo, op, seq>>
    BY <1>6 DEF Writer, WriterTake, WriterWrite, WriterSync, WriterAck, WriterFails,
                WriterDies, actorVars
  <2>2. Elems(chan') \cup Elems(batch') \subseteq Elems(chan) \cup Elems(batch)
    <3>1. CASE WriterTake
      <4>1. chan' = <<>> /\ batch' \in {batch, chan}
        BY <3>1 DEF WriterTake
      <4> QED
        BY <1>e, <4>1
    <3>2. CASE WriterWrite \/ WriterSync
      BY <3>2 DEF WriterWrite, WriterSync
    <3>3. CASE WriterAck
      BY <1>0, <3>3, TailFacts DEF WriterAck, Shape, WriterInv
    <3>4. CASE WriterFails
      BY <1>e, <3>4 DEF WriterFails
    <3>5. CASE WriterDies
      BY <1>e, <3>5 DEF WriterDies
    <3> QED
      BY <1>6, <3>1, <3>2, <3>3, <3>4, <3>5 DEF Writer
  <2>3. Awaited' = Awaited
    BY <2>1 DEF Awaited
  <2> QED
    <3>1. Out' \subseteq Out
      BY <2>1, <2>2, <2>3, Zenon DEF Out
    <3> QED
      BY <1>0, <2>1, <3>1
<1> QED
  BY <1>1, <1>2, <1>3, <1>4, <1>5, <1>6, Steps

LEMMA UnitsStep ==
    ASSUME Shape, Shape', UnitsInv, [Next]_vars
    PROVE  UnitsInv'
<1>1. Out \subseteq Unit /\ \A u \in Unit : u.first \in Nat /\ u.last \in Nat
  BY OutType
<1>2. seq \in Nat /\ seq' \in Nat
  BY DEF Shape, TypeOK, PipelineTypeOK
<1>3. CASE Out' \subseteq Out /\ seq' >= seq
  BY <1>1, <1>2, <1>3 DEF UnitsInv
<1>4. CASE Crash
  BY <1>4, OutStep DEF UnitsInv
<1>5. ASSUME NEW u \in Unit, Grow(u)
      PROVE  UnitsInv'
  <2>1. Out' \subseteq Out \cup {u} /\ u.first = seq + 1 /\ u.last = seq' /\ u.first <= u.last
    BY <1>5, OutStep DEF Grow, Unit
  <2>2. \A v \in Out : v.last <= seq /\ v.last \in Nat
    BY <1>1 DEF UnitsInv
  <2>3. \A v \in Out' : v.last <= seq'
    BY <1>1, <1>2, <2>1, <2>2
  <2>4. \A v \in Out : v.last # u.last
    BY <1>1, <1>2, <2>1, <2>2
  <2> QED
    BY <2>1, <2>3, <2>4 DEF UnitsInv
<1> QED
  BY <1>3, <1>4, <1>5, OutStep

\* What is durable stays durable.
LEMMA DurableGrows ==
    ASSUME Shape, Shape', [Next]_vars
    PROVE  Durable \subseteq Durable'
<1>0. file \in Seq(Seqs) /\ good \in 0..Len(file) /\ Len(file) \in Nat
  BY DEF Shape, TypeOK, LogTypeOK
<1>1. CASE UNCHANGED <<file, good>>
  BY <1>1 DEF Durable
<1>2. CASE WriterWrite
  <2>1. batch[wrote + 1] \in Unit
    <3>1. wrote + 1 \in 1..Len(batch) /\ batch \in Seq(Unit)
      BY <1>2 DEF WriterWrite, Shape, TypeOK, LogTypeOK
    <3> QED
      BY <3>1
  <2>2. Ids(batch[wrote + 1]) \in Seq(Seqs)
    BY <2>1, IdsType
  <2>3. good' = good /\ \A i \in 1..good : file'[i] = file[i]
    BY <1>0, <1>2, <2>2 DEF WriterWrite
  <2> QED
    BY <2>3 DEF Durable
<1>3. CASE WriterSync
  BY <1>0, <1>3 DEF WriterSync, Durable
<1>4. CASE WriterFails
  <2>1. good' = good /\ \A i \in 1..good : file'[i] = file[i]
    BY <1>0, <1>4 DEF WriterFails
  <2> QED
    BY <2>1 DEF Durable
<1>5. CASE Crash
  <2>1. PICK n \in good..Len(file) : file' = SubSeq(file, 1, n) /\ good' = n
    BY <1>5 DEF Crash
  <2>2. n \in 0..Len(file) /\ \A i \in 1..n : file'[i] = file[i]
    BY <1>0, <2>1
  <2>3. \A i \in 1..good : i \in 1..n
    BY <1>0, <2>1
  <2> QED
    BY <2>1, <2>2, <2>3 DEF Durable
<1>6. \/ UNCHANGED <<file, good>> \/ WriterWrite \/ WriterSync \/ WriterFails \/ Crash
  BY Steps DEF Grow, Settles, AppendOk, Quiet, logVars, Writer, WriterTake, WriterAck, WriterDies
<1> QED
  BY <1>1, <1>2, <1>3, <1>4, <1>5, <1>6

\* A unit whose ack says so is durable, and a group is acked from below the
\* synced offset.
LEMMA DurableStep ==
    ASSUME Shape, Shape', UnitsInv, DurableInv, [Next]_vars
    PROVE  DurableInv'
<1>0. /\ chan \in Seq(Unit) /\ batch \in Seq(Unit) /\ wrote \in 0..Len(batch)
      /\ file \in Seq(Seqs) /\ good \in 0..Len(file)
      /\ ack \in [Seqs -> {"none", "wait", "ok", "err"}]
      /\ Len(batch) \in Nat /\ DOMAIN batch = 1..Len(batch)
      /\ Len(file) \in Nat /\ DOMAIN file = 1..Len(file)
  BY DEF Shape, TypeOK, LogTypeOK
<1>1. Out \subseteq Unit /\ \A u \in Unit : u.last \in Seqs
  BY OutType
<1>2. Durable \subseteq Durable'
  BY DurableGrows
<1>3. ASSUME Out' \subseteq Out, \A u \in Out' : ack'[u.last] = "ok" => ack[u.last] = "ok"
      PROVE  \A u \in Out' : ack'[u.last] = "ok" => Covered(u) \subseteq Durable'
  BY <1>2, <1>3 DEF DurableInv
<1>4. CASE UNCHANGED <<batch, wrote, phase, file, good>> /\ UNCHANGED ack /\ Out' \subseteq Out
  <2>1. \A u \in Out' : ack'[u.last] = "ok" => Covered(u) \subseteq Durable'
    BY <1>3, <1>4
  <2>2. Durable' = Durable
    BY <1>4 DEF Durable
  <2> QED
    BY <1>4, <2>1, <2>2 DEF DurableInv
<1>5. CASE Quiet \/ Settles \/ AppendOk
  <2>1. UNCHANGED <<batch, wrote, phase, file, good>> /\ UNCHANGED ack
    BY <1>5 DEF Quiet, Settles, AppendOk, logVars
  <2>2. Out' \subseteq Out
    BY <1>5, OutStep
  <2> QED
    BY <1>4, <2>1, <2>2
<1>6. ASSUME NEW u \in Unit, Grow(u)
      PROVE  DurableInv'
  <2>1. Out' \subseteq Out \cup {u}
    BY <1>6, OutStep
  <2>2. UNCHANGED <<batch, wrote, phase, file, good>> /\ ack' = [ack EXCEPT ![u.last] = "wait"]
    BY <1>6 DEF Grow
  <2>3. Durable' = Durable
    BY <2>2 DEF Durable
  <2>4. \A v \in Out' : ack'[v.last] = "ok" => v \in Out /\ ack[v.last] = "ok"
    BY <1>0, <1>1, <2>1, <2>2
  <2> QED
    BY <2>2, <2>3, <2>4 DEF DurableInv
<1>7. CASE Writer \/ WriterFails \/ WriterDies
  <2>0. Out' \subseteq Out
    BY <1>7, OutStep
  <2>1. CASE WriterTake
    <3>1. phase' = "idle" \/ (phase' = "write" /\ wrote' = 0)
      BY <2>1 DEF WriterTake
    <3>2. \A u \in Out' : ack'[u.last] = "ok" => ack[u.last] = "ok"
      BY <1>1, <2>0, <2>1 DEF WriterTake, Answer
    <3>3. phase' = "write" => \A i \in 1..wrote' : Covered(batch'[i]) \subseteq Elems(file')
      BY <3>1
    <3> QED
      BY <1>3, <2>0, <3>1, <3>2, <3>3 DEF DurableInv
  <2>2. CASE WriterWrite
    <3>1. wrote + 1 \in 1..Len(batch) /\ batch[wrote + 1] \in Unit
      <4>1. wrote + 1 \in 1..Len(batch)
        BY <1>0, <2>2 DEF WriterWrite
      <4> QED
        BY <1>0, <4>1
    <3>2. Ids(batch[wrote + 1]) \in Seq(Seqs)
          /\ Elems(Ids(batch[wrote + 1])) = Covered(batch[wrote + 1])
      BY <3>1, IdsType DEF Covered
    <3>3. Elems(file') = Elems(file) \cup Covered(batch[wrote + 1])
      <4>1. file' = file \o Ids(batch[wrote + 1])
        BY <2>2 DEF WriterWrite
      <4> QED
        BY <1>0, <3>2, <4>1, ConcatElems
    <3>4. \A i \in 1..wrote : Covered(batch[i]) \subseteq Elems(file)
      BY <2>2 DEF WriterWrite, DurableInv
    <3>5. 1..wrote + 1 = (1..wrote) \cup {wrote + 1}
      BY <1>0
    <3>6. \A i \in 1..wrote + 1 : Covered(batch[i]) \subseteq Elems(file')
      BY <3>3, <3>4, <3>5
    <3>7. \A u \in Out' : ack'[u.last] = "ok" => Covered(u) \subseteq Durable'
      BY <1>3, <2>0, <2>2 DEF WriterWrite
    <3>8. phase' = "write" /\ batch' = batch /\ wrote' = wrote + 1
      BY <2>2 DEF WriterWrite
    <3> QED
      BY <3>6, <3>7, <3>8 DEF DurableInv
  <2>3. CASE WriterSync
    <3>1. Durable' = Elems(file)
      BY <1>0, <2>3 DEF WriterSync, Durable, Elems
    <3>2. \A u \in Elems(batch) : Covered(u) \subseteq Elems(file)
      BY <1>0, <2>3 DEF WriterSync, DurableInv, Elems
    <3>3. \A u \in Out' : ack'[u.last] = "ok" => Covered(u) \subseteq Durable'
      BY <1>3, <2>0, <2>3 DEF WriterSync
    <3>4. phase' = "ack" /\ batch' = batch
      BY <2>3 DEF WriterSync
    <3> QED
      BY <3>1, <3>2, <3>3, <3>4 DEF DurableInv
  <2>4. CASE WriterAck
    <3>1. /\ Front(batch) \in Elems(batch) /\ Elems(Tail(batch)) \subseteq Elems(batch)
      BY <1>0, <2>4, TailFacts DEF WriterAck, Shape, WriterInv
    <3>2. Durable' = Durable /\ phase' # "write" /\ batch' = Tail(batch)
      BY <2>4 DEF WriterAck, Durable
    <3>3. \A u \in Elems(batch) : Covered(u) \subseteq Durable
      BY <2>4 DEF WriterAck, DurableInv
    <3>4. Front(batch) \in Out /\ Front(batch).last \in Seqs
      BY <1>1, <3>1 DEF Out
    <3>5. ASSUME NEW u \in Out', ack'[u.last] = "ok"
          PROVE  Covered(u) \subseteq Durable
      <4>1. u \in Out /\ u.last \in Seqs
        BY <1>1, <2>0
      <4>2. CASE u.last = Front(batch).last
        <5>1. u = Front(batch)
          BY <3>4, <4>1, <4>2 DEF UnitsInv
        <5> QED
          BY <3>1, <3>3, <5>1
      <4>3. CASE u.last # Front(batch).last
        <5>1. ack[u.last] = "ok"
          BY <1>0, <2>4, <3>5, <4>1, <4>3 DEF WriterAck
        <5> QED
          BY <4>1, <5>1 DEF DurableInv
      <4> QED
        BY <4>2, <4>3
    <3> QED
      BY <3>1, <3>2, <3>3, <3>5 DEF DurableInv
  <2>5. CASE WriterFails \/ WriterDies
    <3>1. phase' \notin {"write", "ack"}
      BY <2>5 DEF WriterFails, WriterDies
    <3>2. \A u \in Out' : ack'[u.last] = "ok" => ack[u.last] = "ok"
      BY <1>1, <2>0, <2>5 DEF WriterFails, WriterDies, Answer
    <3> QED
      BY <1>3, <2>0, <3>1, <3>2 DEF DurableInv
  <2> QED
    BY <1>7, <2>1, <2>2, <2>3, <2>4, <2>5 DEF Writer
<1>8. CASE Crash
  <2>1. phase' = "idle"
    BY <1>8 DEF Crash
  <2>2. Out' = {}
    BY <1>8, OutStep
  <2> QED
    BY <2>1, <2>2 DEF DurableInv
<1> QED
  BY <1>5, <1>6, <1>7, <1>8, Steps

\* What a settled front adds to the head is durable.
LEMMA SettleDurable ==
    ASSUME Shape, DurableInv, fifo # <<>>, NEW tell
    PROVE  /\ Elems(head.projected) \subseteq Elems(SettleFront(tell).head.projected)
           /\ Elems(SettleFront(tell).head.projected) \subseteq Elems(head.projected) \cup Durable
<1>1. Front(fifo) \in Unit /\ Front(fifo) \in Out /\ head \in Heads
  BY TailFacts DEF Shape, TypeOK, PipelineTypeOK, HeadTypeOK, Out
<1>2. CASE ack[Front(fifo).last] = "ok"
  <2>1. Covered(Front(fifo)) \subseteq Durable
    BY <1>1, <1>2 DEF DurableInv
  <2>2. SettleFront(tell).head = Advance(head, Front(fifo))
    BY <1>2 DEF SettleFront
  <2>3. Elems(Advance(head, Front(fifo)).projected)
           = Elems(head.projected) \cup Covered(Front(fifo))
    BY <1>1, AdvanceType DEF Covered
  <2> QED
    BY <2>1, <2>2, <2>3
<1>3. CASE ack[Front(fifo).last] # "ok"
  BY <1>3 DEF SettleFront
<1> QED
  BY <1>2, <1>3

LEMMA ProjectionStep ==
    ASSUME Shape, Shape', DurableInv, ProjectionBehindLog, [Next]_vars
    PROVE  ProjectionBehindLog'
<1>1. Durable \subseteq Durable'
  BY DurableGrows
<1>2. Elems(head.projected) \subseteq Durable /\ Elems(pub.projected) \subseteq Durable
  BY DEF ProjectionBehindLog
<1>3. CASE head'.projected = head.projected /\ pub'.projected \in {pub.projected, head.projected}
  BY <1>1, <1>2, <1>3 DEF ProjectionBehindLog
<1>4. CASE Settles
  <2>1. fifo # <<>> /\ pub' \in {pub, head'}
        /\ \E tell \in {"ok", "aborted"} : head' = SettleFront(tell).head
    BY <1>4 DEF Settles, FrontAnswered
  <2>2. Elems(head'.projected) \subseteq Elems(head.projected) \cup Durable
    BY <2>1, SettleDurable
  <2> QED
    BY <1>1, <1>2, <2>1, <2>2 DEF ProjectionBehindLog
<1>5. CASE AppendOk
  <2> DEFINE u == [first |-> seq, last |-> seq]
  <2>1. op.at = "await" /\ ack[u.last] = "ok" /\ head' = Advance(head, u) /\ pub' = head'
    BY <1>5 DEF AppendOk
  <2>2. u \in Out /\ u \in Unit /\ head \in Heads
    BY <2>1, AwaitedType DEF Out, Awaited, Shape, TypeOK, HeadTypeOK
  <2>3. Covered(u) \subseteq Durable
    BY <2>1, <2>2 DEF DurableInv
  <2>4. Elems(Advance(head, u).projected) = Elems(head.projected) \cup Covered(u)
    BY <2>2, AdvanceType DEF Covered
  <2> QED
    BY <1>1, <1>2, <2>1, <2>3, <2>4 DEF ProjectionBehindLog
<1>6. CASE Crash
  <2>1. PICK n \in good..Len(file) :
          file' = SubSeq(file, 1, n) /\ good' = n /\ head'.projected = SubSeq(file, 1, n)
    BY <1>6 DEF Crash
  <2>2. pub' = head'
    BY <1>6 DEF Crash
  <2>3. Len(file') = n /\ DOMAIN file' = 1..n
    BY <2>1 DEF Shape, TypeOK, LogTypeOK
  <2>4. Elems(file') = Durable'
    BY <2>1, <2>3 DEF Durable, Elems
  <2> QED
    BY <2>1, <2>2, <2>4 DEF ProjectionBehindLog
<1>7. \/ head'.projected = head.projected /\ pub'.projected \in {pub.projected, head.projected}
      \/ Settles \/ AppendOk \/ Crash
  BY Steps DEF Grow, Quiet, Writer, WriterTake, WriterWrite, WriterSync, WriterAck, WriterFails,
               WriterDies, actorVars
<1> QED
  BY <1>3, <1>4, <1>5, <1>6, <1>7

-----------------------------------------------------------------------------
\* IInv holds initially and every step keeps it.
LEMMA Inductive ==
    /\ Init => IInv
    /\ IInv /\ [Next]_vars => IInv'
<1>1. ASSUME Init PROVE IInv
  <2>1. Shape /\ QueueInv
    BY <1>1, InitShape
  <2>2. Elems(<<>>) = {} /\ op.at # "await"
    BY <1>1 DEF Init, Elems, Loop
  <2>3. Out = {}
    BY <1>1, <2>2 DEF Init, Out, Awaited
  <2>4. UnitsInv /\ DurableInv
    BY <1>1, <2>3 DEF Init, UnitsInv, DurableInv
  <2>5. head.projected = <<>> /\ pub.projected = <<>>
    BY <1>1 DEF Init
  <2>6. ProjectionBehindLog
    BY <2>2, <2>5, Zenon DEF ProjectionBehindLog
  <2> QED
    BY <2>1, <2>4, <2>6 DEF IInv
<1>2. ASSUME IInv, [Next]_vars PROVE IInv'
  BY <1>2, ShapeStep, QueueStep, UnitsStep, DurableStep, ProjectionStep DEF IInv
<1> QED
  BY <1>1, <1>2

\* In every reachable state all that the actor has projected, and all that any
\* turn task can read, lies below the last synced offset of the log, whatever
\* the disk, the writer thread and the kills of the process have done.
THEOREM ProjectionSafe == Spec => []ProjectionBehindLog
<1>1. IInv => ProjectionBehindLog
  BY DEF IInv
<1> QED
  BY <1>1, Inductive, PTL DEF Spec
=============================================================================

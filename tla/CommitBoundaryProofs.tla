------------------------- MODULE CommitBoundaryProofs -------------------------
(***************************************************************************)
(* Proofs about CommitPipeline, continued: what a turn reads at a sample   *)
(* boundary.  A sample is built from all that was committed before it, a   *)
(* speculative request that is adopted is the one the refreshed head would *)
(* have given, no steer gets in front of an item that had not seen it, the *)
(* plan file follows the log, and a batch of calls keeps its results.      *)
(***************************************************************************)
EXTENDS CommitOrderProofs

-----------------------------------------------------------------------------
(* Who commits what, and when.                                              *)

\* The items that have been minted.
AllItems == {s \in Seqs : entry[s].kind \in ItemKinds}

\* What nobody but a turn commits between its samples: any item, or if a human may
\* toggle plan mode meanwhile, which appends a reminder, any steer.
OwnKinds == IF PlanToggles THEN {"steer"} ELSE ItemKinds
OwnItems == {s \in Seqs : entry[s].kind \in OwnKinds}

\* A set that shows the items up to the n-th entry, at least those.
Shows(items, n) == /\ items \subseteq {s \in AllItems : s <= n}
                   /\ \A s \in OwnItems : s <= n => s \in items

\* The units of a turn that panicked: nobody holds their tickets, and the end of
\* the turn appends an entry, which drains them.
Orphaned == /\ Panics
            /\ \/ turn.at = "ended" /\ ~turn.ok
               \/ turn.at = "none" /\ op.at = "append"

\* The FIFO and the ack arm only hold what the turn waits for; whatever appends
\* has drained the FIFO when it ends.
OwnedInv ==
    /\ op.at = "loop" => op.then = "loop"
    /\ op.then \in {"end", "respawn"} => turn.at = "ended"
    /\ turn.at \in {"none", "sampling", "ended"} => turn.tickets = <<>>
    /\ \A u \in Elems(fifo) : /\ ticket[u.last] = "wait"
                              /\ u.last \in Elems(turn.tickets) \/ Orphaned
    /\ op.then = "settle" =>
          /\ ticket[op.due] = "wait" /\ op.due \in Seqs
          /\ op.due \in Elems(turn.tickets) \/ (Panics /\ turn.at = "ended" /\ ~turn.ok)
          /\ \A u \in Elems(fifo) : op.due < u.last
    /\ op.at = "done" /\ op.then \notin {"settle", "end"} => fifo = <<>>
    /\ op.then # "settle" => pub.epoch = head.epoch

\* What the actor appends while a turn is at work: the steers that the ack arm
\* releases, and entries that are none of those.
WorkInv ==
    /\ op.at = "loop" => op.work = <<>>
    /\ \A i \in DOMAIN op.work : op.work[i] \notin {"call", "reply"}
    /\ turn.at \notin {"none", "ended"} /\ op.then # "settle" =>
          \A i \in DOMAIN op.work : op.work[i] \notin OwnKinds
    /\ op.at = "await" => entry[seq].kind = op.work[1]

\* Numbers not assigned yet carry nothing, and no batch is closed in advance.
EntryInv ==
    /\ \A s \in Seqs : s > seq => entry[s].kind = "none"
    /\ \A s \in head.closed : s <= head.epoch

-----------------------------------------------------------------------------
(* What the turn knows.                                                     *)

\* A turn that waits at barrier (a) waits for its calls, and as long as the log
\* takes entries nothing is released behind them.
CallsInv ==
    turn.at = "calls" =>
        /\ turn.tickets # <<>> => /\ turn.tickets = <<turn.mine>>
                                  /\ turn.mine - 1 \in Seqs
                                  /\ entry[turn.mine - 1].kind = "call"
                                  /\ entry[turn.mine].kind = "mark"
                                  /\ turn.mine - 1 \notin head.closed
        /\ Live /\ op.then = "settle" => op.work = <<>>

\* From its refresh to its next proposal a turn is the only author of such items, and
\* so knows them all; and so does the request of its sample.
KnowsInv ==
    turn.at \in {"sampling", "calls", "tools"} /\ Live =>
        /\ Shows(turn.view.items \cup turn.own, seq)
        /\ turn.at = "sampling" => OwnItems \subseteq turn.req.items

\* A speculative request shows the items up to the turn's last commit; a sample
\* shows them too, and with plan mode left alone it shows what the turn saw.
RequestInv ==
    /\ turn.mine <= seq
    /\ turn.spec.leaf # 0 => /\ turn.at = "boundary" /\ turn.spec.leaf = turn.mine
                             /\ Shows(turn.spec.snap.items, turn.mine)
    /\ turn.at = "sampling" => /\ turn.own = {}
                               /\ ~PlanToggles => turn.req.items = turn.view.items
                               /\ \A s \in OwnItems : s <= turn.mine => s \in turn.req.items

\* An assistant item has seen every steer in front of it.
SawInv ==
    \A a, s \in Seqs :
        s < a /\ entry[s].kind = "steer" /\ entry[a].kind \in {"call", "reply"}
            => s \in entry[a].saw

\* The inductive invariant of the sample boundary.
BoundaryInv ==
    /\ OwnedInv /\ WorkInv /\ EntryInv
    /\ CallsInv /\ KnowsInv /\ RequestInv /\ SawInv

-----------------------------------------------------------------------------
(* What a step does to the turn.                                            *)

\* On the way out a turn keeps its tickets, and a new or a dead one has none.
Ends == /\ turn.at \notin {"none", "ended"}
        /\ turn'.at = "finishing" /\ turn'.tickets = turn.tickets
        /\ turn'.mine = 0 /\ turn'.spec.leaf = 0

Resets == /\ turn'.at \in {"none", "boundary", "ended"} /\ turn'.tickets = <<>>
          /\ turn'.mine = 0 /\ turn'.spec.leaf = 0

\* The turn goes on, with what it knows.
Goes(at) == /\ turn'.at = at
            /\ turn'.tickets = turn.tickets /\ turn'.mine = turn.mine
            /\ turn'.own = turn.own /\ turn'.view = turn.view /\ turn'.spec = turn.spec

\* The turn resolves a ticket at a barrier.
Resolves == /\ turn.tickets # <<>> /\ ticket[turn.tickets[1]] # "wait"
            /\ turn.at \in {"boundary", "calls", "finishing"} /\ turn'.at = turn.at
            /\ turn'.tickets = Tail(turn.tickets) /\ turn'.mine = turn.mine
            /\ turn'.own = turn.own /\ turn'.view = turn.view /\ turn'.spec = turn.spec

\* The turn refreshes its view and has its request.
Refreshes ==
    /\ turn.at = "boundary" /\ turn.tickets = <<>> /\ pub.epoch >= turn.mine
    /\ turn'.at = "sampling" /\ turn'.tickets = <<>> /\ turn'.mine = turn.mine
    /\ turn'.view = Snapshot(pub) /\ turn'.own = {} /\ turn'.spec.leaf = 0
    /\ \/ turn'.req = Snapshot(pub)
       \/ turn.spec.leaf # 0 /\ turn.spec.leaf = pub.epoch /\ turn'.req = turn.spec.snap

\* A step of the turn task alone.
Ponders ==
    /\ UNCHANGED <<logVars, actorVars, others>>
    /\ \/ Resolves \/ Ends \/ Refreshes
       \/ turn.at \in {"sampling", "replied"} /\ Goes("boundary")
       \/ turn.at = "calls" /\ turn.tickets = <<>> /\ Goes("tools")
       \/ turn.at = "finishing" /\ turn.tickets = <<>> /\ Goes("ended")
       \/ Panics /\ Resets /\ turn'.at = "ended" /\ ~turn'.ok

\* The actor mints and forwards a proposal.
Sends(kinds, saw) ==
    /\ kinds \in Seq(Kinds) /\ kinds # <<>> /\ Forward(kinds, saw)
    /\ Idle /\ UNCHANGED <<head, pub, held, op>>

\* What a turn commits, by where it is.
Says(kinds, saw) ==
    \/ /\ turn.at = "sampling" /\ saw = turn.req.items
       /\ kinds \in {<<"call", "mark">>, <<"reply", "mark">>}
    \/ turn.at = "tools" /\ kinds \in {<<"results">>, <<"results", "user">>}
    \/ turn.at = "replied" /\ kinds = <<"user">>

\* The turn proposes, and parks the ticket.
Proposes ==
    \E kinds, saw :
        /\ Sends(kinds, saw) /\ Says(kinds, saw)
        /\ turn'.tickets = Append(turn.tickets, seq') /\ turn'.mine = seq'
        /\ \/ /\ turn.at = "sampling" /\ turn'.at = "calls" /\ kinds = <<"call", "mark">>
              /\ turn'.view = turn.view /\ turn'.own = turn.own \cup NewItems(kinds)
              /\ turn'.spec.leaf = turn.spec.leaf
           \/ /\ turn.at = "tools" /\ turn'.at = "boundary" /\ turn'.spec.leaf = seq'
              /\ turn'.spec.snap.items = turn.view.items \cup (turn.own \cup NewItems(kinds))
           \/ /\ turn.at \in {"sampling", "tools"} /\ turn'.at = "finishing"
              /\ turn'.spec.leaf = 0
           \/ /\ turn.at \in {"sampling", "replied"} /\ turn'.at \in {"replied", "boundary"}
              /\ kinds[1] # "call" /\ turn'.spec.leaf = turn.spec.leaf

\* A proposal the log refuses: a number may be burned.
Burns ==
    /\ Idle
    /\ UNCHANGED <<phase, entry, fifo, head, pub, ticket, op>>
    /\ sealed' /\ seq' >= seq

LEMMA SaysFacts ==
    ASSUME NEW kinds, NEW saw, Says(kinds, saw)
    PROVE  /\ kinds \in Seq(Kinds) /\ kinds # <<>> /\ Len(kinds) \in 1..2
           /\ \/ /\ kinds[1] \in {"call", "reply"} /\ Len(kinds) = 2 /\ kinds[2] = "mark"
                 /\ turn.at = "sampling" /\ saw = turn.req.items
              \/ \A i \in DOMAIN kinds : kinds[i] \notin {"call", "reply"}
<1>1. ASSUME NEW k \in {"call", "reply"}
      PROVE  /\ <<k, "mark">> \in Seq(Kinds) /\ <<k, "mark">> # <<>> /\ Len(<<k, "mark">>) = 2
             /\ <<k, "mark">>[1] = k /\ <<k, "mark">>[2] = "mark"
  BY KindsType
<1>2. CASE /\ turn.at = "sampling" /\ saw = turn.req.items
           /\ kinds \in {<<"call", "mark">>, <<"reply", "mark">>}
  <2>1. PICK k \in {"call", "reply"} : kinds = <<k, "mark">>
    BY <1>2
  <2>2. kinds \in Seq(Kinds) /\ kinds # <<>> /\ Len(kinds) = 2 /\ kinds[1] = k /\ kinds[2] = "mark"
    BY <1>1, <2>1, Zenon
  <2> QED
    BY <1>2, <2>2
<1>3. CASE kinds = <<"results">>
  BY <1>3, KindsType
<1>4. CASE kinds = <<"user">>
  BY <1>4, KindsType
<1>5. CASE kinds = <<"results", "user">>
  BY <1>5, KindsType
<1> QED
  BY <1>2, <1>3, <1>4, <1>5 DEF Says

LEMMA EndingFields ==
    ASSUME turn \in Turns, NEW ok \in BOOLEAN, NEW fold \in BOOLEAN
    PROVE  /\ Ending(turn, ok, fold).at = "finishing"
           /\ Ending(turn, ok, fold).tickets = turn.tickets
           /\ Ending(turn, ok, fold).mine = 0 /\ Ending(turn, ok, fold).spec.leaf = 0
           /\ {"at", "tickets", "mine", "own"} \subseteq DOMAIN Ending(turn, ok, fold)
BY DEF Ending, NoTurn

\* What proposing leaves of the turn as it was to become.
LEMMA ProposeFields ==
    ASSUME Shape, NEW kinds \in Seq(Kinds), NEW saw, NEW next, Propose(kinds, saw, next),
           {"at", "tickets", "mine", "own"} \subseteq DOMAIN next,
           turn.at \notin {"none", "ended"}
    PROVE  \/ Burns /\ Ends
           \/ /\ Forward(kinds, saw) /\ Idle /\ UNCHANGED <<head, pub, held, op>>
              /\ turn' = [next EXCEPT !.tickets = Append(@, seq'), !.mine = seq',
                                      !.own = @ \cup NewItems(kinds)]
              /\ turn'.tickets = Append(next.tickets, seq') /\ turn'.mine = seq'
              /\ turn'.at = next.at /\ turn'.own = next.own \cup NewItems(kinds)
<1>0. turn \in Turns /\ seq \in Nat /\ Len(kinds) \in Nat
  BY Ground DEF Shape, TypeOK, TurnTypeOK
<1>1. CASE ForwardRefused(kinds) /\ turn' = Ending(turn, FALSE, FALSE)
  <2>1. Ends
    BY <1>0, <1>1, EndingFields DEF Ends
  <2>2. seq' >= seq
    BY <1>0, <1>1 DEF ForwardRefused
  <2> QED
    BY <1>1, <2>1, <2>2 DEF Burns, ForwardRefused, Propose
<1>2. CASE /\ Forward(kinds, saw)
           /\ turn' = [next EXCEPT !.tickets = Append(@, seq'), !.mine = seq',
                                   !.own = @ \cup NewItems(kinds)]
  BY <1>2 DEF Propose
<1> QED
  BY <1>1, <1>2 DEF Propose

\* A proposal with which the turn ends.
LEMMA ProposeEnding ==
    ASSUME Shape, NEW kinds, NEW saw, Says(kinds, saw),
           Propose(kinds, saw, Ending(turn, TRUE, FALSE)), turn.at \in {"sampling", "tools"}
    PROVE  Proposes \/ (Burns /\ Ends)
<1> DEFINE next == Ending(turn, TRUE, FALSE)
<1>0. turn \in Turns /\ kinds \in Seq(Kinds) /\ kinds # <<>>
  BY SaysFacts DEF Shape, TypeOK, TurnTypeOK
<1>1. /\ next.at = "finishing" /\ next.tickets = turn.tickets /\ next.spec.leaf = 0
      /\ {"at", "tickets", "mine", "own"} \subseteq DOMAIN next
  BY <1>0, EndingFields
<1>2. Propose(kinds, saw, next)
  OBVIOUS
<1> HIDE DEF next
<1>3. CASE /\ Forward(kinds, saw) /\ Idle /\ UNCHANGED <<head, pub, held, op>>
           /\ turn' = [next EXCEPT !.tickets = Append(@, seq'), !.mine = seq',
                                   !.own = @ \cup NewItems(kinds)]
           /\ turn'.tickets = Append(next.tickets, seq') /\ turn'.mine = seq'
           /\ turn'.at = next.at
  <2>1. turn'.spec = next.spec
    BY <1>3
  <2>2. Sends(kinds, saw)
    BY <1>0, <1>3 DEF Sends
  <2> QED
    BY <1>1, <1>3, <2>1, <2>2 DEF Proposes
<1> QED
  BY <1>0, <1>1, <1>2, <1>3, ProposeFields

LEMMA SampledMoves ==
    ASSUME Shape, Sampled
    PROVE  Proposes \/ (Burns /\ Ends)
<1>0. turn \in Turns /\ turn.at = "sampling"
  BY DEF Shape, TypeOK, TurnTypeOK, Sampled
<1>1. \A k \in {"call", "reply"} :
        /\ <<k, "mark">> \in Seq(Kinds) /\ <<k, "mark">> # <<>>
        /\ <<k, "mark">>[1] \in {"call", "reply"} /\ Len(<<k, "mark">>) = 2
        /\ <<k, "mark">>[2] = "mark"
  BY KindsType
<1>2. CASE Propose(<<"call", "mark">>, turn.req.items, Ending(turn, TRUE, FALSE))
  BY <1>0, <1>2, ProposeEnding DEF Says
<1>3. ASSUME NEW k \in {"call", "reply"}, NEW at \in {"calls", "replied"},
             k = "call" <=> at = "calls",
             Propose(<<k, "mark">>, turn.req.items, [turn EXCEPT !.at = at, !.req = NoSnap])
      PROVE  Proposes \/ (Burns /\ Ends)
  <2> DEFINE next == [turn EXCEPT !.at = at, !.req = NoSnap]
             kinds == <<k, "mark">>
  <2>1. /\ next.at = at /\ next.tickets = turn.tickets /\ next.own = turn.own
        /\ next.view = turn.view /\ next.spec = turn.spec
        /\ {"at", "tickets", "mine", "own", "view", "spec"} \subseteq DOMAIN next
    BY <1>0 DEF Turns
  <2>2. Propose(kinds, turn.req.items, next)
    BY <1>3
  <2>3. /\ kinds \in Seq(Kinds) /\ kinds # <<>> /\ kinds[1] \in {"call", "reply"}
        /\ at = "calls" => kinds = <<"call", "mark">>
        /\ at = "replied" => kinds[1] # "call"
        /\ Says(kinds, turn.req.items)
    BY <1>0, <1>1, <1>3 DEF Says
  <2> HIDE DEF next, kinds
  <2>4. CASE /\ Forward(kinds, turn.req.items) /\ Idle /\ UNCHANGED <<head, pub, held, op>>
             /\ turn' = [next EXCEPT !.tickets = Append(@, seq'), !.mine = seq',
                                     !.own = @ \cup NewItems(kinds)]
             /\ turn'.tickets = Append(next.tickets, seq') /\ turn'.mine = seq'
             /\ turn'.at = next.at /\ turn'.own = next.own \cup NewItems(kinds)
    <3>1. turn'.spec = turn.spec /\ turn'.view = turn.view
      BY <2>1, <2>4
    <3>2. Sends(kinds, turn.req.items)
      BY <2>3, <2>4 DEF Sends
    <3>3. turn'.at = at /\ turn'.own = turn.own \cup NewItems(kinds)
          /\ turn'.tickets = Append(turn.tickets, seq') /\ turn'.mine = seq'
      BY <2>1, <2>4
    <3> QED
      BY <1>0, <2>3, <3>1, <3>2, <3>3 DEF Proposes
  <2>5. \/ Burns /\ Ends
        \/ /\ Forward(kinds, turn.req.items) /\ Idle /\ UNCHANGED <<head, pub, held, op>>
           /\ turn' = [next EXCEPT !.tickets = Append(@, seq'), !.mine = seq',
                                   !.own = @ \cup NewItems(kinds)]
           /\ turn'.tickets = Append(next.tickets, seq') /\ turn'.mine = seq'
           /\ turn'.at = next.at /\ turn'.own = next.own \cup NewItems(kinds)
    <3>1. turn.at \notin {"none", "ended"}
      BY <1>0
    <3>2. {"at", "tickets", "mine", "own"} \subseteq DOMAIN next
      BY <2>1
    <3>3. kinds \in Seq(Kinds)
      BY <2>3
    <3> QED
      BY <2>2, <3>1, <3>2, <3>3, ProposeFields, Zenon
  <2> QED
    BY <2>4, <2>5, Zenon
<1> QED
  BY <1>2, <1>3 DEF Sampled

LEMMA ToolsDoneMoves ==
    ASSUME Shape, ToolsDone
    PROVE  Proposes \/ (Burns /\ Ends)
<1>0. turn \in Turns /\ turn.at = "tools"
  BY DEF Shape, TypeOK, TurnTypeOK, ToolsDone
<1>1. PICK kinds \in {<<"results">>, <<"results", "user">>} :
        LET own  == turn.own \cup NewItems(kinds)
            spec == [leaf |-> NewUnit(kinds).last,
                     snap |-> [turn.view EXCEPT !.items = @ \cup own]]
        IN  \/ Propose(kinds, {}, [turn EXCEPT !.at = "boundary", !.spec = spec])
            \/ Propose(kinds, {}, Ending(turn, TRUE, FALSE))
  BY Zenon DEF ToolsDone
<1> DEFINE own  == turn.own \cup NewItems(kinds)
           spec == [leaf |-> NewUnit(kinds).last,
                    snap |-> [turn.view EXCEPT !.items = @ \cup own]]
           next == [turn EXCEPT !.at = "boundary", !.spec = spec]
<1>2. kinds \in Seq(Kinds) /\ kinds # <<>> /\ Says(kinds, {})
  <2>1. Says(kinds, {})
    BY <1>0 DEF Says
  <2> QED
    BY <2>1, SaysFacts
<1>3. CASE Propose(kinds, {}, Ending(turn, TRUE, FALSE))
  BY <1>0, <1>2, <1>3, ProposeEnding
<1>4. CASE Propose(kinds, {}, next)
  <2>1. /\ next.at = "boundary" /\ next.tickets = turn.tickets /\ next.spec = spec
        /\ {"at", "tickets", "mine", "own", "view", "spec"} \subseteq DOMAIN next
    BY <1>0 DEF Turns
  <2>2. spec.leaf = NewUnit(kinds).last /\ spec.snap.items = turn.view.items \cup own
    BY <1>0 DEF Turns, Snapshots
  <2> HIDE DEF next, spec
  <2>3. CASE /\ Forward(kinds, {}) /\ Idle /\ UNCHANGED <<head, pub, held, op>>
             /\ turn' = [next EXCEPT !.tickets = Append(@, seq'), !.mine = seq',
                                     !.own = @ \cup NewItems(kinds)]
             /\ turn'.tickets = Append(next.tickets, seq') /\ turn'.mine = seq'
             /\ turn'.at = next.at
    <3>1. turn'.spec = spec
      BY <2>1, <2>3
    <3>2. Sends(kinds, {}) /\ seq' = NewUnit(kinds).last
      BY <1>2, <2>3 DEF Sends, Forward
    <3> QED
      BY <1>0, <1>2, <2>1, <2>2, <2>3, <3>1, <3>2 DEF Proposes
  <2> QED
    BY <1>0, <1>2, <1>4, <2>1, <2>3, ProposeFields
<1> QED
  BY <1>1, <1>3, <1>4

LEMMA RepliedMoves ==
    ASSUME Shape, Replied
    PROVE  Proposes \/ (Burns /\ Ends) \/ Ponders
<1>0. turn \in Turns /\ turn.at = "replied"
  BY DEF Shape, TypeOK, TurnTypeOK, Replied
<1> DEFINE next == [turn EXCEPT !.at = "boundary"]
           kinds == <<"user">>
<1>1. /\ next.at = "boundary" /\ next.tickets = turn.tickets /\ next.spec = turn.spec
      /\ next.own = turn.own /\ next.view = turn.view /\ next.mine = turn.mine
      /\ {"at", "tickets", "mine", "own", "view", "spec"} \subseteq DOMAIN next
  BY <1>0 DEF Turns
<1>2. kinds \in Seq(Kinds) /\ kinds # <<>> /\ kinds[1] # "call" /\ Says(kinds, {})
  <2>1. Says(kinds, {})
    BY <1>0 DEF Says
  <2> QED
    BY <2>1, SaysFacts
<1> HIDE DEF next
<1>3. CASE UNCHANGED <<logVars, actorVars, others>> /\ turn' \in {Ending(turn, TRUE, FALSE), next}
  <2>1. CASE turn' = Ending(turn, TRUE, FALSE)
    BY <1>0, <1>3, <2>1, EndingFields DEF Ponders, Ends
  <2>2. CASE turn' = next
    BY <1>0, <1>1, <1>3, <2>2 DEF Ponders, Goes
  <2> QED
    BY <1>3, <2>1, <2>2
<1>4. CASE Propose(kinds, {}, next)
  <2> HIDE DEF kinds
  <2>1. CASE /\ Forward(kinds, {}) /\ Idle /\ UNCHANGED <<head, pub, held, op>>
             /\ turn' = [next EXCEPT !.tickets = Append(@, seq'), !.mine = seq',
                                     !.own = @ \cup NewItems(kinds)]
             /\ turn'.tickets = Append(next.tickets, seq') /\ turn'.mine = seq'
             /\ turn'.at = next.at
    <3>1. turn'.spec = turn.spec
      BY <1>1, <2>1
    <3>2. Sends(kinds, {})
      BY <1>2, <2>1 DEF Sends
    <3> QED
      BY <1>0, <1>1, <1>2, <2>1, <3>1, <3>2 DEF Proposes
  <2> QED
    BY <1>0, <1>1, <1>2, <1>4, <2>1, ProposeFields
<1> QED
  BY <1>3, <1>4 DEF Replied, next, kinds

LEMMA TurnMoves ==
    ASSUME Shape, Turn \/ Panic
    PROVE  Proposes \/ (Burns /\ Ends) \/ Ponders
<1>0. turn \in Turns /\ NoTurn.spec.leaf = 0
  BY DEF Shape, TypeOK, TurnTypeOK, NoTurn
<1>e. \A ok, fold \in BOOLEAN :
        turn' = Ending(turn, ok, fold) /\ turn.at \notin {"none", "ended"} => Ends
  BY <1>0, EndingFields DEF Ends
<1>1. CASE Sampled \/ ToolsDone \/ Replied
  BY <1>1, SampledMoves, ToolsDoneMoves, RepliedMoves
<1>2. CASE Resolve
  <2>1. Resolves
    BY <1>0, <1>2 DEF Resolve, Resolves, AtBarrier, Turns
  <2> QED
    BY <1>2, <2>1 DEF Resolve, Ponders
<1>3. CASE BarrierFails
  BY <1>e, <1>3 DEF BarrierFails, Ponders
<1>4. CASE Boundary
  <2> DEFINE fresh(r) == [turn EXCEPT !.at = "sampling", !.view = Snapshot(pub), !.own = {},
                             !.spec = NoTurn.spec, !.req = r]
  <2>1. \A r : /\ fresh(r).at = "sampling" /\ fresh(r).tickets = turn.tickets
               /\ fresh(r).mine = turn.mine /\ fresh(r).view = Snapshot(pub)
               /\ fresh(r).own = {} /\ fresh(r).spec = NoTurn.spec /\ fresh(r).req = r
    BY <1>0 DEF Turns
  <2>2. \/ Ends
        \/ \E r : turn' = fresh(r) /\ \/ r = Snapshot(pub)
                                      \/ /\ turn.spec.leaf # 0 /\ turn.spec.leaf = pub.epoch
                                         /\ r = turn.spec.snap
    BY <1>e, <1>4 DEF Boundary
  <2> HIDE DEF fresh
  <2>3. Ends \/ Refreshes
    BY <1>0, <1>4, <2>1, <2>2 DEF Boundary, Refreshes
  <2> QED
    BY <1>4, <2>3 DEF Boundary, Ponders
<1>5. CASE SampleEnds
  <2>1. turn' = [turn EXCEPT !.at = "boundary", !.req = NoSnap] => Goes("boundary")
    BY <1>0 DEF Goes, Turns
  <2> QED
    BY <1>e, <1>5, <2>1 DEF SampleEnds, Ponders
<1>6. CASE Dispatch
  <2>1. Goes("tools")
    BY <1>0, <1>6 DEF Goes, Turns, Dispatch
  <2> QED
    BY <1>6, <2>1 DEF Dispatch, Ponders
<1>7. CASE Finish
  <2>1. Goes("ended")
    BY <1>0, <1>7 DEF Goes, Turns, Finish
  <2> QED
    BY <1>7, <2>1 DEF Finish, Ponders
<1>8. CASE Panic
  <2>1. Panics /\ Resets /\ turn'.at = "ended" /\ ~turn'.ok
    BY <1>8 DEF Panic, Resets, NoTurn
  <2> QED
    BY <1>8, <2>1 DEF Panic, Ponders
<1> QED
  BY <1>1, <1>2, <1>3, <1>4, <1>5, <1>6, <1>7, <1>8 DEF Turn

-----------------------------------------------------------------------------
(* What a mint does to the entries.                                         *)

LEMMA MintFacts ==
    ASSUME Shape, EntryInv, NEW kinds \in Seq(Kinds), kinds # <<>>, NEW saw, Room(kinds),
           entry' = Minted(kinds, lastId, saw), seq' = NewUnit(kinds).last
    PROVE  /\ seq' = seq + Len(kinds) /\ seq' > seq /\ seq' \in Seqs /\ Len(kinds) \in Nat
           /\ \A s \in Seqs : s <= seq \/ s > seq' => entry'[s] = entry[s]
           /\ \A s \in Seqs : s > seq /\ s <= seq' =>
                 /\ s - seq \in DOMAIN kinds /\ entry'[s].kind = kinds[s - seq]
                 /\ entry'[s].saw = saw
           /\ AllItems' = AllItems \cup NewItems(kinds)
           /\ \A s \in AllItems : s <= seq
           /\ \A s \in NewItems(kinds) : s > seq /\ s <= seq'
<1>1. /\ seq \in Nat /\ seq' = seq + Len(kinds) /\ Len(kinds) \in Nat /\ Len(kinds) >= 1
      /\ seq' \in Seqs /\ MaxSeq \in Nat
  BY NewUnitType, BoundsAreNats, Ground DEF Shape
<1>2. \A s \in Seqs : s \in Nat
  BY DEF Seqs
<1>3. \A s \in Seqs : s \in seq + 1 .. seq + Len(kinds) <=> s > seq /\ s <= seq'
  BY <1>1, <1>2
<1>4. ASSUME NEW s \in Seqs, s <= seq \/ s > seq'
      PROVE  entry'[s] = entry[s]
  <2>1. s \notin seq + 1 .. seq + Len(kinds)
    BY <1>1, <1>2, <1>4
  <2> QED
    BY <2>1 DEF Minted
<1>5. ASSUME NEW s \in Seqs, s > seq, s <= seq'
      PROVE  /\ s - seq \in DOMAIN kinds /\ entry'[s].kind = kinds[s - seq]
             /\ entry'[s].saw = saw
  <2>1. s \in seq + 1 .. seq + Len(kinds)
    BY <1>3, <1>5
  <2>2. s - seq \in DOMAIN kinds
    BY <1>1, <1>2, <1>5
  <2> QED
    BY <2>1, <2>2 DEF Minted
<1>6. \A s \in AllItems : s <= seq
  BY <1>1, <1>2 DEF AllItems, EntryInv, ItemKinds
<1>7. DOMAIN kinds = 1..Len(kinds)
  OBVIOUS
<1>8. ASSUME NEW s
      PROVE  s \in NewItems(kinds) <=> s \in Seqs /\ s > seq /\ s <= seq' /\ kinds[s - seq] \in ItemKinds
  <2>1. ASSUME s \in NewItems(kinds)
        PROVE  s \in Seqs /\ s > seq /\ s <= seq' /\ kinds[s - seq] \in ItemKinds
    <3>1. PICK i \in 1..Len(kinds) : kinds[i] \in ItemKinds /\ s = seq + i
      BY <1>7, <2>1 DEF NewItems
    <3>2. s - seq = i /\ s > seq /\ s <= seq' /\ s \in Seqs
      BY <1>1, <3>1 DEF Seqs
    <3> QED
      BY <3>1, <3>2
  <2>2. ASSUME s \in Seqs, s > seq, s <= seq', kinds[s - seq] \in ItemKinds
        PROVE  s \in NewItems(kinds)
    <3>1. s - seq \in DOMAIN kinds /\ s = seq + (s - seq)
      BY <1>1, <1>2, <1>5, <2>2
    <3> QED
      BY <2>2, <3>1 DEF NewItems
  <2> QED
    BY <2>1, <2>2
<1>9. ASSUME NEW s
      PROVE  s \in AllItems' <=> s \in AllItems \cup NewItems(kinds)
  <2>1. CASE s \notin Seqs
    BY <1>8, <2>1 DEF AllItems
  <2>2. CASE s \in Seqs /\ (s <= seq \/ s > seq')
    <3>1. entry'[s] = entry[s] /\ s \notin NewItems(kinds)
      BY <1>1, <1>2, <1>4, <1>8, <2>2
    <3> QED
      BY <2>2, <3>1 DEF AllItems
  <2>3. CASE s \in Seqs /\ s > seq /\ s <= seq'
    <3>1. s \notin AllItems
      BY <1>1, <1>2, <1>6, <2>3
    <3> QED
      BY <1>5, <1>8, <2>3, <3>1 DEF AllItems
  <2> QED
    BY <1>1, <1>2, <2>1, <2>2, <2>3
<1>10. AllItems' = AllItems \cup NewItems(kinds)
  BY <1>9
<1>11. seq' > seq
  BY <1>1
<1> QED
  BY <1>1, <1>4, <1>5, <1>6, <1>8, <1>10, <1>11

\* What sending a proposal does.
LEMMA SendFacts ==
    ASSUME Shape, EntryInv, NEW kinds, NEW saw, Sends(kinds, saw)
    PROVE  /\ Live /\ Live' /\ op.at = "loop" /\ UNCHANGED <<head, pub, held, op>>
           /\ kinds \in Seq(Kinds) /\ kinds # <<>> /\ Len(kinds) \in Nat
           /\ DOMAIN kinds = 1..Len(kinds)
           /\ seq' = seq + Len(kinds) /\ seq' > seq /\ seq' \in Seqs
           /\ \A s \in Seqs : s <= seq \/ s > seq' => entry'[s] = entry[s]
           /\ \A s \in Seqs : s > seq /\ s <= seq' =>
                 /\ s - seq \in DOMAIN kinds /\ entry'[s].kind = kinds[s - seq]
                 /\ entry'[s].saw = saw
           /\ AllItems' = AllItems \cup NewItems(kinds)
           /\ \A s \in AllItems : s <= seq
           /\ \A s \in NewItems(kinds) : s > seq /\ s <= seq'
           /\ fifo' = Append(fifo, NewUnit(kinds)) /\ NewUnit(kinds) \in Unit
           /\ NewUnit(kinds).last = seq'
           /\ ticket' = [ticket EXCEPT ![seq'] = "wait"]
<1>1. /\ kinds \in Seq(Kinds) /\ kinds # <<>> /\ Room(kinds)
      /\ entry' = Minted(kinds, lastId, saw) /\ seq' = NewUnit(kinds).last
      /\ op.at = "loop" /\ UNCHANGED <<head, pub, held, op, sealed, phase>>
      /\ ~sealed /\ phase # "dead"
      /\ fifo' = Append(fifo, NewUnit(kinds))
      /\ ticket' = [ticket EXCEPT ![seq'] = "wait"]
  BY DEF Sends, Forward, Refuses, Idle
<1>2. NewUnit(kinds) \in Unit
  BY <1>1, NewUnitType DEF Shape
<1>3. DOMAIN kinds = 1..Len(kinds)
  BY <1>1
<1> QED
  BY <1>1, <1>2, <1>3, MintFacts DEF Live

\* What the actor's own append does.
LEMMA AppendSendFacts ==
    ASSUME Shape, EntryInv, AppendSend
    PROVE  /\ Live /\ Live' /\ op.at = "append" /\ op'.at = "await"
           /\ op'.work = op.work /\ op'.then = op.then /\ op'.due = op.due
           /\ fifo = <<>> /\ UNCHANGED <<fifo, head, pub, ticket, turn>>
           /\ seq' = seq + 1 /\ seq' \in Seqs /\ entry'[seq'].kind = op.work[1]
           /\ 1 \in DOMAIN op.work
           /\ \A s \in Seqs : s # seq' => entry'[s] = entry[s]
           /\ AllItems' = AllItems \cup (IF op.work[1] \in ItemKinds THEN {seq'} ELSE {})
           /\ \A s \in AllItems : s <= seq
<1> DEFINE kinds == <<op.work[1]>>
<1>1. /\ kinds \in Seq(Kinds) /\ kinds # <<>> /\ Len(kinds) = 1 /\ op \in Ops
      /\ op.work \in Seq(Kinds) /\ op.work # <<>> /\ op.at = "append"
  BY WorkFront DEF AppendSend
<1>2. /\ Room(kinds) /\ entry' = Minted(kinds, lastId, {}) /\ seq' = NewUnit(kinds).last
      /\ ~sealed /\ phase # "dead" /\ UNCHANGED <<sealed, phase>>
      /\ fifo = <<>> /\ UNCHANGED <<fifo, head, pub, ticket, turn>>
      /\ op' = [op EXCEPT !.at = "await"]
  BY DEF AppendSend, Refuses
<1>3. op'.at = "await" /\ op'.work = op.work /\ op'.then = op.then /\ op'.due = op.due
  BY <1>1, <1>2 DEF Ops
<1>4. /\ kinds[1] = op.work[1] /\ DOMAIN kinds = {1} /\ 1 \in DOMAIN op.work
  BY <1>1
<1> HIDE DEF kinds
<1>5. /\ seq \in Nat /\ seq' = seq + 1 /\ seq' \in Seqs
      /\ \A s \in Seqs : s <= seq \/ s > seq' => entry'[s] = entry[s]
      /\ \A s \in Seqs : s > seq /\ s <= seq' => entry'[s].kind = kinds[s - seq]
      /\ AllItems' = AllItems \cup NewItems(kinds)
      /\ \A s \in AllItems : s <= seq
  <2>1. /\ seq' = seq + Len(kinds) /\ seq' \in Seqs
        /\ \A s \in Seqs : s <= seq \/ s > seq' => entry'[s] = entry[s]
        /\ \A s \in Seqs : s > seq /\ s <= seq' =>
              /\ s - seq \in DOMAIN kinds /\ entry'[s].kind = kinds[s - seq]
              /\ entry'[s].saw = {}
        /\ AllItems' = AllItems \cup NewItems(kinds)
        /\ \A s \in AllItems : s <= seq
    BY <1>1, <1>2, MintFacts, Zenon
  <2>2. seq \in Nat
    BY Ground
  <2> QED
    BY <1>1, <2>1, <2>2
<1>6. NewItems(kinds) = IF op.work[1] \in ItemKinds THEN {seq'} ELSE {}
  <2>1. {j \in DOMAIN kinds : kinds[j] \in ItemKinds}
          = IF op.work[1] \in ItemKinds THEN {1} ELSE {}
    BY <1>4
  <2> QED
    BY <1>5, <2>1 DEF NewItems
<1>7. entry'[seq'].kind = op.work[1] /\ \A s \in Seqs : s # seq' => entry'[s] = entry[s]
  <2>1. seq' > seq /\ seq' <= seq' /\ seq' - seq = 1
    BY <1>5
  <2>2. \A s \in Seqs : s # seq' => s <= seq \/ s > seq'
    BY <1>5 DEF Seqs
  <2> QED
    BY <1>4, <1>5, <2>1, <2>2
<1> QED
  BY <1>1, <1>2, <1>3, <1>4, <1>5, <1>6, <1>7 DEF Live

-----------------------------------------------------------------------------
(* The units on the way to the head belong to the turn.                     *)

LEMMA RunFields ==
    ASSUME NEW work, NEW then
    PROVE  /\ Run(work, then).work = work /\ Run(work, then).then = then
           /\ Run(work, then).at = IF work = <<>> THEN "done" ELSE "append"
           /\ Loop.at = "loop" /\ Loop.then = "loop" /\ Loop.work = <<>>
BY DEF Run, Loop

\* The actor begins a run of appends in its loop.
Begins == \E work, then : /\ op.at = "loop" /\ op' = Run(work, then)
                          /\ work # <<>> \/ then = "end"
                          /\ then = "end" => turn.at = "ended"
                          /\ then \notin {"settle", "respawn"}

\* A command, or the first half of a turn's end.
Receives ==
    /\ UNCHANGED <<logVars, entry, seq, lastId, fifo, pub, ticket, turn>>
    /\ head'.epoch = head.epoch /\ head'.projected = head.projected
    /\ head'.closed = head.closed
    /\ Begins \/ op' = op

LEMMA ReceiveSteps ==
    ASSUME Shape, TurnFinished \/ Command \/ SetPlan \/ SetTodos \/ Steer \/ PromptAwaited \/ FoldNow
    PROVE  Receives
<1>0. head \in Heads
  BY Ground
<1>1. \A k : <<k>> # <<>> /\ \A l : <<k, l>> # <<>>
  OBVIOUS
<1>2. CASE TurnFinished
  <2>1. op.at = "loop" /\ turn.at = "ended" /\ \E work : op' = Run(work, "end")
    BY <1>2, Zenon DEF TurnFinished, Idle
  <2> QED
    BY <1>2, <2>1 DEF TurnFinished, Receives, Begins
<1>3. CASE Command \/ SetPlan \/ SetTodos \/ PromptAwaited \/ FoldNow
  <2>1. Begins
    BY <1>1, <1>3 DEF Command, SetPlan, SetTodos, PromptAwaited, FoldNow, Begins, Idle
  <2>2. /\ head'.epoch = head.epoch /\ head'.projected = head.projected
        /\ head'.closed = head.closed
    BY <1>0, <1>3 DEF Command, SetPlan, SetTodos, PromptAwaited, FoldNow, Heads
  <2> QED
    BY <1>3, <2>1, <2>2 DEF Command, SetPlan, SetTodos, PromptAwaited, FoldNow, Receives
<1>4. CASE Steer
  BY <1>1, <1>4 DEF Steer, Receives, Begins, Idle
<1> QED
  BY <1>2, <1>3, <1>4

\* The actor is done with an arm.
Returns ==
    /\ op.at = "done" /\ op.then \notin {"settle", "end"}
    /\ UNCHANGED <<logVars, entry, seq, lastId, fifo, head, pub, ticket>>
    /\ op' = Loop \/ op' = Run(<<"mark">>, "loop")
    /\ turn' = turn \/ Resets

LEMMA ReturnSteps ==
    ASSUME Shape, Return \/ PlanWritten \/ Spawn \/ NoSpawn
    PROVE  Returns
<1>1. \A at \in {"none", "boundary"} :
        /\ [NoTurn EXCEPT !.at = at].at = at /\ [NoTurn EXCEPT !.at = at].tickets = <<>>
        /\ [NoTurn EXCEPT !.at = at].mine = 0 /\ [NoTurn EXCEPT !.at = at].spec.leaf = 0
        /\ NoTurn.at = "none" /\ NoTurn.tickets = <<>> /\ NoTurn.mine = 0
        /\ NoTurn.spec.leaf = 0
  BY DEF NoTurn
<1>2. turn' = NoTurn \/ turn' = [NoTurn EXCEPT !.at = "boundary"] => Resets
  BY <1>1 DEF Resets
<1> QED
  BY <1>2 DEF Return, PlanWritten, Spawn, NoSpawn, Returns

\* The second half of a turn's end.
Concludes ==
    /\ op.at = "done" /\ op.then = "end"
    /\ UNCHANGED <<logVars, entry, seq, lastId, fifo, head, pub, ticket>>
    /\ \/ /\ turn' = turn
          /\ op' \in {Run(<<"fold">>, "respawn"), Run(<<"mark">>, "respawn")}
       \/ /\ Resets /\ turn'.at = "none"
          /\ op' = Run(<<"mark">>, "loop") \/ (op' = Loop /\ turn.ok)

LEMMA ConcludeStep ==
    ASSUME EndTurn
    PROVE  Concludes
<1>1. turn' = NoTurn => Resets /\ turn'.at = "none"
  BY DEF NoTurn, Resets
<1> QED
  BY <1>1 DEF EndTurn, Concludes

LEMMA TailElems ==
    ASSUME Shape, GateInv, fifo # <<>>
    PROVE  /\ Front(fifo) \in Elems(fifo) /\ Front(fifo) \in Unit /\ Front(fifo).last \in Seqs
           /\ \A u \in Elems(Tail(fifo)) : /\ u \in Elems(fifo) /\ u \in Unit
                                           /\ Front(fifo).last < u.last
<1>1. /\ fifo \in Seq(Unit) /\ Front(fifo) \in Elems(fifo) /\ Front(fifo) = fifo[1]
      /\ Elems(Tail(fifo)) \subseteq Elems(fifo) /\ DOMAIN Tail(fifo) = 1..Len(fifo) - 1
      /\ DOMAIN fifo = 1..Len(fifo) /\ Len(fifo) \in Nat
      /\ \A i \in DOMAIN Tail(fifo) : i + 1 \in DOMAIN fifo /\ Tail(fifo)[i] = fifo[i + 1]
  BY Ground, FrontAndTail, TailFacts
<1>2. \A u \in Elems(fifo) : u \in Unit
  BY <1>1 DEF Elems
<1>3. ASSUME NEW u \in Elems(Tail(fifo))
      PROVE  Front(fifo).last < u.last
  <2>1. PICK i \in DOMAIN Tail(fifo) : u = Tail(fifo)[i]
    BY DEF Elems
  <2>2. 1 \in DOMAIN fifo /\ i + 1 \in DOMAIN fifo /\ 1 < i + 1 /\ u = fifo[i + 1]
    BY <1>1, <2>1
  <2> QED
    BY <1>1, <2>2 DEF GateInv
<1>4. Front(fifo).last \in Seqs
  BY <1>1, <1>2 DEF Unit
<1> QED
  BY <1>1, <1>2, <1>3, <1>4

\* What the actor does with its FIFO.
LEMMA OwnedSettles ==
    ASSUME Shape, GateInv, OwnedInv, AckArm \/ Drain
    PROVE  OwnedInv'
<1>0. /\ fifo # <<>> /\ fifo' = Tail(fifo) /\ turn' = turn /\ op \in Ops
      /\ ticket \in [Seqs -> {"none", "wait", "ok", "sealed", "aborted"}]
  BY Ground DEF AckArm, Drain, FrontAnswered
<1>1. /\ Front(fifo) \in Elems(fifo) /\ Front(fifo) \in Unit /\ Front(fifo).last \in Seqs
      /\ \A u \in Elems(Tail(fifo)) : /\ u \in Elems(fifo) /\ u \in Unit
                                      /\ Front(fifo).last < u.last
  BY <1>0, TailElems
<1>2. Elems(fifo)' = Elems(Tail(fifo))
  BY <1>0, Zenon
<1>3. \A u \in Unit : u.last \in Seqs /\ u.last \in Nat
  BY UnitNumbers, BoundsAreNats DEF Seqs
<1>4. CASE AckArm
  <2>1. /\ op.at = "loop" /\ ticket' = ticket
        /\ op'.then = "settle" /\ op'.due = Front(fifo).last /\ op'.at \in {"append", "done"}
    BY <1>4 DEF AckArm, Run, Loop
  <2>2. ticket[Front(fifo).last] = "wait"
        /\ (Front(fifo).last \in Elems(turn.tickets) \/ Orphaned)
    BY <1>1 DEF OwnedInv
  <2>3. \A u \in Elems(fifo) : ticket[u.last] = "wait"
                               /\ (u.last \in Elems(turn.tickets) \/ Orphaned)
    BY DEF OwnedInv
  <2>4. Orphaned => Panics /\ turn.at = "ended" /\ ~turn.ok
    BY <2>1 DEF Orphaned
  <2>5. Panics /\ turn.at = "ended" /\ ~turn.ok => Orphaned'
    BY <1>0 DEF Orphaned
  <2> QED
    BY <1>0, <1>1, <1>2, <2>1, <2>2, <2>3, <2>4, <2>5 DEF OwnedInv
<1>5. CASE Drain
  <2>1. /\ op.at = "append" /\ op' = op /\ pub' = head'
        /\ \A s \in Seqs : s # Front(fifo).last => ticket'[s] = ticket[s]
    BY <1>0, <1>1, <1>5 DEF Drain
  <2>2. Orphaned' = Orphaned
    BY <1>0, <2>1 DEF Orphaned
  <2>3. \A u \in Elems(Tail(fifo)) : ticket'[u.last] = ticket[u.last]
    BY <1>1, <1>3, <2>1
  <2>4. op.then = "settle" => ticket'[op.due] = ticket[op.due] /\ op.due \in Seqs
    <3>1. op.then = "settle" => op.due < Front(fifo).last /\ op.due \in Seqs
      BY <1>1 DEF OwnedInv
    <3>2. op.then = "settle" => op.due # Front(fifo).last
      BY <1>1, <1>3, <3>1 DEF Seqs
    <3> QED
      BY <2>1, <3>1, <3>2
  <2> QED
    BY <1>0, <1>1, <1>2, <2>1, <2>2, <2>3, <2>4 DEF OwnedInv
<1> QED
  BY <1>4, <1>5

LEMMA OwnedArms ==
    ASSUME Shape, GateInv, OwnedInv, Settle \/ Returns \/ Concludes \/ Receives
    PROVE  OwnedInv'
<1>0. /\ op \in Ops /\ fifo' = fifo /\ Elems(fifo)' = Elems(fifo) /\ fifo \in Seq(Unit)
      /\ Elems(<<>>) = {}
      /\ ticket \in [Seqs -> {"none", "wait", "ok", "sealed", "aborted"}]
  <2>1. fifo' = fifo
    BY DEF Settle, Returns, Concludes, Receives
  <2>2. Elems(<<>>) = {}
    BY DEF Elems
  <2> QED
    BY <2>1, <2>2, Ground, Zenon
<1>l. Loop.at = "loop" /\ Loop.then = "loop"
  BY RunFields
<1>m. /\ Run(<<"mark">>, "loop").at = "append" /\ Run(<<"mark">>, "loop").then = "loop"
      /\ Run(<<"mark">>, "respawn").at = "append" /\ Run(<<"mark">>, "respawn").then = "respawn"
      /\ Run(<<"fold">>, "respawn").at = "append" /\ Run(<<"fold">>, "respawn").then = "respawn"
  BY RunFields
<1>1. CASE Settle
  <2>1. /\ op.then = "settle" /\ op.at = "done" /\ op' = Loop /\ pub' = head /\ head' = head
        /\ turn' = turn /\ ticket' = [ticket EXCEPT ![op.due] = op.verdict]
    BY <1>1 DEF Settle
  <2>2. \A u \in Elems(fifo) : u.last # op.due /\ u.last \in Seqs
    <3>1. \A u \in Elems(fifo) : u \in Unit /\ op.due < u.last
      BY <1>0, <2>1 DEF OwnedInv, Elems
    <3>2. op.due \in Nat
      BY <2>1 DEF OwnedInv, Seqs
    <3> QED
      BY <3>1, <3>2, UnitNumbers
  <2>3. \A u \in Elems(fifo) : ticket'[u.last] = "wait"
    BY <1>0, <2>1, <2>2 DEF OwnedInv
  <2>4. \A u \in Elems(fifo) : u.last \in Elems(turn.tickets) \/ Orphaned'
    BY <2>1 DEF OwnedInv, Orphaned
  <2> QED
    BY <1>0, <1>l, <2>1, <2>3, <2>4 DEF OwnedInv
<1>2. CASE Returns
  <2>1. fifo = <<>> /\ pub.epoch = head.epoch /\ op.then # "settle"
    BY <1>2 DEF Returns, OwnedInv
  <2>2. op'.then = "loop" /\ op'.at # "done"
    BY <1>2, <1>l, <1>m DEF Returns
  <2>3. UNCHANGED <<head, pub, ticket>> /\ (turn' = turn \/ turn'.tickets = <<>>)
    BY <1>2 DEF Returns, Resets
  <2> QED
    BY <1>0, <2>1, <2>2, <2>3 DEF OwnedInv
<1>3. CASE Concludes
  <2>1. /\ op.at = "done" /\ op.then = "end" /\ UNCHANGED <<head, pub, ticket>>
        /\ turn.at = "ended" /\ turn.tickets = <<>> /\ pub.epoch = head.epoch
    BY <1>3 DEF Concludes, OwnedInv
  <2>2. \A u \in Elems(fifo) : ticket[u.last] = "wait" /\ ~turn.ok /\ Panics
    BY <1>0, <2>1 DEF OwnedInv, Orphaned
  <2>3. CASE turn' = turn /\ op'.at = "append" /\ op'.then = "respawn"
    BY <1>0, <2>1, <2>2, <2>3 DEF OwnedInv, Orphaned
  <2>4. CASE turn'.at = "none" /\ turn'.tickets = <<>> /\ op'.at = "append" /\ op'.then = "loop"
    BY <1>0, <2>1, <2>2, <2>4 DEF OwnedInv, Orphaned
  <2>5. CASE turn'.at = "none" /\ turn'.tickets = <<>> /\ op' = Loop /\ turn.ok
    <3>1. \A u \in Elems(fifo) : FALSE
      BY <2>2, <2>5
    <3> QED
      BY <1>0, <1>l, <2>1, <2>5, <3>1 DEF OwnedInv
  <2> QED
    BY <1>3, <1>l, <1>m, <2>3, <2>4, <2>5 DEF Concludes, Resets
<1>4. CASE Receives
  <2>1. /\ UNCHANGED <<pub, ticket, turn>> /\ head'.epoch = head.epoch
    BY <1>4 DEF Receives
  <2>2. CASE op' = op
    BY <1>0, <2>1, <2>2 DEF OwnedInv, Orphaned
  <2>3. CASE Begins
    <3>1. PICK work, then : /\ op.at = "loop" /\ op' = Run(work, then)
                            /\ work # <<>> \/ then = "end"
                            /\ then = "end" => turn.at = "ended"
                            /\ then \notin {"settle", "respawn"}
      BY <2>3 DEF Begins
    <3>2. /\ op'.then = then /\ op'.at \in {"append", "done"} /\ op.then = "loop"
          /\ op'.at = "done" => then = "end"
      BY <3>1, RunFields DEF OwnedInv
    <3>3. \A u \in Elems(fifo) : u.last \in Elems(turn.tickets) \/ Orphaned'
      BY <2>1, <3>1 DEF OwnedInv, Orphaned
    <3> QED
      BY <1>0, <2>1, <3>1, <3>2, <3>3 DEF OwnedInv
  <2> QED
    BY <1>4, <2>2, <2>3 DEF Receives
<1> QED
  BY <1>1, <1>2, <1>3, <1>4

\* The actor gives up a run, or goes on with it.
LEMMA AppendFails ==
    ASSUME Shape, GateInv, AppendRefused \/ AppendErr
    PROVE  /\ fifo = <<>> /\ op'.at = "done" /\ op'.then = op.then /\ op'.due = op.due
           /\ op'.work = <<>> /\ op.at \in {"append", "await"}
           /\ UNCHANGED <<phase, entry, fifo, head, pub, ticket, turn>>
           /\ sealed' /\ seq' >= seq
<1>1. op \in Ops /\ seq \in Nat /\ fifo = <<>> /\ op.at \in {"append", "await"}
  BY Ground DEF AppendRefused, AppendErr, GateInv
<1>2. op'.at = "done" /\ op'.then = op.then /\ op'.due = op.due /\ op'.work = <<>>
  BY <1>1 DEF AppendRefused, AppendErr, GiveUp, Ops
<1>3. UNCHANGED <<phase, entry, fifo, head, pub, ticket, turn>> /\ sealed' = TRUE
  BY DEF AppendRefused, AppendErr, ForwardRefused
<1>4. seq' >= seq
  <2>1. CASE AppendRefused
    BY <1>1, <2>1 DEF AppendRefused, ForwardRefused
  <2>2. CASE AppendErr
    BY <1>1, <2>2 DEF AppendErr
  <2> QED
    BY <2>1, <2>2
<1> QED
  BY <1>1, <1>2, <1>3, <1>4

LEMMA AppendLands ==
    ASSUME Shape, GateInv, AppendOk
    PROVE  /\ op.at = "await" /\ fifo = <<>> /\ op'.at \in {"append", "done"}
           /\ op'.then = op.then /\ op'.due = op.due /\ op'.work = Tail(op.work)
           /\ op.work # <<>> /\ op.work \in Seq(Kinds)
           /\ head'.epoch = seq /\ head'.closed = head.closed /\ head'.todos = head.todos
           /\ pub' = head' /\ lastId' = seq
           /\ UNCHANGED <<logVars, entry, seq, fifo, ticket, turn>>
<1>1. op \in Ops /\ op.at = "await" /\ fifo = <<>> /\ head \in Heads
      /\ op.work # <<>> /\ op.work \in Seq(Kinds)
  BY Ground, WorkFront DEF AppendOk, GateInv
<1>2. /\ op'.at \in {"append", "done"} /\ op'.then = op.then /\ op'.due = op.due
      /\ op'.work = Tail(op.work)
  BY <1>1 DEF AppendOk, Ops
<1>3. /\ head'.epoch = seq /\ head'.closed = head.closed /\ head'.todos = head.todos
  BY <1>1 DEF AppendOk, Advance, Heads
<1> QED
  BY <1>1, <1>2, <1>3 DEF AppendOk

LEMMA OwnedAppends ==
    ASSUME Shape, EntryInv, GateInv, OwnedInv,
           AppendSend \/ AppendRefused \/ AppendErr \/ AppendOk
    PROVE  OwnedInv'
<1>1. /\ fifo = <<>> /\ fifo' = <<>> /\ op'.then = op.then /\ op'.due = op.due
      /\ UNCHANGED <<ticket, turn>> /\ op.at # "loop" /\ op'.at # "loop"
      /\ pub' = head' \/ UNCHANGED <<head, pub>>
  <2>1. CASE AppendSend
    BY <2>1, AppendSendFacts
  <2>2. CASE AppendRefused \/ AppendErr
    BY <2>2, AppendFails
  <2>3. CASE AppendOk
    BY <2>3, AppendLands
  <2> QED
    BY <2>1, <2>2, <2>3
<1>2. \A u \in Elems(fifo') : FALSE
  BY <1>1 DEF Elems
<1> QED
  BY <1>1, <1>2 DEF OwnedInv

\* Tickets of the turn that are still out stay with it.
LEMMA OwnedPonders ==
    ASSUME Shape, OwnedInv, Ponders
    PROVE  OwnedInv'
<1>1. /\ UNCHANGED <<op, fifo, ticket, head, pub>> /\ Elems(fifo)' = Elems(fifo)
      /\ turn.tickets \in Seq(Seqs) /\ Elems(<<>>) = {}
  <2>1. UNCHANGED <<op, fifo, ticket, head, pub>>
    BY DEF Ponders, actorVars
  <2>2. Elems(<<>>) = {}
    BY DEF Elems
  <2>3. turn.tickets \in Seq(Seqs)
    BY DEF Shape, TypeOK, TurnTypeOK, Turns
  <2> QED
    BY <2>1, <2>2, <2>3, Zenon
<1>2. CASE Resolves
  <2>1. /\ Elems(turn.tickets) = {turn.tickets[1]} \cup Elems(Tail(turn.tickets))
        /\ turn'.tickets = Tail(turn.tickets) /\ turn'.at = turn.at
        /\ turn.at \notin {"none", "sampling", "ended"}
        /\ ticket[turn.tickets[1]] # "wait"
    BY <1>1, <1>2, FrontAndTail DEF Resolves, Front
  <2>2. Elems(turn'.tickets) = Elems(Tail(turn.tickets))
    BY <2>1, Zenon
  <2>3. ~Orphaned
    BY <2>1 DEF Orphaned
  <2> QED
    BY <1>1, <2>1, <2>2, <2>3 DEF OwnedInv
<1>3. CASE Panics /\ turn'.at = "ended" /\ ~turn'.ok /\ turn'.tickets = <<>>
  BY <1>1, <1>3 DEF OwnedInv, Orphaned
<1>4. CASE /\ turn'.tickets = turn.tickets /\ turn.at \notin {"none", "ended"}
           /\ turn'.at \in {"sampling", "ended"} => turn.tickets = <<>>
           /\ turn'.at # "none"
  <2>1. ~Orphaned /\ Elems(turn'.tickets) = Elems(turn.tickets)
    BY <1>4, Zenon DEF Orphaned
  <2> QED
    BY <1>1, <1>4, <2>1 DEF OwnedInv
<1> QED
  BY <1>1, <1>2, <1>3, <1>4 DEF Ponders, Ends, Refreshes, Goes, Resets

\* The fast path of a prompt proposes for the turn it spawns.
Prompts ==
    /\ Sends(<<"user">>, {}) /\ turn.at = "none"
    /\ turn'.at = "boundary" /\ turn'.tickets = <<seq'>> /\ turn'.mine = seq'
    /\ turn'.spec.leaf = seq'
    /\ turn'.spec.snap.items = Snapshot(head).items \cup {seq'}

LEMMA PromptMoves ==
    ASSUME Shape, PromptFast
    PROVE  Prompts \/ (Burns /\ turn' = turn)
<1>1. turn.at = "none" /\ Idle /\ UNCHANGED <<head, pub, held, op>>
  BY DEF PromptFast
<1>2. CASE Forward(<<"user">>, {})
           /\ turn' = [NoTurn EXCEPT
                 !.at = "boundary", !.tickets = <<seq'>>, !.mine = seq',
                 !.spec = [leaf |-> seq',
                           snap |-> [Snapshot(head) EXCEPT !.items = @ \cup {seq'}]]]
  <2> DEFINE spec == [leaf |-> seq', snap |-> [Snapshot(head) EXCEPT !.items = @ \cup {seq'}]]
  <2>1. spec.leaf = seq' /\ spec.snap.items = Snapshot(head).items \cup {seq'}
    BY DEF Snapshot
  <2>2. turn' = [NoTurn EXCEPT !.at = "boundary", !.tickets = <<seq'>>, !.mine = seq', !.spec = spec]
    BY <1>2
  <2> HIDE DEF spec
  <2>3. turn'.at = "boundary" /\ turn'.tickets = <<seq'>> /\ turn'.mine = seq' /\ turn'.spec = spec
    BY <2>2 DEF NoTurn
  <2>4. Sends(<<"user">>, {})
    BY <1>1, <1>2, KindsType DEF Sends
  <2> QED
    BY <1>1, <2>1, <2>3, <2>4 DEF Prompts
<1>3. CASE ForwardRefused(<<"user">>) /\ turn' = turn
  <2>1. seq' >= seq
    BY <1>3, Ground DEF ForwardRefused
  <2> QED
    BY <1>1, <1>3, <2>1 DEF Burns, ForwardRefused
<1> QED
  BY <1>2, <1>3 DEF PromptFast

\* A forwarded unit is the turn's.
LEMMA OwnedSends ==
    ASSUME Shape, Shape', UnitsInv, EntryInv, OwnedInv, NEW kinds, NEW saw, Sends(kinds, saw),
           turn'.at \notin {"none", "sampling", "ended"},
           NEW q \in Seq(Seqs), turn'.tickets = Append(q, seq'),
           \A u \in Elems(fifo) : u.last \in Elems(q)
    PROVE  OwnedInv'
<1>1. /\ op.at = "loop" /\ UNCHANGED <<op, head, pub>> /\ seq' \in Seqs /\ seq' > seq
      /\ fifo' = Append(fifo, NewUnit(kinds)) /\ NewUnit(kinds) \in Unit
      /\ NewUnit(kinds).last = seq' /\ ticket' = [ticket EXCEPT ![seq'] = "wait"]
      /\ fifo \in Seq(Unit) /\ seq \in Nat
      /\ ticket \in [Seqs -> {"none", "wait", "ok", "sealed", "aborted"}]
  BY SendFacts, Ground
<1>2. Elems(Append(fifo, NewUnit(kinds))) = Elems(fifo) \cup {NewUnit(kinds)}
  BY <1>1, AppendElems
<1>3. Elems(fifo)' = Elems(fifo) \cup {NewUnit(kinds)}
  BY <1>1, <1>2, Zenon
<1>4. Elems(Append(q, seq')) = Elems(q) \cup {seq'}
  BY <1>1, AppendElems
<1>5. Elems(turn'.tickets) = Elems(q) \cup {seq'}
  BY <1>4, Zenon
<1>6. \A u \in Elems(fifo) : ticket'[u.last] = "wait"
  <2>1. \A u \in Elems(fifo) : ticket[u.last] = "wait" /\ u \in Unit
    BY <1>1 DEF OwnedInv, Elems
  <2> QED
    BY <1>1, <2>1, UnitNumbers
<1>7. op.then = "loop"
  BY <1>1 DEF OwnedInv
<1> QED
  BY <1>1, <1>3, <1>5, <1>6, <1>7 DEF OwnedInv

LEMMA OwnedStep ==
    ASSUME Interrupts = FALSE, Shape, Shape', UnitsInv, GateInv, EntryInv, OwnedInv, [Next]_vars
    PROVE  OwnedInv'
<1>1. CASE Writer \/ WriterFails \/ WriterDies \/ UNCHANGED vars \/ (Burns /\ (turn' = turn \/ Ends))
  <2>1. UNCHANGED <<fifo, op, head, pub, ticket>>
    BY <1>1 DEF Writer, WriterTake, WriterWrite, WriterSync, WriterAck, WriterFails,
                WriterDies, actorVars, vars, Burns
  <2>2. turn' = turn \/ Ends
    BY <1>1 DEF Writer, WriterTake, WriterWrite, WriterSync, WriterAck, WriterFails,
                WriterDies, vars
  <2>3. CASE turn' = turn
    BY <2>1, <2>3 DEF OwnedInv, Orphaned, Elems
  <2>4. CASE Ends
    <3>1. ~Orphaned /\ Elems(turn'.tickets) = Elems(turn.tickets) /\ Elems(fifo)' = Elems(fifo)
      BY <2>1, <2>4, Zenon DEF Orphaned, Ends
    <3> QED
      BY <2>1, <2>4, <3>1 DEF OwnedInv, Ends
  <2> QED
    BY <2>2, <2>3, <2>4
<1>2. CASE Crash
  <2>1. /\ fifo' = <<>> /\ op' = Loop /\ turn' = NoTurn /\ pub' = head' /\ Elems(<<>>) = {}
        /\ NoTurn.tickets = <<>> /\ NoTurn.at = "none"
    BY <1>2 DEF Crash, Elems, NoTurn
  <2>2. \A u \in Elems(fifo') : FALSE
    BY <2>1
  <2> QED
    BY <2>1, <2>2, RunFields DEF OwnedInv
<1>3. CASE Prompts
  <2>1. \A u \in Elems(fifo) : FALSE
    BY <1>3 DEF Prompts, Sends, Idle, OwnedInv, Orphaned, Elems
  <2>2. Append(<<>>, seq') = <<seq'>> /\ <<>> \in Seq(Seqs)
    OBVIOUS
  <2> QED
    BY <1>3, <2>1, <2>2, OwnedSends DEF Prompts
<1>4. CASE Proposes
  <2>1. PICK kinds, saw : Sends(kinds, saw) /\ turn'.tickets = Append(turn.tickets, seq')
                          /\ turn'.at \in {"calls", "boundary", "finishing", "replied"}
                          /\ turn.at \in {"sampling", "tools", "replied"}
    BY <1>4 DEF Proposes
  <2>2. turn.tickets \in Seq(Seqs)
    BY DEF Shape, TypeOK, TurnTypeOK, Turns
  <2>3. ~Orphaned
    BY <1>4 DEF Proposes, Orphaned, Sends, Idle
  <2> QED
    BY <2>1, <2>2, <2>3, OwnedSends DEF OwnedInv
<1>5. CASE Continue
  <2>1. /\ op.at = "loop" /\ turn.at = "none" /\ UNCHANGED <<op, fifo, ticket, head, pub>>
        /\ turn'.at = "boundary" /\ turn'.tickets = <<>>
    BY <1>5 DEF Continue, actorVars, NoTurn, Idle
  <2>2. fifo = <<>>
    <3>1. ~Orphaned /\ turn.tickets = <<>> /\ \A u \in Elems(<<>>) : FALSE
      BY <2>1 DEF OwnedInv, Orphaned, Elems
    <3>2. \A u \in Elems(fifo) : FALSE
      BY <3>1 DEF OwnedInv
    <3> QED
      BY <3>2, Ground, TailFacts
  <2>3. \A u \in Elems(fifo') : FALSE
    BY <2>1, <2>2 DEF Elems
  <2> QED
    BY <2>1, <2>3 DEF OwnedInv
<1>6. CASE AckArm \/ Drain
  BY <1>6, OwnedSettles
<1>7. CASE AppendSend \/ AppendRefused \/ AppendErr \/ AppendOk
  BY <1>7, OwnedAppends
<1>8. CASE Settle \/ Return \/ PlanWritten \/ Spawn \/ NoSpawn \/ EndTurn \/ TurnFinished
            \/ Command \/ SetPlan \/ SetTodos \/ Steer \/ PromptAwaited \/ FoldNow
  BY <1>8, OwnedArms, ReturnSteps, ConcludeStep, ReceiveSteps
<1>9. CASE Turn \/ Panic \/ PromptFast
  BY <1>1, <1>3, <1>4, <1>9, TurnMoves, PromptMoves, OwnedPonders
<1> QED
  BY <1>1, <1>2, <1>5, <1>6, <1>7, <1>8, <1>9 DEF Next, Actor, Commands, FoldInterrupted

-----------------------------------------------------------------------------
(* The entries.                                                             *)

\* Nothing is minted; a number is burned only by a log that takes no more entries.
Still == UNCHANGED entry /\ seq' >= seq /\ (Live' => Live /\ seq' = seq)

\* The turn rests, ends, starts anew or goes on by itself.
Rests == turn' = turn \/ Ends \/ Resets \/ Ponders

LEMMA EntrySteps ==
    ASSUME Interrupts = FALSE, Shape, UnitsInv, DurableInv, GateInv, [Next]_vars
    PROVE  \/ Crash
           \/ /\ head'.closed = head.closed /\ head'.epoch >= head.epoch
              /\ (Still /\ Rests) \/ AppendSend \/ Prompts \/ Proposes
<1>0. seq \in Nat /\ head.epoch \in Nat /\ head \in Heads
  BY Ground
<1>1. CASE Writer \/ WriterFails \/ WriterDies
  <2>1. UNCHANGED <<entry, seq, head, turn>> /\ phase # "dead" /\ (sealed => sealed')
    BY <1>1 DEF Writer, WriterTake, WriterWrite, WriterSync, WriterAck, WriterFails,
                WriterDies, actorVars
  <2> QED
    BY <1>0, <2>1 DEF Still, Live, Rests
<1>2. CASE AckArm \/ Drain
  <2>1. PICK tell \in {"ok", "aborted"} : fifo # <<>> /\ head' = SettleFront(tell).head
    BY <1>2 DEF AckArm, Drain, FrontAnswered
  <2>2. UNCHANGED <<entry, seq, sealed, phase, turn>>
    BY <1>2 DEF AckArm, Drain, logVars
  <2>3. \/ head' = head
        \/ head' = Advance(head, Front(fifo)) /\ head.epoch < Front(fifo).last
    BY <2>1, SettleFacts
  <2>4. Advance(head, Front(fifo)).closed = head.closed
        /\ Advance(head, Front(fifo)).epoch = Front(fifo).last
    BY <1>0 DEF Advance, Heads
  <2>5. fifo # <<>> => Front(fifo).last \in Nat
    BY SettleFacts DEF Seqs
  <2> QED
    BY <1>0, <2>1, <2>2, <2>3, <2>4, <2>5 DEF Still, Live, Rests
<1>3. CASE AppendSend
  BY <1>0, <1>3 DEF AppendSend
<1>4. CASE AppendRefused \/ AppendErr \/ (Burns /\ (turn' = turn \/ Ends))
  <2>1. UNCHANGED <<entry, head>> /\ sealed' /\ seq' >= seq /\ (turn' = turn \/ Ends)
    BY <1>4, AppendFails DEF Burns
  <2> QED
    BY <1>0, <2>1 DEF Still, Live, Rests
<1>5. CASE AppendOk
  <2>1. /\ head'.epoch = seq /\ head'.closed = head.closed
        /\ UNCHANGED <<logVars, entry, seq, turn>>
    BY <1>5, AppendLands
  <2> QED
    BY <1>0, <2>1 DEF Still, Live, Rests, logVars, GateInv
<1>6. CASE \/ Settle \/ Return \/ PlanWritten \/ Spawn \/ NoSpawn \/ EndTurn \/ TurnFinished
           \/ Command \/ SetPlan \/ SetTodos \/ Steer \/ PromptAwaited \/ FoldNow
           \/ Continue \/ UNCHANGED vars \/ Ponders
  <2>1. UNCHANGED <<logVars, entry, seq>>
    BY <1>6, ReceiveSteps
       DEF Receives, Settle, Return, PlanWritten, Spawn, NoSpawn, EndTurn, TurnFinished, Continue,
           vars, Ponders, actorVars
  <2>2. head'.closed = head.closed /\ head'.epoch = head.epoch
    BY <1>6, ReceiveSteps
       DEF Receives, Settle, Return, PlanWritten, Spawn, NoSpawn, EndTurn, TurnFinished, Continue,
           vars, Ponders, actorVars
  <2>3. Rests
    <3>1. CASE Return \/ PlanWritten \/ Spawn \/ NoSpawn \/ EndTurn
      BY <3>1, ReturnSteps, ConcludeStep DEF Returns, Concludes, Rests
    <3>2. CASE Continue
      BY <3>2 DEF Continue, Resets, NoTurn, Rests
    <3>3. CASE \/ TurnFinished \/ Command \/ SetPlan \/ SetTodos \/ Steer
               \/ PromptAwaited \/ FoldNow
      BY <3>3, ReceiveSteps DEF Receives, Rests
    <3>4. CASE Settle \/ UNCHANGED vars \/ Ponders
      BY <3>4 DEF Settle, vars, Rests
    <3> QED
      BY <1>6, <3>1, <3>2, <3>3, <3>4
  <2> QED
    BY <1>0, <2>1, <2>2, <2>3 DEF Still, Live, logVars
<1>7. CASE Prompts \/ Proposes
  BY <1>0, <1>7 DEF Sends, Prompts, Proposes
<1>8. CASE Turn \/ Panic \/ PromptFast
  BY <1>4, <1>6, <1>7, <1>8, TurnMoves, PromptMoves
<1> QED
  BY <1>1, <1>2, <1>3, <1>4, <1>5, <1>6, <1>8 DEF Next, Actor, Commands, FoldInterrupted

LEMMA EntryStep ==
    ASSUME Interrupts = FALSE, Shape, Shape', UnitsInv, DurableInv, QueueInv, GateInv, FileInv, EntryInv,
           [Next]_vars
    PROVE  EntryInv'
<1>0. /\ seq \in Nat /\ seq' \in Nat /\ head.epoch \in Nat /\ head'.epoch \in Nat
      /\ head \in Heads
  <2>1. seq' \in Nat /\ head'.epoch \in Nat
    BY BoundsAreNats DEF Shape, TypeOK, PipelineTypeOK, HeadTypeOK, Heads
  <2> QED
    BY <2>1, Ground
<1>n. \A s \in Seqs : s \in Nat
  BY DEF Seqs
<1>1. CASE Crash
  <2>1. PICK n \in good..Len(file) :
          /\ file' = SubSeq(file, 1, n) /\ seq' = n
          /\ head'.epoch = n /\ head'.closed = Dangling(SubSeq(file, 1, n))
          /\ entry' = [s \in Seqs |-> IF s <= n THEN entry[s] ELSE NoEntry]
    BY <1>1 DEF Crash
  <2>2. /\ file \in Seq(Seqs) /\ n \in 0..Len(file) /\ Len(file) \in Nat /\ n \in Nat
        /\ \A i \in 1..Len(file) : file[i] = i
    <3>1. /\ file \in Seq(Seqs) /\ Len(file) \in Nat /\ good \in 0..Len(file)
          /\ DOMAIN file = 1..Len(file)
      BY Ground
    <3>2. n \in 0..Len(file) /\ n \in Nat
      BY <2>1, <3>1
    <3> QED
      BY <3>1, <3>2 DEF FileInv
  <2> DEFINE p == SubSeq(file, 1, n)
  <2>3. p \in Seq(Seqs) /\ Len(p) = n /\ DOMAIN p = 1..n /\ \A i \in 1..n : p[i] = i
    BY <2>2
  <2> HIDE DEF p
  <2>4. \A s \in Dangling(p) : s <= n
    BY <2>2, <2>3 DEF Dangling
  <2>5. \A s \in Seqs : s > seq' => entry'[s].kind = "none"
    BY <1>n, <2>1, <2>2 DEF NoEntry
  <2> QED
    BY <2>1, <2>4, <2>5 DEF EntryInv, p
<1>2. CASE head'.closed = head.closed /\ head'.epoch >= head.epoch /\ Still
  <2>1. \A s \in head.closed : s \in Nat /\ s <= head'.epoch
    BY <1>0, <1>n, <1>2 DEF EntryInv, Heads
  <2>2. \A s \in Seqs : s > seq' => entry'[s].kind = "none"
    BY <1>0, <1>n, <1>2 DEF EntryInv, Still
  <2> QED
    BY <1>2, <2>1, <2>2 DEF EntryInv
<1>3. ASSUME head'.closed = head.closed /\ head'.epoch >= head.epoch,
             AppendSend \/ \E kinds, saw : Sends(kinds, saw)
      PROVE  EntryInv'
  <2>1. seq' > seq /\ \A s \in Seqs : s > seq' => entry'[s] = entry[s]
    <3>1. CASE AppendSend
      BY <1>0, <1>n, <3>1, AppendSendFacts
    <3>2. ASSUME NEW kinds, NEW saw, Sends(kinds, saw)
          PROVE  seq' > seq /\ \A s \in Seqs : s > seq' => entry'[s] = entry[s]
      BY <3>2, SendFacts
    <3> QED
      BY <1>3, <3>1, <3>2
  <2>2. \A s \in head.closed : s \in Nat /\ s <= head'.epoch
    BY <1>0, <1>n, <1>3 DEF EntryInv, Heads
  <2>3. \A s \in Seqs : s > seq' => s > seq
    BY <1>0, <1>n, <2>1
  <2> QED
    BY <1>3, <2>1, <2>2, <2>3 DEF EntryInv
<1>4. Prompts \/ Proposes => \E kinds, saw : Sends(kinds, saw)
  BY DEF Prompts, Proposes
<1> QED
  BY <1>1, <1>2, <1>3, <1>4, EntrySteps

-----------------------------------------------------------------------------
(* What the actor appends.                                                  *)

LEMMA OwnKindFacts ==
    /\ OwnKinds \subseteq ItemKinds /\ "steer" \in OwnKinds
    /\ "mark" \notin OwnKinds /\ "todos" \notin OwnKinds
    /\ OwnItems \subseteq AllItems
    /\ ~PlanToggles => OwnItems = AllItems
BY DEF OwnKinds, OwnItems, AllItems, ItemKinds

\* Nobody but a turn commits an assistant item, and while one is at work nobody
\* else begins to commit an item that is a turn's own to commit.
WorkBegins ==
    /\ op.at = "loop" /\ op'.at \in {"append", "done"} /\ turn' = turn
    /\ \A i \in DOMAIN op'.work : op'.work[i] \notin {"call", "reply"}
    /\ turn.at \notin {"none", "ended"} =>
          \A i \in DOMAIN op'.work : op'.work[i] \notin OwnKinds

LEMMA WorkBeginnings ==
    ASSUME Shape,
           TurnFinished \/ Command \/ SetPlan \/ SetTodos \/ Steer \/ PromptAwaited \/ FoldNow
    PROVE  WorkBegins \/ (op' = op /\ turn' = turn)
<1>k. "mark" \notin OwnKinds /\ "todos" \notin OwnKinds
  BY OwnKindFacts
<1>1. CASE TurnFinished
  <2> DEFINE first == IF Awaiting(head) THEN <<"results">> ELSE <<>>
             steers == [i \in 1..held |-> "steer"]
  <2>1. /\ op.at = "loop" /\ turn.at = "ended" /\ turn' = turn
        /\ op' = Run(first \o steers, "end")
    BY <1>1 DEF TurnFinished, Idle
  <2>2. first \in Seq({"results", "steer"}) /\ steers \in Seq({"results", "steer"})
    <3>1. held \in Nat
      BY BoundsAreNats DEF Shape, TypeOK, OpTypeOK
    <3>2. steers \in Seq({"results", "steer"})
      BY <3>1
    <3>3. <<"results">> \in Seq({"results", "steer"}) /\ <<>> \in Seq({"results", "steer"})
      OBVIOUS
    <3> QED
      BY <3>2, <3>3
  <2> HIDE DEF first, steers
  <2>3. \A i \in DOMAIN (first \o steers) : (first \o steers)[i] \in {"results", "steer"}
    <3> DEFINE w == first \o steers
    <3>1. w \in Seq({"results", "steer"})
      BY <2>2
    <3> HIDE DEF w
    <3>2. \A i \in DOMAIN w : w[i] \in {"results", "steer"}
      BY <3>1
    <3> QED
      BY <3>2 DEF w
  <2>4. op'.work = first \o steers /\ op'.at \in {"append", "done"}
    <3> DEFINE w == first \o steers
    <3>1. op' = Run(w, "end")
      BY <2>1
    <3> HIDE DEF w
    <3>2. op'.work = w /\ op'.at \in {"append", "done"}
      BY <3>1, RunFields
    <3> QED
      BY <3>2 DEF w
  <2> QED
    BY <2>1, <2>3, <2>4 DEF WorkBegins
<1>2. CASE Command \/ SetTodos
  <2>1. op.at = "loop" /\ turn' = turn
    BY <1>2 DEF Command, SetTodos, Idle
  <2>2. \E k \in {"mark", "todos"} : \E then : op' = Run(<<k>>, then)
    BY <1>2 DEF Command, SetTodos
  <2>3. PICK k \in {"mark", "todos"} : op'.work = <<k>> /\ op'.at = "append"
    BY <2>2, RunFields
  <2> QED
    BY <1>k, <2>1, <2>3 DEF WorkBegins
<1>3. CASE SetPlan
  <2>1. op.at = "loop" /\ turn' = turn /\ PlanToggles /\ op' = Run(<<"mark", "user">>, "loop")
    BY <1>3 DEF SetPlan, Idle
  <2>2. op'.work = <<"mark", "user">> /\ op'.at = "append"
    BY <2>1, RunFields
  <2>3. OwnKinds = {"steer"}
    BY <2>1 DEF OwnKinds
  <2> QED
    BY <2>1, <2>2, <2>3 DEF WorkBegins
<1>4. CASE PromptAwaited \/ FoldNow
  <2>1. op.at = "loop" /\ turn' = turn /\ turn.at = "none"
    BY <1>4 DEF PromptAwaited, FoldNow, Idle
  <2>2. \E work \in {<<"user">>, <<"user", "user">>, <<"fold">>} : \E then : op' = Run(work, then)
    BY <1>4 DEF PromptAwaited, FoldNow
  <2>3. PICK work \in {<<"user">>, <<"user", "user">>, <<"fold">>} :
          op'.work = work /\ op'.at \in {"append", "done"}
    BY <2>2, RunFields
  <2>4. \A i \in DOMAIN work : work[i] \notin {"call", "reply"}
    BY <2>3
  <2> QED
    BY <2>1, <2>3, <2>4 DEF WorkBegins
<1>5. CASE Steer
  <2>1. turn' = turn /\ op.at = "loop"
    BY <1>5 DEF Steer, Idle
  <2>2. op' = op \/ (turn.at = "none" /\ op' = Run(<<"steer">>, "loop"))
    BY <1>5 DEF Steer
  <2>3. CASE turn.at = "none" /\ op' = Run(<<"steer">>, "loop")
    BY <2>1, <2>3, RunFields DEF WorkBegins
  <2> QED
    BY <2>1, <2>2, <2>3
<1> QED
  BY <1>1, <1>2, <1>3, <1>4, <1>5

LEMMA AckArmFields ==
    ASSUME Shape, AckArm
    PROVE  /\ op.at = "loop" /\ op'.at \in {"append", "done"} /\ op'.then = "settle"
           /\ op'.due = Front(fifo).last /\ op'.verdict = SettleFront("ok").told
           /\ fifo # <<>> /\ fifo' = Tail(fifo) /\ head' = SettleFront("ok").head
           /\ op'.work = IF ~Awaiting(SettleFront("ok").head)
                         THEN [i \in 1..held |-> "steer"] ELSE <<>>
           /\ UNCHANGED <<logVars, entry, seq, lastId, pub, ticket, turn>>
<1>1. op.at = "loop" /\ fifo # <<>> /\ fifo' = Tail(fifo) /\ head' = SettleFront("ok").head
      /\ UNCHANGED <<logVars, entry, seq, lastId, pub, ticket, turn>>
  BY DEF AckArm, FrontAnswered
<1> DEFINE work == IF ~Awaiting(SettleFront("ok").head)
                   THEN [i \in 1..held |-> "steer"] ELSE <<>>
<1>2. op' = [Run(work, "settle") EXCEPT !.due = Front(fifo).last, !.verdict = SettleFront("ok").told]
  BY DEF AckArm
<1> HIDE DEF work
<1>3. /\ op'.at \in {"append", "done"} /\ op'.then = "settle" /\ op'.work = work
      /\ op'.due = Front(fifo).last /\ op'.verdict = SettleFront("ok").told
  BY <1>2 DEF Run, Loop
<1> QED
  BY <1>1, <1>3 DEF work

LEMMA WorkStep ==
    ASSUME Interrupts = FALSE, Shape, EntryInv, UnitsInv, GateInv, OwnedInv, WorkInv, [Next]_vars
    PROVE  WorkInv'
<1>k. "mark" \notin OwnKinds
  BY OwnKindFacts
<1>1. CASE op' = op /\ UNCHANGED <<entry, seq>>
              /\ (turn'.at \in {"none", "ended"} \/ op.at = "loop" \/ turn.at \notin {"none", "ended"})
  BY <1>1 DEF WorkInv
<1>2. CASE op' = op /\ op.at = "loop"
  BY <1>2 DEF WorkInv
<1>3. CASE \/ Writer \/ WriterFails \/ WriterDies \/ UNCHANGED vars \/ Drain
  <2>1. op' = op /\ UNCHANGED <<entry, seq, turn>>
    BY <1>3 DEF Writer, WriterTake, WriterWrite, WriterSync, WriterAck, WriterFails,
                WriterDies, actorVars, vars, Drain
  <2> QED
    BY <1>1, <2>1
<1>4. CASE Continue \/ PromptFast \/ Proposes \/ Burns
  <2>1. op' = op /\ op.at = "loop"
    BY <1>4 DEF Continue, PromptFast, Proposes, Burns, Sends, Idle, actorVars
  <2> QED
    BY <1>2, <2>1
<1>5. CASE Ponders
  <2>1. op' = op /\ UNCHANGED <<entry, seq>>
    BY <1>5 DEF Ponders, actorVars
  <2>2. turn'.at \in {"none", "ended"} \/ turn.at \notin {"none", "ended"}
    BY <1>5 DEF Ponders, Resolves, Ends, Refreshes
  <2> QED
    BY <1>1, <2>1, <2>2
<1>6. CASE AckArm
  <2>1. op'.at \in {"append", "done"} /\ op'.then = "settle"
        /\ (op'.work = [i \in 1..held |-> "steer"] \/ op'.work = <<>>)
    BY <1>6, AckArmFields
  <2>2. CASE op'.work = <<>>
    BY <2>1, <2>2 DEF WorkInv
  <2>3. CASE op'.work = [i \in 1..held |-> "steer"]
    <3>1. \A i \in DOMAIN op'.work : op'.work[i] = "steer"
      BY <2>3
    <3> QED
      BY <2>1, <3>1 DEF WorkInv
  <2> QED
    BY <2>1, <2>2, <2>3
<1>7. CASE AppendSend
  BY <1>7, AppendSendFacts DEF WorkInv
<1>8. CASE AppendRefused \/ AppendErr
  BY <1>8, AppendFails DEF WorkInv
<1>9. CASE AppendOk
  <2>1. /\ op'.at \in {"append", "done"} /\ op'.then = op.then /\ op'.work = Tail(op.work)
        /\ op.work # <<>> /\ op.work \in Seq(Kinds) /\ turn' = turn
    BY <1>9, AppendLands
  <2>2. \A i \in DOMAIN Tail(op.work) : \E j \in DOMAIN op.work : Tail(op.work)[i] = op.work[j]
    BY <2>1, FrontAndTail
  <2> QED
    BY <2>1, <2>2 DEF WorkInv
<1>10. CASE Settle \/ Return \/ PlanWritten \/ Spawn \/ NoSpawn \/ EndTurn
  <2>1. \/ op' = Loop \/ op' = Run(<<"mark">>, "loop") \/ op' = Run(<<"mark">>, "respawn")
        \/ op' = Run(<<"fold">>, "respawn") /\ turn' = turn /\ turn.at = "ended"
    BY <1>10, ReturnSteps, ConcludeStep DEF Settle, Returns, Concludes, OwnedInv
  <2>2. /\ op'.at \in {"append", "loop"} /\ (op'.at = "loop" => op'.work = <<>>)
        /\ \/ op'.work = <<>> \/ op'.work = <<"mark">>
           \/ op'.work = <<"fold">> /\ turn'.at = "ended"
    BY <2>1, RunFields
  <2> QED
    BY <1>k, <2>2 DEF WorkInv
<1>11. CASE \/ TurnFinished \/ Command \/ SetPlan \/ SetTodos \/ Steer \/ PromptAwaited \/ FoldNow
  <2>1. UNCHANGED <<entry, seq>>
    BY <1>11, ReceiveSteps DEF Receives
  <2>2. CASE WorkBegins
    BY <2>2 DEF WorkBegins, WorkInv
  <2>3. CASE op' = op /\ turn' = turn
    BY <1>1, <2>1, <2>3
  <2> QED
    BY <1>11, <2>2, <2>3, WorkBeginnings
<1>12. CASE Crash
  <2>1. op'.at = "loop" /\ op'.work = <<>>
    BY <1>12, RunFields DEF Crash
  <2> QED
    BY <2>1 DEF WorkInv
<1>13. CASE Turn \/ Panic
  BY <1>4, <1>5, <1>13, TurnMoves
<1> QED
  BY <1>3, <1>4, <1>6, <1>7, <1>8, <1>9, <1>10, <1>11, <1>12, <1>13
     DEF Next, Actor, Commands, FoldInterrupted

-----------------------------------------------------------------------------
(* An open batch keeps the actor quiet.                                     *)

\* A projection that ends on calls and their usage entry awaits results.
LEMMA CallsAwait ==
    ASSUME NEW h \in Heads, NEW n \in Seqs, n - 1 \in Seqs, h.projected = UpTo(n),
           entry[n - 1].kind = "call", entry[n].kind = "mark", n - 1 \notin h.closed
    PROVE  Awaiting(h)
<1> DEFINE s == UpTo(n)
<1>1. /\ n \in Nat /\ n - 1 \in Nat /\ n - 1 >= 1
      /\ DOMAIN s = 1..n /\ Len(s) = n /\ \A i \in 1..n : s[i] = i
  BY UpToFacts DEF Seqs, UpTo
<1> HIDE DEF s
<1>2. IsItem(s, n - 1) /\ ~IsItem(s, n)
  BY <1>1 DEF IsItem, ItemKinds
<1>3. NextItem(s, n - 1, Len(s) + 1)
  BY <1>1, <1>2 DEF NextItem
<1>4. n - 1 \in DOMAIN s /\ s[n - 1] = n - 1
  BY <1>1
<1>5. n - 1 \in LastItems(s)
  BY <1>3, <1>4 DEF LastItems
<1>6. n - 1 \in LastItems(h.projected)
  BY <1>5 DEF s
<1> QED
  BY <1>6 DEF Awaiting

\* The run behind an ack is begun by the ack arm alone, and nothing is added to it.
LEMMA OpSteps ==
    ASSUME Interrupts = FALSE, Shape, EntryInv, GateInv, [Next]_vars, op'.then = "settle"
    PROVE  AckArm \/ (op.then = "settle" /\ (op.work = <<>> => op'.work = <<>>))
<1>1. CASE op' = op
  BY <1>1
<1>2. CASE \/ Writer \/ WriterFails \/ WriterDies \/ UNCHANGED vars \/ Drain
           \/ Continue \/ PromptFast \/ Proposes \/ (Burns /\ Ends) \/ Ponders
  <2>1. op' = op
    BY <1>2 DEF Writer, WriterTake, WriterWrite, WriterSync, WriterAck, WriterFails,
                WriterDies, actorVars, vars, Drain, Continue, PromptFast, Proposes, Burns,
                Sends, Ponders
  <2> QED
    BY <1>1, <2>1
<1>3. CASE AppendSend
  BY <1>3, AppendSendFacts
<1>4. CASE AppendRefused \/ AppendErr
  BY <1>4, AppendFails
<1>5. CASE AppendOk
  BY <1>5, AppendLands
<1>6. CASE Settle \/ Return \/ PlanWritten \/ Spawn \/ NoSpawn \/ EndTurn \/ Crash
  <2>1. \/ op' = Loop \/ op' = Run(<<"mark">>, "loop") \/ op' = Run(<<"mark">>, "respawn")
        \/ op' = Run(<<"fold">>, "respawn")
    BY <1>6, ReturnSteps, ConcludeStep DEF Settle, Returns, Concludes, Crash
  <2> QED
    BY <2>1, RunFields
<1>7. CASE \/ TurnFinished \/ Command \/ SetPlan \/ SetTodos \/ Steer \/ PromptAwaited \/ FoldNow
  <2>1. CASE Begins
    BY <2>1, RunFields DEF Begins
  <2> QED
    BY <1>1, <1>7, <2>1, ReceiveSteps DEF Receives
<1>8. CASE Turn \/ Panic
  BY <1>2, <1>8, TurnMoves
<1> QED
  BY <1>2, <1>3, <1>4, <1>5, <1>6, <1>7, <1>8 DEF Next, Actor, Commands, FoldInterrupted

\* An ack that comes in while a turn waits at barrier (a) is that of its calls:
\* they are projected and await results, or the log has failed.
LEMMA AckInBatch ==
    ASSUME Shape, Shape', UnitsInv, DurableInv, GateInv, OwnedInv, AckInv, HeadInv',
           CallsInv, turn.at = "calls", AckArm, Live
    PROVE  op'.work = <<>>
<1> DEFINE u == Front(fifo)
           h == SettleFront("ok").head
<1>1. /\ fifo # <<>> /\ head' = h /\ u \in Elems(fifo) /\ u \in Unit /\ u \in Unsettled
      /\ op'.work = IF ~Awaiting(h) THEN [i \in 1..held |-> "steer"] ELSE <<>>
      /\ FrontAnswered /\ head \in Heads /\ UNCHANGED <<sealed, phase>>
      /\ u.last \in Seqs
  BY AckArmFields, TailElems, SettleFacts, Ground DEF AckArm, logVars
<1>2. u.last \in Elems(turn.tickets)
  BY <1>1 DEF OwnedInv, Orphaned
<1>3. /\ turn.tickets = <<turn.mine>> /\ turn.mine - 1 \in Seqs
      /\ entry[turn.mine - 1].kind = "call" /\ entry[turn.mine].kind = "mark"
      /\ turn.mine - 1 \notin head.closed
  <2>1. turn.tickets # <<>>
    BY <1>2 DEF Elems
  <2> QED
    BY <2>1 DEF CallsInv
<1>4. u.last = turn.mine
  BY <1>2, <1>3 DEF Elems
<1>5. ack[u.last] = "ok"
  BY <1>1, LiveDoomsNone DEF FrontAnswered
<1>6. h = Advance(head, u)
  BY <1>1, <1>5 DEF SettleFront
<1>7. h.closed = head.closed /\ h.epoch = u.last
  BY <1>1, <1>6 DEF Advance, Heads
<1>8. h \in Heads /\ h.projected = UpTo(h.epoch)
  <2>1. head' \in Heads /\ head'.projected = UpTo(head'.epoch)
    BY DEF HeadInv, Shape, TypeOK, HeadTypeOK
  <2> QED
    BY <1>1, <2>1
<1> HIDE DEF h, u
<1>9. Awaiting(h)
  BY <1>1, <1>3, <1>4, <1>7, <1>8, CallsAwait
<1> QED
  BY <1>1, <1>9

\* Entries that have a number keep what they are.
LEMMA OldEntries ==
    ASSUME Shape, EntryInv, (Still /\ Rests) \/ AppendSend \/ Prompts \/ Proposes
    PROVE  \A s \in Seqs : s <= seq => entry'[s] = entry[s]
<1>1. CASE Still
  BY <1>1 DEF Still
<1>2. CASE AppendSend
  <2>1. seq' = seq + 1 /\ \A s \in Seqs : s # seq' => entry'[s] = entry[s]
    BY <1>2, AppendSendFacts
  <2>2. \A s \in Seqs : s <= seq => s # seq'
    BY <2>1, Ground DEF Seqs
  <2> QED
    BY <2>1, <2>2
<1>3. CASE Prompts \/ Proposes
  <2>1. PICK kinds, saw : Sends(kinds, saw)
    BY <1>3 DEF Prompts, Proposes
  <2> QED
    BY <2>1, SendFacts
<1> QED
  BY <1>1, <1>2, <1>3

\* The log takes entries after a step only if it did before.
LEMMA LiveBefore ==
    ASSUME Shape, EntryInv, (Still /\ Rests) \/ AppendSend \/ Prompts \/ Proposes
    PROVE  Live' => Live
<1>1. CASE Prompts \/ Proposes
  <2>1. PICK kinds, saw : Sends(kinds, saw)
    BY <1>1 DEF Prompts, Proposes
  <2> QED
    BY <2>1, SendFacts
<1> QED
  BY <1>1, AppendSendFacts DEF Still

\* A turn comes to wait at barrier (a) by proposing its calls.
LEMMA CallsStep ==
    ASSUME Interrupts = FALSE, Shape, Shape', UnitsInv, DurableInv, GateInv, EntryInv, OwnedInv,
           AckInv, HeadInv', RequestInv, CallsInv, [Next]_vars
    PROVE  CallsInv'
<1>0. /\ seq \in Nat /\ head.epoch \in Nat /\ head.epoch <= seq /\ turn.mine <= seq
      /\ \A s \in Seqs : s \in Nat /\ s >= 1
      /\ turn.mine \in Nat /\ turn.tickets \in Seq(Seqs) /\ head \in Heads
  <2>1. turn.mine \in Nat /\ turn.tickets \in Seq(Seqs)
    BY BoundsAreNats DEF Shape, TypeOK, TurnTypeOK, Turns
  <2> QED
    BY <2>1, Ground DEF GateInv, RequestInv, Seqs
<1>1. CASE Crash
  BY <1>1 DEF Crash, CallsInv, NoTurn
<1>2. CASE /\ turn'.at = "calls" /\ head'.closed = head.closed
           /\ (Still /\ Rests) \/ AppendSend \/ Prompts \/ Proposes
  <2>1. \A s \in Seqs : s <= seq => entry'[s] = entry[s]
    BY <1>2, OldEntries
  <2>2. CASE turn.at = "calls" /\ turn'.mine = turn.mine
             /\ (turn'.tickets = turn.tickets \/ (turn.tickets # <<>> /\ turn'.tickets = Tail(turn.tickets)))
    <3>1. ASSUME turn'.tickets # <<>>
          PROVE  /\ turn'.tickets = <<turn'.mine>> /\ turn'.mine - 1 \in Seqs
                 /\ entry'[turn'.mine - 1].kind = "call" /\ entry'[turn'.mine].kind = "mark"
                 /\ turn'.mine - 1 \notin head'.closed
      <4>1. turn.tickets # <<>>
        BY <2>2, <3>1
      <4>2. /\ turn.tickets = <<turn.mine>> /\ turn.mine - 1 \in Seqs
            /\ entry[turn.mine - 1].kind = "call" /\ entry[turn.mine].kind = "mark"
            /\ turn.mine - 1 \notin head.closed
        BY <2>2, <4>1 DEF CallsInv
      <4>3. turn'.tickets = turn.tickets
        <5>1. Tail(turn.tickets) = <<>>
          BY <4>2
        <5> QED
          BY <2>2, <3>1, <5>1
      <4>4. turn.mine \in Seqs
        BY <1>0, <4>2, <4>3, <3>1, BoundsAreNats DEF Shape, TypeOK, PipelineTypeOK, Seqs
      <4>5. entry'[turn.mine - 1] = entry[turn.mine - 1] /\ entry'[turn.mine] = entry[turn.mine]
        BY <1>0, <2>1, <4>2, <4>4
      <4> QED
        BY <1>2, <2>2, <4>2, <4>3, <4>5
    <3>2. ASSUME Live', op'.then = "settle"
          PROVE  op'.work = <<>>
      <4>1. Live
        BY <1>2, <3>2, LiveBefore
      <4>2. CASE AckArm
        BY <2>2, <4>1, <4>2, AckInBatch
      <4>3. CASE op.then = "settle" /\ (op.work = <<>> => op'.work = <<>>)
        BY <2>2, <4>1, <4>3 DEF CallsInv
      <4> QED
        BY <3>2, <4>2, <4>3, OpSteps
    <3> QED
      BY <3>1, <3>2 DEF CallsInv
  <2>3. CASE Proposes
    <3>1. /\ turn.at = "sampling" /\ turn.tickets = <<>> /\ Sends(<<"call", "mark">>, turn.req.items)
          /\ turn'.tickets = Append(turn.tickets, seq') /\ turn'.mine = seq'
      BY <1>2, <2>3 DEF Proposes, Says, OwnedInv
    <3> DEFINE kinds == <<"call", "mark">>
    <3>2. Len(kinds) = 2 /\ kinds[1] = "call" /\ kinds[2] = "mark"
      OBVIOUS
    <3> HIDE DEF kinds
    <3>3. Sends(kinds, turn.req.items)
      BY <3>1 DEF kinds
    <3>4. /\ seq' = seq + 2 /\ seq' \in Seqs /\ op' = op /\ op.at = "loop"
          /\ \A s \in Seqs : s > seq /\ s <= seq' => entry'[s].kind = kinds[s - seq]
      <4>1. /\ seq' = seq + Len(kinds) /\ seq' \in Seqs /\ op.at = "loop"
            /\ UNCHANGED <<head, pub, held, op>>
            /\ \A s \in Seqs : s > seq /\ s <= seq' => entry'[s].kind = kinds[s - seq]
        BY <3>3, SendFacts, Zenon
      <4> QED
        BY <3>2, <4>1
    <3>5. seq' - 1 \in Seqs /\ seq' - 1 = seq + 1
      BY <1>0, <3>4, BoundsAreNats DEF Seqs
    <3>6. entry'[seq'].kind = kinds[2] /\ entry'[seq' - 1].kind = kinds[1]
      <4>1. seq' > seq /\ seq' <= seq' /\ seq' - seq = 2
        BY <1>0, <3>4
      <4>2. seq' - 1 > seq /\ seq' - 1 <= seq' /\ (seq' - 1) - seq = 1
        BY <1>0, <3>4
      <4> QED
        BY <3>4, <3>5, <4>1, <4>2
    <3>7. seq' - 1 \notin head'.closed
      BY <1>0, <1>2, <3>5 DEF EntryInv
    <3>8. turn'.tickets = <<seq'>>
      BY <3>1
    <3>9. op'.then = "loop"
      BY <3>4 DEF OwnedInv
    <3> QED
      BY <3>1, <3>2, <3>5, <3>6, <3>7, <3>8, <3>9 DEF CallsInv
  <2>4. CASE turn' = turn
    BY <1>2, <2>2, <2>4
  <2>5. CASE Ponders
    BY <1>2, <2>2, <2>5 DEF Ponders, Resolves, Ends, Refreshes, Goes, Resets
  <2> QED
    BY <1>2, <2>3, <2>4, <2>5, AppendSendFacts DEF Rests, Ends, Resets, Prompts
<1>3. CASE turn'.at # "calls"
  BY <1>3 DEF CallsInv
<1> QED
  BY <1>1, <1>2, <1>3, EntrySteps

-----------------------------------------------------------------------------
(* What the turn knows of the log.                                          *)

\* What a head shows are the items up to its epoch.
LEMMA SnapshotItems ==
    ASSUME NEW h \in Heads, h.projected = UpTo(h.epoch)
    PROVE  Snapshot(h).items = {s \in AllItems : s <= h.epoch}
<1>1. h.epoch \in Nat /\ h.epoch <= MaxSeq /\ MaxSeq \in Nat
  BY BoundsAreNats DEF Heads
<1>2. Elems(h.projected) = 1..h.epoch
  BY <1>1, UpToFacts
<1>3. Snapshot(h).items = {i \in 1..h.epoch : entry[i].kind \in ItemKinds}
  BY <1>2 DEF Snapshot
<1>4. \A s : s \in 1..h.epoch <=> s \in Seqs /\ s <= h.epoch
  BY <1>1 DEF Seqs
<1> QED
  BY <1>3, <1>4 DEF AllItems

\* A turn that holds no ticket has nothing in the FIFO, nor has the ack arm.
LEMMA NothingOut ==
    ASSUME Shape, OwnedInv, turn.tickets = <<>>, turn.at \notin {"none", "ended"}
    PROVE  fifo = <<>> /\ op.then # "settle" /\ pub.epoch = head.epoch
<1>1. \A u \in Elems(fifo) : FALSE
  BY DEF OwnedInv, Orphaned, Elems
<1>2. fifo = <<>>
  BY <1>1, Ground, TailFacts
<1>3. op.then # "settle"
  BY DEF OwnedInv, Elems
<1> QED
  BY <1>2, <1>3 DEF OwnedInv

\* With nothing in the FIFO the head has every such item, except one the actor is
\* itself appending.
LEMMA HeadHasAll ==
    ASSUME Shape, EntryInv, GateInv, AckInv, HeadInv, Live, fifo = <<>>,
           op.at = "await" => entry[seq].kind \notin OwnKinds
    PROVE  \A s \in OwnItems : s <= head.epoch
<1>0. seq \in Nat /\ head.epoch \in Nat /\ \A s \in Seqs : s \in Nat
  BY Ground DEF Seqs
<1>1. \A s \in OwnItems : s \in Seqs /\ s <= seq /\ entry[s].kind \in OwnKinds
  BY <1>0, OwnKindFacts DEF OwnItems, EntryInv, ItemKinds
<1>2. CASE op.at # "await"
  BY <1>1, <1>2 DEF HeadInv
<1>3. CASE op.at = "await"
  <2> DEFINE u == [first |-> seq, last |-> seq]
  <2>1. u \in Unsettled
    BY <1>3 DEF Unsettled, Awaited
  <2>2. ~Doomed(u)
    BY <2>1, LiveDoomsNone
  <2>3. seq = head.epoch + 1
    BY <1>3, <2>1, <2>2 DEF HeadInv, Tied
  <2> QED
    BY <1>0, <1>1, <1>3, <2>3
<1> QED
  BY <1>2, <1>3

\* What a turn reads when it holds no ticket.
LEMMA RefreshSees ==
    ASSUME Shape, EntryInv, GateInv, AckInv, HeadInv, OwnedInv, WorkInv,
           turn.tickets = <<>>, turn.at \notin {"none", "ended"}
    PROVE  /\ Snapshot(pub).items = {s \in AllItems : s <= pub.epoch}
           /\ Live => \A s \in OwnItems : s \in Snapshot(pub).items /\ s <= pub.epoch
<1>1. Snapshot(pub).items = {s \in AllItems : s <= pub.epoch}
  BY SnapshotItems, Ground DEF HeadInv
<1>2. fifo = <<>> /\ op.then # "settle" /\ pub.epoch = head.epoch
  BY NothingOut
<1>3. op.at = "await" => entry[seq].kind \notin OwnKinds
  <2>1. op.at = "await" => op.work # <<>> /\ op.work \in Seq(Kinds)
    BY Ground DEF Shape, OpInv, Ops
  <2>2. op.at = "await" => 1 \in DOMAIN op.work
    BY <2>1
  <2> QED
    BY <1>2, <2>2 DEF WorkInv
<1>4. Live => \A s \in OwnItems : s <= pub.epoch
  BY <1>2, <1>3, HeadHasAll
<1> QED
  BY <1>1, <1>4, OwnKindFacts

\* While a turn samples or runs its tools, the actor appends no such items.
LEMMA ActorQuiet ==
    ASSUME Shape, EntryInv, OwnedInv, WorkInv, CallsInv, ToolsInv, AppendSend,
           turn.at \in {"sampling", "calls", "tools"}
    PROVE  op.work[1] \notin OwnKinds
<1>1. Live /\ 1 \in DOMAIN op.work
  BY AppendSendFacts
<1>2. op.then # "settle"
  <2>1. CASE turn.tickets = <<>>
    BY <2>1, NothingOut
  <2>2. CASE turn.at = "calls" /\ op.then = "settle"
    BY <1>1, <2>2 DEF CallsInv
  <2> QED
    BY <2>1, <2>2 DEF OwnedInv, ToolsInv
<1> QED
  BY <1>1, <1>2 DEF WorkInv

\* What a proposal and an append add to the items.
LEMMA SendOwn ==
    ASSUME Shape, EntryInv, NEW kinds, NEW saw, Sends(kinds, saw)
    PROVE  /\ Live /\ seq \in Nat /\ seq' > seq /\ seq' \in Nat
           /\ AllItems' = AllItems \cup NewItems(kinds)
           /\ OwnItems' \subseteq OwnItems \cup NewItems(kinds)
           /\ \A s \in AllItems : s <= seq
           /\ \A s \in AllItems' : s <= seq'
<1>1. /\ Live /\ seq \in Nat /\ seq' > seq /\ seq' \in Nat
      /\ AllItems' = AllItems \cup NewItems(kinds)
      /\ \A s \in Seqs : s <= seq \/ s > seq' => entry'[s] = entry[s]
      /\ \A s \in AllItems : s <= seq
      /\ \A s \in NewItems(kinds) : s > seq /\ s <= seq'
  <2>1. seq \in Nat /\ \A s \in Seqs : s \in Nat
    BY Ground DEF Seqs
  <2> QED
    BY <2>1, SendFacts
<1>2. \A s \in AllItems : s \in Nat
  BY DEF AllItems, Seqs
<1>3. ASSUME NEW s \in OwnItems', s \notin NewItems(kinds)
      PROVE  s \in OwnItems
  <2>1. s \in Seqs /\ entry'[s].kind \in OwnKinds /\ s \in AllItems'
    BY OwnKindFacts DEF OwnItems, AllItems
  <2>2. s \in AllItems /\ s <= seq
    BY <1>1, <1>3, <2>1
  <2> QED
    BY <1>1, <2>1, <2>2 DEF OwnItems
<1>4. \A s \in AllItems' : s <= seq'
  BY <1>1, <1>2
<1> QED
  BY <1>1, <1>3, <1>4

LEMMA AppendOwn ==
    ASSUME Shape, EntryInv, AppendSend
    PROVE  /\ seq \in Nat /\ seq' = seq + 1
           /\ AllItems \subseteq AllItems'
           /\ \A s \in AllItems : s <= seq
           /\ OwnItems' \subseteq OwnItems \cup {seq'}
           /\ op.work[1] \notin OwnKinds => OwnItems' = OwnItems
<1>1. /\ seq \in Nat /\ seq' = seq + 1 /\ entry'[seq'].kind = op.work[1]
      /\ \A s \in Seqs : s # seq' => entry'[s] = entry[s]
      /\ \A s \in AllItems : s <= seq
      /\ AllItems \subseteq AllItems'
  BY AppendSendFacts, Ground
<1>2. \A s \in Seqs : s # seq' => (s \in OwnItems <=> s \in OwnItems')
  BY <1>1 DEF OwnItems
<1>3. seq' \notin OwnItems
  BY <1>1, OwnKindFacts
<1>4. seq' \in OwnItems' => op.work[1] \in OwnKinds
  BY <1>1 DEF OwnItems
<1>5. OwnItems \subseteq Seqs /\ OwnItems' \subseteq Seqs
  BY DEF OwnItems
<1> QED
  BY <1>1, <1>2, <1>3, <1>4, <1>5

LEMMA KnowsStep ==
    ASSUME Interrupts = FALSE, Shape, UnitsInv, DurableInv, GateInv, EntryInv, OwnedInv, AckInv,
           HeadInv, WorkInv, ToolsInv, CallsInv, KnowsInv, RequestInv, [Next]_vars
    PROVE  KnowsInv'
<1>0. /\ seq \in Nat /\ pub.epoch \in Nat
      /\ \A s \in AllItems : s \in Nat /\ s <= seq
      /\ OwnItems \subseteq AllItems
  <2>1. \A s \in Seqs : s \in Nat
    BY DEF Seqs
  <2>2. seq \in Nat /\ pub.epoch \in Nat
    BY Ground
  <2>3. \A s \in AllItems : s \in Seqs /\ entry[s].kind # "none"
    BY DEF AllItems, ItemKinds
  <2> QED
    BY <2>1, <2>2, <2>3, OwnKindFacts DEF EntryInv
<1>1. CASE Crash
  BY <1>1 DEF Crash, KnowsInv, NoTurn
<1>2. ASSUME turn'.at \in {"sampling", "calls", "tools"}, Live',
             (Still /\ Rests) \/ AppendSend \/ Prompts \/ Proposes
      PROVE  /\ \A s \in turn'.view.items \cup turn'.own : s \in AllItems' /\ s <= seq'
             /\ \A s \in OwnItems' : s <= seq' => s \in turn'.view.items \cup turn'.own
             /\ turn'.at = "sampling" => OwnItems' \subseteq turn'.req.items
  <2>0. Live
    BY <1>2, LiveBefore
  <2>1. CASE Still /\ turn' = turn
    <3>1. AllItems' = AllItems /\ OwnItems' = OwnItems /\ seq' = seq
      BY <1>2, <2>1 DEF Still, AllItems, OwnItems
    <3> QED
      BY <1>2, <2>0, <2>1, <3>1 DEF KnowsInv, Shows
  <2>2. CASE Still /\ Ponders
    <3>1. AllItems' = AllItems /\ OwnItems' = OwnItems /\ seq' = seq
      BY <1>2, <2>2 DEF Still, AllItems, OwnItems
    <3>2. CASE Refreshes
      <4>1. /\ turn'.view = Snapshot(pub) /\ turn'.own = {}
            /\ Snapshot(pub).items = {s \in AllItems : s <= pub.epoch}
            /\ \A s \in OwnItems : s \in Snapshot(pub).items /\ s <= pub.epoch
        BY <2>0, <3>2, RefreshSees DEF Refreshes
      <4>2. OwnItems \subseteq turn'.req.items
        <5>1. CASE turn'.req = Snapshot(pub)
          BY <4>1, <5>1
        <5>2. CASE turn.spec.leaf # 0 /\ turn.spec.leaf = pub.epoch /\ turn'.req = turn.spec.snap
          BY <4>1, <5>2 DEF RequestInv, Shows
        <5> QED
          BY <3>2, <5>1, <5>2 DEF Refreshes
      <4> QED
        BY <1>0, <3>1, <4>1, <4>2
    <3>3. CASE Resolves \/ (turn.at = "calls" /\ Goes("tools"))
      <4>1. /\ turn'.view = turn.view /\ turn'.own = turn.own /\ turn'.at # "sampling"
            /\ turn.at \in {"calls", "tools"}
        BY <1>2, <3>3 DEF Resolves, Goes
      <4> QED
        BY <2>0, <3>1, <4>1 DEF KnowsInv, Shows
    <3> QED
      BY <1>2, <2>2, <3>2, <3>3 DEF Ponders, Ends, Goes, Resets
  <2>3. CASE AppendSend
    <3>1. turn' = turn
      BY <2>3, AppendSendFacts
    <3>2. op.work[1] \notin OwnKinds
      BY <1>2, <2>3, <3>1, ActorQuiet
    <3>3. OwnItems' = OwnItems /\ AllItems \subseteq AllItems' /\ seq' = seq + 1
      BY <2>3, <3>2, AppendOwn
    <3> QED
      BY <1>0, <1>2, <2>0, <3>1, <3>3 DEF KnowsInv, Shows
  <2>4. CASE Proposes
    <3> DEFINE kinds == <<"call", "mark">>
    <3>1. /\ turn.at = "sampling" /\ Sends(kinds, turn.req.items) /\ turn'.at # "sampling"
          /\ turn'.view = turn.view /\ turn'.own = turn.own \cup NewItems(kinds)
      BY <1>2, <2>4 DEF Proposes, Says
    <3> HIDE DEF kinds
    <3>2. /\ AllItems' = AllItems \cup NewItems(kinds)
          /\ OwnItems' \subseteq OwnItems \cup NewItems(kinds)
          /\ \A s \in AllItems' : s <= seq'
      BY <3>1, SendOwn
    <3>3. /\ turn.view.items \cup turn.own \subseteq AllItems
          /\ OwnItems \subseteq turn.view.items \cup turn.own
      BY <1>0, <2>0, <3>1 DEF KnowsInv, Shows
    <3> QED
      BY <3>1, <3>2, <3>3
  <2> QED
    BY <1>2, <2>1, <2>2, <2>3, <2>4 DEF Rests, Ends, Resets, Prompts
<1> QED
  BY <1>1, <1>2, EntrySteps DEF KnowsInv, Shows

LEMMA RequestStep ==
    ASSUME Interrupts = FALSE, Shape, Shape', UnitsInv, DurableInv, GateInv, EntryInv, OwnedInv,
           AckInv, HeadInv, WorkInv, KnowsInv, RequestInv, [Next]_vars
    PROVE  RequestInv'
<1>0. /\ seq \in Nat /\ seq' \in Nat /\ turn.mine \in Nat /\ turn.mine <= seq
      /\ \A s \in Seqs : s \in Nat /\ s # 0
      /\ \A s \in AllItems : s \in Seqs /\ s <= seq
      /\ OwnItems \subseteq AllItems /\ (~PlanToggles => OwnItems = AllItems)
      /\ OwnItems' \subseteq Seqs
      /\ pub.epoch \in Nat
  <2>1. seq' \in Nat /\ turn.mine \in Nat
    BY BoundsAreNats DEF Shape, TypeOK, PipelineTypeOK, TurnTypeOK, Turns
  <2>2. \A s \in Seqs : s \in Nat /\ s # 0
    BY DEF Seqs
  <2>3. seq \in Nat /\ pub.epoch \in Nat
    BY Ground
  <2>4. \A s \in AllItems : s \in Seqs /\ s <= seq
    BY <2>2, <2>3 DEF AllItems, EntryInv, ItemKinds
  <2>5. OwnItems' \subseteq Seqs
    BY DEF OwnItems
  <2> QED
    BY <2>1, <2>2, <2>3, <2>4, <2>5, OwnKindFacts DEF RequestInv
<1>1. CASE turn'.mine = 0 /\ turn'.spec.leaf = 0 /\ turn'.at # "sampling"
  BY <1>0, <1>1 DEF RequestInv
<1>2. CASE Crash
  BY <1>1, <1>2 DEF Crash, NoTurn
<1>3. CASE Ends \/ Resets
  BY <1>1, <1>3 DEF Ends, Resets
<1>4. CASE /\ turn' = turn /\ seq' >= seq /\ AllItems \subseteq AllItems'
           /\ \A s \in OwnItems' : s <= seq => s \in OwnItems
  <2>1. \A s \in OwnItems' : s <= turn.mine => s \in OwnItems
    BY <1>0, <1>4
  <2>2. turn.mine <= seq'
    BY <1>0, <1>4
  <2> QED
    BY <1>4, <2>1, <2>2 DEF RequestInv, Shows
<1>5. CASE Still /\ turn' = turn
  <2>1. AllItems' = AllItems /\ OwnItems' = OwnItems /\ seq' >= seq
    BY <1>5 DEF Still, AllItems, OwnItems
  <2> QED
    BY <1>4, <1>5, <2>1
<1>6. CASE AppendSend
  <2>1. turn' = turn
    BY <1>6, AppendSendFacts
  <2>2. seq' = seq + 1 /\ AllItems \subseteq AllItems' /\ OwnItems' \subseteq OwnItems \cup {seq'}
    BY <1>6, AppendOwn
  <2> QED
    BY <1>0, <1>4, <2>1, <2>2
<1>7. CASE Still /\ Ponders
  <2>1. AllItems' = AllItems /\ OwnItems' = OwnItems /\ seq' >= seq
    BY <1>7 DEF Still, AllItems, OwnItems
  <2>2. CASE Refreshes
    <3>1. /\ turn'.mine = turn.mine /\ turn'.own = {} /\ turn'.spec.leaf = 0
          /\ turn'.view = Snapshot(pub) /\ turn.mine <= pub.epoch
          /\ turn.tickets = <<>> /\ turn.at = "boundary"
      BY <1>0, <2>2 DEF Refreshes
    <3>2. Snapshot(pub).items = {s \in AllItems : s <= pub.epoch}
      BY <3>1, RefreshSees
    <3>3. /\ ~PlanToggles => turn'.req.items = Snapshot(pub).items
          /\ \A s \in OwnItems : s <= turn.mine => s \in turn'.req.items
      <4>1. CASE turn'.req = Snapshot(pub)
        BY <1>0, <3>1, <3>2, <4>1
      <4>2. CASE turn.spec.leaf # 0 /\ turn.spec.leaf = pub.epoch /\ turn'.req = turn.spec.snap
        <5>1. /\ turn'.req.items \subseteq {s \in AllItems : s <= pub.epoch}
              /\ \A s \in OwnItems : s <= pub.epoch => s \in turn'.req.items
              /\ turn.mine = pub.epoch
          BY <4>2 DEF RequestInv, Shows
        <5> QED
          BY <1>0, <3>2, <5>1
      <4> QED
        BY <2>2, <4>1, <4>2 DEF Refreshes
    <3> QED
      BY <1>0, <2>1, <3>1, <3>3 DEF RequestInv
  <2>3. CASE /\ turn'.mine = turn.mine /\ turn'.spec = turn.spec /\ turn'.at # "sampling"
             /\ turn'.at = turn.at \/ turn.at # "boundary"
    <3>1. turn.mine <= seq'
      BY <1>0, <2>1
    <3> QED
      BY <2>1, <2>3, <3>1 DEF RequestInv, Shows
  <2> QED
    BY <1>3, <1>7, <2>2, <2>3 DEF Ponders, Resolves, Goes
<1>8. CASE Prompts
  <2> DEFINE kinds == <<"user">>
  <2>1. /\ Sends(kinds, {}) /\ turn.at = "none"
        /\ turn'.at = "boundary" /\ turn'.mine = seq' /\ turn'.spec.leaf = seq'
        /\ turn'.spec.snap.items = Snapshot(head).items \cup {seq'}
    BY <1>8 DEF Prompts
  <2>2. Len(kinds) = 1 /\ NewItems(kinds) = {seq + 1}
    BY DEF NewItems, ItemKinds
  <2> HIDE DEF kinds
  <2>3. /\ Live /\ op.at = "loop" /\ seq' = seq + Len(kinds)
    BY <2>1, SendFacts, Zenon
  <2>4. fifo = <<>>
    <3>1. \A x \in Elems(<<>>) : FALSE
      BY DEF Elems
    <3>2. turn.tickets = <<>> /\ ~Orphaned
      BY <2>1, <2>3 DEF OwnedInv, Orphaned
    <3>3. \A u \in Elems(fifo) : FALSE
      BY <3>1, <3>2 DEF OwnedInv
    <3> QED
      BY <3>3, Ground, TailFacts
  <2>5. Snapshot(head).items \subseteq AllItems /\ OwnItems \subseteq Snapshot(head).items
    <3>1. \A s \in OwnItems : s <= head.epoch
      BY <2>3, <2>4, HeadHasAll
    <3>2. Snapshot(head).items = {s \in AllItems : s <= head.epoch}
      BY SnapshotItems, Ground DEF HeadInv
    <3> QED
      BY <1>0, <3>1, <3>2
  <2>6. /\ AllItems' = AllItems \cup {seq'} /\ OwnItems' \subseteq OwnItems \cup {seq'}
        /\ \A s \in AllItems' : s <= seq'
    <3>1. /\ AllItems' = AllItems \cup NewItems(kinds)
          /\ OwnItems' \subseteq OwnItems \cup NewItems(kinds)
          /\ \A s \in AllItems' : s <= seq'
      BY <2>1, SendOwn
    <3> QED
      BY <2>2, <2>3, <3>1
  <2> QED
    BY <1>0, <2>1, <2>5, <2>6 DEF RequestInv, Shows
<1>9. CASE Proposes
  <2>1. PICK kinds, saw :
          /\ Sends(kinds, saw)
          /\ turn'.mine = seq' /\ turn'.at # "sampling"
          /\ \/ /\ turn.at \in {"sampling", "replied"} /\ turn'.spec.leaf = turn.spec.leaf
             \/ turn'.spec.leaf = 0
             \/ /\ turn.at = "tools" /\ turn'.at = "boundary" /\ turn'.spec.leaf = seq'
                /\ turn'.spec.snap.items = turn.view.items \cup (turn.own \cup NewItems(kinds))
    BY <1>9 DEF Proposes
  <2>2. /\ Live /\ AllItems' = AllItems \cup NewItems(kinds)
        /\ OwnItems' \subseteq OwnItems \cup NewItems(kinds)
        /\ \A s \in AllItems' : s <= seq'
    BY <2>1, SendOwn
  <2>4. CASE turn'.spec.leaf = 0
    BY <1>0, <2>1, <2>4 DEF RequestInv
  <2>5. CASE turn.at \in {"sampling", "replied"} /\ turn'.spec.leaf = turn.spec.leaf
    BY <2>4, <2>5 DEF RequestInv
  <2>6. CASE /\ turn.at = "tools" /\ turn'.at = "boundary" /\ turn'.spec.leaf = seq'
             /\ turn'.spec.snap.items = turn.view.items \cup (turn.own \cup NewItems(kinds))
    <3>1. /\ turn.view.items \cup turn.own \subseteq AllItems
          /\ OwnItems \subseteq turn.view.items \cup turn.own
      BY <1>0, <2>2, <2>6 DEF KnowsInv, Shows
    <3>2. /\ turn'.spec.snap.items \subseteq AllItems'
          /\ OwnItems' \subseteq turn'.spec.snap.items
      BY <2>2, <2>6, <3>1
    <3> QED
      BY <1>0, <2>1, <2>2, <2>6, <3>2 DEF RequestInv, Shows
  <2> QED
    BY <2>1, <2>4, <2>5, <2>6
<1> QED
  BY <1>2, <1>3, <1>5, <1>6, <1>7, <1>8, <1>9, EntrySteps DEF Rests, Still

LEMMA SawStep ==
    ASSUME Interrupts = FALSE, Shape, UnitsInv, DurableInv, GateInv, EntryInv, WorkInv, KnowsInv,
           RequestInv, SawInv, [Next]_vars
    PROVE  SawInv'
<1>0. /\ seq \in Nat /\ \A s \in Seqs : s \in Nat
      /\ \A s \in AllItems : s \in Seqs /\ s <= seq
      /\ \A s \in Seqs : entry[s].kind \in ItemKinds => s \in AllItems
      /\ {"call", "reply", "steer"} \subseteq ItemKinds
  <2>1. seq \in Nat /\ \A s \in Seqs : s \in Nat
    BY Ground DEF Seqs
  <2>2. \A s \in AllItems : s \in Seqs /\ entry[s].kind # "none"
    BY DEF AllItems, ItemKinds
  <2>3. \A s \in AllItems : s \in Seqs /\ s <= seq
    BY <2>1, <2>2 DEF EntryInv
  <2>4. \A s \in Seqs : entry[s].kind \in ItemKinds => s \in AllItems
    BY DEF AllItems
  <2>5. {"call", "reply", "steer"} \subseteq ItemKinds
    BY DEF ItemKinds
  <2> QED
    BY <2>1, <2>3, <2>4, <2>5
<1>1. CASE Crash
  <2>1. \A s \in Seqs : entry'[s] = entry[s] \/ entry'[s] = NoEntry
    BY <1>1 DEF Crash
  <2>2. NoEntry.kind = "none"
    BY DEF NoEntry
  <2>3. \A s \in Seqs : entry'[s].kind \in {"steer", "call", "reply"} => entry'[s] = entry[s]
    BY <2>1, <2>2
  <2> QED
    BY <2>3 DEF SawInv
<1>2. CASE Still
  BY <1>2 DEF Still, SawInv
<1>3. ASSUME \A s \in Seqs : s <= seq => entry'[s] = entry[s],
             \A a \in Seqs : a > seq /\ entry'[a].kind \in {"call", "reply"} =>
                \A s \in Seqs : s < a /\ entry'[s].kind = "steer" => s \in entry'[a].saw
      PROVE  SawInv'
  <2>1. ASSUME NEW a \in Seqs, NEW s \in Seqs, s < a, entry'[s].kind = "steer",
               entry'[a].kind \in {"call", "reply"}
        PROVE  s \in entry'[a].saw
    <3>1. CASE a > seq
      BY <1>3, <2>1, <3>1
    <3>2. CASE a <= seq
      <4>1. s <= seq
        BY <1>0, <2>1, <3>2
      <4>2. entry'[a] = entry[a] /\ entry'[s] = entry[s]
        BY <1>3, <3>2, <4>1
      <4> QED
        BY <2>1, <4>2 DEF SawInv
    <3> QED
      BY <1>0, <3>1, <3>2
  <2> QED
    BY <2>1 DEF SawInv
<1>4. CASE AppendSend
  <2>1. /\ seq' = seq + 1 /\ entry'[seq'].kind = op.work[1] /\ 1 \in DOMAIN op.work
        /\ \A s \in Seqs : s # seq' => entry'[s] = entry[s]
    BY <1>4, AppendSendFacts
  <2>2. op.work[1] \notin {"call", "reply"}
    BY <2>1 DEF WorkInv
  <2>3. \A a \in Seqs : a > seq /\ a # seq' => entry'[a].kind \notin ItemKinds
    BY <1>0, <2>1
  <2>4. \A s \in Seqs : s <= seq => entry'[s] = entry[s]
    BY <1>0, <2>1
  <2> QED
    BY <1>0, <1>3, <2>1, <2>2, <2>3, <2>4
<1>5. ASSUME NEW kinds, NEW saw, Sends(kinds, saw),
             \/ \A i \in DOMAIN kinds : kinds[i] \notin {"call", "reply"}
             \/ /\ kinds[1] \in {"call", "reply"} /\ Len(kinds) = 2 /\ kinds[2] = "mark"
                /\ turn.at = "sampling" /\ saw = turn.req.items
      PROVE  SawInv'
  <2>1. /\ Live /\ seq' = seq + Len(kinds) /\ DOMAIN kinds = 1..Len(kinds) /\ Len(kinds) \in Nat
        /\ \A s \in Seqs : s <= seq \/ s > seq' => entry'[s] = entry[s]
        /\ \A s \in Seqs : s > seq /\ s <= seq' =>
              /\ s - seq \in DOMAIN kinds /\ entry'[s].kind = kinds[s - seq]
              /\ entry'[s].saw = saw
    BY <1>5, SendFacts
  <2>2. \A a \in Seqs : a > seq /\ entry'[a].kind \in {"call", "reply"} => a <= seq'
    BY <1>0, <2>1
  <2>3. CASE \A i \in DOMAIN kinds : kinds[i] \notin {"call", "reply"}
    <3>1. \A a \in Seqs : a > seq => entry'[a].kind \notin {"call", "reply"}
      BY <2>1, <2>2, <2>3
    <3> QED
      BY <1>3, <2>1, <3>1
  <2>4. CASE /\ kinds[1] \in {"call", "reply"} /\ Len(kinds) = 2 /\ kinds[2] = "mark"
             /\ turn.at = "sampling" /\ saw = turn.req.items
    <3>1. \A s \in OwnItems : s \in saw
      BY <2>1, <2>4 DEF KnowsInv
    <3>2. ASSUME NEW a \in Seqs, a > seq, entry'[a].kind \in {"call", "reply"},
                 NEW s \in Seqs, s < a, entry'[s].kind = "steer"
          PROVE  s \in entry'[a].saw
      <4>1. a <= seq' /\ a - seq \in 1..2 /\ entry'[a].kind = kinds[a - seq] /\ entry'[a].saw = saw
        BY <2>1, <2>2, <2>4, <3>2
      <4>2. a - seq = 1
        BY <1>0, <2>4, <3>2, <4>1
      <4>3. s <= seq
        BY <1>0, <3>2, <4>2
      <4>4. s \in OwnItems
        BY <1>0, <2>1, <3>2, <4>3, OwnKindFacts DEF OwnItems
      <4> QED
        BY <3>1, <4>1, <4>4
    <3> QED
      BY <1>3, <2>1, <3>2
  <2> QED
    BY <1>5, <2>3, <2>4
<1>6. CASE Prompts
  <2>1. Sends(<<"user">>, {}) /\ \A i \in DOMAIN <<"user">> : <<"user">>[i] \notin {"call", "reply"}
    BY <1>6 DEF Prompts
  <2> QED
    BY <1>5, <2>1
<1>7. CASE Proposes
  <2>1. PICK kinds, saw : Sends(kinds, saw) /\ Says(kinds, saw)
    BY <1>7 DEF Proposes
  <2> QED
    BY <1>5, <2>1, SaysFacts
<1> QED
  BY <1>1, <1>2, <1>4, <1>6, <1>7, EntrySteps

-----------------------------------------------------------------------------
(* The theorems.                                                            *)

LEMMA BoundaryInit == Init => BoundaryInv
<1> SUFFICES ASSUME Init PROVE BoundaryInv
  OBVIOUS
<1>1. /\ fifo = <<>> /\ seq = 0 /\ op = Loop /\ turn = NoTurn /\ pub = head
      /\ head.epoch = 0 /\ head.closed = {} /\ \A s \in Seqs : entry[s].kind = "none"
  BY DEF Init, NoEntry
<1>2. /\ Loop.at = "loop" /\ Loop.then = "loop" /\ Loop.work = <<>>
      /\ NoTurn.at = "none" /\ NoTurn.tickets = <<>> /\ NoTurn.mine = 0
      /\ NoTurn.spec.leaf = 0
  BY DEF Loop, NoTurn
<1>3. \A u \in Elems(fifo) : FALSE
  BY <1>1 DEF Elems
<1>4. OwnedInv
  BY <1>1, <1>2, <1>3 DEF OwnedInv
<1>5. WorkInv
  BY <1>1, <1>2 DEF WorkInv
<1>6. EntryInv
  BY <1>1 DEF EntryInv
<1>7. CallsInv /\ KnowsInv /\ RequestInv
  BY <1>1, <1>2 DEF CallsInv, KnowsInv, RequestInv
<1>8. SawInv
  BY <1>1 DEF SawInv
<1> QED
  BY <1>4, <1>5, <1>6, <1>7, <1>8 DEF BoundaryInv

LEMMA BoundaryInductive ==
    ASSUME Interrupts = FALSE
    PROVE  PipelineInv /\ PipelineInv' /\ BoundaryInv /\ [Next]_vars => BoundaryInv'
<1> SUFFICES ASSUME PipelineInv, PipelineInv', BoundaryInv, [Next]_vars
             PROVE  BoundaryInv'
  OBVIOUS
<1>1. /\ Shape /\ QueueInv /\ UnitsInv /\ DurableInv /\ GateInv /\ ToolsInv
      /\ FileInv /\ AckInv /\ HeadInv /\ Shape' /\ HeadInv'
  BY DEF PipelineInv, OrderInv, IInv
<1>2. /\ OwnedInv /\ WorkInv /\ EntryInv /\ CallsInv /\ KnowsInv /\ RequestInv /\ SawInv
  BY DEF BoundaryInv
<1>3. OwnedInv'
  BY <1>1, <1>2, OwnedStep
<1>4. WorkInv'
  BY <1>1, <1>2, WorkStep
<1>5. EntryInv'
  BY <1>1, <1>2, EntryStep
<1>6. CallsInv'
  BY <1>1, <1>2, CallsStep
<1>7. KnowsInv'
  BY <1>1, <1>2, KnowsStep
<1>8. RequestInv'
  BY <1>1, <1>2, RequestStep
<1>9. SawInv'
  BY <1>1, <1>2, SawStep
<1> QED
  BY <1>3, <1>4, <1>5, <1>6, <1>7, <1>8, <1>9 DEF BoundaryInv

\* What the parties at a sample boundary may assume of each other, for as long as
\* no interrupt races a fold.
THEOREM BoundaryAgrees ==
    ASSUME Interrupts = FALSE
    PROVE  Spec => []BoundaryInv
<1>1. Spec => []PipelineInv
  BY PipelineAgrees
<1>2. Init => BoundaryInv
  BY BoundaryInit
<1>3. PipelineInv /\ PipelineInv' /\ BoundaryInv /\ [Next]_vars => BoundaryInv'
  BY BoundaryInductive
<1> QED
  BY <1>1, <1>2, <1>3, PTL DEF Spec

\* Barrier (b), whatever is lost, killed or panics: a sample is built from every item
\* that was committed up to the turn's own last commit.
THEOREM ReadsItsWrites ==
    ASSUME Interrupts = FALSE, PlanToggles = FALSE
    PROVE  Spec => []ReadYourWrites
<1>1. PipelineInv /\ BoundaryInv => ReadYourWrites
  <2> SUFFICES ASSUME PipelineInv, RequestInv, turn.at = "sampling",
                      NEW s \in 1..turn.mine, entry[s].kind \in ItemKinds
               PROVE  s \in turn.req.items
    BY DEF BoundaryInv, ReadYourWrites
  <2>1. turn.mine \in 0..MaxSeq
    BY DEF PipelineInv, IInv, Shape, TypeOK, TurnTypeOK, Turns
  <2>2. s \in Seqs /\ s <= turn.mine
    BY <2>1, BoundsAreNats DEF Seqs
  <2> QED
    BY <2>2, OwnKindFacts DEF RequestInv, AllItems
<1> QED
  BY <1>1, PipelineAgrees, BoundaryAgrees, PTL

\* The order of items: no steer is released in front of an assistant item that its
\* sample had not seen.
THEOREM SteersAreSeen ==
    ASSUME Interrupts = FALSE
    PROVE  Spec => []SteerNeverPrecedesUnseen
<1>1. PipelineInv /\ BoundaryInv => SteerNeverPrecedesUnseen
  <2> SUFFICES ASSUME PipelineInv, SawInv
               PROVE  SteerNeverPrecedesUnseen
    BY DEF BoundaryInv
  <2>1. head.projected \in Seq(Seqs)
    BY DEF PipelineInv, IInv, Shape, TypeOK, HeadTypeOK, Heads
  <2>2. Elems(head.projected) \subseteq Seqs
    BY <2>1 DEF Elems
  <2> QED
    BY <2>2 DEF SawInv, SteerNeverPrecedesUnseen
<1> QED
  BY <1>1, PipelineAgrees, BoundaryAgrees, PTL

\* The adoption rule: a speculative request is adopted only if its items are those of
\* the refreshed head, and if no checklist rides along it is the same request.
THEOREM AdoptionIsCurrent ==
    ASSUME Interrupts = FALSE, PlanToggles = FALSE, MaxTodos = 0
    PROVE  Spec => []AdoptedIsCurrent
<1>1. PipelineInv /\ BoundaryInv => AdoptedIsCurrent
  <2> SUFFICES ASSUME PipelineInv, RequestInv, turn.at = "sampling"
               PROVE  turn.req = turn.view
    BY DEF BoundaryInv, AdoptedIsCurrent
  <2>1. turn.req \in Snapshots /\ turn.view \in Snapshots
    BY DEF PipelineInv, IInv, Shape, TypeOK, TurnTypeOK, Turns
  <2>2. turn.req.items = turn.view.items /\ turn.req.todos = turn.view.todos
    BY <2>1 DEF RequestInv, Snapshots
  <2> QED
    BY <2>1, <2>2 DEF Snapshots
<1> QED
  BY <1>1, PipelineAgrees, BoundaryAgrees, PTL
-----------------------------------------------------------------------------
(* The plan file.                                                           *)

\* The handler that is to write the plan file appends its entry first, with the
\* list that the head has taken, and unless the log gave up it is projected by then.
PlanInv ==
    op.then = "plan" =>
        /\ op.at \in {"append", "await"} => op.work = <<"todos">>
        /\ op.at = "await" => entry[seq].kind = "todos" /\ entry[seq].list = head.todos
        /\ op.at = "done" /\ ~sealed =>
              \E s \in Elems(head.projected) :
                  entry[s].kind = "todos" /\ entry[s].list = head.todos

LEMMA PlanAppended ==
    ASSUME Shape, PlanInv, AppendSend
    PROVE  PlanInv'
<1> DEFINE kinds == <<op.work[1]>>
<1>1. /\ op \in Ops /\ op.at = "append" /\ kinds \in Seq(Kinds) /\ kinds # <<>> /\ Len(kinds) = 1
  BY WorkFront DEF AppendSend
<1>2. /\ Room(kinds) /\ entry' = Minted(kinds, lastId, {}) /\ seq' = NewUnit(kinds).last
      /\ head' = head /\ op' = [op EXCEPT !.at = "await"]
  BY DEF AppendSend, Refuses
<1>3. op'.at = "await" /\ op'.work = op.work /\ op'.then = op.then
  BY <1>1, <1>2 DEF Ops
<1>4. kinds[1] = op.work[1]
  OBVIOUS
<1> HIDE DEF kinds
<1>5. seq' = seq + 1 /\ seq' \in Seqs /\ seq \in Nat
  BY <1>1, <1>2, NewUnitType, Ground DEF Shape
<1>6. seq' \in seq + 1 .. seq + Len(kinds) /\ seq' - seq = 1
  BY <1>1, <1>5
<1>7. entry'[seq'].kind = op.work[1] /\ entry'[seq'].list = head.todos
  BY <1>2, <1>4, <1>5, <1>6 DEF Minted
<1>8. op.work = <<"todos">> => op.work[1] = "todos"
  OBVIOUS
<1> QED
  BY <1>1, <1>2, <1>3, <1>7, <1>8 DEF PlanInv

LEMMA PlanStep ==
    ASSUME Shape, GateInv, PlanInv, [Next]_vars
    PROVE  PlanInv'
<1>1. CASE op'.then # "plan" \/ op'.at = "loop"
  BY <1>1 DEF PlanInv
<1>2. CASE op' = op /\ (op.then # "plan" \/ op.at = "loop")
  BY <1>1, <1>2
<1>3. CASE \/ Writer \/ WriterFails \/ WriterDies \/ UNCHANGED vars
           \/ UNCHANGED <<logVars, actorVars, others>>
  <2>1. UNCHANGED <<op, entry, seq, head>> /\ (sealed => sealed')
    BY <1>3 DEF Writer, WriterTake, WriterWrite, WriterSync, WriterAck, WriterFails,
                WriterDies, actorVars, logVars, vars
  <2> QED
    BY <2>1 DEF PlanInv
<1>4. CASE AckArm
  BY <1>1, <1>4, AckArmFields
<1>5. CASE Drain
  <2>1. op' = op /\ op.at = "append"
    BY <1>5 DEF Drain
  <2> QED
    BY <2>1 DEF PlanInv
<1>6. CASE AppendRefused \/ AppendErr
  BY <1>6, AppendFails DEF PlanInv
<1>7. CASE AppendOk
  <2>1. /\ op.at = "await" /\ op'.then = op.then /\ head'.todos = head.todos
        /\ op'.at \in {"append", "done"} /\ UNCHANGED <<entry, seq>>
    BY <1>7, AppendLands
  <2>2. op.work = <<"todos">> => op'.at = "done"
    BY <1>7, Ground DEF AppendOk, Ops
  <2>3. seq \in Elems(head'.projected)
    <3> DEFINE u == [first |-> seq, last |-> seq]
    <3>1. u \in Unit /\ u.first = seq /\ u.last = seq /\ seq \in Nat
      BY <2>1, AwaitedType, BoundsAreNats DEF Seqs
    <3> HIDE DEF u
    <3>2. head \in Heads
      BY DEF Shape, TypeOK, HeadTypeOK
    <3>3. head' = Advance(head, u)
      BY <1>7 DEF AppendOk, u
    <3>4. Elems(Advance(head, u).projected) = Elems(head.projected) \cup seq .. seq
      BY <3>1, <3>2, AdvanceType
    <3>5. Elems(head'.projected) = Elems(Advance(head, u).projected)
      BY <3>3, Zenon
    <3> QED
      BY <3>1, <3>4, <3>5
  <2> QED
    BY <2>1, <2>2, <2>3 DEF PlanInv
<1>8. CASE \/ Settle \/ Return \/ PlanWritten \/ Spawn \/ NoSpawn \/ EndTurn \/ FoldInterrupted
           \/ Crash
  <2>1. op' = Loop \/ \E work : \E then \in {"loop", "respawn"} : op' = Run(work, then)
    BY <1>8 DEF Settle, Return, PlanWritten, Spawn, NoSpawn, EndTurn, FoldInterrupted, Crash
  <2> QED
    BY <1>1, <2>1, RunFields
<1>9. CASE TurnFinished \/ Command \/ SetPlan \/ Steer \/ PromptAwaited \/ FoldNow
  <2>1. (op' = op /\ op.at = "loop") \/ \E work : \E then \in {"loop", "spawn", "end"} : op' = Run(work, then)
    BY <1>9 DEF TurnFinished, Command, SetPlan, Steer, PromptAwaited, FoldNow, Idle
  <2> QED
    BY <1>1, <1>2, <2>1, RunFields
<1>10. CASE SetTodos
  <2>1. op' = Run(<<"todos">>, "plan")
    BY <1>10 DEF SetTodos
  <2>2. op'.at = "append" /\ op'.work = <<"todos">>
    BY <2>1, RunFields
  <2> QED
    BY <2>2 DEF PlanInv
<1>11. CASE Continue \/ Prompts \/ Proposes \/ Burns
  <2>1. op' = op /\ op.at = "loop"
    BY <1>11 DEF Continue, Prompts, Proposes, Burns, Sends, Idle, actorVars
  <2> QED
    BY <1>2, <2>1
<1>12. CASE Turn \/ Panic \/ PromptFast
  BY <1>3, <1>11, <1>12, TurnMoves, PromptMoves DEF Ponders
<1> QED
  BY <1>3, <1>4, <1>5, <1>6, <1>7, <1>8, <1>9, <1>10, <1>11, <1>12, PlanAppended
     DEF Next, Actor, Commands

\* The plan file is written behind the durable append of what it shows: the handler
\* of a checklist change awaits its entry first, whatever else the log takes meanwhile.
THEOREM PlanFollows == Spec => PlanFollowsLog
<1>1. Init => PlanInv
  BY RunFields DEF Init, PlanInv
<1>2. IInv /\ GateInv /\ PlanInv /\ [Next]_vars => PlanInv'
  BY PlanStep DEF IInv
<1>3. IInv /\ ProjectionBehindLog /\ PlanInv /\ [Next]_vars => [~sealed => PlanBehindLog']_artifact
  <2> SUFFICES ASSUME IInv, ProjectionBehindLog, PlanInv, [Next]_vars, artifact' # artifact, ~sealed
               PROVE  PlanBehindLog'
    OBVIOUS
  <2>1. PlanWritten
    BY DEF Next, vars, others, logVars, actorVars, Writer, WriterTake, WriterWrite, WriterSync,
           WriterAck, WriterFails, WriterDies, Actor, AckArm, Drain, AppendSend, AppendRefused,
           AppendOk, AppendErr, Settle, Return, Spawn, NoSpawn, EndTurn, TurnFinished,
           FoldInterrupted, Commands, Command, SetPlan, SetTodos, Steer, PromptFast, PromptAwaited,
           Continue, FoldNow, Turn, Resolve, BarrierFails, Boundary, Sampled, Propose, SampleEnds,
           Dispatch, ToolsDone, Replied, Finish, Panic, Crash
  <2>2. /\ op.at = "done" /\ op.then = "plan" /\ artifact' = head.todos
        /\ UNCHANGED <<entry, file, good>>
    BY <2>1 DEF PlanWritten, logVars
  <2>3. PICK s \in Elems(head.projected) : entry[s].kind = "todos" /\ entry[s].list = head.todos
    BY <2>2 DEF PlanInv
  <2>4. s \in Durable /\ Durable' = Durable
    <3>1. s \in Durable
      BY <2>3 DEF ProjectionBehindLog
    <3> QED
      BY <2>2, <3>1 DEF Durable
  <2>5. entry'[s].kind = "todos" /\ entry'[s].list = artifact' /\ artifact' \in Nat
    <3>1. head.todos \in Nat
      BY Ground, BoundsAreNats DEF Heads, IInv
    <3> QED
      BY <2>2, <2>3, <3>1
  <2> QED
    BY <2>4, <2>5 DEF PlanBehindLog
<1>4. IInv => ProjectionBehindLog
  BY DEF IInv
<1> QED
  BY <1>1, <1>2, <1>3, <1>4, Inductive, GateInductive, PTL DEF Spec, PlanFollowsLog

-----------------------------------------------------------------------------
(* Batches of calls and their results.                                      *)

\* The items that stay where they are; a fold's digest is none of them.
TalkKinds == ItemKinds \ {"fold"}
Talk == {s \in Seqs : entry[s].kind \in TalkKinds}

NextTalk(i, j) == i < j /\ \A k \in Talk : ~(i < k /\ k < j)

\* What BatchesStayPaired says, of the whole log and not only of what is projected.
PairedLog ==
    \A j \in Talk :
        /\ entry[j].kind = "results" =>
              \E i \in Talk : NextTalk(i, j) /\ entry[i].kind = "call"
        /\ entry[j].kind # "results" =>
              \A i \in Talk : NextTalk(i, j) /\ entry[i].kind = "call" => i \in head.closed

\* The log ends on calls that nothing has answered.
Open == \E i \in Talk : /\ entry[i].kind = "call" /\ i \notin head.closed
                        /\ \A k \in Talk : k <= i

\* The actor is about to answer them itself.
Closes == op.at = "append" /\ op.work[1] = "results"

\* While a batch is open the turn runs it, or ends without it, and the actor appends
\* nothing a model would read until it closes it; and then the batch is open.
BatchInv ==
    /\ Live /\ Open =>
          /\ turn.at \in {"calls", "tools", "finishing", "ended"}
          /\ op.then \notin {"spawn", "respawn"}
          /\ \/ Closes
             \/ op.then # "end" /\ \A i \in DOMAIN op.work : op.work[i] \in {"mark", "todos"}
          /\ \A u \in Elems(fifo) : u.last = seq
    /\ Live /\ turn.at \in {"calls", "tools"} => Open
    /\ Live /\ Closes => Open /\ turn.at = "ended"

LEMMA TalkFacts ==
    ASSUME Shape, EntryInv
    PROVE  /\ seq \in Nat
           /\ \A s \in Seqs : s \in Nat
           /\ \A s \in Talk : s \in Seqs /\ s \in Nat /\ s <= seq /\ entry[s].kind \in TalkKinds
<1>1. seq \in Nat /\ \A s \in Seqs : s \in Nat
  BY Ground DEF Seqs
<1>2. "none" \notin TalkKinds
  BY DEF TalkKinds, ItemKinds
<1> QED
  BY <1>1, <1>2 DEF Talk, EntryInv

\* A head that has projected all of them ends on an open batch iff the log does.
LEMMA AwaitingIsOpen ==
    ASSUME NEW h \in Heads, h.projected = UpTo(h.epoch), h.closed = head.closed,
           \A k \in Talk : k \in Nat /\ k >= 1 /\ k <= h.epoch
    PROVE  Awaiting(h) <=> Open
<1> DEFINE n == h.epoch
           s == UpTo(n)
<1>1. n \in Nat
  BY BoundsAreNats DEF Heads
<1>2. Len(s) = n /\ DOMAIN s = 1..n /\ \A i \in 1..n : s[i] = i
  BY <1>1 DEF UpTo
<1> HIDE DEF n, s
<1>3. \A i : IsItem(s, i) <=> i \in 1..n /\ entry[i].kind \in TalkKinds
  BY <1>2 DEF IsItem, TalkKinds
<1>4. \A i \in 1..n : i \in Seqs
  <2>1. n \in 0..MaxSeq
    BY DEF Heads, n
  <2> QED
    BY <2>1, BoundsAreNats DEF Seqs
<1>5. \A i : IsItem(s, i) <=> i \in Talk
  BY <1>1, <1>3, <1>4 DEF Talk, n
<1>6. \A i : NextItem(s, i, n + 1) <=> i \in Talk /\ \A k \in Talk : k <= i
  <2>1. ASSUME NEW i \in Talk
        PROVE  (\A k \in 1..n : i < k /\ k < n + 1 => ~IsItem(s, k)) <=> \A k \in Talk : k <= i
    <3>1. \A k \in Talk : k \in 1..n /\ k < n + 1
      BY <1>1 DEF n
    <3> QED
      BY <1>1, <1>5, <3>1
  <2>2. \A i \in Talk : i < n + 1
    BY <1>1 DEF n
  <2> QED
    BY <1>1, <1>2, <1>5, <2>1, <2>2 DEF NextItem
<1>7. LastItems(s) = {i \in Talk : \A k \in Talk : k <= i}
  <2>1. LastItems(s) = {s[i] : i \in {j \in 1..n : NextItem(s, j, n + 1)}}
    BY <1>2 DEF LastItems
  <2>2. \A i \in Talk : i \in 1..n
    BY <1>1 DEF n
  <2> QED
    BY <1>2, <1>6, <2>1, <2>2
<1>8. Awaiting(h) <=> \E i \in LastItems(s) : entry[i].kind = "call" /\ i \notin h.closed
  BY DEF Awaiting, s, n
<1> QED
  BY <1>7, <1>8 DEF Open

\* A mint leaves the log paired if it answers the open batch, and nothing else.
LEMMA MintTalk ==
    ASSUME Shape, EntryInv, head.epoch <= seq, NEW kinds, Len(kinds) \in 1..2,
           Len(kinds) = 2 => kinds[2] = "mark" \/ (kinds[1] = "results" /\ kinds[2] = "user"),
           seq' \in Seqs, seq' = seq + Len(kinds), head'.closed = head.closed,
           \A s \in Seqs : s <= seq \/ s > seq' => entry'[s] = entry[s],
           \A s \in Seqs : s > seq /\ s <= seq' => entry'[s].kind = kinds[s - seq]
    PROVE  /\ kinds[1] \notin TalkKinds => (Open' <=> Open)
           /\ kinds[1] = "call" => Open'
           /\ kinds[1] \in TalkKinds \ {"call"} => ~Open'
           /\ PairedLog /\ (kinds[1] \in TalkKinds => (kinds[1] = "results" <=> Open)) => PairedLog'
<1> DEFINE n == seq + 1
<1>0. /\ seq \in Nat /\ n \in Nat /\ n \in Seqs /\ n > seq /\ n <= seq'
      /\ \A s \in Seqs : s \in Nat
      /\ \A s \in Talk : s \in Seqs /\ s \in Nat /\ s < n /\ entry[s].kind \in TalkKinds
      /\ \A s \in head.closed : s < n
  <2>1. seq \in Nat /\ \A s \in Seqs : s \in Nat
    BY TalkFacts
  <2>2. head.closed \subseteq Seqs /\ head.epoch \in Nat
    BY Ground DEF Heads
  <2>3. n \in Seqs
    BY <2>1, BoundsAreNats DEF Seqs
  <2>4. \A s \in Talk : s \in Seqs /\ s \in Nat /\ s < n /\ entry[s].kind \in TalkKinds
    BY <2>1, TalkFacts
  <2>5. \A s \in head.closed : s < n
    <3> SUFFICES ASSUME NEW s \in head.closed
                 PROVE  s < n
      OBVIOUS
    <3>1. s \in Nat /\ s <= head.epoch
      BY <2>1, <2>2 DEF EntryInv
    <3> QED
      BY <2>1, <2>2, <3>1
  <2> QED
    BY <2>1, <2>3, <2>4, <2>5
<1>1. entry'[n].kind = kinds[1]
  BY <1>0
<1>2. \A s \in Talk : entry'[s] = entry[s]
  BY <1>0
<1>3. /\ {"mark", "none"} \cap TalkKinds = {} /\ {"call", "results", "user"} \subseteq TalkKinds
  BY DEF TalkKinds, ItemKinds
<1> DEFINE second == Len(kinds) = 2 /\ kinds[2] = "user"
<1>4. second => kinds[1] = "results" /\ n + 1 \in Seqs /\ entry'[n + 1].kind = "user"
  BY <1>0
<1>5. \A s \in Seqs : s \in Talk' <=> \/ s \in Talk
                                      \/ s = n /\ kinds[1] \in TalkKinds
                                      \/ s = n + 1 /\ second
  <2> SUFFICES ASSUME NEW s \in Seqs
               PROVE  entry'[s].kind \in TalkKinds <=> \/ entry[s].kind \in TalkKinds
                                                       \/ s = n /\ kinds[1] \in TalkKinds
                                                       \/ s = n + 1 /\ second
    BY DEF Talk
  <2>1. CASE s <= seq
    BY <1>0, <2>1
  <2>2. CASE s = n
    <3>1. entry[s].kind = "none"
      BY <1>0, <2>2 DEF EntryInv
    <3> QED
      BY <1>0, <1>1, <1>3, <2>2, <3>1
  <2>3. CASE s > n
    <3>1. entry[s].kind = "none"
      BY <1>0, <2>3 DEF EntryInv
    <3>2. CASE s > seq'
      BY <1>0, <1>3, <1>4, <2>3, <3>1, <3>2
    <3>3. CASE s <= seq'
      <4>1. s = n + 1 /\ Len(kinds) = 2 /\ entry'[s].kind = kinds[2]
        BY <1>0, <2>3, <3>3
      <4> QED
        BY <1>0, <1>3, <3>1, <4>1
    <3> QED
      BY <1>0, <3>2, <3>3
  <2> QED
    BY <1>0, <2>1, <2>2, <2>3
<1>6. \A s \in Talk' : s \in Seqs
  BY DEF Talk
<1> HIDE DEF n, second
<1>7. kinds[1] \notin TalkKinds => (Open' <=> Open)
  <2> SUFFICES ASSUME kinds[1] \notin TalkKinds
               PROVE  Open' <=> Open
    OBVIOUS
  <2>1. Talk' = Talk
    BY <1>0, <1>3, <1>4, <1>5, <1>6
  <2> QED
    BY <1>2, <2>1 DEF Open
<1>8. kinds[1] = "call" => Open'
  <2> SUFFICES ASSUME kinds[1] = "call"
               PROVE  Open'
    OBVIOUS
  <2>0. kinds[1] \in TalkKinds /\ ~second
    BY <1>3, <1>4
  <2>1. n \in Talk' /\ \A k \in Talk' : k <= n
    <3>1. n \in Talk'
      BY <1>0, <1>5, <2>0
    <3>2. ASSUME NEW k \in Talk'
          PROVE  k <= n
      <4>1. k \in Talk \/ k = n
        BY <1>5, <1>6, <2>0
      <4> QED
        BY <1>0, <4>1
    <3> QED
      BY <3>1, <3>2
  <2>2. n \notin head'.closed
    BY <1>0
  <2> QED
    BY <1>1, <2>1, <2>2 DEF Open
<1>9. kinds[1] \in TalkKinds \ {"call"} => ~Open'
  <2> SUFFICES ASSUME kinds[1] \in TalkKinds \ {"call"}, Open'
               PROVE  FALSE
    OBVIOUS
  <2>1. PICK i \in Talk' : entry'[i].kind = "call" /\ \A k \in Talk' : k <= i
    BY DEF Open
  <2>2. n \in Talk'
    BY <1>0, <1>5
  <2>3. n <= i /\ i \in Nat
    BY <1>0, <1>6, <2>1, <2>2
  <2>4. i \notin Talk
    BY <1>0, <2>3
  <2> QED
    BY <1>1, <1>4, <1>5, <1>6, <2>1, <2>4
<1>10. ASSUME PairedLog, kinds[1] \in TalkKinds => (kinds[1] = "results" <=> Open),
              NEW j \in Talk'
       PROVE  /\ entry'[j].kind = "results" =>
                   \E i \in Talk' : NextTalk(i, j)' /\ entry'[i].kind = "call"
              /\ entry'[j].kind # "results" =>
                   \A i \in Talk' : NextTalk(i, j)' /\ entry'[i].kind = "call" => i \in head'.closed
  <2>1. CASE j \in Talk
    <3>1. \A i \in Seqs : i < j => (i \in Talk' <=> i \in Talk)
      BY <1>0, <1>5, <2>1
    <3>2. \A i \in Seqs : NextTalk(i, j)' <=> NextTalk(i, j)
      BY <1>0, <1>6, <3>1, <2>1 DEF NextTalk
    <3>3. j \in Seqs /\ entry'[j] = entry[j]
      BY <1>2, <1>6, <2>1
    <3>4. ASSUME entry'[j].kind = "results"
          PROVE  \E i \in Talk' : NextTalk(i, j)' /\ entry'[i].kind = "call"
      <4>1. PICK i \in Talk : NextTalk(i, j) /\ entry[i].kind = "call"
        BY <1>10, <2>1, <3>3, <3>4 DEF PairedLog
      <4>2. i \in Seqs /\ i < j /\ entry'[i] = entry[i]
        BY <1>0, <1>2, <4>1 DEF NextTalk
      <4> QED
        BY <3>1, <3>2, <4>1, <4>2
    <3>5. ASSUME entry'[j].kind # "results", NEW i \in Talk', NextTalk(i, j)',
                 entry'[i].kind = "call"
          PROVE  i \in head'.closed
      <4>1. i \in Seqs /\ NextTalk(i, j)
        BY <1>6, <3>2, <3>5
      <4>2. i \in Talk
        BY <3>1, <3>5, <4>1 DEF NextTalk
      <4>3. entry[i].kind = "call"
        BY <1>2, <3>5, <4>2
      <4> QED
        BY <1>10, <2>1, <3>3, <3>5, <4>1, <4>2, <4>3 DEF PairedLog
    <3> QED
      BY <3>4, <3>5
  <2>2. CASE j = n /\ kinds[1] \in TalkKinds
    <3>0. j = n
      BY <2>2
    <3>1. \A i \in Seqs : i < n => (i \in Talk' <=> i \in Talk)
      BY <1>0, <1>5
    <3>2. \A i \in Talk : NextTalk(i, j)' <=> \A k \in Talk : k <= i
      <4> SUFFICES ASSUME NEW i \in Talk
                   PROVE  (i < j /\ \A k \in Talk' : ~(i < k /\ k < j)) <=> \A k \in Talk : k <= i
        BY DEF NextTalk
      <4>1. i < n /\ i \in Nat /\ \A k \in Talk : k < n /\ k \in Nat
        BY <1>0
      <4>2. \A k \in Talk' : k < n => k \in Talk
        BY <1>6, <3>1
      <4>3. \A k \in Talk : k \in Talk'
        BY <1>0, <1>5
      <4> QED
        <5>1. ASSUME \A k \in Talk' : ~(i < k /\ k < j), NEW k \in Talk
              PROVE  k <= i
          BY <3>0, <4>1, <4>3, <5>1
        <5>2. ASSUME \A k \in Talk : k <= i, NEW k \in Talk', i < k, k < j
              PROVE  FALSE
          <6>1. k < n
            BY <3>0, <5>2
          <6>2. k \in Talk
            BY <4>2, <5>2, <6>1
          <6> QED
            BY <4>1, <5>2, <6>2
        <5> QED
          BY <3>0, <4>1, <5>1, <5>2
    <3>3. CASE kinds[1] = "results"
      <4>1. PICK i \in Talk : entry[i].kind = "call" /\ \A k \in Talk : k <= i
        BY <1>10, <2>2, <3>3 DEF Open
      <4>2. i \in Talk' /\ NextTalk(i, j)' /\ entry'[i].kind = "call"
        BY <1>0, <1>2, <1>5, <3>2, <4>1
      <4> QED
        BY <1>1, <2>2, <3>3, <4>2
    <3>4. CASE kinds[1] # "results"
      <4>1. ASSUME NEW i \in Talk', NextTalk(i, j)', entry'[i].kind = "call"
            PROVE  i \in head'.closed
        <5>1. i \in Talk
          BY <1>6, <2>2, <3>1, <4>1 DEF NextTalk
        <5>2. entry[i].kind = "call" /\ \A k \in Talk : k <= i
          BY <1>2, <3>2, <4>1, <5>1
        <5> QED
          BY <1>10, <2>2, <3>4, <5>1, <5>2 DEF Open
      <4> QED
        BY <1>1, <2>2, <3>4, <4>1
    <3> QED
      BY <3>3, <3>4
  <2>3. CASE j = n + 1 /\ second
    <3>1. n \in Talk' /\ entry'[n].kind = "results" /\ entry'[j].kind = "user"
      BY <1>0, <1>1, <1>3, <1>4, <1>5, <2>3
    <3>2. ASSUME NEW i \in Talk', NextTalk(i, j)', entry'[i].kind = "call"
          PROVE  FALSE
      <4>1. i < n + 1 /\ ~(i < n /\ n < n + 1) /\ i \in Nat
        BY <1>0, <1>6, <2>3, <3>1, <3>2 DEF NextTalk
      <4>2. i = n
        BY <1>0, <4>1
      <4> QED
        BY <3>1, <3>2, <4>2
    <3> QED
      BY <3>1, <3>2
  <2> QED
    BY <1>5, <1>6, <2>1, <2>2, <2>3
<1>11. PairedLog /\ (kinds[1] \in TalkKinds => (kinds[1] = "results" <=> Open)) => PairedLog'
  BY <1>10 DEF PairedLog
<1> QED
  BY <1>7, <1>8, <1>9, <1>11

\* A kill drops what was not written, and what it leaves unanswered is answered in
\* memory when the log is read again.
LEMMA CrashTalk ==
    ASSUME Shape, EntryInv, FileInv, Crash
    PROVE  ~Open' /\ (PairedLog => PairedLog')
<1>1. PICK n \in good..Len(file) :
        /\ head'.closed = Dangling(SubSeq(file, 1, n))
        /\ entry' = [s \in Seqs |-> IF s <= n THEN entry[s] ELSE NoEntry]
  BY DEF Crash
<1>2. /\ file \in Seq(Seqs) /\ n \in 0..Len(file) /\ Len(file) \in Nat /\ n \in Nat
      /\ \A i \in 1..Len(file) : file[i] = i
  <2>1. /\ file \in Seq(Seqs) /\ Len(file) \in Nat /\ good \in 0..Len(file)
        /\ DOMAIN file = 1..Len(file)
    BY Ground
  <2>2. n \in 0..Len(file) /\ n \in Nat
    BY <1>1, <2>1
  <2> QED
    BY <2>1, <2>2 DEF FileInv
<1> DEFINE p == SubSeq(file, 1, n)
<1>3. Len(p) = n /\ DOMAIN p = 1..n /\ \A i \in 1..n : p[i] = i
  BY <1>2
<1>4. head'.closed = Dangling(p)
  BY <1>1
<1> HIDE DEF p
<1>5. /\ \A s \in Seqs : s \in Nat /\ s >= 1
      /\ \A s \in Talk : s \in Seqs /\ s \in Nat
  BY DEF Seqs, Talk
<1>6. \A s \in Seqs : s \in Talk' <=> s \in Talk /\ s <= n
  <2>1. NoEntry.kind \notin TalkKinds
    BY DEF NoEntry, TalkKinds, ItemKinds
  <2> QED
    BY <1>1, <2>1 DEF Talk
<1>7. \A s \in Talk' : s \in Seqs /\ entry'[s] = entry[s]
  <2>1. \A s \in Talk' : s \in Seqs
    BY DEF Talk
  <2> QED
    BY <1>1, <1>6, <2>1
<1>8. ASSUME NEW i \in Talk, i <= n, entry[i].kind = "call",
             \A k \in Talk : k <= n /\ NextTalk(i, k) => entry[k].kind # "results"
      PROVE  i \in head'.closed
  <2>1. \A k \in 1..n : IsItem(p, k) => k \in Talk
    <3>1. \A k \in 1..n : k \in Seqs
      BY <1>2
    <3> QED
      BY <1>3, <3>1 DEF IsItem, Talk, TalkKinds
  <2>2. \A k \in Talk : k <= n => k \in 1..n /\ IsItem(p, k)
    <3> SUFFICES ASSUME NEW k \in Talk, k <= n
                 PROVE  k \in 1..n /\ IsItem(p, k)
      OBVIOUS
    <3>1. k \in 1..n
      BY <1>2, <1>5
    <3> QED
      BY <1>3, <3>1 DEF IsItem, Talk, TalkKinds
  <2>3. ASSUME NEW k \in 1..n, NextItem(p, i, k)
        PROVE  entry[p[k]].kind # "results"
    <3>1. i < k /\ IsItem(p, k) /\ \A m \in 1..n : i < m /\ m < k => ~IsItem(p, m)
      BY <1>2, <1>3, <2>3 DEF NextItem
    <3>2. k \in Talk
      BY <2>1, <3>1
    <3>3. \A m \in Talk : m < k => m <= n
      BY <1>2, <1>5
    <3>4. NextTalk(i, k)
      BY <2>2, <3>1, <3>3 DEF NextTalk
    <3> QED
      BY <1>2, <1>3, <1>8, <3>2, <3>4
  <2>4. i \in 1..n /\ p[i] = i
    BY <1>3, <1>8, <2>2
  <2>5. i \in Dangling(p)
    BY <1>3, <1>8, <2>3, <2>4 DEF Dangling
  <2> QED
    BY <1>4, <2>5
<1>9. ASSUME Open'
      PROVE  FALSE
  <2>1. PICK i \in Talk' : entry'[i].kind = "call" /\ i \notin head'.closed /\ \A k \in Talk' : k <= i
    BY <1>9 DEF Open
  <2>2. i \in Talk /\ i <= n /\ entry[i].kind = "call"
    BY <1>6, <1>7, <2>1
  <2>3. ASSUME NEW k \in Talk, k <= n, NextTalk(i, k)
        PROVE  FALSE
    <3>1. k <= i
      BY <1>5, <1>6, <2>1, <2>3
    <3> QED
      BY <1>5, <2>2, <2>3, <3>1 DEF NextTalk
  <2> QED
    BY <1>8, <2>1, <2>2, <2>3
<1>10. ASSUME PairedLog, NEW j \in Talk'
       PROVE  /\ entry'[j].kind = "results" =>
                   \E i \in Talk' : NextTalk(i, j)' /\ entry'[i].kind = "call"
              /\ entry'[j].kind # "results" =>
                   \A i \in Talk' : NextTalk(i, j)' /\ entry'[i].kind = "call" => i \in head'.closed
  <2>1. j \in Talk /\ j \in Nat /\ j <= n /\ entry'[j] = entry[j]
    BY <1>5, <1>6, <1>7, <1>10
  <2>2. \A i \in Seqs : i < j => (i \in Talk' <=> i \in Talk)
    BY <1>2, <1>5, <1>6, <2>1
  <2>3. \A i \in Seqs : NextTalk(i, j)' <=> NextTalk(i, j)
    BY <1>5, <1>7, <2>2 DEF NextTalk
  <2>4. CASE entry[j].kind = "results"
    <3>1. PICK i \in Talk : NextTalk(i, j) /\ entry[i].kind = "call"
      BY <1>10, <2>1, <2>4 DEF PairedLog
    <3>2. i \in Talk' /\ i \in Seqs
      BY <1>5, <2>2, <3>1 DEF NextTalk
    <3> QED
      BY <1>7, <2>1, <2>3, <2>4, <3>1, <3>2
  <2>5. CASE entry[j].kind # "results"
    <3>1. ASSUME NEW i \in Talk', NextTalk(i, j), entry'[i].kind = "call"
          PROVE  i \in head'.closed
      <4>1. i \in Talk /\ i <= n /\ entry[i].kind = "call"
        BY <1>6, <1>7, <3>1
      <4>2. \A k \in Talk : NextTalk(i, k) => k = j
        <5> SUFFICES ASSUME NEW k \in Talk, NextTalk(i, k)
                     PROVE  k = j
          OBVIOUS
        <5>1. ~(k < j) /\ ~(j < k)
          BY <2>1, <3>1 DEF NextTalk
        <5> QED
          BY <1>5, <2>1, <5>1
      <4> QED
        BY <1>8, <2>5, <4>1, <4>2
    <3> QED
      BY <1>7, <2>1, <2>3, <2>5, <3>1
  <2> QED
    BY <2>1, <2>4, <2>5
<1> QED
  BY <1>9, <1>10 DEF PairedLog

LEMMA StillTalk ==
    ASSUME entry' = entry, head'.closed = head.closed
    PROVE  (Open' <=> Open) /\ (PairedLog => PairedLog')
<1>1. Talk' = Talk
  BY DEF Talk
<1>2. Open' <=> Open
  BY <1>1 DEF Open
<1>3. PairedLog => PairedLog'
  BY <1>1 DEF PairedLog, NextTalk
<1> QED
  BY <1>2, <1>3

\* What a turn or a prompt commits opens a batch if it is calls, answers the open
\* one if it is results, and else finds none open.
LEMMA SendTalk ==
    ASSUME Shape, GateInv, EntryInv, BatchInv, NEW kinds, NEW saw, Sends(kinds, saw),
           Says(kinds, saw) \/ (kinds = <<"user">> /\ turn.at = "none")
    PROVE  /\ kinds[1] = "call" => Open'
           /\ kinds[1] # "call" => ~Open'
           /\ PairedLog => PairedLog'
<1>0. /\ {"call", "reply", "user", "results"} \subseteq TalkKinds
      /\ head.epoch <= seq
  BY DEF TalkKinds, ItemKinds, GateInv
<1>1. /\ Len(kinds) \in 1..2
      /\ Len(kinds) = 2 => kinds[2] = "mark" \/ (kinds[1] = "results" /\ kinds[2] = "user")
      /\ kinds[1] \in {"call", "reply", "user", "results"}
      /\ kinds[1] = "results" => turn.at = "tools"
      /\ kinds[1] # "results" => turn.at \in {"sampling", "replied", "none"}
  <2>1. ASSUME NEW k \in {"call", "reply"}
        PROVE  Len(<<k, "mark">>) = 2 /\ <<k, "mark">>[1] = k /\ <<k, "mark">>[2] = "mark"
    OBVIOUS
  <2>2. CASE turn.at = "sampling" /\ kinds \in {<<"call", "mark">>, <<"reply", "mark">>}
    <3>1. PICK k \in {"call", "reply"} : kinds = <<k, "mark">>
      BY <2>2
    <3>2. Len(kinds) = 2 /\ kinds[1] = k /\ kinds[2] = "mark"
      BY <2>1, <3>1, Zenon
    <3> QED
      BY <2>2, <3>2
  <2>3. CASE turn.at = "tools" /\ kinds = <<"results">>
    BY <2>3
  <2>4. CASE turn.at = "tools" /\ kinds = <<"results", "user">>
    BY <2>4
  <2>5. CASE turn.at \in {"replied", "none"} /\ kinds = <<"user">>
    BY <2>5
  <2> QED
    BY <2>2, <2>3, <2>4, <2>5 DEF Says
<1>2. /\ Live /\ seq' \in Seqs /\ seq' = seq + Len(kinds) /\ head'.closed = head.closed
      /\ \A s \in Seqs : s <= seq \/ s > seq' => entry'[s] = entry[s]
      /\ \A s \in Seqs : s > seq /\ s <= seq' => entry'[s].kind = kinds[s - seq]
  BY SendFacts
<1>3. kinds[1] = "results" <=> Open
  BY <1>1, <1>2 DEF BatchInv
<1> QED
  BY <1>0, <1>1, <1>2, <1>3, MintTalk

\* What the actor appends answers the open batch or is not for the model's eyes.
LEMMA AppendTalk ==
    ASSUME Shape, GateInv, EntryInv, WorkInv, BatchInv, AppendSend
    PROVE  /\ op.work[1] \notin TalkKinds => (Open' <=> Open)
           /\ op.work[1] \in TalkKinds => ~Open'
           /\ PairedLog => PairedLog'
<1> DEFINE kinds == <<op.work[1]>>
<1>1. /\ Live /\ op.at = "append" /\ seq' = seq + 1 /\ seq' \in Seqs /\ head' = head
      /\ entry'[seq'].kind = op.work[1] /\ 1 \in DOMAIN op.work
      /\ \A s \in Seqs : s # seq' => entry'[s] = entry[s]
  BY AppendSendFacts
<1>2. seq \in Nat /\ \A s \in Seqs : s \in Nat
  BY Ground DEF Seqs
<1>3. Len(kinds) = 1 /\ kinds[1] = op.work[1]
  OBVIOUS
<1> HIDE DEF kinds
<1>4. \A s \in Seqs : s <= seq \/ s > seq' => entry'[s] = entry[s]
  BY <1>1, <1>2
<1>5. \A s \in Seqs : s > seq /\ s <= seq' => entry'[s].kind = kinds[s - seq]
  <2> SUFFICES ASSUME NEW s \in Seqs, s > seq, s <= seq'
               PROVE  entry'[s].kind = kinds[s - seq]
    OBVIOUS
  <2>1. s = seq' /\ s - seq = 1
    BY <1>1, <1>2
  <2> QED
    BY <1>1, <1>3, <2>1
<1>6. kinds[1] # "call"
  BY <1>1, <1>3 DEF WorkInv
<1>7. kinds[1] \in TalkKinds => (kinds[1] = "results" <=> Open)
  <2>1. "mark" \notin TalkKinds /\ "todos" \notin TalkKinds
    BY DEF TalkKinds, ItemKinds
  <2> QED
    BY <1>1, <1>3, <2>1 DEF BatchInv, Closes
<1>8. head.epoch <= seq /\ head'.closed = head.closed /\ seq' = seq + Len(kinds)
  BY <1>1, <1>3 DEF GateInv
<1> QED
  BY <1>1, <1>3, <1>4, <1>5, <1>6, <1>7, <1>8, MintTalk

LEMMA PairedStep ==
    ASSUME Interrupts = FALSE, Shape, UnitsInv, DurableInv, GateInv, FileInv, EntryInv, WorkInv,
           BatchInv, PairedLog, [Next]_vars
    PROVE  PairedLog'
<1>1. CASE Crash
  BY <1>1, CrashTalk
<1>2. CASE head'.closed = head.closed /\ Still
  BY <1>2, StillTalk DEF Still
<1>3. CASE AppendSend
  BY <1>3, AppendTalk
<1>4. CASE Prompts
  BY <1>4, SendTalk DEF Prompts
<1>5. CASE Proposes
  <2>1. PICK kinds, saw : Sends(kinds, saw) /\ Says(kinds, saw)
    BY <1>5 DEF Proposes
  <2> QED
    BY <2>1, SendTalk
<1> QED
  BY <1>1, <1>2, <1>3, <1>4, <1>5, EntrySteps

\* A step with which nothing is minted, and after which the actor is not closing a
\* batch, keeps BatchInv if it leaves an open batch to the turn.
LEMMA BatchKept ==
    ASSUME BatchInv, Live' => Live, Shape', Open' <=> Open, seq' = seq,
           Elems(fifo') \subseteq Elems(fifo),
           turn'.at \in {"calls", "tools"} => turn.at \in {"calls", "tools"},
           \A i \in DOMAIN op'.work : op'.work[i] # "results",
           Live /\ Open => /\ turn'.at \in {"calls", "tools", "finishing", "ended"}
                           /\ op'.then \notin {"spawn", "respawn", "end"}
                           /\ \A i \in DOMAIN op'.work : op'.work[i] \in {"mark", "todos"}
    PROVE  BatchInv'
<1>1. ~Closes'
  <2> SUFFICES ASSUME op'.at = "append"
               PROVE  op'.work[1] # "results"
    BY DEF Closes
  <2>1. op'.work \in Seq(Kinds) /\ op'.work # <<>>
    BY DEF Shape, TypeOK, OpTypeOK, Ops, OpInv
  <2>2. 1 \in DOMAIN op'.work
    BY <2>1
  <2> QED
    BY <2>2
<1> QED
  BY <1>1 DEF BatchInv

LEMMA BatchArms ==
    ASSUME PlanToggles = FALSE, Shape, Shape', OwnedInv, WorkInv, BatchInv,
           \/ Settle \/ Return \/ PlanWritten \/ Spawn \/ NoSpawn \/ EndTurn
           \/ Command \/ SetPlan \/ SetTodos \/ Steer \/ PromptAwaited \/ FoldNow \/ Continue
    PROVE  BatchInv'
<1>1. /\ UNCHANGED <<entry, seq, fifo, sealed, phase>> /\ head'.closed = head.closed
  <2>1. head \in Heads
    BY Ground
  <2> QED
    BY <2>1 DEF Settle, Return, PlanWritten, Spawn, NoSpawn, EndTurn, Command, SetPlan, SetTodos,
                Steer, PromptAwaited, FoldNow, Continue, logVars, actorVars, Heads
<1>2. (Open' <=> Open) /\ (Live' => Live) /\ Elems(fifo') = Elems(fifo)
  <2>1. Elems(fifo') = Elems(fifo)
    BY <1>1, Zenon
  <2> QED
    BY <1>1, <2>1, StillTalk DEF Live
<1>3. op.at = "loop" => op.work = <<>> /\ op.then = "loop" /\ ~Closes
  BY DEF OwnedInv, WorkInv, Closes
<1>4. \A k : /\ DOMAIN <<k>> = {1} /\ <<k>>[1] = k
             /\ DOMAIN <<k, k>> = {1, 2} /\ <<k, k>>[1] = k /\ <<k, k>>[2] = k
  OBVIOUS
<1>5. DOMAIN <<>> = {}
  OBVIOUS
\* The actor takes no open batch away from its turn.
<1>6. CASE /\ turn'.at = turn.at
           /\ op'.work \in {<<>>, <<"mark">>, <<"todos">>}
           /\ op'.then \in {"loop", "plan"}
  <2>1. \A i \in DOMAIN op'.work : op'.work[i] \in {"mark", "todos"}
    BY <1>4, <1>5, <1>6
  <2>2. Live /\ Open => turn.at \in {"calls", "tools", "finishing", "ended"}
    BY DEF BatchInv
  <2> QED
    BY <1>1, <1>2, <1>6, <2>1, <2>2, BatchKept
\* There is none.
<1>7. CASE /\ ~(Live /\ Open) /\ turn'.at \in {turn.at, "none", "boundary"}
           /\ op'.work \in {<<>>, <<"mark">>, <<"fold">>, <<"steer">>, <<"user">>, <<"user", "user">>}
  <2>1. \A i \in DOMAIN op'.work : op'.work[i] # "results"
    BY <1>4, <1>5, <1>7
  <2> QED
    BY <1>1, <1>2, <1>7, <2>1, BatchKept
<1>8. CASE Settle \/ Return \/ PlanWritten
  <2>1. op' = Loop /\ turn' = turn
    BY <1>8 DEF Settle, Return, PlanWritten
  <2> QED
    BY <1>6, <2>1, RunFields
<1>9. CASE Spawn \/ NoSpawn
  <2>1. ~(Live /\ Open)
    BY <1>9 DEF Spawn, NoSpawn, BatchInv
  <2>2. op' = Loop \/ op' = Run(<<"mark">>, "loop")
    BY <1>9 DEF Spawn, NoSpawn
  <2>3. turn'.at \in {"none", "boundary"}
    BY <1>9 DEF Spawn, NoSpawn, NoTurn
  <2> QED
    BY <1>7, <2>1, <2>2, <2>3, RunFields
<1>10. CASE EndTurn
  <2>1. ~(Live /\ Open)
    BY <1>10 DEF EndTurn, BatchInv, Closes
  <2>2. /\ op' = Loop \/ op' = Run(<<"mark">>, "loop") \/ op' = Run(<<"mark">>, "respawn")
           \/ op' = Run(<<"fold">>, "respawn")
        /\ turn'.at \in {turn.at, "none"}
    BY <1>10 DEF EndTurn, NoTurn
  <2> QED
    BY <1>7, <2>1, <2>2, RunFields
<1>11. CASE Command \/ SetTodos
  <2>1. turn' = turn /\ (op' = Run(<<"mark">>, "loop") \/ op' = Run(<<"todos">>, "plan"))
    BY <1>11 DEF Command, SetTodos
  <2> QED
    BY <1>6, <2>1, RunFields
<1>12. CASE SetPlan
  BY <1>12 DEF SetPlan
<1>13. CASE Steer \/ PromptAwaited \/ FoldNow \/ Continue
  <2>1. op.at = "loop"
    BY <1>13 DEF Steer, PromptAwaited, FoldNow, Continue, Idle
  <2>2. CASE turn' = turn /\ op' = op
    BY <1>3, <1>6, <2>1, <2>2
  <2>3. CASE turn.at = "none"
    <3>1. ~(Live /\ Open)
      BY <2>3 DEF BatchInv
    <3>2. turn'.at \in {"none", "boundary"}
      BY <1>13, <2>3 DEF Steer, PromptAwaited, FoldNow, Continue, NoTurn
    <3>3. \/ op' = op \/ op' = Run(<<"steer">>, "loop") \/ op' = Run(<<"fold">>, "loop")
          \/ op' = Run(<<"user">>, "spawn") \/ op' = Run(<<"user", "user">>, "spawn")
      BY <1>13 DEF Steer, PromptAwaited, FoldNow, Continue, actorVars
    <3>4. op'.work \in {<<>>, <<"fold">>, <<"steer">>, <<"user">>, <<"user", "user">>}
      BY <1>3, <2>1, <3>3, RunFields
    <3> QED
      BY <1>7, <3>1, <3>2, <3>4
  <2> QED
    BY <1>13, <2>2, <2>3 DEF Steer, PromptAwaited, FoldNow, Continue
<1> QED
  BY <1>8, <1>9, <1>10, <1>11, <1>12, <1>13

\* The ack arm releases nothing behind the commit that opens a batch, and while one
\* is open that is the only commit it can settle.
LEMMA BatchAcked ==
    ASSUME Shape, Shape', UnitsInv, DurableInv, GateInv, EntryInv, AckInv, HeadInv', BatchInv, AckArm
    PROVE  BatchInv'
<1> DEFINE u == Front(fifo)
           h == SettleFront("ok").head
<1>1. /\ fifo # <<>> /\ fifo' = Tail(fifo) /\ head' = h
      /\ u \in Elems(fifo) /\ u \in Unit /\ u \in Unsettled
      /\ op'.then = "settle"
      /\ op'.work = IF ~Awaiting(h) THEN [i \in 1..held |-> "steer"] ELSE <<>>
      /\ FrontAnswered /\ head \in Heads /\ UNCHANGED <<entry, seq, sealed, phase, turn>>
  BY AckArmFields, TailElems, SettleFacts, Ground DEF AckArm, logVars
<1>2. head'.closed = head.closed
  BY <1>1 DEF SettleFront, Advance, Heads
<1>3. (Open' <=> Open) /\ (Live' => Live)
  BY <1>1, <1>2, StillTalk DEF Live
<1>4. Elems(fifo') \subseteq Elems(fifo)
  <2>1. Elems(Tail(fifo)) \subseteq Elems(fifo)
    BY <1>1, Ground, TailElems
  <2>2. Elems(fifo') = Elems(Tail(fifo))
    BY <1>1, Zenon
  <2> QED
    BY <2>1, <2>2
<1>5. ASSUME Live, Open
      PROVE  op'.work = <<>>
  <2>1. u.last = seq
    BY <1>1, <1>5 DEF BatchInv
  <2>2. ack[u.last] = "ok"
    BY <1>1, <1>5, LiveDoomsNone DEF FrontAnswered
  <2>3. h = Advance(head, u)
    BY <2>2 DEF SettleFront
  <2>4. h.epoch = u.last
    BY <1>1, <2>3 DEF Advance, Heads
  <2>5. h \in Heads /\ h.projected = UpTo(h.epoch) /\ h.closed = head.closed
    <3>1. head' \in Heads /\ head'.projected = UpTo(head'.epoch)
      BY DEF HeadInv, Shape, TypeOK, HeadTypeOK
    <3> QED
      BY <1>1, <1>2, <3>1
  <2>6. \A k \in Talk : k \in Nat /\ k >= 1 /\ k <= h.epoch
    BY <2>1, <2>4, TalkFacts DEF Seqs
  <2> HIDE DEF h, u
  <2>7. Awaiting(h)
    BY <1>5, <2>5, <2>6, AwaitingIsOpen
  <2> QED
    BY <1>1, <2>7
<1> HIDE DEF h, u
<1>6. op'.work = <<>> \/ op'.work = [i \in 1..held |-> "steer"]
  BY <1>1
<1>7. \A i \in DOMAIN op'.work : op'.work[i] # "results"
  <2>1. DOMAIN <<>> = {}
    OBVIOUS
  <2>2. CASE op'.work = <<>>
    BY <2>1, <2>2
  <2>3. CASE op'.work = [i \in 1..held |-> "steer"]
    BY <2>3
  <2> QED
    BY <1>6, <2>2, <2>3
<1>8. Live /\ Open => /\ turn'.at \in {"calls", "tools", "finishing", "ended"}
                      /\ \A i \in DOMAIN op'.work : op'.work[i] \in {"mark", "todos"}
  BY <1>1, <1>5 DEF BatchInv
<1> QED
  BY <1>1, <1>3, <1>4, <1>7, <1>8, BatchKept

LEMMA BatchLands ==
    ASSUME Shape, Shape', GateInv, BatchInv, AppendOk
    PROVE  BatchInv'
<1>1. /\ op.at = "await" /\ op'.then = op.then /\ op'.work = Tail(op.work)
      /\ op.work # <<>> /\ op.work \in Seq(Kinds) /\ head'.closed = head.closed
      /\ UNCHANGED <<logVars, entry, seq, fifo, turn>>
  BY AppendLands
<1>2. (Open' <=> Open) /\ (Live' => Live) /\ Elems(fifo') = Elems(fifo)
  <2>1. Elems(fifo') = Elems(fifo)
    BY <1>1, Zenon
  <2> QED
    BY <1>1, <2>1, StillTalk DEF Live, logVars
<1>3. /\ DOMAIN op.work = 1..Len(op.work)
      /\ \A i \in DOMAIN op'.work : i \in Nat /\ i >= 1 /\ i + 1 \in DOMAIN op.work
                                    /\ op'.work[i] = op.work[i + 1]
  BY <1>1, FrontAndTail
<1>4. \A i \in DOMAIN op'.work : op'.work[i] # "results"
  <2>1. \A i \in 2..Len(op.work) : op.work[i] # "results"
    BY DEF Shape, OpInv, WorkOK
  <2>2. \A i \in DOMAIN op'.work : i + 1 \in 2..Len(op.work)
    BY <1>1, <1>3
  <2> QED
    BY <1>3, <2>1, <2>2
<1>5. Live /\ Open => /\ turn'.at \in {"calls", "tools", "finishing", "ended"}
                      /\ op'.then \notin {"spawn", "respawn", "end"}
                      /\ \A i \in DOMAIN op'.work : op'.work[i] \in {"mark", "todos"}
  BY <1>1, <1>3 DEF BatchInv, Closes
<1> QED
  BY <1>1, <1>2, <1>4, <1>5, BatchKept

\* The end of a turn looks at a head that has projected the whole log, and answers the
\* batch first if one is open.
LEMMA BatchCloses ==
    ASSUME Panics = FALSE, Shape, Shape', EntryInv, HeadInv, OwnedInv, BatchInv, TurnFinished
    PROVE  BatchInv'
<1> DEFINE steers == [i \in 1..held |-> "steer"]
           work == (IF Awaiting(head) THEN <<"results">> ELSE <<>>) \o steers
<1>1. /\ op.at = "loop" /\ turn.at = "ended" /\ turn' = turn /\ op' = Run(work, "end")
      /\ UNCHANGED <<entry, seq, sealed, phase, fifo, head>>
  BY DEF TurnFinished, Idle, logVars
<1>2. op'.work = work /\ (work # <<>> => op'.at = "append")
  <2>1. op' = Run(work, "end")
    BY <1>1
  <2> HIDE DEF work
  <2> QED
    BY <2>1, RunFields
<1>3. steers \in Seq({"steer"}) /\ \A i \in DOMAIN steers : steers[i] = "steer"
  <2>1. held \in Nat
    BY BoundsAreNats DEF Shape, TypeOK, OpTypeOK
  <2> QED
    BY <2>1
<1> HIDE DEF steers
<1>4. Awaiting(head) => work # <<>> /\ work[1] = "results"
  BY <1>3
<1>5. ~Awaiting(head) => work = steers
  BY <1>3
<1> HIDE DEF work
<1>6. (Open' <=> Open) /\ (Live' => Live)
  BY <1>1, StillTalk DEF Live
<1>7. fifo = <<>>
  <2>1. turn.tickets = <<>> /\ Elems(turn.tickets) = {}
    BY <1>1 DEF OwnedInv, Elems
  <2>2. Elems(fifo) = {}
    BY <2>1 DEF OwnedInv, Orphaned
  <2>3. fifo \in Seq(Unit)
    BY Ground
  <2>4. fifo # <<>> => fifo[1] \in Elems(fifo)
    BY <2>3 DEF Elems
  <2> QED
    BY <2>2, <2>4
<1>8. Elems(fifo') = {}
  <2>1. Elems(<<>>) = {}
    BY DEF Elems
  <2> QED
    BY <1>1, <1>7, <2>1, Zenon
<1>9. Live => (Awaiting(head) <=> Open)
  <2> SUFFICES ASSUME Live
               PROVE  Awaiting(head) <=> Open
    OBVIOUS
  <2>1. head.epoch = seq /\ head.projected = UpTo(head.epoch) /\ head \in Heads
    BY <1>1, <1>7, Ground DEF HeadInv
  <2>2. \A k \in Talk : k \in Nat /\ k >= 1 /\ k <= head.epoch
    BY <2>1, TalkFacts DEF Seqs
  <2> QED
    BY <2>1, <2>2, AwaitingIsOpen
<1>10. CASE Awaiting(head)
  <2>1. Closes'
    BY <1>2, <1>4, <1>10 DEF Closes
  <2>2. op'.then = "end"
    BY <1>1, RunFields
  <2> QED
    BY <1>1, <1>6, <1>8, <1>9, <1>10, <2>1, <2>2 DEF BatchInv
<1>11. CASE ~Awaiting(head)
  <2>1. \A i \in DOMAIN op'.work : op'.work[i] # "results"
    BY <1>2, <1>3, <1>5, <1>11
  <2> QED
    BY <1>1, <1>6, <1>8, <1>9, <1>11, <2>1, BatchKept
<1> QED
  BY <1>10, <1>11

\* What the turn does by itself leaves an open batch to it, and none while the actor
\* is closing one.
LEMMA BatchPondered ==
    ASSUME Panics = FALSE, Shape', BatchInv, Ponders
    PROVE  BatchInv'
<1>1. UNCHANGED <<entry, seq, sealed, phase, fifo, head, op>>
  BY DEF Ponders, logVars, actorVars
<1>2. (Open' <=> Open) /\ (Live' => Live) /\ Elems(fifo') = Elems(fifo)
  <2>1. Elems(fifo') = Elems(fifo)
    BY <1>1, Zenon
  <2> QED
    BY <1>1, <2>1, StillTalk DEF Live
<1>3. /\ turn.at \notin {"none", "ended"}
      /\ turn'.at \in {"calls", "tools"} => turn.at \in {"calls", "tools"}
      /\ turn.at \in {"calls", "tools", "finishing"}
            => turn'.at \in {"calls", "tools", "finishing", "ended"}
  BY DEF Ponders, Resolves, Ends, Refreshes, Goes
<1>4. Closes' <=> Closes
  BY <1>1 DEF Closes
<1>5. Live => ~Closes
  BY <1>3 DEF BatchInv
<1> QED
  BY <1>1, <1>2, <1>3, <1>4, <1>5 DEF BatchInv

LEMMA BatchAppends ==
    ASSUME Shape, GateInv, EntryInv, WorkInv, BatchInv, AppendSend
    PROVE  BatchInv'
<1>1. /\ Live /\ op'.at = "await" /\ op'.work = op.work /\ op'.then = op.then
      /\ fifo' = <<>> /\ turn' = turn /\ 1 \in DOMAIN op.work
  BY AppendSendFacts
<1>2. Elems(fifo') = {}
  <2>1. Elems(<<>>) = {}
    BY DEF Elems
  <2> QED
    BY <1>1, <2>1, Zenon
<1>3. {"mark", "todos"} \cap TalkKinds = {} /\ "results" \in TalkKinds
  BY DEF TalkKinds, ItemKinds
<1>4. ~Closes'
  BY <1>1 DEF Closes
<1>5. CASE op.work[1] \in TalkKinds
  <2>1. ~Open'
    BY <1>5, AppendTalk
  <2>2. turn.at \notin {"calls", "tools"}
    BY <1>1, <1>3, <1>5 DEF BatchInv
  <2> QED
    BY <1>1, <1>4, <2>1, <2>2 DEF BatchInv
<1>6. CASE op.work[1] \notin TalkKinds
  <2>1. Open' <=> Open
    BY <1>6, AppendTalk
  <2>2. ~Closes
    BY <1>3, <1>6 DEF Closes
  <2> QED
    BY <1>1, <1>2, <1>4, <2>1, <2>2 DEF BatchInv
<1> QED
  BY <1>5, <1>6

\* A turn opens a batch by committing calls, when nothing else is out.
LEMMA BatchSends ==
    ASSUME Shape, GateInv, EntryInv, OwnedInv, WorkInv, BatchInv, Prompts \/ Proposes
    PROVE  BatchInv'
<1>1. PICK kinds, saw :
        /\ Sends(kinds, saw)
        /\ Says(kinds, saw) \/ (kinds = <<"user">> /\ turn.at = "none")
        /\ kinds[1] # "call" => turn'.at \notin {"calls", "tools"}
        /\ kinds[1] = "call" => turn.at = "sampling" /\ turn'.at \in {"calls", "finishing"}
  <2>1. CASE Prompts
    BY <2>1 DEF Prompts
  <2>2. CASE Proposes
    <3>1. PICK kinds, saw :
            /\ Sends(kinds, saw) /\ Says(kinds, saw)
            /\ \/ turn.at = "sampling" /\ turn'.at = "calls" /\ kinds = <<"call", "mark">>
               \/ turn.at = "tools" /\ turn'.at = "boundary"
               \/ turn.at \in {"sampling", "tools"} /\ turn'.at = "finishing"
               \/ turn'.at \in {"replied", "boundary"} /\ kinds[1] # "call"
      BY <2>2 DEF Proposes
    <3>2. kinds[1] = "call" => turn.at = "sampling"
      BY <3>1, SaysFacts DEF Says
    <3> QED
      BY <3>1, <3>2
  <2> QED
    BY <2>1, <2>2
<1>2. op' = op /\ op.at = "loop" /\ op.work = <<>> /\ op.then = "loop" /\ ~Closes'
  BY <1>1, SendFacts DEF OwnedInv, WorkInv, Closes
<1>3. CASE kinds[1] # "call"
  BY <1>1, <1>2, <1>3, SendTalk DEF BatchInv
<1>4. CASE kinds[1] = "call"
  <2>1. Open'
    BY <1>1, <1>4, SendTalk
  <2>2. fifo = <<>>
    BY <1>1, <1>4, NothingOut DEF OwnedInv
  <2>3. fifo' = Append(fifo, NewUnit(kinds)) /\ NewUnit(kinds) \in Unit /\ NewUnit(kinds).last = seq'
    BY <1>1, SendFacts
  <2>4. \A u \in Elems(fifo') : u.last = seq'
    <3>1. Elems(Append(fifo, NewUnit(kinds))) = Elems(fifo) \cup {NewUnit(kinds)}
      BY <2>3, Ground, AppendElems
    <3>2. Elems(fifo) = {}
      BY <2>2 DEF Elems
    <3>3. Elems(fifo') = {NewUnit(kinds)}
      BY <2>3, <3>1, <3>2, Zenon
    <3> QED
      BY <2>3, <3>3
  <2>5. \A i \in DOMAIN op'.work : FALSE
    BY <1>2
  <2> QED
    BY <1>1, <1>2, <1>4, <2>1, <2>4, <2>5 DEF BatchInv
<1> QED
  BY <1>3, <1>4

LEMMA BatchStep ==
    ASSUME Interrupts = FALSE, PlanToggles = FALSE, Panics = FALSE,
           Shape, Shape', UnitsInv, DurableInv, GateInv, FileInv, AckInv, HeadInv, HeadInv',
           EntryInv, OwnedInv, WorkInv, BatchInv, [Next]_vars
    PROVE  BatchInv'
<1>1. CASE Writer \/ WriterFails \/ WriterDies \/ Drain \/ UNCHANGED vars
  <2>1. /\ UNCHANGED <<entry, seq, op, turn>> /\ head'.closed = head.closed /\ (Live' => Live)
        /\ fifo' \in {fifo, Tail(fifo)} /\ (fifo' # fifo => fifo # <<>>)
    <3>1. CASE Drain
      <4>1. head'.closed = head.closed
        BY <3>1, Ground DEF Drain, SettleFront, Advance, Heads
      <4> QED
        BY <3>1, <4>1 DEF Drain, FrontAnswered, logVars, Live
    <3> QED
      BY <1>1, <3>1 DEF Writer, WriterTake, WriterWrite, WriterSync, WriterAck, WriterFails,
                        WriterDies, actorVars, logVars, vars, Live
  <2>2. Open' <=> Open
    BY <2>1, StillTalk
  <2>3. \A u \in Elems(fifo') : u \in Elems(fifo)
    <3>1. CASE fifo' = fifo
      BY <3>1, Zenon
    <3>2. CASE fifo' = Tail(fifo) /\ fifo # <<>>
      <4>1. \A u \in Elems(Tail(fifo)) : u \in Elems(fifo)
        BY <3>2, TailElems
      <4>2. Elems(fifo') = Elems(Tail(fifo))
        BY <3>2, Zenon
      <4> QED
        BY <4>1, <4>2
    <3> QED
      BY <2>1, <3>1, <3>2
  <2>4. Closes' <=> Closes
    BY <2>1 DEF Closes
  <2> QED
    BY <2>1, <2>2, <2>3, <2>4 DEF BatchInv
<1>2. CASE AppendRefused \/ AppendErr \/ Burns
  <2>1. ~Live'
    BY <1>2, AppendFails DEF Burns, Live
  <2> QED
    BY <2>1 DEF BatchInv
<1>3. CASE Crash
  <2>1. op' = Loop /\ turn' = NoTurn /\ ~Open'
    BY <1>3, CrashTalk DEF Crash
  <2>2. ~Closes'
    BY <2>1, RunFields DEF Closes
  <2> QED
    BY <2>1, <2>2 DEF BatchInv, NoTurn
<1>4. CASE \/ Settle \/ Return \/ PlanWritten \/ Spawn \/ NoSpawn \/ EndTurn
           \/ Command \/ SetPlan \/ SetTodos \/ Steer \/ PromptAwaited \/ FoldNow \/ Continue
  BY <1>4, BatchArms
<1>5. CASE AckArm
  BY <1>5, BatchAcked
<1>6. CASE AppendOk
  BY <1>6, BatchLands
<1>7. CASE TurnFinished
  BY <1>7, BatchCloses
<1>8. CASE AppendSend
  BY <1>8, BatchAppends
<1>9. CASE Prompts \/ Proposes
  BY <1>9, BatchSends
<1>10. CASE Turn \/ Panic
  BY <1>2, <1>9, <1>10, TurnMoves, BatchPondered
<1>11. CASE PromptFast
  BY <1>2, <1>9, <1>11, PromptMoves
<1> QED
  BY <1>1, <1>2, <1>3, <1>4, <1>5, <1>6, <1>7, <1>8, <1>10, <1>11
     DEF Next, Actor, Commands, FoldInterrupted

\* Tool calls are answered by the very next item, and only calls are, in what the actor
\* has projected and so in what any model reads: whatever is steered, folded or drained
\* meanwhile, refused by the log, or cut off by a kill.
THEOREM BatchesPaired ==
    ASSUME Interrupts = FALSE, PlanToggles = FALSE, Panics = FALSE
    PROVE  Spec => []BatchesStayPaired
<1>1. Init => BatchInv /\ PairedLog
  <2> SUFFICES ASSUME Init
               PROVE  BatchInv /\ PairedLog
    OBVIOUS
  <2>1. Talk = {}
    BY DEF Init, Talk, NoEntry, TalkKinds, ItemKinds
  <2>2. ~Open /\ op.at = "loop" /\ turn.at = "none"
    BY <2>1, RunFields DEF Open, Init, NoTurn
  <2> QED
    BY <2>1, <2>2 DEF BatchInv, PairedLog, Closes
<1>2. PipelineInv /\ PipelineInv' /\ BoundaryInv /\ BatchInv /\ PairedLog /\ [Next]_vars
        => (BatchInv /\ PairedLog)'
  BY BatchStep, PairedStep DEF PipelineInv, OrderInv, IInv, BoundaryInv
<1>3. PipelineInv /\ PairedLog => BatchesStayPaired
  <2> SUFFICES ASSUME PipelineInv, PairedLog
               PROVE  BatchesStayPaired
    OBVIOUS
  <2> DEFINE n == head.epoch
             s == head.projected
  <2>1. n \in 0..MaxSeq /\ n \in Nat /\ s = UpTo(n)
    <3>1. Shape /\ HeadInv
      BY DEF PipelineInv, OrderInv, IInv
    <3>2. head.epoch \in 0..MaxSeq /\ head.epoch \in Nat
      BY <3>1, Ground DEF Heads
    <3> QED
      BY <3>1, <3>2 DEF HeadInv
  <2>2. DOMAIN s = 1..n /\ Len(s) = n /\ \A i \in 1..n : s[i] = i
    BY <2>1 DEF UpTo
  <2> HIDE DEF n, s
  <2>3. \A i \in 1..n : i \in Seqs
    BY <2>1, BoundsAreNats DEF Seqs
  <2>4. \A i \in 1..n : IsItem(s, i) <=> i \in Talk
    BY <2>2, <2>3 DEF IsItem, Talk, TalkKinds
  <2>5. \A i \in Talk : i \in Nat /\ i >= 1
    BY DEF Talk, Seqs
  <2>6. \A i, j \in 1..n : NextItem(s, i, j) <=> i \in Talk /\ j \in Talk /\ NextTalk(i, j)
    <3> SUFFICES ASSUME NEW i \in 1..n, NEW j \in 1..n
                 PROVE  NextItem(s, i, j) <=> i \in Talk /\ j \in Talk /\ NextTalk(i, j)
      OBVIOUS
    <3>1. j # Len(s) + 1
      BY <2>1, <2>2
    <3>2. (\A k \in DOMAIN s : i < k /\ k < j => ~IsItem(s, k))
            <=> (\A k \in Talk : ~(i < k /\ k < j))
      <4>1. \A k \in Talk : k < j => k \in 1..n
        BY <2>1, <2>5
      <4> QED
        BY <2>2, <2>4, <4>1
    <3> QED
      BY <2>4, <3>1, <3>2 DEF NextItem, NextTalk
  <2>7. ASSUME NEW i \in 1..n, entry[i].kind = "call"
        PROVE  \/ i \in head.closed
               \/ \A j \in 1..n : NextItem(s, i, j) => entry[j].kind = "results"
    BY <2>6, <2>7 DEF PairedLog
  <2>8. ASSUME NEW i \in 1..n, entry[i].kind = "results"
        PROVE  \E j \in 1..n : NextItem(s, j, i) /\ entry[j].kind = "call"
    <3>1. i \in Talk
      BY <2>3, <2>8 DEF Talk, TalkKinds, ItemKinds
    <3>2. PICK j \in Talk : NextTalk(j, i) /\ entry[j].kind = "call"
      BY <2>8, <3>1 DEF PairedLog
    <3>3. j \in 1..n
      BY <2>1, <2>5, <3>2 DEF NextTalk
    <3> QED
      BY <2>6, <3>1, <3>2, <3>3
  <2> QED
    BY <2>2, <2>7, <2>8 DEF BatchesStayPaired, s
<1> QED
  BY <1>1, <1>2, <1>3, PipelineAgrees, BoundaryAgrees, PTL DEF Spec
=============================================================================

------------------------- MODULE ChildrenLimitProofs -------------------------
(***************************************************************************)
(* Proofs about Children, for every value of its constants: how many       *)
(* children there are, and that one that looks parked can be resumed.      *)
(*                                                                         *)
(* Both hold as long as nothing reopens a slot that was closed.  Only the  *)
(* end of a turn that nobody awaits does that (`Children::finish` sets the *)
(* state of whatever slot it finds): without `/agents stop` and background *)
(* resumes that is the first turn of a child, whose slot is running.       *)
(***************************************************************************)
EXTENDS ChildrenProofs

-----------------------------------------------------------------------------
(* The invariant. *)

\* The child's first turn is to come or runs in the background.
Opening(i) == tasks[i].at = "none" \/ (tasks[i].at = "drive" /\ tasks[i].reply = NoCall)

\* Its slot is running, and a slot that is not closed was never stopped nor left by its task.
Sound(i) ==
    /\ Opening(i) => slots[i].state = "Running"
    /\ Live(slots[i]) => ~slots[i].interrupted /\ tasks[i].at # "ended"
LiveOnes == {i \in Ids : Live(slots[i])}
Bounded == turn.at # "ended" => (\A i \in Ids : Sound(i)) /\ Cardinality(LiveOnes) <= Max

\* Only a child that has parked is asked for more, and in the foreground; and nobody stops one.
AsksParked ==
    /\ \A c \in Calls : /\ calls[c].op # "resumeBg"
                        /\ calls[c].at \in {"send", "reply"} => ~Opening(calls[c].on)
    /\ \A i \in Ids : reqs[i] # <<>> => reqs[i][1] # NoCall
    /\ "stops" \in DOMAIN budget /\ budget.stops = 0
LimitInv == Bounded /\ AsksParked

-----------------------------------------------------------------------------
(* What a step other than a registration does. *)

\* The child opens nothing: no first turn begins, and no slot that was closed.
Lapses(i) ==
    /\ (Opening(i))' => Opening(i)
    /\ turn'.at # "ended" =>
          /\ (Opening(i))' /\ slots[i].state = "Running" => slots'[i].state = "Running"
          /\ Live(slots'[i]) => /\ Live(slots[i]) /\ slots'[i].interrupted = slots[i].interrupted
                                /\ tasks'[i].at = "ended" => tasks[i].at = "ended"

\* The call asks no child that has not parked.
CallMoves(c) ==
    /\ calls'[c].op # "resumeBg"
    /\ calls'[c].at \in {"send", "reply"} =>
          calls'[c].on = calls[c].on /\ (calls[c].at \in {"send", "reply"} \/ ~Opening(calls[c].on))

Wanes ==
    /\ Ids' = Ids /\ (turn.at = "ended" => turn'.at = "ended")
    /\ \A i \in Ids : Lapses(i)
    /\ \A c \in Calls : CallMoves(c)
    /\ \A i \in Ids : reqs'[i] # <<>> => reqs'[i][1] # NoCall
    /\ "stops" \in DOMAIN budget' /\ budget'.stops = 0

\* There are finitely many.
LEMMA LiveOnesFinite ==
    ASSUME CInv
    PROVE  IsFiniteSet(LiveOnes) /\ Cardinality(LiveOnes) \in Nat
  <1>1. IsFiniteSet(Ids)
    BY RegistryOf, FS_Interval
  <1>2. LiveOnes \subseteq Ids
    BY DEF LiveOnes
  <1> QED BY <1>1, <1>2, FS_Subset, FS_CardinalityType

LEMMA WanesKeeps ==
    ASSUME CInv, CInv', LimitInv, Wanes
    PROVE  LimitInv'
  <1>1. ASSUME turn'.at # "ended" PROVE (\A i \in Ids' : Sound(i)') /\ Cardinality(LiveOnes') <= Max
    <2>1. (\A i \in Ids : Sound(i)) /\ Cardinality(LiveOnes) <= Max
      BY <1>1 DEF LimitInv, Bounded, Wanes
    <2>2. ASSUME NEW i \in Ids PROVE Sound(i)'
      BY <1>1, <2>1 DEF Sound, Wanes, Lapses
    <2>3. LiveOnes' \subseteq LiveOnes
      BY <1>1 DEF LiveOnes, Wanes, Lapses
    <2>4. Cardinality(LiveOnes') <= Cardinality(LiveOnes) /\ Cardinality(LiveOnes') \in Nat
      BY <2>3, LiveOnesFinite, FS_Subset, FS_CardinalityType
    <2> QED BY <2>1, <2>2, <2>4, LiveOnesFinite, BoundsAssumption DEF Wanes
  <1>2. \A c \in Calls : calls'[c].at \in {"send", "reply"} => ~(Opening(calls[c].on))'
    <2> SUFFICES ASSUME NEW c \in Calls, calls'[c].at \in {"send", "reply"}, NEW i, i = calls'[c].on
                 PROVE  ~(Opening(i))'
      BY DEF Opening
    <2>1. i \in Ids
      BY DEF CInv, CallFits, Wanes
    <2>2. ~Opening(i)
      BY DEF LimitInv, AsksParked, Wanes, CallMoves
    <2> QED BY <2>1, <2>2 DEF Wanes, Lapses
  <1> QED BY <1>1, <1>2 DEF LimitInv, Bounded, AsksParked, Wanes, CallMoves

-----------------------------------------------------------------------------
(* What the actions share. *)

\* A child whose slot keeps its state, and whose task goes nowhere new.
Stays(j) ==
    /\ slots'[j].state = slots[j].state /\ slots'[j].interrupted = slots[j].interrupted
    /\ (Opening(j))' => Opening(j)
    /\ tasks'[j].at = "ended" => tasks[j].at = "ended"

LEMMA StaysLapses ==
    ASSUME CInv, NEW j \in Ids, Stays(j)
    PROVE  Lapses(j)
  BY DEF Stays, Lapses, Live

\* One child moves.
LEMMA OthersLapse ==
    ASSUME CInv, NEW i \in Ids, But(slots', slots, i) \/ UNCHANGED slots,
           But(tasks', tasks, i) \/ UNCHANGED tasks, Lapses(i)
    PROVE  \A j \in Ids : Lapses(j)
  <1> SUFFICES ASSUME NEW j \in Ids \ {i} PROVE Lapses(j)
    OBVIOUS
  <1>1. slots'[j] = slots[j] /\ tasks'[j] = tasks[j]
    BY RegistryOf DEF But
  <1>2. Stays(j)
    BY <1>1 DEF Stays, Opening
  <1> QED BY <1>2, StaysLapses

LEMMA NoneMoves ==
    ASSUME CInv, UNCHANGED <<slots, tasks>>
    PROVE  \A j \in Ids : Lapses(j)
  BY StaysLapses DEF Stays, Opening

\* A step that leaves requests, bounds and the parent alone.
LEMMA ChildWanes ==
    ASSUME CInv, AsksParked, Ids' = Ids, UNCHANGED <<reqs, turn, budget>>,
           \A i \in Ids : Lapses(i), \A c \in Calls : CallMoves(c)
    PROVE  Wanes
  BY DEF Wanes, AsksParked

\* The calls, when oneshots are filled, a call is over, or goes on.
LEMMA FilledMoves ==
    ASSUME CInv, AsksParked, NEW C \in SUBSET Calls, NEW at \in {"parked", "reply"}, Fills(C, at), Ids' = Ids
    PROVE  \A c \in Calls : CallMoves(c)
  BY FillsFit DEF CallMoves, AsksParked

LEMMA SameMoves ==
    ASSUME AsksParked, UNCHANGED calls
    PROVE  \A c \in Calls : CallMoves(c)
  BY DEF CallMoves, AsksParked

LEMMA OverMoves ==
    ASSUME CInv, AsksParked, NEW c \in Calls, calls' = Over(c)
    PROVE  \A d \in Calls : CallMoves(d)
  <1>1. Idle.op = "none"
    BY DEF Idle
  <1> QED BY <1>1, OverIs, IdleFits DEF CallMoves, AsksParked

LEMMA GoesOnMoves ==
    ASSUME CInv, AsksParked, NEW c \in Calls, NEW k, calls' = [calls EXCEPT ![c] = k],
           k.op = calls[c].op,
           k.at \in {"send", "reply"} => /\ k.on = calls[c].on
                                         /\ calls[c].at = "send" \/ ~Opening(calls[c].on)
    PROVE  \A d \in Calls : CallMoves(d)
  <1>1. calls'[c] = k /\ \A d \in Calls \ {c} : calls'[d] = calls[d]
    BY DEF CInv
  <1> QED BY <1>1 DEF CallMoves, AsksParked

\* A slot is given another state, and its token left alone.
LEMMA SlotKeeps ==
    ASSUME CInv, KInv', NEW i \in Ids, NEW s, slots' = [slots EXCEPT ![i] = s],
           s.interrupted = slots[i].interrupted, ~((Opening(i))'),
           Live(slots[i]), tasks'[i].at # "ended"
    PROVE  Ids' = Ids /\ But(slots', slots, i) /\ Lapses(i)
  BY Replaced DEF Lapses

\* A call's or a turn's end that settles the slot.
LEMMA SettledLapses ==
    ASSUME CInv, KInv', NEW i \in Ids, Settled(i), But(tasks', tasks, i), tasks'[i].at = "park"
    PROVE  Ids' = Ids /\ \A j \in Ids : Lapses(j)
  <1> DEFINE s == [slots[i] EXCEPT !.state = "Done", !.claimed = TRUE, !.run = tasks[i].run]
  <1>1. ~((Opening(i))')
    BY DEF Opening
  <1>2. CASE Working(slots[i])
    <2>1. slots' = [slots EXCEPT ![i] = s]
      BY <1>2 DEF Settled
    <2>2. s.interrupted = slots[i].interrupted
      BY ChildOf DEF Slots
    <2>3. Live(slots[i])
      BY <1>2 DEF Live, Working
    <2> HIDE DEF s
    <2> QED BY <1>1, <2>1, <2>2, <2>3, SlotKeeps, OthersLapse
  <1>3. CASE ~Working(slots[i])
    <2>1. UNCHANGED slots
      BY <1>3 DEF Settled
    <2>2. Stays(i)
      BY <1>1, <2>1 DEF Stays
    <2> QED BY <2>1, <2>2, StaysLapses, OthersLapse, SameChildren
  <1> QED BY <1>2, <1>3
-----------------------------------------------------------------------------
(* The calls. *)

LEMMA StartWanes ==
    ASSUME CInv, KInv', LimitInv, NEW c \in Calls, SpawnStarts(c)
    PROVE  Wanes
  <1> SUFFICES ASSUME NEW i, i = calls[c].on,
                      NEW at, at = IF calls[c].op = "spawnBg" THEN "drive" ELSE "fg"
               PROVE  Wanes
    OBVIOUS
  <1>1. /\ calls[c].at = "permit" /\ GoTo(i, at) /\ UNCHANGED <<slots, reqs, turn, budget>>
        /\ calls' = Over(c) \/ calls' = [calls EXCEPT ![c].at = "driving"]
    BY DEF SpawnStarts, GoTo
  <1>2. i \in Ids /\ tasks[i].at = "none" /\ Ids' = Ids
    BY <1>1, CallOf, SameChildren DEF CallFits, CInv, Begun
  <1>3. Stays(i)
    BY <1>1, <1>2, Goes DEF Stays, Opening
  <1>4. \A j \in Ids : Lapses(j)
    BY <1>1, <1>2, <1>3, Goes, StaysLapses, OthersLapse
  <1>5. \A d \in Calls : CallMoves(d)
    <2> DEFINE k == [calls[c] EXCEPT !.at = "driving"]
    <2>1. k.op = calls[c].op /\ k.at = "driving"
      BY CallOf DEF CallRecords
    <2>2. calls' = Over(c) \/ calls' = [calls EXCEPT ![c] = k]
      BY <1>1
    <2> HIDE DEF k
    <2> QED BY <2>1, <2>2, OverMoves, GoesOnMoves DEF LimitInv
  <1> QED BY <1>1, <1>2, <1>4, <1>5, ChildWanes DEF LimitInv

LEMMA SpawnReturnsWanes ==
    ASSUME CInv, KInv', LimitInv, NEW c \in Calls, SpawnReturns(c)
    PROVE  Wanes
  <1> SUFFICES ASSUME NEW i, i = calls[c].on PROVE Wanes
    OBVIOUS
  <1>1. /\ calls[c].at = "driving" /\ Settled(i) /\ GoTo(i, "park") /\ calls' = Over(c)
        /\ UNCHANGED <<reqs, turn, budget>>
    BY DEF SpawnReturns, GoTo
  <1>2. i \in Ids
    BY <1>1, CallOf DEF CallFits
  <1>3. Ids' = Ids /\ \A j \in Ids : Lapses(j)
    BY <1>1, <1>2, Goes, SettledLapses
  <1> QED BY <1>1, <1>3, OverMoves, ChildWanes DEF LimitInv

\* A child that did not start: its slot was running, and is closed.
LEMMA AbandonedLapses ==
    ASSUME CInv, KInv', NEW i \in Ids, NEW C, Abandoned(i, C), But(tasks', tasks, i),
           turn.at # "ended" => Working(slots[i]) \/ slots[i].state = "Closed",
           UNCHANGED turn, ~((Opening(i))')
    PROVE  Ids' = Ids /\ \A j \in Ids : Lapses(j)
  <1>1. Ids' = Ids
    BY SameChildren
  <1>2. CASE Working(slots[i])
    <2> DEFINE s == [slots[i] EXCEPT !.state = "Closed", !.waiter = NoCall, !.run = tasks[i].run]
    <2>1. slots' = [slots EXCEPT ![i] = s]
      BY <1>2 DEF Abandoned
    <2>2. s.state = "Closed"
      BY ChildOf DEF Slots
    <2> HIDE DEF s
    <2>3. But(slots', slots, i) /\ slots'[i].state = "Closed"
      BY <2>1, <2>2, Replaced
    <2>4. Lapses(i)
      BY <2>3 DEF Lapses, Live
    <2> QED BY <1>1, <2>3, <2>4, OthersLapse
  <1>3. CASE ~Working(slots[i])
    <2>1. UNCHANGED slots
      BY <1>3 DEF Abandoned
    <2>2. Lapses(i)
      BY <1>3, <2>1 DEF Lapses, Live
    <2> QED BY <1>1, <2>1, <2>2, OthersLapse
  <1> QED BY <1>2, <1>3

\* What Abandoned does to the calls: an oneshot is filled, and the call that failed is over.
LEMMA AbandonedMoves ==
    ASSUME CInv, AsksParked, NEW i \in Ids, NEW C, Abandoned(i, C)
    PROVE  \A c \in Calls : CallMoves(c)
  <1> SUFFICES ASSUME NEW c \in Calls PROVE CallMoves(c)
    OBVIOUS
  <1> DEFINE h == Handoff(i, tasks[i].run, FALSE)
             k == [calls[c] EXCEPT !.got = h]
  <1>1. calls'[c] \in {calls[c], Idle, k} /\ (calls'[c] = k => c = WaiterOf(i) \/ k = calls[c] \/ k = Idle)
    BY DEF Abandoned
  <1>2. k.op = calls[c].op /\ k.at = calls[c].at /\ k.on = calls[c].on
    BY CallOf DEF CallRecords
  <1> HIDE DEF k
  <1>3. Idle.op = "none"
    BY DEF Idle
  <1> QED BY <1>1, <1>2, <1>3, IdleFits DEF CallMoves, AsksParked

LEMMA SpawnFailsWanes ==
    ASSUME CInv, KInv', LimitInv, NEW c \in Calls, SpawnFails(c)
    PROVE  Wanes
  <1> SUFFICES ASSUME NEW i, i = calls[c].on PROVE Wanes
    OBVIOUS
  <1>1. /\ calls[c].at = "permit" /\ Abandoned(i, {c}) /\ GoTo(i, "ended")
        /\ UNCHANGED <<reqs, turn, budget>>
    BY DEF SpawnFails, GoTo
  <1>2. i \in Ids /\ tasks[i].at = "none"
    BY <1>1, CallOf DEF CallFits, CInv, Begun
  <1>3. Working(slots[i]) \/ slots[i].state = "Closed"
    BY <1>2, ChildOf DEF Fits, Working
  <1>4. But(tasks', tasks, i) /\ ~((Opening(i))')
    BY <1>1, <1>2, Goes DEF Opening
  <1>5. Ids' = Ids /\ \A j \in Ids : Lapses(j)
    BY <1>1, <1>2, <1>3, <1>4, AbandonedLapses
  <1> QED BY <1>1, <1>2, <1>5, AbandonedMoves, ChildWanes DEF LimitInv

\* A `wait` changes no more of a slot than its sender and that it was claimed.
LEMMA WaitWanes ==
    ASSUME CInv, KInv', LimitInv, NEW c \in Calls, Wait(c) \/ WaitAny(c)
    PROVE  Wanes
  <1>1. calls[c].at = "due" /\ UNCHANGED <<tasks, reqs, turn, budget>>
    BY DEF Wait, WaitAny
  <1>2. PICK i \in Ids \cup {0} :
            \/ TakeDone(c, i)
            \/ calls' = Over(c) /\ UNCHANGED slots
            \/ /\ calls' = [calls EXCEPT ![c].at = "parked"]
               /\ UNCHANGED slots \/ slots' = [slots EXCEPT ![i].waiter = c]
    <2>1. CASE Wait(c)
      <3>1. calls[c].on \in Ids
        BY <2>1, CallOf DEF Wait, CallFits
      <3> QED BY <2>1, <3>1 DEF Wait, Refused
    <2>2. CASE WaitAny(c)
      <3>1. Unclaimed # {} => Oldest(Unclaimed) \in Ids
        BY OldestIn DEF Unclaimed, Parked
      <3> QED BY <2>2, <3>1 DEF WaitAny, Refused
    <2> QED BY <2>1, <2>2
  <1>3. Ids' = Ids /\ \A j \in Ids : Lapses(j)
    <2> DEFINE s == [slots[i] EXCEPT !.waiter = c]
               d == [slots[i] EXCEPT !.claimed = TRUE]
    <2>1. UNCHANGED slots \/ slots' = [slots EXCEPT ![i] = s] \/ slots' = [slots EXCEPT ![i] = d]
      BY <1>2 DEF TakeDone
    <2>2. i \in Ids => \A u \in {s, d} : u.state = slots[i].state /\ u.interrupted = slots[i].interrupted
      BY ChildOf DEF Slots
    <2> HIDE DEF s, d
    <2>3. CASE UNCHANGED slots
      BY <1>1, <2>3, NoneMoves, SameChildren
    <2>4. CASE i \in Ids /\ \E u \in {s, d} : slots' = [slots EXCEPT ![i] = u]
      <3>1. Ids' = Ids /\ But(slots', slots, i) /\ slots'[i].state = slots[i].state
            /\ slots'[i].interrupted = slots[i].interrupted
        BY <2>2, <2>4, Replaced
      <3>2. Stays(i)
        BY <1>1, <3>1 DEF Stays, Opening
      <3> QED BY <1>1, <2>4, <3>1, <3>2, StaysLapses, OthersLapse
    <2>5. CASE i = 0
      <3>1. Ids' = Ids
        BY <2>1, SameChildren
      <3>2. \A j \in Ids : slots'[j] = slots[j]
        BY <2>1, <2>5, RegistryOf
      <3>3. \A j \in Ids : Stays(j)
        BY <1>1, <3>2 DEF Stays, Opening
      <3> QED BY <3>1, <3>3, StaysLapses
    <2> QED BY <2>1, <2>3, <2>4, <2>5
  <1>4. \A d \in Calls : CallMoves(d)
    <2> DEFINE k == [calls[c] EXCEPT !.at = "parked"]
               t == [calls[c] EXCEPT !.at = "withdraw", !.on = i]
    <2>1. calls' = Over(c) \/ calls' = [calls EXCEPT ![c] = k] \/ calls' = [calls EXCEPT ![c] = t]
      BY <1>2 DEF TakeDone
    <2>2. k.op = calls[c].op /\ k.at = "parked" /\ t.op = calls[c].op /\ t.at = "withdraw"
      BY CallOf DEF CallRecords
    <2> HIDE DEF k, t
    <2> QED BY <2>1, <2>2, OverMoves, GoesOnMoves DEF LimitInv
  <1> QED BY <1>1, <1>3, <1>4, ChildWanes DEF LimitInv

\* A call that ends, or only reads what it has.
LEMMA ReadsWanes ==
    ASSUME CInv, KInv', LimitInv, NEW c \in Calls,
           WaitReturns(c) \/ WaitCancelled(c) \/ WaitTimesOut(c) \/ Withdraw(c) \/ ResumeReturns(c)
    PROVE  Wanes
  <1> SUFFICES ASSUME NEW h, h = calls[c].got PROVE Wanes
    OBVIOUS
  <1>1. UNCHANGED <<tasks, reqs, turn, budget>>
    BY DEF WaitReturns, WaitCancelled, WaitTimesOut, Withdraw, ResumeReturns
  <1>2. Ids' = Ids /\ \A j \in Ids : Lapses(j)
    <2>1. CASE UNCHANGED slots
      BY <1>1, <2>1, NoneMoves, SameChildren
    <2>2. CASE DropReceivers(c)
      <3>1. slots' = [i \in Ids |-> [slots[i] EXCEPT !.waiter = Dead(@, c)]]
        BY <2>2 DEF DropReceivers
      <3>2. Ids' = Ids
        BY <3>1, SameChildren
      <3>3. ASSUME NEW j \in Ids PROVE Stays(j)
        <4> DEFINE w == Dead(slots[j].waiter, c)
        <4>1. slots'[j] = [slots[j] EXCEPT !.waiter = w]
          BY <3>1
        <4> HIDE DEF w
        <4>2. slots'[j].state = slots[j].state /\ slots'[j].interrupted = slots[j].interrupted
          BY <4>1, ChildOf DEF Slots
        <4> QED BY <1>1, <4>2 DEF Stays, Opening
      <3> QED BY <3>2, <3>3, StaysLapses
    <2> QED BY <2>1, <2>2 DEF WaitReturns, WaitCancelled, WaitTimesOut, Withdraw, ResumeReturns
  <1>3. \A d \in Calls : CallMoves(d)
    <2> DEFINE k == [calls[c] EXCEPT !.at = "withdraw", !.on = h.child]
    <2>1. calls' = Over(c) \/ calls' = [calls EXCEPT ![c] = k]
      BY DEF WaitReturns, WaitCancelled, WaitTimesOut, Withdraw, ResumeReturns, DropReceivers
    <2>2. k.op = calls[c].op /\ k.at = "withdraw"
      BY CallOf DEF CallRecords
    <2> HIDE DEF k
    <2> QED BY <2>1, <2>2, OverMoves, GoesOnMoves DEF LimitInv
  <1> QED BY <1>1, <1>2, <1>3, ChildWanes DEF LimitInv

\* A child is asked for another turn.
LEMMA ResumeWanes ==
    ASSUME CInv, KInv', LimitInv, NEW c \in Calls, Resume(c)
    PROVE  Wanes
  <1>1. /\ calls[c].at = "due" /\ calls[c].op \in {"resumeFg", "resumeBg"}
        /\ UNCHANGED <<slots, tasks, reqs, turn, budget>>
    BY DEF Resume
  <1>2. \A d \in Calls : CallMoves(d)
    <2> SUFFICES ASSUME NEW i, i = calls[c].on PROVE \A d \in Calls : CallMoves(d)
      OBVIOUS
    <2> DEFINE k == [calls[c] EXCEPT !.at = "send"]
    <2>1. calls' = Over(c) \/ (slots[i].state = "Done" /\ calls' = [calls EXCEPT ![c] = k])
      BY DEF Resume
    <2>2. k.op = calls[c].op /\ k.on = i /\ i \in Ids
      BY <1>1, CallOf DEF CallRecords, CallFits
    <2>3. slots[i].state = "Done" => ~Opening(i)
      BY <2>2, ChildOf DEF Fits, Opening
    <2> HIDE DEF k
    <2> QED BY <2>1, <2>2, <2>3, OverMoves, GoesOnMoves DEF LimitInv
  <1> QED BY <1>1, <1>2, NoneMoves, SameChildren, ChildWanes DEF LimitInv

LEMMA ResumeSendsWanes ==
    ASSUME CInv, KInv', LimitInv, NEW c \in Calls, ResumeSends(c)
    PROVE  Wanes
  <1> SUFFICES ASSUME NEW i, i = calls[c].on PROVE Wanes
    OBVIOUS
  <1>1. /\ calls[c].at = "send" /\ calls[c].op # "resumeBg" /\ i \in Ids
        /\ UNCHANGED <<slots, tasks, turn, budget>>
    BY CallOf DEF ResumeSends, LimitInv, AsksParked, CallFits
  <1>2. \/ calls' = Over(c) /\ UNCHANGED reqs
        \/ calls' = [calls EXCEPT ![c].at = "reply"] /\ reqs' = [reqs EXCEPT ![i] = <<c>>]
    BY <1>1 DEF ResumeSends
  <1>3. \A d \in Calls : CallMoves(d)
    <2> DEFINE k == [calls[c] EXCEPT !.at = "reply"]
    <2>1. calls' = Over(c) \/ calls' = [calls EXCEPT ![c] = k]
      BY <1>2
    <2>2. k.op = calls[c].op /\ k.on = calls[c].on
      BY CallOf DEF CallRecords
    <2> HIDE DEF k
    <2> QED BY <1>1, <2>1, <2>2, OverMoves, GoesOnMoves DEF LimitInv
  <1>4. \A j \in Ids : reqs'[j] # <<>> => reqs'[j][1] # NoCall
    <2>1. \A j \in Ids : reqs'[j] = reqs[j] \/ reqs'[j] = <<c>>
      BY <1>2, RegistryOf
    <2>2. <<c>>[1] = c /\ c # NoCall
      BY CallOf
    <2> QED BY <2>1, <2>2 DEF LimitInv, AsksParked
  <1> QED BY <1>1, <1>3, <1>4, NoneMoves, SameChildren DEF Wanes, LimitInv, AsksParked

\* A cancelled `resume` stops its child, whose first turn is over.
LEMMA ResumeCancelledWanes ==
    ASSUME CInv, KInv', LimitInv, NEW c \in Calls, ResumeCancelled(c)
    PROVE  Wanes
  <1> SUFFICES ASSUME NEW i, i = calls[c].on, NEW f, f = Drop({slots[i].waiter})
               PROVE  Wanes
    OBVIOUS
  <1>1. /\ calls[c].at = "reply" /\ Stop(i) /\ calls' = [f EXCEPT ![c] = Idle]
        /\ tasks' = [j \in Ids |-> [tasks[j] EXCEPT !.reply = Dead(@, c)]]
        /\ reqs' = [j \in Ids |-> [k \in 1..Len(reqs[j]) |-> Dead(reqs[j][k], c)]]
        /\ UNCHANGED <<turn, budget>>
    BY DEF ResumeCancelled
  <1>2. i \in Ids /\ ~Opening(i)
    BY <1>1, CallOf DEF CallFits, LimitInv, AsksParked
  <1>3. Ids' = Ids /\ slots'[i].state = "Closed" /\ \A j \in Ids \ {i} : slots'[j] = slots[j]
    <2>1. \A j \in Ids \ {i} : slots'[j] = slots[j]
      BY <1>1, <1>2, RegistryOf DEF Stop
    <2>2. slots'[i] = IF Live(slots[i]) THEN Close(slots[i]) ELSE slots[i]
      BY <1>1, <1>2, RegistryOf DEF Stop
    <2>3. slots'[i].state = "Closed"
      BY <1>2, <2>2, ClosedFits, ChildOf DEF Live, Fits
    <2> QED BY <1>1, <2>1, <2>3, SameChildren
  <1>4. \A w : Dead(w, c) = NoCall => w = NoCall
    BY BoundsAssumption DEF Dead
  <1>5. \A j \in Ids : (Opening(j))' => Opening(j)
    <2> SUFFICES ASSUME NEW j \in Ids, (Opening(j))' PROVE Opening(j)
      OBVIOUS
    <2> DEFINE w == Dead(tasks[j].reply, c)
    <2>1. tasks'[j] = [tasks[j] EXCEPT !.reply = w] /\ (w = NoCall => tasks[j].reply = NoCall)
      BY <1>1, <1>4
    <2> HIDE DEF w
    <2>2. tasks'[j].at = tasks[j].at /\ tasks'[j].reply = w
      BY <2>1, ChildOf DEF Tasks
    <2> QED BY <2>1, <2>2 DEF Opening
  <1>6. \A j \in Ids : tasks'[j].at = tasks[j].at
    <2> SUFFICES ASSUME NEW j \in Ids PROVE tasks'[j].at = tasks[j].at
      OBVIOUS
    <2> DEFINE w == Dead(tasks[j].reply, c)
    <2>1. tasks'[j] = [tasks[j] EXCEPT !.reply = w]
      BY <1>1
    <2> HIDE DEF w
    <2> QED BY <2>1, ChildOf DEF Tasks
  <1>7. \A j \in Ids : Lapses(j)
    <2>1. Lapses(i)
      BY <1>2, <1>3, <1>5 DEF Lapses, Live
    <2>2. \A j \in Ids \ {i} : Stays(j)
      BY <1>3, <1>5, <1>6 DEF Stays
    <2> QED BY <2>1, <2>2, StaysLapses
  <1>8. \A d \in Calls : CallMoves(d)
    <2>1. DOMAIN f = Calls /\ \A d \in Calls : f[d] \in {calls[d], [calls[d] EXCEPT !.got = Dropped]}
      BY DEF Drop
    <2>2. \A d \in Calls : f[d].op = calls[d].op /\ f[d].at = calls[d].at /\ f[d].on = calls[d].on
      <3> SUFFICES ASSUME NEW d \in Calls
                   PROVE  f[d].op = calls[d].op /\ f[d].at = calls[d].at /\ f[d].on = calls[d].on
        OBVIOUS
      <3>1. calls[d] \in CallRecords /\ f[d] \in {calls[d], [calls[d] EXCEPT !.got = Dropped]}
        BY <2>1, CallOf
      <3> QED BY <3>1 DEF CallRecords
    <2>3. calls'[c] = Idle /\ \A d \in Calls \ {c} : calls'[d] = f[d]
      BY <1>1, <2>1
    <2>4. Idle.op = "none"
      BY DEF Idle
    <2>5. CallMoves(c)
      BY <2>3, <2>4, IdleFits DEF CallMoves
    <2>6. ASSUME NEW d \in Calls \ {c} PROVE CallMoves(d)
      <3>1. /\ calls'[d].op = calls[d].op /\ calls'[d].at = calls[d].at /\ calls'[d].on = calls[d].on
            /\ calls[d].op # "resumeBg"
        BY <2>2, <2>3 DEF LimitInv, AsksParked
      <3> QED BY <3>1 DEF CallMoves
    <2> QED BY <2>5, <2>6
  <1>9. \A j \in Ids : reqs'[j] # <<>> => reqs'[j][1] # NoCall
    <2> SUFFICES ASSUME NEW j \in Ids, reqs'[j] # <<>> PROVE reqs'[j][1] # NoCall
      OBVIOUS
    <2>1. reqs'[j] = [k \in 1..Len(reqs[j]) |-> Dead(reqs[j][k], c)]
      BY <1>1
    <2>2. reqs[j] # <<>>
      <3>1. CASE reqs[j] = <<>>
        <4>1. reqs'[j] = <<>>
          BY <2>1, <3>1
        <4> QED BY <4>1
      <3> QED BY <3>1
    <2>3. reqs[j] \in Seq(Senders) /\ 1 \in 1..Len(reqs[j])
      BY <2>2, ChildOf
    <2>4. reqs'[j][1] = Dead(reqs[j][1], c)
      BY <2>1, <2>3
    <2> QED BY <1>4, <2>2, <2>4 DEF LimitInv, AsksParked
  <1> QED BY <1>1, <1>3, <1>7, <1>8, <1>9 DEF Wanes, LimitInv, AsksParked

-----------------------------------------------------------------------------
(* The tasks. *)

\* The end of a turn nobody awaits: the slot it sets is that of a first turn, and runs.
LEMMA FinishWanes ==
    ASSUME CInv, KInv', LimitInv, NEW i \in Ids, Finish(i)
    PROVE  Wanes
  <1> SUFFICES ASSUME NEW w, w = WaiterOf(i) PROVE Wanes
    OBVIOUS
  <1> DEFINE s == [slots[i] EXCEPT !.state = "Done", !.claimed = TRUE, !.run = tasks[i].run,
                                   !.waiter = NoCall]
             f == [slots[i] EXCEPT !.state = "Finishing", !.run = tasks[i].run, !.waiter = NoCall]
  <1>1. /\ tasks[i].at = "drive" /\ tasks[i].reply = NoCall /\ UNCHANGED <<reqs, turn, budget>>
        /\ calls' = IF w \in Calls THEN Put(w, Handoff(i, tasks[i].run, FALSE)) ELSE calls
        /\ \/ slots' = [slots EXCEPT ![i] = s] /\ GoTo(i, "park")
           \/ slots' = [slots EXCEPT ![i] = f] /\ GoTo(i, "notify")
    BY DEF Finish
  <1>2. \A u \in {s, f} : u.interrupted = slots[i].interrupted
    BY ChildOf DEF Slots
  <1> HIDE DEF s, f
  <1>3. PICK u \in {s, f}, at \in {"park", "notify"} : slots' = [slots EXCEPT ![i] = u] /\ GoTo(i, at)
    BY <1>1
  <1>4. But(tasks', tasks, i) /\ tasks'[i].at = at /\ ~((Opening(i))')
    BY <1>3, Goes DEF Opening
  <1>5. Ids' = Ids /\ But(slots', slots, i) /\ slots'[i] = u
    BY <1>3, Replaced
  <1>6. turn.at # "ended" => Live(slots[i])
    BY <1>1 DEF LimitInv, Bounded, Sound, Opening, Live
  <1>7. Lapses(i)
    BY <1>1, <1>2, <1>4, <1>5, <1>6 DEF Lapses
  <1>8. \A j \in Ids : Lapses(j)
    BY <1>4, <1>5, <1>7, OthersLapse
  <1>9. \A d \in Calls : CallMoves(d)
    <2>1. Fills({w} \cap Calls, "parked")
      BY <1>1, ChildOf, Serves DEF Tasks
    <2> QED BY <1>5, <2>1, FilledMoves DEF LimitInv
  <1> QED BY <1>1, <1>5, <1>8, <1>9, ChildWanes DEF LimitInv

\* A task that leaves its child's slot as it is.
LEMMA GoesWanes ==
    ASSUME CInv, KInv', LimitInv, NEW i \in Ids, Tell(i) \/ TakeBack(i) \/ LastWord(i)
    PROVE  Wanes
  <1>1. /\ UNCHANGED <<slots, calls, reqs, turn, budget>>
        /\ \/ GoTo(i, "publish") \/ GoTo(i, "park")
           \/ tasks[i].at = "lastword" /\ GoTo(i, "ended")
    BY DEF Tell, TakeBack, LastWord
  <1>2. But(tasks', tasks, i) /\ ~((Opening(i))')
        /\ (tasks'[i].at = "ended" => tasks[i].at = "lastword")
    BY <1>1, Goes DEF Opening
  <1>3. tasks[i].at = "lastword" => ~Live(slots[i])
    BY ChildOf DEF Fits, Live
  <1>4. Lapses(i)
    BY <1>1, <1>2, <1>3 DEF Lapses
  <1>5. Ids' = Ids /\ \A j \in Ids : Lapses(j)
    BY <1>1, <1>2, <1>4, OthersLapse, SameChildren
  <1> QED BY <1>1, <1>5, SameMoves, ChildWanes DEF LimitInv

LEMMA PublishWanes ==
    ASSUME CInv, KInv', LimitInv, NEW i \in Ids, Publish(i)
    PROVE  Wanes
  <1> SUFFICES ASSUME NEW w, w = WaiterOf(i) PROVE Wanes
    OBVIOUS
  <1> DEFINE s == [slots[i] EXCEPT !.state = "Done", !.waiter = NoCall, !.claimed = w \in Calls]
  <1>1. /\ UNCHANGED <<reqs, turn, budget>>
        /\ \E at \in {"withdraw", "park"} : GoTo(i, at)
        /\ \/ /\ slots[i].state = "Finishing" /\ slots' = [slots EXCEPT ![i] = s]
              /\ calls' = IF w \in Calls THEN Put(w, Handoff(i, slots[i].run, TRUE)) ELSE calls
           \/ UNCHANGED <<slots, calls>>
    BY DEF Publish
  <1>2. s.interrupted = slots[i].interrupted
    BY ChildOf DEF Slots
  <1> HIDE DEF s
  <1>3. But(tasks', tasks, i) /\ tasks'[i].at # "ended" /\ ~((Opening(i))')
    BY <1>1, Goes DEF Opening
  <1>4. CASE UNCHANGED <<slots, calls>>
    <2>1. Lapses(i)
      BY <1>3, <1>4 DEF Lapses
    <2>2. Ids' = Ids /\ \A j \in Ids : Lapses(j)
      BY <1>3, <1>4, <2>1, OthersLapse, SameChildren
    <2> QED BY <1>1, <1>4, <2>2, SameMoves, ChildWanes DEF LimitInv
  <1>5. CASE ~(UNCHANGED <<slots, calls>>)
    <2>1. /\ slots' = [slots EXCEPT ![i] = s] /\ Live(slots[i])
          /\ calls' = IF w \in Calls THEN Put(w, Handoff(i, slots[i].run, TRUE)) ELSE calls
      BY <1>1, <1>5 DEF Live
    <2>2. Ids' = Ids /\ But(slots', slots, i) /\ Lapses(i)
      BY <1>2, <1>3, <2>1, SlotKeeps
    <2>3. \A j \in Ids : Lapses(j)
      BY <1>3, <2>2, OthersLapse
    <2>4. \A d \in Calls : CallMoves(d)
      <3>1. Fills({w} \cap Calls, "parked")
        BY <2>1, ChildOf, Serves DEF Slots
      <3> QED BY <2>2, <3>1, FilledMoves DEF LimitInv
    <2> QED BY <1>1, <2>2, <2>3, <2>4, ChildWanes DEF LimitInv
  <1> QED BY <1>4, <1>5

\* A reply that is sent, or dies with the task: one `resume` hears of it.
LEMMA ReplyWanes ==
    ASSUME CInv, KInv', LimitInv, NEW i \in Ids, Reply(i)
    PROVE  Wanes
  <1> DEFINE t == [tasks[i] EXCEPT !.at = "park", !.reply = NoCall]
             w == tasks[i].reply
             k == [calls[w] EXCEPT !.got = Handoff(i, tasks[i].run, FALSE)]
  <1>1. /\ Settled(i) /\ tasks' = [tasks EXCEPT ![i] = t] /\ UNCHANGED <<reqs, turn, budget>>
    BY DEF Reply
  <1>2. t.at = "park"
    BY ChildOf DEF Tasks
  <1> HIDE DEF t
  <1>3. But(tasks', tasks, i) /\ tasks'[i].at = "park"
    BY <1>1, <1>2, Moved
  <1>4. Ids' = Ids /\ \A j \in Ids : Lapses(j)
    BY <1>1, <1>3, SettledLapses
  <1>5. \A d \in Calls : CallMoves(d)
    <2>1. CASE w \in Calls
      <3>1. calls' = [calls EXCEPT ![w] = k]
        BY <2>1 DEF Reply, Put
      <3>2. k.op = calls[w].op /\ k.at = "reply" /\ k.on = calls[w].on /\ calls[w].at = "reply"
        BY <2>1, KeptIs, CallOf DEF CallRecords
      <3>3. ~Opening(calls[w].on)
        BY <2>1, <3>2 DEF LimitInv, AsksParked
      <3> HIDE DEF k, w
      <3> QED BY <2>1, <3>1, <3>2, <3>3, GoesOnMoves DEF LimitInv
    <2>2. CASE w \notin Calls
      <3>1. UNCHANGED calls
        BY <2>2 DEF Reply
      <3> QED BY <3>1, SameMoves DEF LimitInv
    <2> QED BY <2>1, <2>2
  <1> QED BY <1>1, <1>4, <1>5, ChildWanes DEF LimitInv

LEMMA TakeRequestWanes ==
    ASSUME CInv, KInv', LimitInv, NEW i \in Ids, TakeRequest(i)
    PROVE  Wanes
  <1> DEFINE t == [at |-> "drive", run |-> tasks[i].run + 1, reply |-> reqs[i][1]]
             s == [slots[i] EXCEPT !.state = "Running", !.run = 0]
  <1>1. /\ tasks' = [tasks EXCEPT ![i] = t] /\ reqs[i] # <<>> /\ reqs' = [reqs EXCEPT ![i] = <<>>]
        /\ UNCHANGED slots \/ (slots[i].state = "Done" /\ slots' = [slots EXCEPT ![i] = s])
        /\ UNCHANGED <<calls, turn, budget>>
    BY DEF TakeRequest
  <1>2. t.at = "drive" /\ t.reply # NoCall
    BY <1>1 DEF LimitInv, AsksParked
  <1>3. s.interrupted = slots[i].interrupted
    BY ChildOf DEF Slots
  <1> HIDE DEF t, s
  <1>4. But(tasks', tasks, i) /\ tasks'[i].at # "ended" /\ ~((Opening(i))')
    BY <1>1, <1>2, Moved DEF Opening
  <1>5. Ids' = Ids /\ Lapses(i) /\ (But(slots', slots, i) \/ UNCHANGED slots)
    <2>1. CASE UNCHANGED slots
      <3>1. Lapses(i)
        BY <1>4, <2>1 DEF Lapses
      <3> QED BY <2>1, <3>1, SameChildren
    <2>2. CASE slots[i].state = "Done" /\ slots' = [slots EXCEPT ![i] = s]
      <3>1. Live(slots[i])
        BY <2>2 DEF Live
      <3> QED BY <1>3, <1>4, <2>2, <3>1, SlotKeeps
    <2> QED BY <1>1, <2>1, <2>2
  <1>6. \A j \in Ids : Lapses(j)
    BY <1>4, <1>5, OthersLapse
  <1>7. \A j \in Ids : reqs'[j] # <<>> => reqs'[j][1] # NoCall
    <2>1. \A j \in Ids : reqs'[j] = reqs[j] \/ reqs'[j] = <<>>
      BY <1>1, RegistryOf
    <2> QED BY <2>1 DEF LimitInv, AsksParked
  <1> QED BY <1>1, <1>5, <1>6, <1>7, SameMoves DEF Wanes, LimitInv, AsksParked

\* The task ends: its slot was closed, or the session is over; or it panics.
LEMMA EndWanes ==
    ASSUME CInv, KInv', LimitInv, NEW i \in Ids, End(i) \/ Panic(i)
    PROVE  Wanes
  <1> SUFFICES ASSUME NEW S, S = Repliers(i) PROVE Wanes
    OBVIOUS
  <1>1. /\ calls' = Drop(S) /\ reqs' = [reqs EXCEPT ![i] = <<>>] /\ UNCHANGED <<slots, turn>>
        /\ UNCHANGED budget \/ \E n : budget' = [budget EXCEPT !.panics = n]
    BY DEF End, Panic
  <1>2. But(tasks', tasks, i) /\ (tasks'[i].at = "panicked" \/ (tasks'[i].at = "ended" /\ Stopped(i)))
    <2>1. CASE End(i)
      BY <2>1, Goes DEF End
    <2>2. CASE Panic(i)
      <3> DEFINE t == [tasks[i] EXCEPT !.at = "panicked", !.reply = NoCall]
      <3>1. tasks' = [tasks EXCEPT ![i] = t]
        BY <2>2 DEF Panic
      <3>2. t.at = "panicked"
        BY ChildOf DEF Tasks
      <3> HIDE DEF t
      <3> QED BY <3>1, <3>2, Moved
    <2> QED BY <2>1, <2>2
  <1>3. ~((Opening(i))')
    BY <1>2 DEF Opening
  <1>4. tasks'[i].at = "ended" /\ turn.at # "ended" => ~Live(slots[i])
    BY <1>2 DEF Stopped, LimitInv, Bounded, Sound
  <1>5. Lapses(i)
    BY <1>1, <1>3, <1>4 DEF Lapses
  <1>6. Ids' = Ids /\ \A j \in Ids : Lapses(j)
    BY <1>1, <1>2, <1>5, OthersLapse, SameChildren
  <1>7. \A d \in Calls : CallMoves(d)
    <2>1. \A d \in Calls : calls'[d] \in {calls[d], [calls[d] EXCEPT !.got = Dropped]}
      BY <1>1 DEF Drop
    <2> SUFFICES ASSUME NEW d \in Calls PROVE CallMoves(d)
      OBVIOUS
    <2>2. calls'[d].op = calls[d].op /\ calls'[d].at = calls[d].at /\ calls'[d].on = calls[d].on
      BY <2>1, CallOf DEF CallRecords
    <2> QED BY <2>2 DEF CallMoves, LimitInv, AsksParked
  <1>8. \A j \in Ids : reqs'[j] # <<>> => reqs'[j][1] # NoCall
    <2>1. \A j \in Ids : reqs'[j] = reqs[j] \/ reqs'[j] = <<>>
      BY <1>1, RegistryOf
    <2> QED BY <2>1 DEF LimitInv, AsksParked
  <1>9. "stops" \in DOMAIN budget' /\ budget'.stops = 0
    BY <1>1 DEF LimitInv, AsksParked
  <1> QED BY <1>1, <1>6, <1>7, <1>8, <1>9 DEF Wanes

LEMMA WatchWanes ==
    ASSUME CInv, KInv', LimitInv, NEW i \in Ids, Watch(i)
    PROVE  Wanes
  <1>1. /\ tasks[i].at = "panicked" /\ Abandoned(i, {}) /\ GoTo(i, "lastword")
        /\ UNCHANGED <<reqs, turn, budget>>
    BY DEF Watch
  <1>2. Working(slots[i]) \/ slots[i].state = "Closed"
    BY <1>1, ChildOf DEF Fits, Working
  <1>3. But(tasks', tasks, i) /\ ~((Opening(i))')
    BY <1>1, Goes DEF Opening
  <1>4. Ids' = Ids /\ \A j \in Ids : Lapses(j)
    BY <1>1, <1>2, <1>3, AbandonedLapses
  <1> QED BY <1>1, <1>4, AbandonedMoves, ChildWanes DEF LimitInv

-----------------------------------------------------------------------------
(* The parent. *)

LEMMA ParentWanes ==
    ASSUME "resumeBg" \notin Ops, CInv, KInv', LimitInv,
           \/ Mail \/ Release \/ Prompt \/ Dispatch \/ Joined \/ Interrupt
           \/ TurnEnds \/ SessionEnds \/ Rest \/ UNCHANGED vars
    PROVE  Wanes
  <1>1. UNCHANGED <<tasks, reqs>>
    BY DEF Mail, Release, Prompt, Dispatch, Joined, Interrupt, TurnEnds, SessionEnds, Rest, vars
  <1>2. "stops" \in DOMAIN budget' /\ budget'.stops = 0
    <2>1. \/ UNCHANGED budget \/ (\E n : budget' = [budget EXCEPT !.chunks = n])
          \/ \E n : budget' = [budget EXCEPT !.interrupts = n]
      BY DEF Mail, Release, Prompt, Dispatch, Joined, Interrupt, TurnEnds, SessionEnds, Rest, vars
    <2> QED BY <2>1 DEF LimitInv, AsksParked
  <1>3. turn.at = "ended" => turn'.at = "ended"
    BY DEF Mail, Release, Prompt, Dispatch, Joined, Interrupt, TurnEnds, SessionEnds, Rest, vars
  <1>4. Ids' = Ids /\ \A j \in Ids : Lapses(j)
    <2>1. CASE UNCHANGED slots
      BY <1>1, <2>1, NoneMoves, SameChildren
    <2>2. CASE SessionEnds
      <3>1. turn' = [turn EXCEPT !.at = "ended"] /\ DOMAIN slots' = Ids /\ turn \in Turns
        BY <2>2 DEF SessionEnds, CInv, Chunked
      <3>2. turn'.at = "ended"
        BY <3>1 DEF Turns
      <3>3. Ids' = Ids
        BY <3>1, SameChildren
      <3>4. \A j \in Ids : (Opening(j))' => Opening(j)
        BY <1>1 DEF Opening
      <3> QED BY <3>2, <3>3, <3>4 DEF Lapses
    <2> QED BY <2>1, <2>2 DEF Mail, Release, Prompt, Dispatch, Joined, Interrupt, TurnEnds, Rest, vars
  <1>5. \A d \in Calls : CallMoves(d)
    <2>1. CASE Dispatch
      <3> DEFINE Wanted(op, i) == [Idle EXCEPT !.op = op, !.on = i, !.at = "due"]
      <3>1. Chunk = {Idle} \cup {Wanted(op, i) : op \in Ops, i \in Ids \cup {0}}
        BY DEF Chunk
      <3>2. \A op, i : Wanted(op, i).at = "due" /\ Wanted(op, i).op = op
        BY DEF Idle
      <3> HIDE DEF Wanted
      <3>3. Idle.op = "none"
        BY DEF Idle
      <3>4. "resumeBg" \notin Ops => \A k \in Chunk : k.op # "resumeBg" /\ k.at \notin {"send", "reply"}
        BY <3>1, <3>2, <3>3, IdleFits
      <3>5. \A c \in Calls : calls'[c] \in Chunk
        BY <2>1 DEF Dispatch
      <3> QED BY <3>4, <3>5 DEF CallMoves
    <2>2. CASE ~Dispatch
      <3>1. UNCHANGED calls
        BY <2>2 DEF Mail, Release, Prompt, Joined, Interrupt, TurnEnds, SessionEnds, Rest, vars
      <3> QED BY <3>1, SameMoves DEF LimitInv
    <2> QED BY <2>1, <2>2
  <1>6. \A j \in Ids : reqs'[j] # <<>> => reqs'[j][1] # NoCall
    BY <1>1 DEF LimitInv, AsksParked
  <1> QED BY <1>2, <1>3, <1>4, <1>5, <1>6 DEF Wanes

-----------------------------------------------------------------------------
(* A registration. *)

\* At the limit one parked child makes room for the new one.
LEMMA SpawnLimits ==
    ASSUME CInv, CInv', LimitInv, NEW c \in Calls, Spawn(c)
    PROVE  LimitInv'
  <1>1. /\ calls[c].at = "due" /\ calls[c].op \in {"spawnFg", "spawnBg"} /\ UNCHANGED <<turn, budget>>
        /\ KInv' /\ turn.at # "ended" /\ AsksParked
    BY CallOf DEF Spawn, CInv, LimitInv
  <1>2. CASE calls' = Over(c)
    <2>1. UNCHANGED <<slots, tasks, reqs>>
      BY <1>2, SpawnRefused
    <2>2. Wanes
      BY <1>1, <1>2, <2>1, NoneMoves, OverMoves, SameChildren, ChildWanes
    <2> QED BY <2>2, WanesKeeps
  <1>3. CASE calls' # Over(c)
    <2> SUFFICES ASSUME NEW n, n = Len(slots) + 1 PROVE LimitInv'
      OBVIOUS
    <2>1. PICK V \in SUBSET Parked : Registers(V, n, c)
      BY <1>1, <1>3, SpawnIs
    <2> SUFFICES ASSUME NEW S, S = {slots[i].waiter : i \in V}, NEW f, f = Drop(S) PROVE LimitInv'
      OBVIOUS
    <2>2. /\ Ids' = Ids \cup {n} /\ n \notin Ids
          /\ \A i \in Ids \ V : slots'[i] = slots[i]
          /\ \A i \in V : slots'[i] = Close(slots[i])
          /\ \A i \in Ids : tasks'[i] = tasks[i] /\ reqs'[i] = reqs[i]
          /\ slots'[n].state = "Running" /\ slots'[n].interrupted = FALSE
          /\ tasks'[n].at = "none" /\ reqs'[n] = <<>>
          /\ calls' = [f EXCEPT ![c] = [f[c] EXCEPT !.at = "permit", !.on = n]]
          /\ V = IF Full THEN {Oldest(Parked)} ELSE {}
      <3>1. n \notin Ids
        BY RegistryOf
      <3>2. calls' = [f EXCEPT ![c] = [f[c] EXCEPT !.at = "permit", !.on = n]]
        BY <2>1 DEF Registers
      <3>3. V \subseteq Ids
        BY DEF Parked
      <3>4. \A i \in Ids : slots'[i] = IF i \in V THEN Close(slots[i]) ELSE slots[i]
        BY <2>1 DEF Registers
      <3>5. (\A i \in Ids \ V : slots'[i] = slots[i]) /\ \A i \in V : slots'[i] = Close(slots[i])
        BY <3>3, <3>4, Zenon
      <3>6. /\ Ids' = Ids \cup {n} /\ V = IF Full THEN {Oldest(Parked)} ELSE {}
            /\ \A i \in Ids : tasks'[i] = tasks[i] /\ reqs'[i] = reqs[i]
            /\ slots'[n].state = "Running" /\ slots'[n].interrupted = FALSE
            /\ tasks'[n].at = "none" /\ reqs'[n] = <<>>
        BY <2>1 DEF Registers
      <3> QED BY <3>1, <3>2, <3>5, <3>6
    <2>3. V \subseteq Ids /\ \A i \in V : slots[i].state = "Done" /\ ~Live(slots'[i])
      <3>1. \A i \in V : i \in Ids /\ slots[i].state = "Done"
        BY DEF Parked
      <3>2. \A i \in V : slots'[i].state = "Closed"
        BY <2>2, <3>1, ClosedFits, ChildOf
      <3> QED BY <3>1, <3>2 DEF Live
    <2>4. \A i \in Ids' : Sound(i)'
      <3>1. \A i \in Ids : Sound(i)
        BY <1>1 DEF LimitInv, Bounded
      <3>2. \A i \in V : ~Opening(i)
        BY <2>3, ChildOf DEF Fits, Opening
      <3>3. \A i \in Ids \ V : Sound(i)'
        BY <2>2, <3>1 DEF Sound, Opening
      <3>4. \A i \in V : Sound(i)'
        BY <2>2, <2>3, <3>2 DEF Sound, Opening
      <3>5. Sound(n)'
        BY <2>2 DEF Sound
      <3> QED BY <2>2, <3>3, <3>4, <3>5
    <2>5. Cardinality(LiveOnes') <= Max
      <3>1. LiveOnes' = (LiveOnes \ V) \cup {n}
        BY <2>2, <2>3 DEF LiveOnes, Live
      <3>2. IsFiniteSet(LiveOnes) /\ Cardinality(LiveOnes) \in Nat /\ Cardinality(LiveOnes) <= Max
            /\ Max \in Nat
        BY <1>1, LiveOnesFinite, BoundsAssumption DEF LimitInv, Bounded
      <3>3. n \notin LiveOnes \ V
        BY <2>2 DEF LiveOnes
      <3>4. CASE Full
        <4>1. V = {Oldest(Parked)} /\ Oldest(Parked) \in LiveOnes
          BY <2>2, <2>3, <3>4 DEF LiveOnes, Live
        <4>2. IsFiniteSet(LiveOnes \ V) /\ Cardinality(LiveOnes \ V) = Cardinality(LiveOnes) - 1
          BY <3>2, <4>1, FS_RemoveElement
        <4>3. Cardinality(LiveOnes') = Cardinality(LiveOnes \ V) + 1
          BY <3>1, <3>3, <4>2, FS_AddElement
        <4> QED BY <3>2, <4>2, <4>3
      <3>5. CASE ~Full
        <4>1. V = {} /\ LiveOnes \ V = LiveOnes
          BY <2>2, <3>5
        <4>2. ~(Cardinality(LiveOnes) >= Max)
          BY <3>5 DEF Full, LiveOnes
        <4>3. Cardinality(LiveOnes') = Cardinality(LiveOnes) + 1
          BY <3>1, <3>2, <3>3, <4>1, FS_AddElement
        <4> QED BY <3>2, <4>2, <4>3
      <3> QED BY <3>4, <3>5
    <2>6. AsksParked'
      <3>1. DOMAIN f = Calls /\ \A d \in Calls : f[d] \in {calls[d], [calls[d] EXCEPT !.got = Dropped]}
        BY DEF Drop
      <3>2. ASSUME NEW d \in Calls
            PROVE  /\ f[d].op = calls[d].op /\ f[d].at = calls[d].at /\ f[d].on = calls[d].on
                   /\ {"op", "at", "on"} \subseteq DOMAIN f[d]
        <4>1. CASE f[d] = calls[d]
          BY <4>1, CallOf DEF CallRecords
        <4>2. CASE f[d] = [calls[d] EXCEPT !.got = Dropped]
          BY <4>2, CallOf DEF CallRecords
        <4> QED BY <3>1, <4>1, <4>2
      <3>3. calls'[c].at = "permit" /\ calls'[c].op = calls[c].op
        BY <2>2, <3>1, <3>2
      <3>4. ASSUME NEW d \in Calls
            PROVE  /\ calls'[d].op # "resumeBg"
                   /\ calls'[d].at \in {"send", "reply"} => ~(Opening(calls[d].on))'
        <4>1. CASE d = c
          BY <1>1, <3>3, <4>1
        <4>2. CASE d # c
          <5> SUFFICES ASSUME NEW i, i = calls[d].on
                       PROVE  /\ calls'[d].op # "resumeBg"
                              /\ calls'[d].at \in {"send", "reply"} => ~(Opening(calls[d].on))'
            OBVIOUS
          <5>1. calls'[d] = f[d]
            BY <2>2, <3>1, <4>2
          <5>2. /\ calls'[d].op = calls[d].op /\ calls'[d].at = calls[d].at /\ calls'[d].on = i
                /\ calls[d].at \in {"send", "reply"} => i \in Ids /\ ~Opening(i)
            <6>1. calls'[d].op = calls[d].op /\ calls'[d].at = calls[d].at /\ calls'[d].on = i
              BY <3>2, <5>1, CallOf
            <6>2. calls[d].at \in {"send", "reply"} => i \in Ids /\ ~Opening(i)
              BY <1>1, <3>2, <5>1, CallOf DEF CallFits, AsksParked
            <6> QED BY <6>1, <6>2
          <5> QED BY <1>1, <2>2, <5>2 DEF AsksParked, Opening
        <4> QED BY <4>1, <4>2
      <3>5. \A i \in Ids' : reqs'[i] # <<>> => reqs'[i][1] # NoCall
        BY <1>1, <2>2 DEF AsksParked
      <3> QED BY <1>1, <3>4, <3>5 DEF AsksParked
    <2> QED BY <2>4, <2>5, <2>6 DEF LimitInv, Bounded
  <1> QED BY <1>2, <1>3

-----------------------------------------------------------------------------
(* The theorems. *)

LEMMA LimitKept ==
    ASSUME "resumeBg" \notin Ops, CInv, CInv', LimitInv, [Next]_vars
    PROVE  LimitInv'
  <1>1. KInv'
    BY DEF CInv
  <1>2. CASE \E c \in Calls : CallStep(c) \/ WaitTimesOut(c)
    <2>1. PICK c \in Calls : CallStep(c) \/ WaitTimesOut(c)
      BY <1>2
    <2>2. CASE Spawn(c)
      BY <2>2, SpawnLimits
    <2>3. CASE ~Spawn(c)
      <3>1. Wanes
        BY <1>1, <2>1, <2>3, StartWanes, SpawnReturnsWanes, SpawnFailsWanes, WaitWanes, ReadsWanes,
           ResumeWanes, ResumeSendsWanes, ResumeCancelledWanes DEF CallStep
      <3> QED BY <3>1, WanesKeeps
    <2> QED BY <2>2, <2>3
  <1>3. CASE \E i \in Ids : TaskStep(i) \/ Panic(i) \/ StopChild(i)
    <2>1. PICK i \in Ids : TaskStep(i) \/ Panic(i) \/ StopChild(i)
      BY <1>3
    <2>2. ~StopChild(i)
      BY DEF StopChild, LimitInv, AsksParked
    <2>3. Wanes
      BY <1>1, <2>1, <2>2, FinishWanes, GoesWanes, PublishWanes, ReplyWanes, TakeRequestWanes,
         EndWanes, WatchWanes DEF TaskStep
    <2> QED BY <2>3, WanesKeeps
  <1>4. CASE \/ Mail \/ Release \/ Prompt \/ Dispatch \/ Joined \/ Interrupt \/ TurnEnds \/ SessionEnds
             \/ Rest \/ UNCHANGED vars
    BY <1>1, <1>4, ParentWanes, WanesKeeps
  <1> QED BY <1>2, <1>3, <1>4 DEF Next

LEMMA LimitHolds ==
    ASSUME MaxStops = 0, "resumeBg" \notin Ops
    PROVE  Spec => [](CInv /\ LimitInv)
  <1>1. Init => LimitInv
    <2> SUFFICES ASSUME Init PROVE LimitInv
      OBVIOUS
    <2>1. Ids = {} /\ \A c \in Calls : calls[c] = Idle
      BY DEF Init, Ids
    <2>2. LiveOnes = {}
      BY <2>1 DEF LiveOnes
    <2>3. Bounded
      BY <2>1, <2>2, FS_EmptySet, BoundsAssumption DEF Bounded
    <2>4. Idle.op = "none"
      BY DEF Idle
    <2>5. "stops" \in DOMAIN budget /\ budget.stops = 0
      BY DEF Init
    <2> QED BY <2>1, <2>3, <2>4, <2>5, IdleFits DEF LimitInv, AsksParked
  <1>2. CInv /\ CInv' /\ LimitInv /\ [Next]_vars => LimitInv'
    BY LimitKept
  <1>3. AllInv => CInv
    BY DEF AllInv
  <1> QED BY <1>1, <1>2, <1>3, AllHolds, PTL DEF Spec

\* `max_children` bounds the running and the parked children together: `Children::register` evicts
\* the oldest parked one or refuses, and a failed start, a panic or an end takes its child off the
\* count.  Without `/agents stop` and background resumes nothing brings one back.
THEOREM LimitKeeps ==
    ASSUME MaxStops = 0, "resumeBg" \notin Ops
    PROVE  Spec => []LiveWithinMax
  <1>1. LimitInv => LiveWithinMax
    BY DEF LimitInv, Bounded, LiveOnes, LiveWithinMax
  <1> QED BY <1>1, LimitHolds, PTL

\* A child whose slot says that it is parked has a task that hears a `resume`, and was not stopped
\* (`Children::resume` hands out the channel of a slot that is `Done`).
THEOREM ParkedHears ==
    ASSUME MaxStops = 0, "resumeBg" \notin Ops
    PROVE  Spec => []DoneIsReachable
  <1>1. ASSUME CInv, LimitInv PROVE DoneIsReachable
    <2> SUFFICES ASSUME turn.at # "ended", NEW i \in Parked
                 PROVE  tasks[i].at \notin {"panicked", "lastword", "ended"} /\ ~slots[i].interrupted
      BY DEF DoneIsReachable
    <2>1. i \in Ids /\ slots[i].state = "Done"
      BY DEF Parked
    <2>2. tasks[i].at \notin {"panicked", "lastword"}
      BY <1>1, <2>1, ChildOf DEF Fits
    <2>3. tasks[i].at # "ended" /\ ~slots[i].interrupted
      BY <1>1, <2>1 DEF LimitInv, Bounded, Sound, Live
    <2> QED BY <2>2, <2>3
  <1> QED BY <1>1, LimitHolds, PTL
=============================================================================

--------------------------- MODULE WorkflowProofs ---------------------------
(***************************************************************************)
(* Proofs about Workflow, for every plan and every bound: what a run may   *)
(* hold, that it ends with no agent at work, that a cancel starts nothing  *)
(* and leaves no call unaccounted, that the cap is never exceeded, that a  *)
(* call ends with an answer to its own question, and that a resume knows   *)
(* every answer but those a torn line cost, or none of an unreadable file. *)
(*                                                                         *)
(* Only says which fields of a run a step writes.  A step of a call writes *)
(* one lane (OnLane): the vote goes on to its next place (Goes), ends      *)
(* (Closes), or ends as the last of its stage (Advances).  What the        *)
(* invariants count is sets of calls by their place (CallsAt).             *)
(***************************************************************************)
EXTENDS Workflow, FiniteSetTheorems, WellFoundedInduction, TLAPS

Fields == {"status", "at", "args", "phase", "jumps", "scope", "lanes", "round", "quiet",
           "union", "started", "cancelled", "records", "free", "cached", "known"}
Places == {"new", "local", "gate", "tree", "live", "end"}
Done == {"done", "cancelled", "failed"}

-----------------------------------------------------------------------------
(* The invariants. *)

\* A lane: a stage of the plan with its votes, and an error once one of them has ended it.
LaneOK(p, l, lane) ==
    /\ DOMAIN lane = {"stage", "prev", "result", "votes"}
    /\ lane.stage \in DOMAIN Stages(p, l)
    /\ DOMAIN lane.votes = 1..Stages(p, l)[lane.stage].votes
    /\ \A v \in DOMAIN lane.votes :
          /\ lane.votes[v] \in [at : Places, value : Values \cup Errors \cup {None}]
          /\ lane.votes[v].value # None => lane.votes[v].at = "end"
          /\ lane.result # None => lane.votes[v].at = "end"
          /\ lane.result # None /\ lane.votes[v].value \in Errors => lane.result \in Errors

\* The lanes of a run: those of its phase while it is in one, and none otherwise.
Laid(R) ==
    IF R.at = "lanes" /\ R.status # "dead"
    THEN /\ R.phase \in DOMAIN Phases
         /\ DOMAIN R.lanes = DOMAIN Phases[R.phase].lanes
         /\ \A l \in DOMAIN R.lanes : LaneOK(R.phase, l, R.lanes[l])
    ELSE DOMAIN R.lanes = {}

Typed(R) ==
    /\ DOMAIN R = Fields
    /\ R.status \in Done \cup {"idle", "running", "dead"}
    /\ R.at \in {"phase", "lanes", "human"} /\ R.cancelled \in BOOLEAN
    /\ R.phase \in Nat \ {0} /\ R.round \in Nat
    /\ R.started \in Nat /\ R.jumps \in 0..MaxJumps /\ R.free \in 0..Width
    /\ R.at = "human" => R.phase \in DOMAIN Phases
    /\ \A id \in DOMAIN R.records : R.records[id] \in Seq(Statuses) \ {<<>>}

\* The calls of a run that are at one of the places P, as pairs of a lane and a vote.
CallsAt(R, P) ==
    UNION {{l} \X {v \in DOMAIN R.lanes[l].votes : R.lanes[l].votes[v].at \in P} : l \in DOMAIN R.lanes}
Waiting == {"local", "gate"}
Working == {"tree", "live"}
Slotted == {"gate", "tree", "live"}

\* A run that is not at work has no call that has not ended.
Settled(R) == R.status # "running" => CallsAt(R, Places \ {"end"}) = {}

\* Run slots are free or with a call that waits for the gate or works.
SlotsOf(R) ==
    R.status = "running" => /\ IsFiniteSet(CallsAt(R, Slotted))
                            /\ R.free + Cardinality(CallsAt(R, Slotted)) = Width

\* Every call that works has a record, and so has one that ended, unless it met the cap.
Recorded(R) ==
    \A l \in DOMAIN R.lanes : \A v \in DOMAIN R.lanes[l].votes :
        LET call == R.lanes[l].votes[v]
        IN  call.at \in Working \cup {"end"} =>
                call.value = "cap" \/ AgentId(R, l, v) \in DOMAIN R.records

\* The agents that count against the cap: those with a record that were not skipped, and
\* the calls that may yet become one.
Counted(R) == RecordsIn(R, Statuses \ {"skipped"})
CapCount(R) ==
    /\ IsFiniteSet(Counted(R)) /\ Cardinality(Counted(R)) <= Cap
    /\ R.status = "running" =>
          /\ IsFiniteSet(CallsAt(R, Waiting))
          /\ Cardinality(Counted(R)) + Cardinality(CallsAt(R, Waiting)) <= Cap
          /\ Cardinality(Counted(R)) + Cardinality(CallsAt(R, Waiting)) <= R.started
\* The record that an agent's end writes again is not one of a call that was skipped.
FirstCounts(R) ==
    R.status = "running" =>
        /\ ~R.cancelled => RecordsIn(R, {"skipped"}) = {}
        /\ \A l \in DOMAIN R.lanes : \A v \in DOMAIN R.lanes[l].votes :
              R.lanes[l].votes[v].at \in Working => R.records[AgentId(R, l, v)][1] # "skipped"
\* Whoever goes past the cap is a call that ended so, in a lane that ends so.
MetCap(R) == \E l \in DOMAIN R.lanes : \E v \in DOMAIN R.lanes[l].votes : R.lanes[l].votes[v].value = "cap"
CapMet(R) ==
    /\ R.status = "running" /\ R.started > Cap => MetCap(R)
    /\ R.status = "done" => R.started <= Cap

\* The process gate.
Holders == UNION {{r} \X CallsAt(run[r], Working) : r \in Runs}
GateInv == gate \in Nat /\ IsFiniteSet(Holders) /\ gate + Cardinality(Holders) = GateWidth

\* What the journal says, what a run replays and what its calls ended with was answered.
Said(R, A) ==
    /\ R.cached \subseteq A
    /\ R.status = "running" =>
          \A l \in DOMAIN R.lanes : \A v \in DOMAIN R.lanes[l].votes :
              LET call == R.lanes[l].votes[v]
              IN  call.at = "end" /\ call.value \in Answers => <<Question(R, l), call.value>> \in A
Logged(lines, A) ==
    /\ lines \in Seq({lines[k] : k \in DOMAIN lines})
    /\ \A k \in DOMAIN lines :
        /\ DOMAIN lines[k] = {"key", "status", "value", "whole", "ended", "legible"}
        /\ lines[k].status \in {"done", "failed", "cancelled"}
        /\ {lines[k].whole, lines[k].ended, lines[k].legible} \subseteq BOOLEAN
        /\ lines[k].whole /\ lines[k].status = "done" => <<lines[k].key, lines[k].value>> \in A
Real(A) == \A x \in A : x = <<x[1], x[2]>> /\ x[2] \in Answers

-----------------------------------------------------------------------------
(* What a step of a call writes. *)

Only(R, S, F) == DOMAIN S = DOMAIN R /\ \A k \in DOMAIN R \ F : S[k] = R[k]
OnLane(R, S, l) ==
    DOMAIN S.lanes = DOMAIN R.lanes /\ \A k \in DOMAIN R.lanes \ {l} : S.lanes[k] = R.lanes[k]

\* The vote goes on to another place.
Goes(old, new, v, to) ==
    /\ DOMAIN new = DOMAIN old /\ new.stage = old.stage /\ new.prev = old.prev
    /\ new.result = old.result /\ DOMAIN new.votes = DOMAIN old.votes
    /\ \A w \in DOMAIN old.votes \ {v} : new.votes[w] = old.votes[w]
    /\ new.votes[v] = [at |-> to, value |-> old.votes[v].value]

\* The vote ends with a value, and perhaps the lane with it.
Closes(old, new, v, value) ==
    /\ DOMAIN new = DOMAIN old /\ new.stage = old.stage /\ new.prev = old.prev
    /\ DOMAIN new.votes = DOMAIN old.votes
    /\ \A w \in DOMAIN old.votes \ {v} : new.votes[w] = old.votes[w]
    /\ new.votes[v] = [at |-> "end", value |-> value]
    /\ \A w \in DOMAIN new.votes :
          /\ new.result # None => new.votes[w].at = "end"
          /\ new.result # None /\ new.votes[w].value \in Errors => new.result \in Errors

\* The vote is the last of its stage to end, and the lane goes on to the next one.
Advances(p, l, old, new, v, value) ==
    /\ old.stage + 1 \in DOMAIN Stages(p, l)
    /\ \E prev : new = Lane(p, l, old.stage + 1, prev)
    /\ \A w \in DOMAIN old.votes \ {v} :
          old.votes[w].at = "end" /\ old.votes[w].value \notin Errors
    /\ value \notin Errors

Moves(R, S, l, v, to, value) ==
    /\ Only(R, S, {"lanes", "records", "free", "started"}) /\ OnLane(R, S, l)
    /\ \/ to # "end" /\ Goes(R.lanes[l], S.lanes[l], v, to)
       \/ to = "end" /\ Closes(R.lanes[l], S.lanes[l], v, value)
       \/ to = "end" /\ Advances(R.phase, l, R.lanes[l], S.lanes[l], v, value)

\* <<l, v>> is a call of R that has not ended.
IsCall(R, l, v) ==
    /\ DOMAIN R = Fields /\ R.phase \in DOMAIN Phases
    /\ l \in DOMAIN R.lanes /\ l \in DOMAIN Phases[R.phase].lanes
    /\ LaneOK(R.phase, l, R.lanes[l])
    /\ v \in DOMAIN R.lanes[l].votes /\ R.lanes[l].votes[v].at # "end"

\* A record is added behind those of its id, or the first of them is written again.
Adds(R, S, id, status) ==
    /\ DOMAIN S.records = {id} \cup DOMAIN R.records
    /\ S.records[id] = Append(RecordsOf(R, id), status)
    /\ \A x \in DOMAIN R.records \ {id} : S.records[x] = R.records[x]
Sets(R, S, id, status) ==
    /\ id \in DOMAIN R.records => DOMAIN S.records = DOMAIN R.records
    /\ id \in DOMAIN R.records => S.records[id] = [R.records[id] EXCEPT ![1] = status]
    /\ \A x \in DOMAIN R.records \ {id} : S.records[x] = R.records[x]

\* The steps of a call.
Skips(R, S, l, v) ==
    /\ R.cancelled /\ R.lanes[l].votes[v].at \in {"new", "local", "gate"}
    /\ Moves(R, S, l, v, "end", "cancelled")
    /\ Adds(R, S, AgentId(R, l, v), "skipped")
    /\ S.started = R.started
    /\ S.free = IF R.lanes[l].votes[v].at = "gate" THEN R.free + 1 ELSE R.free
MeetsCap(R, S, l, v) ==
    /\ R.lanes[l].votes[v].at = "new" /\ R.started >= Cap
    /\ Moves(R, S, l, v, "end", "cap")
    /\ S.records = R.records /\ S.started = R.started + 1 /\ S.free = R.free
Begins(R, S, l, v) ==
    /\ ~R.cancelled /\ R.lanes[l].votes[v].at = "new" /\ ~(R.started >= Cap)
    /\ Moves(R, S, l, v, "local", None)
    /\ S.records = R.records /\ S.started = R.started + 1 /\ S.free = R.free
TakesSlot(R, S, l, v) ==
    /\ ~R.cancelled /\ R.lanes[l].votes[v].at = "local" /\ R.free > 0
    /\ Moves(R, S, l, v, "gate", None)
    /\ S.records = R.records /\ S.started = R.started /\ S.free = R.free - 1
Replays(R, S, l, v) ==
    /\ ~R.cancelled /\ R.lanes[l].votes[v].at = "gate"
    /\ \E value \in Cached(R, l) : Moves(R, S, l, v, "end", value)
    /\ Adds(R, S, AgentId(R, l, v), "done")
    /\ S.started = R.started /\ S.free = R.free + 1
Launches(R, S, l, v) ==
    /\ ~R.cancelled /\ R.lanes[l].votes[v].at = "gate"
    /\ \E to \in Working : Moves(R, S, l, v, to, None)
    /\ Adds(R, S, AgentId(R, l, v), "running")
    /\ S.started = R.started /\ S.free = R.free
Locks(R, S, l, v) ==
    /\ R.lanes[l].votes[v].at = "tree" /\ Moves(R, S, l, v, "live", None)
    /\ S.records = R.records /\ S.started = R.started /\ S.free = R.free
Replies(R, S, l, v, value, status) ==
    /\ R.lanes[l].votes[v].at \in Working
    /\ Moves(R, S, l, v, "end", IF R.cancelled THEN "cancelled" ELSE value)
    /\ Sets(R, S, AgentId(R, l, v), status)
    /\ S.started = R.started /\ S.free = R.free + 1

\* The least element of a set of numbers.
LEMMA FirstIn ==
    ASSUME NEW T \in SUBSET Nat, T # {}
    PROVE  First(T) \in T
  <1>1. PICK n \in Nat : n \in T
    OBVIOUS
  <1>2. IsWellFoundedOn(OpToRel(<, Nat), Nat)
    BY NatLessThanWellFounded
  <1>3. \E k \in T : \A j \in T : ~(<<j, k>> \in OpToRel(<, Nat))
    BY <1>1, <1>2, WFMin
  <1>4. \A k \in T : \A j \in T : ~(<<j, k>> \in OpToRel(<, Nat)) => k <= j
    BY DEF OpToRel
  <1> QED BY <1>3, <1>4 DEF First

\* What the plan says of a stage.
LEMMA PlanOf ==
    ASSUME NEW p \in DOMAIN Phases, NEW l \in DOMAIN Phases[p].lanes
    PROVE  /\ Len(Stages(p, l)) \in Nat \ {0} /\ DOMAIN Stages(p, l) = 1..Len(Stages(p, l))
           /\ \A s \in DOMAIN Stages(p, l) : Stages(p, l)[s].votes \in Nat \ {0}
  <1>1. Phases[p] \in PhaseSpec
    BY WorkflowBounds
  <1>2. Phases[p].lanes \in Seq(Seq(AgentSpec) \ {<<>>})
    BY <1>1 DEF PhaseSpec
  <1>3. Stages(p, l) \in Seq(AgentSpec) /\ Stages(p, l) # <<>>
    BY <1>2 DEF Stages
  <1>4. \A s \in DOMAIN Stages(p, l) : Stages(p, l)[s] \in AgentSpec
    BY <1>3
  <1> QED BY <1>3, <1>4 DEF AgentSpec

\* What makes a lane, without the law of its results.
LEMMA LaneShape ==
    ASSUME NEW p, NEW l, NEW lane, LaneOK(p, l, lane)
    PROVE  /\ lane.stage \in DOMAIN Stages(p, l)
           /\ DOMAIN lane.votes = 1..Stages(p, l)[lane.stage].votes
           /\ \A v \in DOMAIN lane.votes :
                 /\ lane.votes[v].at \in Places
                 /\ lane.votes[v].value \in Values \cup Errors \cup {None}
                 /\ lane.votes[v].value # None => lane.votes[v].at = "end"
  BY DEF LaneOK

LEMMA EndsMoves ==
    ASSUME NEW R, NEW l, NEW v, IsCall(R, l, v), NEW value
    PROVE  /\ Only(R, Ends(R, l, v, value), {"lanes"}) /\ OnLane(R, Ends(R, l, v, value), l)
           /\ \/ Closes(R.lanes[l], Ends(R, l, v, value).lanes[l], v, value)
              \/ Advances(R.phase, l, R.lanes[l], Ends(R, l, v, value).lanes[l], v, value)
  <1> DEFINE old == R.lanes[l]
             lane == [old EXCEPT !.votes = [old.votes EXCEPT ![v] = [at |-> "end", value |-> value]]]
             R1 == [R EXCEPT !.lanes = [R.lanes EXCEPT ![l] = lane]]
             S == Ends(R, l, v, value)
             value1 == IF Len(lane.votes) = 1 THEN lane.votes[1].value
                 ELSE IF 2 * Cardinality({w \in DOMAIN lane.votes : lane.votes[w].value = "yes"}) > Len(lane.votes)
                 THEN "yes" ELSE "no"
  <1> USE DEF IsCall
  <1>1. R1 = [R EXCEPT !.lanes[l].votes[v] = [at |-> "end", value |-> value]]
    OBVIOUS
  <1>2. S = IF Voted(R1.lanes[l]) THEN [R1 EXCEPT !.lanes[l] = Advanced(R1, l)] ELSE R1
    BY <1>1 DEF Ends
  <1>3. /\ DOMAIN lane = DOMAIN old /\ lane.stage = old.stage /\ lane.prev = old.prev
        /\ lane.result = None /\ DOMAIN lane.votes = DOMAIN old.votes
        /\ \A w \in DOMAIN old.votes \ {v} : lane.votes[w] = old.votes[w]
        /\ lane.votes[v] = [at |-> "end", value |-> value]
    BY DEF LaneOK
  <1>4. R1.lanes[l] = lane /\ Only(R, R1, {"lanes"}) /\ OnLane(R, R1, l) /\ R1.phase = R.phase
    BY DEF Fields, Only, OnLane
  <1> HIDE DEF lane, R1
  <1>5. CASE ~Voted(R1.lanes[l])
    <2>1. S = R1
      BY <1>2, <1>5
    <2> QED BY <1>3, <1>4, <2>1 DEF Closes
  <1>6. CASE Voted(R1.lanes[l])
    <2> DEFINE errs == {w \in DOMAIN lane.votes : lane.votes[w].value \in Errors}
               new == Advanced(R1, l)
    <2>1. S = [R1 EXCEPT !.lanes = [R1.lanes EXCEPT ![l] = new]]
      BY <1>2, <1>6
    <2>2. Only(R, S, {"lanes"}) /\ OnLane(R, S, l) /\ S.lanes[l] = new
      BY <1>4, <2>1 DEF Only, OnLane, Fields
    <2>3. \A w \in DOMAIN lane.votes : lane.votes[w].at = "end"
      BY <1>4, <1>6 DEF Voted
    <2>4. new = IF errs # {} THEN [lane EXCEPT !.result = lane.votes[First(errs)].value]
                ELSE IF value1 = "null" \/ lane.stage = Len(Stages(R.phase, l))
                     THEN [lane EXCEPT !.result = value1]
                     ELSE Lane(R.phase, l, lane.stage + 1, value1)
      BY <1>4, Zenon DEF Advanced
    <2> HIDE DEF new, value1
    <2>5. CASE errs # {}
      <3>1. errs \in SUBSET Nat
        <4>1. old.stage \in DOMAIN Stages(R.phase, l)
              /\ DOMAIN lane.votes = 1..Stages(R.phase, l)[old.stage].votes
          BY <1>3, LaneShape
        <4>2. Stages(R.phase, l)[old.stage].votes \in Nat
          BY <1>3, <4>1, PlanOf
        <4> QED BY <4>1, <4>2
      <3>2. First(errs) \in errs
        BY <2>5, <3>1, FirstIn
      <3>3. lane.votes[First(errs)].value \in Errors
        BY <3>2
      <3>4. new = [lane EXCEPT !.result = lane.votes[First(errs)].value]
        BY <2>4, <2>5
      <3>5. Closes(old, new, v, value)
        BY <1>3, <2>3, <3>3, <3>4 DEF Closes, LaneOK
      <3> QED BY <2>2, <3>5
    <2>6. CASE errs = {} /\ (value1 = "null" \/ lane.stage = Len(Stages(R.phase, l)))
      <3>1. new = [lane EXCEPT !.result = value1]
        BY <2>4, <2>6
      <3>2. Closes(old, new, v, value)
        BY <1>3, <2>3, <2>6, <3>1 DEF Closes, LaneOK
      <3> QED BY <2>2, <3>2
    <2>7. CASE errs = {} /\ ~(value1 = "null" \/ lane.stage = Len(Stages(R.phase, l)))
      <3>1. new = Lane(R.phase, l, old.stage + 1, value1)
        BY <1>3, <2>4, <2>7
      <3>2. old.stage + 1 \in DOMAIN Stages(R.phase, l)
        <4>1. old.stage \in DOMAIN Stages(R.phase, l) /\ old.stage # Len(Stages(R.phase, l))
          BY <1>3, <2>7, LaneShape
        <4>2. /\ Len(Stages(R.phase, l)) \in Nat
              /\ DOMAIN Stages(R.phase, l) = 1..Len(Stages(R.phase, l))
          BY <1>3, PlanOf
        <4> QED BY <4>1, <4>2
      <3>3. Advances(R.phase, l, old, new, v, value)
        BY <1>3, <2>3, <2>7, <3>1, <3>2 DEF Advances
      <3> QED BY <2>2, <3>3
    <2> QED BY <2>5, <2>6, <2>7
  <1> QED BY <1>5, <1>6

\* What comes before the end of a call, or before its next place, touches no lane.
LEMMA EndsAfter ==
    ASSUME NEW R, NEW l, NEW v, IsCall(R, l, v), NEW value,
           NEW B, Only(R, B, {"records", "free", "started"})
    PROVE  /\ Moves(R, Ends(B, l, v, value), l, v, "end", value)
           /\ Ends(B, l, v, value).records = B.records
           /\ Ends(B, l, v, value).free = B.free
           /\ Ends(B, l, v, value).started = B.started
  <1>1. B.lanes = R.lanes /\ B.phase = R.phase /\ DOMAIN B = Fields
    BY DEF Only, IsCall, Fields
  <1>2. IsCall(B, l, v)
    BY <1>1 DEF IsCall
  <1> DEFINE S == Ends(B, l, v, value)
  <1>3. /\ Only(B, S, {"lanes"}) /\ OnLane(B, S, l)
        /\ \/ Closes(B.lanes[l], S.lanes[l], v, value)
           \/ Advances(B.phase, l, B.lanes[l], S.lanes[l], v, value)
    BY <1>2, EndsMoves
  <1> HIDE DEF S
  <1>4. S.records = B.records /\ S.free = B.free /\ S.started = B.started
    BY <1>1, <1>3 DEF Only, Fields
  <1>5. Only(R, S, {"lanes", "records", "free", "started"}) /\ OnLane(R, S, l)
    BY <1>1, <1>3 DEF Only, OnLane
  <1>6. Moves(R, S, l, v, "end", value)
    BY <1>1, <1>3, <1>5, Zenon DEF Moves
  <1> QED BY <1>4, <1>6 DEF S

LEMMA PutAfter ==
    ASSUME NEW R, NEW l, NEW v, IsCall(R, l, v), NEW to, to # "end",
           NEW B, Only(R, B, {"records", "free", "started"})
    PROVE  /\ Moves(R, Put(B, l, v, to), l, v, to, None)
           /\ Put(B, l, v, to).records = B.records
           /\ Put(B, l, v, to).free = B.free
           /\ Put(B, l, v, to).started = B.started
  <1>1. B.lanes = R.lanes /\ B.phase = R.phase /\ DOMAIN B = Fields
    BY DEF Only, IsCall, Fields
  <1> DEFINE lane == R.lanes[l]
             new == [lane EXCEPT !.votes = [lane.votes EXCEPT ![v] = [lane.votes[v] EXCEPT !.at = to]]]
             S == Put(B, l, v, to)
  <1>2. S = [B EXCEPT !.lanes = [R.lanes EXCEPT ![l] = new]]
    BY <1>1 DEF Put
  <1>3. lane.votes[v] \in [at : Places, value : Values \cup Errors \cup {None}]
    BY DEF IsCall, LaneOK
  <1>4. Goes(lane, new, v, to)
    BY <1>3 DEF Goes, IsCall, LaneOK
  <1> HIDE DEF new
  <1>5. /\ S.records = B.records /\ S.free = B.free /\ S.started = B.started
        /\ Only(R, S, {"lanes", "records", "free", "started"}) /\ OnLane(R, S, l)
        /\ S.lanes[l] = new
    BY <1>1, <1>2 DEF Only, OnLane, Fields, IsCall
  <1> QED BY <1>4, <1>5 DEF Moves

LEMMA SameId ==
    ASSUME NEW R, NEW B, Only(R, B, {"records", "free", "started"}), DOMAIN R = Fields, NEW l, NEW v
    PROVE  /\ AgentId(B, l, v) = AgentId(R, l, v) /\ Cached(B, l) = Cached(R, l)
           /\ Call(B, l) = Call(R, l) /\ Question(B, l) = Question(R, l)
  <1>1. /\ B.lanes = R.lanes /\ B.phase = R.phase /\ B.round = R.round /\ B.cached = R.cached
        /\ B.args = R.args /\ B.union = R.union /\ B.scope = R.scope
    BY DEF Only, Fields
  <1>2. Call(B, l) = Call(R, l) /\ Shape(B) = Shape(R)
    BY <1>1 DEF Call, Shape
  <1>3. Question(B, l) = Question(R, l)
    BY <1>1, <1>2 DEF Question, Prompt
  <1> QED BY <1>1, <1>2, <1>3 DEF AgentId, Cached, ContentKey

LEMMA RecordAdds ==
    ASSUME NEW R, DOMAIN R = Fields, NEW l, NEW v, NEW status,
           NEW B, Only(R, B, {"free", "started"})
    PROVE  /\ Only(B, Record(B, l, v, status), {"records"})
           /\ Only(R, Record(B, l, v, status), {"records", "free", "started"})
           /\ Record(B, l, v, status).free = B.free /\ Record(B, l, v, status).started = B.started
           /\ Adds(R, Record(B, l, v, status), AgentId(R, l, v), status)
  <1> DEFINE id == AgentId(R, l, v)
             statuses == Append(RecordsOf(B, id), status)
             S == Record(B, l, v, status)
  <1>1. AgentId(B, l, v) = id
    BY SameId DEF Only
  <1>2. DOMAIN B = Fields /\ B.records = R.records
    BY DEF Only, Fields
  <1> HIDE DEF id
  <1>3. S = [B EXCEPT !.records = [x \in {id} \cup DOMAIN B.records |-> IF x = id THEN statuses ELSE B.records[x]]]
    BY <1>1 DEF Record, WithRecords
  <1>4. RecordsOf(B, id) = RecordsOf(R, id)
    BY <1>2 DEF RecordsOf
  <1> HIDE DEF statuses
  <1>5. Only(B, S, {"records"}) /\ S.free = B.free /\ S.started = B.started
    BY <1>2, <1>3 DEF Only, Fields
  <1>6. /\ DOMAIN S.records = {id} \cup DOMAIN R.records /\ S.records[id] = statuses
        /\ \A x \in DOMAIN R.records \ {id} : S.records[x] = R.records[x]
    BY <1>2, <1>3 DEF Fields
  <1>7. Only(R, S, {"records", "free", "started"})
    BY <1>5, <1>2 DEF Only
  <1> QED BY <1>4, <1>5, <1>6, <1>7 DEF Adds, id, statuses

LEMMA SettleSets ==
    ASSUME NEW R, DOMAIN R = Fields, NEW l, NEW v, NEW status,
           NEW B, Only(R, B, {"free", "started"})
    PROVE  /\ Only(R, Settle(B, l, v, status), {"records", "free", "started"})
           /\ Settle(B, l, v, status).free = B.free /\ Settle(B, l, v, status).started = B.started
           /\ Sets(R, Settle(B, l, v, status), AgentId(R, l, v), status)
  <1> DEFINE id == AgentId(R, l, v)
             statuses == [RecordsOf(B, id) EXCEPT ![1] = status]
             S == Settle(B, l, v, status)
  <1>1. AgentId(B, l, v) = id
    BY SameId DEF Only
  <1>2. DOMAIN B = Fields /\ B.records = R.records
    BY DEF Only, Fields
  <1> HIDE DEF id
  <1>3. S = [B EXCEPT !.records = [x \in {id} \cup DOMAIN B.records |-> IF x = id THEN statuses ELSE B.records[x]]]
    BY <1>1 DEF Settle, WithRecords
  <1>4. id \in DOMAIN R.records => statuses = [R.records[id] EXCEPT ![1] = status]
    BY <1>2 DEF RecordsOf
  <1> HIDE DEF statuses
  <1>5. Only(B, S, {"records"}) /\ S.free = B.free /\ S.started = B.started
    BY <1>2, <1>3 DEF Only, Fields
  <1>6. /\ DOMAIN S.records = {id} \cup DOMAIN R.records /\ S.records[id] = statuses
        /\ \A x \in DOMAIN R.records \ {id} : S.records[x] = R.records[x]
    BY <1>2, <1>3 DEF Fields
  <1>7. Only(R, S, {"records", "free", "started"})
    BY <1>5, <1>2 DEF Only
  <1>8. id \in DOMAIN R.records => DOMAIN S.records = DOMAIN R.records
    BY <1>6
  <1> QED BY <1>4, <1>5, <1>6, <1>7, <1>8 DEF Sets, id

-----------------------------------------------------------------------------
(* The actions of a call. *)

\* Only run r moves.
OneRun(r) == DOMAIN run' = DOMAIN run /\ \A q \in DOMAIN run \ {r} : run'[q] = run[q]

LEMMA Itself == ASSUME NEW R PROVE \A F : Only(R, R, F)
  BY DEF Only

LEMMA SkipIs ==
    ASSUME NEW R, NEW l, NEW v, IsCall(R, l, v), R.cancelled,
           R.lanes[l].votes[v].at \in {"new", "local", "gate"},
           NEW B, Only(R, B, {"free", "started"}), B.started = R.started,
           B.free = IF R.lanes[l].votes[v].at = "gate" THEN R.free + 1 ELSE R.free
    PROVE  Skips(R, Skip(B, l, v), l, v)
  <1> DEFINE C == Record(B, l, v, "skipped")
  <1>1. /\ Only(R, C, {"records", "free", "started"}) /\ C.free = B.free /\ C.started = B.started
        /\ Adds(R, C, AgentId(R, l, v), "skipped")
    BY RecordAdds DEF IsCall
  <1> DEFINE S == Ends(C, l, v, "cancelled")
  <1>2. S = Skip(B, l, v)
    BY Zenon DEF Skip
  <1> HIDE DEF C
  <1>3. /\ Moves(R, S, l, v, "end", "cancelled") /\ S.records = C.records
        /\ S.free = C.free /\ S.started = C.started
    BY <1>1, EndsAfter
  <1> HIDE DEF S
  <1> QED BY <1>1, <1>2, <1>3 DEF Skips, Adds

LEMMA AdmitIs ==
    ASSUME NEW r \in DOMAIN run, NEW l, NEW v, IsCall(run[r], l, v), Admit(r, l, v)
    PROVE  /\ OneRun(r) /\ UNCHANGED <<journal, gate, tree, answers, budget>>
           /\ \/ Skips(run[r], run'[r], l, v) \/ MeetsCap(run[r], run'[r], l, v)
              \/ Begins(run[r], run'[r], l, v)
  <1> DEFINE R == run[r]
             B == [R EXCEPT !.started = @ + 1]
             S == IF R.cancelled THEN Skip(R, l, v)
                  ELSE IF AtCap(R) THEN Ends(B, l, v, "cap") ELSE Put(B, l, v, "local")
  <1>1. /\ R.lanes[l].votes[v].at = "new" /\ run' = [run EXCEPT ![r] = S]
        /\ UNCHANGED <<journal, gate, tree, answers, budget>>
    BY DEF Admit, At
  <1>2. /\ Only(R, B, {"records", "free", "started"}) /\ B.records = R.records
        /\ B.started = R.started + 1 /\ B.free = R.free
    BY DEF Only, IsCall, Fields
  <1> HIDE DEF S, B
  <1>3. OneRun(r) /\ run'[r] = S
    BY <1>1 DEF OneRun
  <1>4. CASE R.cancelled
    <2>1. Skips(R, Skip(R, l, v), l, v)
      BY <1>1, <1>4, SkipIs, Itself
    <2> QED BY <1>1, <1>3, <1>4, <2>1 DEF S
  <1>5. CASE ~R.cancelled /\ AtCap(R)
    <2>1. MeetsCap(R, Ends(B, l, v, "cap"), l, v)
      BY <1>1, <1>2, <1>5, EndsAfter DEF MeetsCap, AtCap
    <2> QED BY <1>1, <1>3, <1>5, <2>1 DEF S
  <1>6. CASE ~R.cancelled /\ ~AtCap(R)
    <2>1. Begins(R, Put(B, l, v, "local"), l, v)
      BY <1>1, <1>2, <1>6, PutAfter DEF Begins, AtCap
    <2> QED BY <1>1, <1>3, <1>6, <2>1 DEF S
  <1> QED BY <1>4, <1>5, <1>6

LEMMA TakeLocalIs ==
    ASSUME NEW r \in DOMAIN run, NEW l, NEW v, IsCall(run[r], l, v), TakeLocal(r, l, v)
    PROVE  /\ OneRun(r) /\ UNCHANGED <<journal, gate, tree, answers, budget>>
           /\ Skips(run[r], run'[r], l, v) \/ TakesSlot(run[r], run'[r], l, v)
  <1> DEFINE R == run[r]
             B == [R EXCEPT !.free = @ - 1]
  <1>1. R.lanes[l].votes[v].at = "local"
    BY DEF TakeLocal, At
  <1>2. CASE SkipLocal(r, l, v)
    <2>1. R.cancelled /\ run' = [run EXCEPT ![r] = Skip(R, l, v)]
          /\ UNCHANGED <<journal, gate, tree, answers, budget>>
      BY <1>2 DEF SkipLocal
    <2>2. OneRun(r) /\ run'[r] = Skip(R, l, v)
      BY <2>1 DEF OneRun
    <2> QED BY <1>1, <2>1, <2>2, SkipIs, Itself
  <1>3. CASE /\ ~R.cancelled /\ R.free > 0 /\ run' = [run EXCEPT ![r] = Put(B, l, v, "gate")]
             /\ UNCHANGED <<journal, gate, tree, answers, budget>>
    <2>1. /\ Only(R, B, {"records", "free", "started"}) /\ B.records = R.records
          /\ B.started = R.started /\ B.free = R.free - 1
      BY DEF Only, IsCall, Fields
    <2> HIDE DEF B
    <2>2. OneRun(r) /\ run'[r] = Put(B, l, v, "gate")
      BY <1>3 DEF OneRun
    <2>3. TakesSlot(R, run'[r], l, v)
      BY <1>1, <1>3, <2>1, <2>2, PutAfter DEF TakesSlot
    <2> QED BY <1>3, <2>2, <2>3
  <1>4. \/ SkipLocal(r, l, v)
        \/ /\ ~R.cancelled /\ R.free > 0 /\ run' = [run EXCEPT ![r] = Put(B, l, v, "gate")]
           /\ UNCHANGED <<journal, gate, tree, answers, budget>>
    BY DEF TakeLocal
  <1> QED BY <1>2, <1>3, <1>4

LEMMA TakeGateIs ==
    ASSUME NEW r \in DOMAIN run, NEW l, NEW v, IsCall(run[r], l, v), TakeGate(r, l, v)
    PROVE  /\ OneRun(r) /\ UNCHANGED <<journal, tree, answers, budget>>
           /\ \/ (Skips(run[r], run'[r], l, v) \/ Replays(run[r], run'[r], l, v)) /\ gate' = gate
              \/ Launches(run[r], run'[r], l, v) /\ gate > 0 /\ gate' = gate - 1
  <1> DEFINE R == run[r]
             B == [R EXCEPT !.free = @ + 1]
  <1>1. R.lanes[l].votes[v].at = "gate" /\ UNCHANGED <<journal, tree, answers, budget>>
    BY DEF TakeGate, At
  <1>2. Only(R, B, {"free", "started"}) /\ B.started = R.started /\ B.free = R.free + 1
    BY DEF Only, IsCall, Fields
  <1>3. \/ R.cancelled /\ run' = [run EXCEPT ![r] = Skip(B, l, v)] /\ gate' = gate
        \/ /\ GateOpens(r) /\ gate' = gate
           /\ \E value \in Cached(R, l) :
                run' = [run EXCEPT ![r] = Ends(Record(B, l, v, "done"), l, v, value)]
        \/ /\ GateOpens(r) /\ gate' = gate - 1
           /\ \E to \in Working :
                run' = [run EXCEPT ![r] = Put(Record(R, l, v, "running"), l, v, to)]
    BY Zenon DEF TakeGate, Working
  <1> HIDE DEF B
  <1>4. CASE R.cancelled /\ run' = [run EXCEPT ![r] = Skip(B, l, v)] /\ gate' = gate
    <2>1. OneRun(r) /\ run'[r] = Skip(B, l, v)
      BY <1>4 DEF OneRun
    <2> QED BY <1>1, <1>2, <1>4, <2>1, SkipIs
  <1>5. ASSUME GateOpens(r), gate' = gate, NEW value \in Cached(R, l),
               run' = [run EXCEPT ![r] = Ends(Record(B, l, v, "done"), l, v, value)]
        PROVE  OneRun(r) /\ Replays(R, run'[r], l, v)
    <2> DEFINE C == Record(B, l, v, "done")
    <2>1. OneRun(r) /\ run'[r] = Ends(C, l, v, value)
      BY <1>5 DEF OneRun
    <2>2. /\ Only(R, C, {"records", "free", "started"}) /\ C.free = B.free /\ C.started = B.started
          /\ Adds(R, C, AgentId(R, l, v), "done")
      BY <1>2, RecordAdds DEF IsCall
    <2> HIDE DEF C
    <2>3. /\ Moves(R, run'[r], l, v, "end", value) /\ run'[r].records = C.records
          /\ run'[r].free = C.free /\ run'[r].started = C.started
      BY <2>1, <2>2, EndsAfter
    <2> QED BY <1>1, <1>2, <1>5, <2>1, <2>2, <2>3 DEF Replays, Adds, GateOpens
  <1>6. ASSUME GateOpens(r), gate' = gate - 1, NEW to \in Working,
               run' = [run EXCEPT ![r] = Put(Record(R, l, v, "running"), l, v, to)]
        PROVE  OneRun(r) /\ Launches(R, run'[r], l, v) /\ gate > 0
    <2> DEFINE C == Record(R, l, v, "running")
    <2>1. OneRun(r) /\ run'[r] = Put(C, l, v, to)
      BY <1>6 DEF OneRun
    <2>2. /\ Only(R, C, {"records", "free", "started"}) /\ C.free = R.free /\ C.started = R.started
          /\ Adds(R, C, AgentId(R, l, v), "running")
      BY RecordAdds, Itself DEF IsCall
    <2> HIDE DEF C
    <2>3. /\ Moves(R, run'[r], l, v, to, None) /\ run'[r].records = C.records
          /\ run'[r].free = C.free /\ run'[r].started = C.started
      BY <2>1, <2>2, PutAfter DEF Working
    <2> QED BY <1>1, <1>6, <2>1, <2>2, <2>3 DEF Launches, Adds, GateOpens
  <1> QED BY <1>1, <1>3, <1>4, <1>5, <1>6

LEMMA TakeTreeIs ==
    ASSUME NEW r \in DOMAIN run, NEW l, NEW v, IsCall(run[r], l, v), TakeTree(r, l, v)
    PROVE  /\ OneRun(r) /\ UNCHANGED <<journal, gate, answers, budget>> /\ tree' = TRUE
           /\ Locks(run[r], run'[r], l, v)
  <1>1. /\ run[r].lanes[l].votes[v].at = "tree" /\ tree' = TRUE
        /\ run' = [run EXCEPT ![r] = Put(run[r], l, v, "live")]
        /\ UNCHANGED <<journal, gate, answers, budget>>
    BY DEF TakeTree, At
  <1>2. OneRun(r) /\ run'[r] = Put(run[r], l, v, "live")
    BY <1>1 DEF OneRun
  <1>3. Locks(run[r], run'[r], l, v)
    BY <1>1, <1>2, PutAfter, Itself DEF Locks
  <1> QED BY <1>1, <1>2, <1>3

LEMMA ReplyIs ==
    ASSUME NEW r \in DOMAIN run, NEW l, NEW v, IsCall(run[r], l, v), Reply(r, l, v)
    PROVE  /\ OneRun(r) /\ gate' = gate + 1 /\ tree' \in {FALSE, tree}
           /\ UNCHANGED budget \/ Spend("fail")
           /\ \E value \in Answers \cup {"null"}, status \in {"done", "cancelled", "failed"} :
                 /\ status = "done" <=> value # "null"
                 /\ Replies(run[r], run'[r], l, v, value, status) /\ Journal(r, l, status, value)
                 /\ answers' = IF value = "null" THEN answers
                               ELSE [answers EXCEPT ![r] = @ \cup {<<Question(run[r], l), value>>}]
  <1> DEFINE R == run[r]
             B == [R EXCEPT !.free = @ + 1]
             Status(value) == IF value # "null" THEN "done"
                              ELSE IF R.cancelled THEN "cancelled" ELSE "failed"
  <1>1. R.lanes[l].votes[v].at \in Working
    BY DEF Reply, Working
  <1>2. Only(R, B, {"free", "started"}) /\ B.started = R.started /\ B.free = R.free + 1
    BY DEF Only, IsCall, Fields
  <1>3. PICK value \in Answers \cup {"null"} :
            /\ UNCHANGED budget \/ Spend("fail")
            /\ run' = [run EXCEPT ![r] = Ends(Settle(B, l, v, Status(value)), l, v,
                                              IF R.cancelled THEN "cancelled" ELSE value)]
            /\ Journal(r, l, Status(value), value)
            /\ answers' = IF value = "null" THEN answers
                          ELSE [answers EXCEPT ![r] = @ \cup {<<Question(R, l), value>>}]
            /\ gate' = gate + 1 /\ tree' \in {FALSE, tree}
    BY Zenon DEF Reply
  <1> DEFINE status == Status(value)
             C == Settle(B, l, v, status)
             end == IF R.cancelled THEN "cancelled" ELSE value
  <1>4. status \in {"done", "cancelled", "failed"} /\ (status = "done" <=> value # "null")
    OBVIOUS
  <1>5. /\ run' = [run EXCEPT ![r] = Ends(C, l, v, end)]
        /\ Journal(r, l, status, value)
    BY <1>3
  <1> HIDE DEF status, B
  <1>6. /\ Only(R, C, {"records", "free", "started"}) /\ C.free = B.free /\ C.started = B.started
        /\ Sets(R, C, AgentId(R, l, v), status)
    BY <1>2, SettleSets DEF IsCall
  <1> HIDE DEF C
  <1>7. OneRun(r) /\ run'[r] = Ends(C, l, v, end)
    BY <1>5 DEF OneRun
  <1> HIDE DEF end
  <1>8. /\ Moves(R, run'[r], l, v, "end", end) /\ run'[r].records = C.records
        /\ run'[r].free = C.free /\ run'[r].started = C.started
    BY <1>6, <1>7, EndsAfter
  <1>9. Replies(R, run'[r], l, v, value, status)
    BY <1>1, <1>2, <1>6, <1>8 DEF Replies, Sets, end
  <1> QED BY <1>3, <1>4, <1>5, <1>7, <1>9

-----------------------------------------------------------------------------
(* The steps of a run between its calls. *)

\* All lanes of a phase have a value, and none of them is an error.
Agreed(R) == Joined(R) /\ \A l \in DOMAIN R.lanes : R.lanes[l].result \notin Errors

\* The run is over where it is.
Stops(R, S) ==
    /\ Only(R, S, {"status"}) /\ S.status \in Done
    /\ R.at = "lanes" => Joined(R)
    /\ S.status = "done" => R.at = "phase"
\* The run leaves a phase, for the next one or along a route.
Leaves(R, S) ==
    /\ Only(R, S, {"status", "at", "lanes", "phase", "scope", "union", "jumps"})
    /\ S.status \in {"running", "failed"} /\ S.at = "phase" /\ S.lanes = <<>>
    /\ R.at = "lanes" => Agreed(R)
    /\ S.jumps = R.jumps \/ (R.jumps < MaxJumps /\ S.jumps = R.jumps + 1)
    /\ \/ S.phase = R.phase + 1
       \/ /\ R.at = "human" /\ S.phase # 0
          /\ S.phase \in Phases[R.phase].next \cup {Phases[R.phase].timeout}
\* The calls of a phase, or of a round, are made.
Enters(R, S) ==
    /\ Only(R, S, {"at", "lanes", "round", "quiet", "union"})
    /\ R.phase \in DOMAIN Phases /\ S.at = "lanes" /\ S.lanes = Lanes(R.phase)
    /\ \/ R.at = "phase" /\ S.round = 0 /\ Shape(R) # "human"
       \/ R.at = "lanes" /\ Agreed(R) /\ S.round = R.round + 1 /\ Shape(R) = "quiet"
\* A person is asked.
Asks(R, S) ==
    /\ Only(R, S, {"at"}) /\ R.at = "phase" /\ S.at = "human" /\ R.phase \in DOMAIN Phases

Turns(R, S) == Stops(R, S) \/ Leaves(R, S) \/ Enters(R, S) \/ Asks(R, S)

LEMMA MoveIs ==
    ASSUME NEW r \in DOMAIN run, NEW S, Move(r, S)
    PROVE  OneRun(r) /\ run'[r] = S /\ UNCHANGED <<journal, gate, tree, answers, budget>>
  BY DEF Move, OneRun

LEMMA OverIs == ASSUME NEW R, DOMAIN R = Fields, NEW status
                PROVE  Only(R, Over(R, status), {"status"}) /\ Over(R, status).status = status
  BY DEF Over, Only, Fields

LEMMA CompleteIs ==
    ASSUME NEW R, DOMAIN R = Fields, NEW value, NEW next
    PROVE  LET S == Complete(R, value, next)
           IN  /\ Only(R, S, {"at", "lanes", "phase", "scope", "union"})
               /\ S.at = "phase" /\ S.phase = next /\ S.lanes = <<>>
  <1> DEFINE scope == [R.scope EXCEPT ![R.phase] = value]
             S == Complete(R, value, next)
  <1>1. S = [R EXCEPT !.scope = scope, !.at = "phase", !.phase = next, !.union = {}, !.lanes = <<>>]
    BY DEF Complete
  <1> HIDE DEF scope
  <1> QED BY <1>1 DEF Only, Fields

LEMMA RouteIs ==
    ASSUME NEW R, DOMAIN R = Fields, R.status = "running", R.at = "human",
           NEW target \in Phases[R.phase].next \cup {Phases[R.phase].timeout},
           MaxJumps \in Nat, R.jumps \in Nat
    PROVE  Leaves(R, Route(R, target))
  <1> DEFINE C(next) == Complete(R, <<>>, next)
             S == Route(R, target)
  <1>1. \A next : /\ Only(R, C(next), {"at", "lanes", "phase", "scope", "union"})
                  /\ C(next).at = "phase" /\ C(next).phase = next /\ C(next).lanes = <<>>
                  /\ C(next).status = "running" /\ C(next).jumps = R.jumps /\ DOMAIN C(next) = Fields
    <2> SUFFICES ASSUME NEW next
                 PROVE  /\ Only(R, C(next), {"at", "lanes", "phase", "scope", "union"})
                        /\ C(next).at = "phase" /\ C(next).phase = next /\ C(next).lanes = <<>>
                        /\ C(next).status = "running" /\ C(next).jumps = R.jumps
                        /\ DOMAIN C(next) = Fields
      OBVIOUS
    <2>1. /\ Only(R, C(next), {"at", "lanes", "phase", "scope", "union"})
          /\ C(next).at = "phase" /\ C(next).phase = next /\ C(next).lanes = <<>>
      BY CompleteIs
    <2> HIDE DEF C
    <2>2. C(next).status = R.status /\ C(next).jumps = R.jumps /\ DOMAIN C(next) = DOMAIN R
      BY <2>1 DEF Only, Fields
    <2> QED BY <2>1, <2>2
  <1>2. S = IF target = 0 THEN C(R.phase + 1)
            ELSE IF R.jumps >= MaxJumps THEN Over(C(target), "failed")
            ELSE [C(target) EXCEPT !.jumps = @ + 1]
    BY DEF Route
  <1> HIDE DEF C, S
  <1>3. CASE target = 0
    <2>1. S = C(R.phase + 1)
      BY <1>2, <1>3
    <2> QED BY <1>1, <2>1 DEF Leaves, Only, S
  <1>4. CASE target # 0 /\ R.jumps >= MaxJumps
    <2>1. S = Over(C(target), "failed")
      BY <1>2, <1>4
    <2>2. Only(C(target), S, {"status"}) /\ S.status = "failed"
      BY <1>1, <2>1, OverIs
    <2>3. /\ S.at = "phase" /\ S.lanes = <<>> /\ S.phase = target /\ S.jumps = R.jumps
          /\ Only(R, S, {"status", "at", "lanes", "phase", "scope", "union", "jumps"})
      BY <1>1, <2>2 DEF Only, Fields
    <2> QED BY <1>4, <2>2, <2>3 DEF Leaves, S
  <1>5. CASE target # 0 /\ ~(R.jumps >= MaxJumps)
    <2>1. S = [C(target) EXCEPT !.jumps = C(target).jumps + 1]
      BY <1>2, <1>5
    <2>2. Only(C(target), S, {"jumps"}) /\ S.jumps = R.jumps + 1
      BY <1>1, <2>1 DEF Only, Fields
    <2>3. /\ S.at = "phase" /\ S.lanes = <<>> /\ S.phase = target /\ S.status = "running"
          /\ Only(R, S, {"status", "at", "lanes", "phase", "scope", "union", "jumps"})
      BY <1>1, <2>2 DEF Only, Fields
    <2> QED BY <1>5, <2>2, <2>3 DEF Leaves, S
  <1> QED BY <1>3, <1>4, <1>5

LEMMA EnterPhaseIs ==
    ASSUME NEW r \in DOMAIN run, Typed(run[r]), EnterPhase(r)
    PROVE  /\ OneRun(r) /\ UNCHANGED <<journal, gate, tree, answers, budget>>
           /\ run[r].status = "running" /\ Turns(run[r], run'[r])
  <1> DEFINE R == run[r]
             lanes == Lanes(R.phase)
             E == [R EXCEPT !.at = "lanes", !.lanes = lanes, !.round = 0, !.quiet = 0]
             S == IF R.phase > Len(Phases) THEN Over(R, "done")
                  ELSE IF R.cancelled THEN Over(R, "cancelled")
                  ELSE IF Shape(R) = "human" THEN [R EXCEPT !.at = "human"] ELSE E
  <1>1. R.status = "running" /\ R.at = "phase" /\ Move(r, S)
    BY DEF EnterPhase, Running
  <1>2. DOMAIN R = Fields /\ R.phase \in Nat \ {0}
    BY DEF Typed
  <1> HIDE DEF S
  <1>3. OneRun(r) /\ run'[r] = S /\ UNCHANGED <<journal, gate, tree, answers, budget>>
    BY <1>1, MoveIs
  <1>4. R.phase > Len(Phases) \/ R.phase \in DOMAIN Phases
    BY <1>2, WorkflowBounds
  <1> HIDE DEF lanes
  <1>5. Only(R, E, {"at", "lanes", "round", "quiet", "union"}) /\ E.at = "lanes" /\ E.lanes = lanes
        /\ E.round = 0
    BY <1>2 DEF Only, Fields
  <1>6. Only(R, [R EXCEPT !.at = "human"], {"at"}) /\ [R EXCEPT !.at = "human"].at = "human"
    BY <1>2 DEF Only, Fields
  <1>7. \A status \in Done : Stops(R, Over(R, status))
    BY <1>1, <1>2, OverIs DEF Stops, Done
  <1> HIDE DEF E
  <1>8. Turns(R, S)
    <2>1. CASE R.phase > Len(Phases)
      BY <1>7, <2>1 DEF S, Turns, Done
    <2>2. CASE ~(R.phase > Len(Phases)) /\ R.cancelled
      BY <1>7, <2>2 DEF S, Turns, Done
    <2>3. CASE ~(R.phase > Len(Phases)) /\ ~R.cancelled /\ Shape(R) = "human"
      <3>1. S = [R EXCEPT !.at = "human"]
        BY <2>3 DEF S
      <3>2. Asks(R, S)
        BY <1>1, <1>4, <1>6, <2>3, <3>1 DEF Asks
      <3> QED BY <3>2 DEF Turns
    <2>4. CASE ~(R.phase > Len(Phases)) /\ ~R.cancelled /\ Shape(R) # "human"
      <3>1. S = E
        BY <2>4 DEF S
      <3>2. Enters(R, S)
        BY <1>1, <1>4, <1>5, <2>4, <3>1 DEF Enters, lanes
      <3> QED BY <3>2 DEF Turns
    <2> QED BY <2>1, <2>2, <2>3, <2>4
  <1> QED BY <1>1, <1>3, <1>8

LEMMA JoinPhaseIs ==
    ASSUME NEW r \in DOMAIN run, Typed(run[r]), Laid(run[r]), JoinPhase(r)
    PROVE  /\ OneRun(r) /\ UNCHANGED <<journal, gate, tree, answers, budget>>
           /\ run[r].status = "running" /\ Turns(run[r], run'[r])
  <1> DEFINE R == run[r]
             results == [l \in DOMAIN R.lanes |-> R.lanes[l].result]
             errs == {l \in DOMAIN results : results[l] \in Errors}
             found == {results[l] : l \in DOMAIN results} \ {"null"}
             quiet == IF found \subseteq R.union THEN R.quiet + 1 ELSE 0
             union == R.union \cup found
             lanes == Lanes(R.phase)
             E == [R EXCEPT !.round = @ + 1, !.quiet = quiet, !.union = union, !.lanes = lanes]
             status == IF results[First(errs)] = "cap" THEN "failed" ELSE "cancelled"
             last == quiet >= Phases[R.phase].rounds \/ R.round + 1 = Phases[R.phase].max
             S == IF errs # {} THEN Over(R, status)
                  ELSE IF Phases[R.phase].shape # "quiet" THEN Complete(R, results, R.phase + 1)
                  ELSE IF last THEN Complete(R, <<union>>, R.phase + 1)
                  ELSE E
  <1>1. R.status = "running" /\ R.at = "lanes" /\ Joined(R) /\ Move(r, S)
    BY DEF JoinPhase, Running
  <1>2. DOMAIN R = Fields /\ R.phase \in DOMAIN Phases /\ R.jumps \in 0..MaxJumps
    BY <1>1 DEF Typed, Laid
  <1>3. status \in Done \ {"done"}
    BY DEF Done
  <1>4. errs = {} => Agreed(R)
    BY <1>1 DEF Agreed
  <1> HIDE DEF S, results, errs, union, quiet, status, last, lanes
  <1>5. OneRun(r) /\ run'[r] = S /\ UNCHANGED <<journal, gate, tree, answers, budget>>
    BY <1>1, MoveIs
  <1>6. Turns(R, S)
    <2>1. CASE errs # {}
      <3>1. S = Over(R, status)
        BY <2>1 DEF S
      <3>2. Only(R, S, {"status"}) /\ S.status = status
        BY <1>2, <3>1, OverIs
      <3> QED BY <1>1, <1>3, <3>2 DEF Turns, Stops, Done
    <2>2. CASE errs = {} /\ \E value : S = Complete(R, value, R.phase + 1)
      <3>1. /\ Only(R, S, {"at", "lanes", "phase", "scope", "union"})
            /\ S.at = "phase" /\ S.phase = R.phase + 1 /\ S.lanes = <<>>
        BY <1>2, <2>2, CompleteIs
      <3>2. S.status = "running" /\ S.jumps = R.jumps
        BY <1>1, <1>2, <3>1 DEF Only, Fields
      <3>3. Leaves(R, S)
        BY <1>4, <2>2, <3>1, <3>2 DEF Leaves, Only
      <3> QED BY <3>3 DEF Turns
    <2>3. CASE errs = {} /\ Phases[R.phase].shape = "quiet" /\ S = E
      <3>1. /\ Only(R, S, {"at", "lanes", "round", "quiet", "union"}) /\ S.lanes = lanes
            /\ S.round = R.round + 1 /\ S.at = R.at
        BY <1>2, <2>3 DEF Only, Fields
      <3>2. Enters(R, S)
        BY <1>1, <1>2, <1>4, <2>3, <3>1 DEF Enters, Shape, lanes
      <3> QED BY <3>2 DEF Turns
    <2> QED BY <2>1, <2>2, <2>3 DEF S
  <1> QED BY <1>1, <1>5, <1>6

LEMMA HumanIs ==
    ASSUME NEW r \in DOMAIN run, Typed(run[r]), Human(r) \/ NobodyAnswers(r)
    PROVE  /\ OneRun(r) /\ UNCHANGED <<journal, gate, tree, answers, budget>>
           /\ run[r].status = "running" /\ Turns(run[r], run'[r])
  <1> DEFINE R == run[r]
  <1>1. R.status = "running" /\ R.at = "human"
    BY DEF Human, NobodyAnswers, Running
  <1>2. DOMAIN R = Fields /\ R.phase \in DOMAIN Phases /\ R.jumps \in Nat /\ MaxJumps \in Nat
    BY <1>1, WorkflowBounds DEF Typed
  <1>3. PICK S : /\ Move(r, S)
                 /\ \/ \E status \in Done \ {"done"} : S = Over(R, status)
                    \/ \E target \in Phases[R.phase].next \cup {Phases[R.phase].timeout} :
                          S = Route(R, target)
    <2>1. CASE Human(r)
      <3>1. PICK target \in Phases[R.phase].next :
                Move(r, IF R.cancelled THEN Over(R, "cancelled") ELSE Route(R, target))
        BY <2>1, Zenon DEF Human
      <3> QED BY <3>1 DEF Done
    <2>2. CASE NobodyAnswers(r)
      <3>1. Move(r, IF R.cancelled THEN Over(R, "cancelled")
                    ELSE IF Phases[R.phase].timeout = 0 THEN Over(R, "failed")
                    ELSE Route(R, Phases[R.phase].timeout))
        BY <2>2, Zenon DEF NobodyAnswers
      <3> QED BY <3>1 DEF Done
    <2> QED BY <2>1, <2>2
  <1>4. OneRun(r) /\ run'[r] = S /\ UNCHANGED <<journal, gate, tree, answers, budget>>
    BY <1>3, MoveIs
  <1>5. CASE \E status \in Done \ {"done"} : S = Over(R, status)
    <2>1. Stops(R, S)
      BY <1>1, <1>2, <1>5, OverIs DEF Stops, Done
    <2> QED BY <1>1, <1>4, <2>1 DEF Turns
  <1>6. CASE \E target \in Phases[R.phase].next \cup {Phases[R.phase].timeout} :
                 S = Route(R, target)
    <2>1. Leaves(R, S)
      BY <1>1, <1>2, <1>6, RouteIs
    <2> QED BY <1>1, <1>4, <2>1 DEF Turns
  <1> QED BY <1>3, <1>5, <1>6

-----------------------------------------------------------------------------
(* The steps of a run, all of them. *)

CallStep(R, S, l, v) ==
    \/ Skips(R, S, l, v) \/ MeetsCap(R, S, l, v) \/ Begins(R, S, l, v) \/ TakesSlot(R, S, l, v)
    \/ Replays(R, S, l, v) \/ Launches(R, S, l, v) \/ Locks(R, S, l, v)
    \/ \E value \in Answers \cup {"null"}, status \in {"done", "cancelled", "failed"} :
          Replies(R, S, l, v, value, status)
Cancels(R, S) == Only(R, S, {"cancelled"}) /\ S.cancelled = TRUE
Dies(R, S) == Only(R, S, {"status", "lanes"}) /\ S.status = "dead" /\ S.lanes = <<>>
Starts(S) ==
    /\ DOMAIN S = Fields /\ S.status = "running" /\ S.at = "phase" /\ S.phase = 1
    /\ S.jumps = 0 /\ S.lanes = <<>> /\ S.round = 0 /\ S.started = 0 /\ S.cancelled = FALSE
    /\ S.records = <<>> /\ S.free = Width

RunStep(R, S) ==
    \/ /\ R.status = "running"
       /\ \/ \E l, v : R.at = "lanes" /\ IsCall(R, l, v) /\ CallStep(R, S, l, v)
          \/ Turns(R, S) \/ Cancels(R, S) \/ Dies(R, S)
    \/ R.status # "running" /\ Starts(S)

LEMMA StartIs ==
    ASSUME NEW r \in DOMAIN run, NEW a, Start(r, a)
    PROVE  /\ OneRun(r) /\ UNCHANGED <<journal, gate, tree, answers>> /\ Spend("start")
           /\ run[r].status # "running" /\ Starts(run'[r])
           /\ run'[r].cached = Load(journal[r]) /\ run'[r].known = {x[1] : x \in answers[r]}
  <1> DEFINE cached == Load(journal[r])
             known == {x[1] : x \in answers[r]}
             S == [Idle EXCEPT !.status = "running", !.args = a, !.cached = cached, !.known = known]
  <1>1. /\ run[r].status # "running" /\ run' = [run EXCEPT ![r] = S]
        /\ UNCHANGED <<journal, gate, tree, answers>> /\ Spend("start")
    BY DEF Start, Running
  <1> HIDE DEF cached, known
  <1>2. Starts(S) /\ S.cached = cached /\ S.known = known
    BY DEF Starts, Idle, Fields
  <1> HIDE DEF S
  <1>3. OneRun(r) /\ run'[r] = S
    BY <1>1 DEF OneRun
  <1> QED BY <1>1, <1>2, <1>3 DEF cached, known

LEMMA CancelIs ==
    ASSUME NEW r \in DOMAIN run, Cancel(r), DOMAIN run[r] = Fields
    PROVE  /\ OneRun(r) /\ UNCHANGED <<journal, gate, tree, answers>> /\ Spend("cancel")
           /\ run[r].status = "running" /\ Cancels(run[r], run'[r])
  <1>1. /\ run[r].status = "running" /\ run' = [run EXCEPT ![r].cancelled = TRUE]
        /\ UNCHANGED <<journal, gate, tree, answers>> /\ Spend("cancel")
    BY DEF Cancel, Running
  <1> QED BY <1>1 DEF OneRun, Cancels, Only, Fields

LEMMA DeadIs ==
    ASSUME DOMAIN run = Runs, run' = Dead, \A r \in Runs : DOMAIN run[r] = Fields
    PROVE  /\ DOMAIN run' = Runs
           /\ \A r \in Runs : IF run[r].status = "running" THEN Dies(run[r], run'[r])
                              ELSE run'[r] = run[r]
  BY DEF Dead, Dies, Only, Fields, Running

\* A call of a run that has not ended.
LEMMA CallIs ==
    ASSUME NEW r \in DOMAIN run, Typed(run[r]), Laid(run[r]), NEW c \in Calls(r),
           run[r].lanes[c[1]].votes[c[2]].at # "end"
    PROVE  IsCall(run[r], c[1], c[2]) /\ run[r].at = "lanes"
  <1>1. PICK l \in DOMAIN run[r].lanes : c \in {l} \X DOMAIN run[r].lanes[l].votes
    BY DEF Calls
  <1> QED BY <1>1 DEF IsCall, Typed, Laid

WellFormed == DOMAIN run = Runs /\ \A r \in Runs : Typed(run[r]) /\ Laid(run[r])

CallAction(r, l, v) ==
    \/ Admit(r, l, v) \/ TakeLocal(r, l, v) \/ TakeGate(r, l, v)
    \/ TakeTree(r, l, v) \/ Reply(r, l, v)
Tears(r) ==
    \E l, v : /\ run[r].status = "running" /\ run[r].at = "lanes"
              /\ IsCall(run[r], l, v) /\ Tear(r, l, v)

\* What a step of the system is.
LEMMA Steps ==
    ASSUME WellFormed, Next
    PROVE  \/ \E r \in Runs : \E l, v :
                 /\ run[r].status = "running" /\ run[r].at = "lanes" /\ IsCall(run[r], l, v)
                 /\ CallAction(r, l, v)
           \/ \E r \in Runs :
                 /\ OneRun(r) /\ UNCHANGED <<journal, gate, tree, answers, budget>>
                 /\ run[r].status = "running" /\ Turns(run[r], run'[r])
           \/ \E r \in Runs : Cancel(r) \/ \E a \in Args : Start(r, a)
           \/ Kill
           \/ \E r \in Runs : Tears(r)
  <1> USE DEF WellFormed
  <1>1. ASSUME NEW r \in Runs, NEW c \in Calls(r), CallAction(r, c[1], c[2])
        PROVE  run[r].status = "running" /\ run[r].at = "lanes" /\ IsCall(run[r], c[1], c[2])
    <2>1. run[r].status = "running" /\ run[r].lanes[c[1]].votes[c[2]].at # "end"
      BY <1>1 DEF CallAction, Admit, TakeLocal, TakeGate, TakeTree, Reply, At, Running
    <2> QED BY <2>1, CallIs
  <1>2. ASSUME NEW r \in Runs, NEW c \in Calls(r), Tear(r, c[1], c[2])
        PROVE  Tears(r)
    <2>1. run[r].status = "running" /\ run[r].lanes[c[1]].votes[c[2]].at # "end"
      BY <1>2 DEF Tear, At, Running
    <2> QED BY <1>2, <2>1, CallIs DEF Tears
  <1>3. ASSUME NEW r \in Runs,
               EnterPhase(r) \/ JoinPhase(r) \/ HumanTimesOut(r) \/ Human(r) \/ NobodyAnswers(r)
        PROVE  /\ OneRun(r) /\ UNCHANGED <<journal, gate, tree, answers, budget>>
               /\ run[r].status = "running" /\ Turns(run[r], run'[r])
    <2>1. HumanTimesOut(r) => NobodyAnswers(r)
      BY DEF HumanTimesOut
    <2> QED BY <1>3, <2>1, EnterPhaseIs, JoinPhaseIs, HumanIs
  <1>4. CASE Environment
    BY <1>2, <1>3, <1>4, Zenon DEF Environment
  <1>5. CASE \E r \in Runs : Poll(r)
    <2>1. PICK r \in Runs : Dispatch(r) \/ EnterPhase(r) \/ JoinPhase(r) \/ HumanTimesOut(r)
      BY <1>5 DEF Poll
    <2>2. CASE Dispatch(r)
      <3>1. PICK c \in Calls(r) : CallAction(r, c[1], c[2])
        BY <2>2, Zenon DEF Dispatch, CallAction
      <3> QED BY <1>1, <3>1
    <2>3. CASE EnterPhase(r) \/ JoinPhase(r) \/ HumanTimesOut(r)
      BY <1>3, <2>3
    <2> QED BY <2>1, <2>2, <2>3
  <1> QED BY <1>4, <1>5 DEF Next

LEMMA CallActionIs ==
    ASSUME NEW r \in DOMAIN run, NEW l, NEW v, IsCall(run[r], l, v), CallAction(r, l, v)
    PROVE  OneRun(r) /\ CallStep(run[r], run'[r], l, v)
  BY AdmitIs, TakeLocalIs, TakeGateIs, TakeTreeIs, ReplyIs DEF CallAction, CallStep

\* Each run makes a step of its own or none.
LEMMA EachRun ==
    ASSUME WellFormed, [Next]_vars
    PROVE  DOMAIN run' = Runs /\ \A r \in Runs : run'[r] = run[r] \/ RunStep(run[r], run'[r])
  <1> USE DEF WellFormed
  <1>1. ASSUME run' = Dead
        PROVE  DOMAIN run' = Runs /\ \A r \in Runs : run'[r] = run[r] \/ RunStep(run[r], run'[r])
    BY <1>1, DeadIs DEF Typed, RunStep
  <1>2. ASSUME NEW r \in Runs, OneRun(r), RunStep(run[r], run'[r])
        PROVE  DOMAIN run' = Runs /\ \A q \in Runs : run'[q] = run[q] \/ RunStep(run[q], run'[q])
    BY <1>2 DEF OneRun
  <1>3. CASE \E r \in Runs : \E l, v :
                 /\ run[r].status = "running" /\ run[r].at = "lanes" /\ IsCall(run[r], l, v)
                 /\ CallAction(r, l, v)
    <2>1. PICK r \in Runs : \E l, v :
             /\ run[r].status = "running" /\ run[r].at = "lanes"
             /\ IsCall(run[r], l, v) /\ CallAction(r, l, v)
      BY <1>3
    <2>2. OneRun(r) /\ RunStep(run[r], run'[r])
      BY <2>1, CallActionIs DEF RunStep
    <2> QED BY <1>2, <2>2
  <1>4. CASE \E r \in Runs : OneRun(r) /\ run[r].status = "running" /\ Turns(run[r], run'[r])
    BY <1>2, <1>4 DEF RunStep
  <1>5. CASE \E r \in Runs : Cancel(r)
    BY <1>2, <1>5, CancelIs DEF RunStep, Typed
  <1>6. CASE \E r \in Runs : \E a \in Args : Start(r, a)
    BY <1>2, <1>6, StartIs DEF RunStep
  <1>7. CASE Kill \/ \E r \in Runs : Tears(r)
    BY <1>1, <1>7 DEF Kill, Tears, Tear
  <1>8. CASE UNCHANGED vars
    BY <1>8 DEF vars
  <1> QED BY <1>3, <1>4, <1>5, <1>6, <1>7, <1>8, Steps

-----------------------------------------------------------------------------
(* Types, lanes and slots. *)

LEMMA InCallsAt ==
    ASSUME NEW R, NEW P
    PROVE  \A x : x \in CallsAt(R, P) <=>
              \E l \in DOMAIN R.lanes : \E v \in DOMAIN R.lanes[l].votes :
                  x = <<l, v>> /\ R.lanes[l].votes[v].at \in P
  BY DEF CallsAt

LEMMA FreshLane ==
    ASSUME NEW p \in DOMAIN Phases, NEW l \in DOMAIN Phases[p].lanes,
           NEW stage \in DOMAIN Stages(p, l), NEW prev
    PROVE  /\ LaneOK(p, l, Lane(p, l, stage, prev)) /\ Lane(p, l, stage, prev).stage = stage
           /\ \A v \in DOMAIN Lane(p, l, stage, prev).votes :
                  Lane(p, l, stage, prev).votes[v] = [at |-> "new", value |-> None]
  BY DEF LaneOK, Lane, Places

LEMMA FreshLanes ==
    ASSUME NEW p \in DOMAIN Phases
    PROVE  /\ DOMAIN Lanes(p) = DOMAIN Phases[p].lanes
           /\ \A l \in DOMAIN Lanes(p) :
                 /\ LaneOK(p, l, Lanes(p)[l]) /\ Lanes(p)[l].stage = 1
                 /\ \A v \in DOMAIN Lanes(p)[l].votes :
                        Lanes(p)[l].votes[v] = [at |-> "new", value |-> None]
  <1>1. DOMAIN Lanes(p) = DOMAIN Phases[p].lanes
        /\ \A l \in DOMAIN Lanes(p) : Lanes(p)[l] = Lane(p, l, 1, None)
    BY DEF Lanes
  <1>2. \A l \in DOMAIN Phases[p].lanes : 1 \in DOMAIN Stages(p, l)
    BY PlanOf
  <1> QED BY <1>1, <1>2, FreshLane

\* How a step of a call changes the calls at a place.
LEMMA MovesAt ==
    ASSUME NEW R, NEW S, NEW l, NEW v, NEW to, NEW value, IsCall(R, l, v),
           Moves(R, S, l, v, to, value), NEW P, "new" \notin P, "end" \notin P
    PROVE  CallsAt(S, P) = IF to \in P THEN CallsAt(R, P) \cup {<<l, v>>}
                           ELSE CallsAt(R, P) \ {<<l, v>>}
  <1>1. DOMAIN S.lanes = DOMAIN R.lanes /\ l \in DOMAIN R.lanes /\ v \in DOMAIN R.lanes[l].votes
        /\ \A k \in DOMAIN R.lanes \ {l} : S.lanes[k] = R.lanes[k]
    BY DEF Moves, OnLane, IsCall
  <1>2. CASE DOMAIN S.lanes[l].votes = DOMAIN R.lanes[l].votes /\ S.lanes[l].votes[v].at = to
             /\ \A w \in DOMAIN R.lanes[l].votes \ {v} : S.lanes[l].votes[w] = R.lanes[l].votes[w]
    <2>1. \A k, w : <<k, w>> \in CallsAt(S, P) <=>
              IF <<k, w>> = <<l, v>> THEN to \in P ELSE <<k, w>> \in CallsAt(R, P)
      BY <1>1, <1>2, InCallsAt
    <2>2. \A x : x \in CallsAt(S, P) \/ x \in CallsAt(R, P) => \E k, w : x = <<k, w>>
      BY InCallsAt
    <2> QED BY <2>1, <2>2
  <1>3. CASE to = "end" /\ Advances(R.phase, l, R.lanes[l], S.lanes[l], v, value)
    <2>1. \A w \in DOMAIN S.lanes[l].votes : S.lanes[l].votes[w].at = "new"
      BY <1>3, FreshLane DEF Advances, IsCall
    <2>2. \A w \in DOMAIN R.lanes[l].votes \ {v} : R.lanes[l].votes[w].at = "end"
      BY <1>3 DEF Advances
    <2>3. \A k, w : <<k, w>> \in CallsAt(S, P) <=> <<k, w>> \in CallsAt(R, P) /\ <<k, w>> # <<l, v>>
      BY <1>1, <2>1, <2>2, InCallsAt
    <2>4. \A x : x \in CallsAt(S, P) \/ x \in CallsAt(R, P) => \E k, w : x = <<k, w>>
      BY InCallsAt
    <2> QED BY <1>3, <2>3, <2>4
  <1>4. Goes(R.lanes[l], S.lanes[l], v, to) =>
            DOMAIN S.lanes[l].votes = DOMAIN R.lanes[l].votes /\ S.lanes[l].votes[v].at = to
            /\ \A w \in DOMAIN R.lanes[l].votes \ {v} : S.lanes[l].votes[w] = R.lanes[l].votes[w]
    BY DEF Goes
  <1>5. to = "end" /\ Closes(R.lanes[l], S.lanes[l], v, value) =>
            DOMAIN S.lanes[l].votes = DOMAIN R.lanes[l].votes /\ S.lanes[l].votes[v].at = to
            /\ \A w \in DOMAIN R.lanes[l].votes \ {v} : S.lanes[l].votes[w] = R.lanes[l].votes[w]
    BY DEF Closes
  <1> QED BY <1>2, <1>3, <1>4, <1>5 DEF Moves

\* What a lane is after a step of one of its calls.
LEMMA MovesLane ==
    ASSUME NEW R, NEW S, NEW l, NEW v, NEW to \in Places, NEW value, IsCall(R, l, v),
           Moves(R, S, l, v, to, value), to = "end" => value \in Values \cup Errors
    PROVE  LaneOK(R.phase, l, S.lanes[l])
  <1> DEFINE old == R.lanes[l]
             new == S.lanes[l]
  <1>1. LaneOK(R.phase, l, old) /\ v \in DOMAIN old.votes /\ old.votes[v].at # "end"
    BY DEF IsCall
  <1>2. old.result = None /\ old.votes[v].value = None
    BY <1>1 DEF LaneOK
  <1>3. CASE to # "end" /\ Goes(old, new, v, to)
    <2>1. /\ DOMAIN new = DOMAIN old /\ new.stage = old.stage /\ new.result = None
          /\ DOMAIN new.votes = DOMAIN old.votes
      BY <1>2, <1>3 DEF Goes
    <2>2. \A w \in DOMAIN new.votes :
              /\ new.votes[w] \in [at : Places, value : Values \cup Errors \cup {None}]
              /\ new.votes[w].value # None => new.votes[w].at = "end"
      <3>1. new.votes[v] = [at |-> to, value |-> None]
        BY <1>2, <1>3 DEF Goes
      <3>2. \A w \in DOMAIN old.votes \ {v} : new.votes[w] = old.votes[w]
        BY <1>3 DEF Goes
      <3>3. \A w \in DOMAIN old.votes :
                /\ old.votes[w] \in [at : Places, value : Values \cup Errors \cup {None}]
                /\ old.votes[w].value # None => old.votes[w].at = "end"
        BY <1>1 DEF LaneOK
      <3> QED BY <2>1, <3>1, <3>2, <3>3
    <2> QED BY <1>1, <2>1, <2>2 DEF LaneOK
  <1>4. CASE to = "end" /\ Closes(old, new, v, value)
    <2>1. /\ DOMAIN new = DOMAIN old /\ new.stage = old.stage
          /\ DOMAIN new.votes = DOMAIN old.votes
      BY <1>4 DEF Closes
    <2>2. \A w \in DOMAIN new.votes :
              /\ new.votes[w] \in [at : Places, value : Values \cup Errors \cup {None}]
              /\ new.votes[w].value # None => new.votes[w].at = "end"
      <3>1. new.votes[v] = [at |-> "end", value |-> value] /\ value \in Values \cup Errors
        BY <1>4 DEF Closes
      <3>2. \A w \in DOMAIN old.votes \ {v} : new.votes[w] = old.votes[w]
        BY <1>4 DEF Closes
      <3>3. \A w \in DOMAIN old.votes :
                /\ old.votes[w] \in [at : Places, value : Values \cup Errors \cup {None}]
                /\ old.votes[w].value # None => old.votes[w].at = "end"
        BY <1>1 DEF LaneOK
      <3>4. "end" \in Places
        BY DEF Places
      <3> QED BY <2>1, <3>1, <3>2, <3>3, <3>4
    <2>3. \A w \in DOMAIN new.votes :
              /\ new.result # None => new.votes[w].at = "end"
              /\ new.result # None /\ new.votes[w].value \in Errors => new.result \in Errors
      BY <1>4 DEF Closes
    <2> QED BY <1>1, <2>1, <2>2, <2>3 DEF LaneOK
  <1>5. CASE Advances(R.phase, l, old, new, v, value)
    BY <1>5, FreshLane DEF Advances, IsCall
  <1> QED BY <1>3, <1>4, <1>5 DEF Moves

\* What is replayed was answered.
CachedOK(R) == \A x \in R.cached : x[2] \in Answers

LEMMA CallMoves ==
    ASSUME NEW R, NEW S, NEW l, NEW v, CallStep(R, S, l, v), CachedOK(R)
    PROVE  \E to \in Places \ {"new"} : \E value :
              Moves(R, S, l, v, to, value) /\ (to = "end" => value \in Values \cup Errors)
  <1>1. \A value \in Cached(R, l) : value \in Values
    BY DEF Cached, CachedOK, Values
  <1>2. {"local", "gate", "tree", "live", "end"} \subseteq Places \ {"new"} /\ "end" \notin Working
    BY DEF Places, Working
  <1>3. "cancelled" \in Errors /\ "cap" \in Errors /\ Answers \cup {"null"} \subseteq Values
    BY DEF Values, Errors
  <1>4. CASE Skips(R, S, l, v) \/ MeetsCap(R, S, l, v)
    BY <1>2, <1>3, <1>4 DEF Skips, MeetsCap
  <1>5. CASE Begins(R, S, l, v) \/ TakesSlot(R, S, l, v) \/ Locks(R, S, l, v)
    BY <1>2, <1>5 DEF Begins, TakesSlot, Locks
  <1>6. CASE Replays(R, S, l, v)
    BY <1>1, <1>2, <1>6 DEF Replays
  <1>7. CASE Launches(R, S, l, v)
    BY <1>2, <1>7 DEF Launches, Working
  <1>8. CASE \E value \in Answers \cup {"null"}, status \in {"done", "cancelled", "failed"} :
                 Replies(R, S, l, v, value, status)
    BY <1>2, <1>3, <1>8 DEF Replies
  <1> QED BY <1>4, <1>5, <1>6, <1>7, <1>8 DEF CallStep

LEMMA CallLaid ==
    ASSUME NEW R, NEW S, NEW l, NEW v, CallStep(R, S, l, v), CachedOK(R), IsCall(R, l, v),
           Typed(R), Laid(R), R.at = "lanes", R.status = "running"
    PROVE  Laid(S) /\ S.at = "lanes" /\ S.status = "running" /\ S.phase = R.phase
  <1>1. PICK to \in Places \ {"new"} : \E x :
            Moves(R, S, l, v, to, x) /\ (to = "end" => x \in Values \cup Errors)
    BY CallMoves
  <1> PICK value : Moves(R, S, l, v, to, value) /\ (to = "end" => value \in Values \cup Errors)
    BY <1>1
  <1>2. LaneOK(R.phase, l, S.lanes[l])
    BY MovesLane
  <1>3. S.at = R.at /\ S.status = R.status /\ S.phase = R.phase
    BY <1>1 DEF Moves, Only, Typed, Fields
  <1> QED BY <1>1, <1>2, <1>3 DEF Laid, Moves, OnLane

\* A set with an element put in or taken out.
LEMMA CountOf ==
    ASSUME NEW old, IsFiniteSet(old), NEW x
    PROVE  /\ Cardinality(old) \in Nat /\ IsFiniteSet(old \cup {x}) /\ IsFiniteSet(old \ {x})
           /\ x \in old => /\ Cardinality(old \cup {x}) = Cardinality(old)
                          /\ Cardinality(old \ {x}) = Cardinality(old) - 1
           /\ x \notin old => /\ Cardinality(old \cup {x}) = Cardinality(old) + 1
                             /\ Cardinality(old \ {x}) = Cardinality(old)
  BY FS_AddElement, FS_RemoveElement, FS_CardinalityType

\* Run slots: what a call takes it gives back.
LEMMA CallSlots ==
    ASSUME NEW R, NEW S, NEW l, NEW v, CallStep(R, S, l, v), IsCall(R, l, v),
           Typed(R), R.status = "running", SlotsOf(R)
    PROVE  SlotsOf(S) /\ S.free \in 0..Width
  <1> DEFINE old == CallsAt(R, Slotted)
             new == CallsAt(S, Slotted)
             x == <<l, v>>
             at == R.lanes[l].votes[v].at
  <1>1. IsFiniteSet(old) /\ R.free + Cardinality(old) = Width /\ R.free \in 0..Width /\ Width \in Nat
    BY WorkflowBounds DEF SlotsOf, Typed
  <1>2. x \in old <=> at \in Slotted
    BY InCallsAt DEF IsCall
  <1>3. \A to, value : Moves(R, S, l, v, to, value) =>
            new = IF to \in Slotted THEN old \cup {x} ELSE old \ {x}
    BY MovesAt DEF Slotted
  <1>4. \/ at \in Slotted /\ new = old \ {x} /\ S.free = R.free + 1
        \/ at \in Slotted /\ new = old \cup {x} /\ S.free = R.free
        \/ at \notin Slotted /\ new = old \ {x} /\ S.free = R.free
        \/ at \notin Slotted /\ new = old \cup {x} /\ S.free = R.free - 1 /\ R.free > 0
    <2> HIDE DEF new, old, x
    <2>1. CASE Skips(R, S, l, v)
      BY <1>3, <2>1 DEF Skips, Slotted
    <2>2. CASE MeetsCap(R, S, l, v)
      BY <1>3, <2>2 DEF MeetsCap, Slotted
    <2>3. CASE Begins(R, S, l, v)
      BY <1>3, <2>3 DEF Begins, Slotted
    <2>4. CASE TakesSlot(R, S, l, v)
      BY <1>3, <2>4 DEF TakesSlot, Slotted
    <2>5. CASE Replays(R, S, l, v)
      BY <1>3, <2>5 DEF Replays, Slotted
    <2>6. CASE Launches(R, S, l, v)
      BY <1>3, <2>6 DEF Launches, Slotted, Working
    <2>7. CASE Locks(R, S, l, v)
      BY <1>3, <2>7 DEF Locks, Slotted
    <2>8. CASE \E value \in Answers \cup {"null"}, status \in {"done", "cancelled", "failed"} :
                    Replies(R, S, l, v, value, status)
      BY <1>3, <2>8 DEF Replies, Slotted, Working
    <2> QED BY <2>1, <2>2, <2>3, <2>4, <2>5, <2>6, <2>7, <2>8 DEF CallStep
  <1> HIDE DEF old, new, x, at
  <1>5. /\ IsFiniteSet(new) /\ Cardinality(new) \in Nat /\ S.free + Cardinality(new) = Width
        /\ S.free \in Int
    <2>1. Cardinality(old) \in Nat
      BY <1>1, CountOf
    <2>2. IsFiniteSet(new)
      BY <1>1, <1>4, CountOf
    <2>3. Cardinality(new) \in Nat
      BY <2>2, CountOf
    <2>6. /\ x \in old => /\ Cardinality(old \cup {x}) = Cardinality(old)
                          /\ Cardinality(old \ {x}) = Cardinality(old) - 1
          /\ x \notin old => /\ Cardinality(old \cup {x}) = Cardinality(old) + 1
                             /\ Cardinality(old \ {x}) = Cardinality(old)
      BY <1>1, CountOf
    <2>4. \/ Cardinality(new) = Cardinality(old) - 1 /\ S.free = R.free + 1
          \/ Cardinality(new) = Cardinality(old) /\ S.free = R.free
          \/ Cardinality(new) = Cardinality(old) + 1 /\ S.free = R.free - 1
      BY <1>2, <1>4, <2>6, Zenon
    <2> QED BY <1>1, <2>1, <2>2, <2>3, <2>4
  <1>6. S.free \in 0..Width
    BY <1>1, <1>4, <1>5
  <1> QED BY <1>5, <1>6 DEF SlotsOf, new

\* A call that works has a record.
LEMMA WorkRecorded ==
    ASSUME NEW R, NEW l, NEW v, IsCall(R, l, v), Recorded(R), R.lanes[l].votes[v].at \in Working
    PROVE  AgentId(R, l, v) \in DOMAIN R.records
  <1>1. R.lanes[l].votes[v].value = None
    BY DEF IsCall, LaneOK
  <1> QED BY <1>1 DEF Recorded, IsCall, None

\* What a step of a call does to the records.
LEMMA CallRecords ==
    ASSUME NEW R, NEW S, NEW l, NEW v, CallStep(R, S, l, v), IsCall(R, l, v), Recorded(R)
    PROVE  \/ S.records = R.records
           \/ \E status \in Statuses : Adds(R, S, AgentId(R, l, v), status)
           \/ /\ AgentId(R, l, v) \in DOMAIN R.records
              /\ \E status \in Statuses \ {"skipped"} : Sets(R, S, AgentId(R, l, v), status)
  <1>1. CASE \E value \in Answers \cup {"null"}, status \in {"done", "cancelled", "failed"} :
                Replies(R, S, l, v, value, status)
    BY <1>1, WorkRecorded DEF Replies, Statuses
  <1> QED BY <1>1 DEF CallStep, Skips, MeetsCap, Begins, TakesSlot, Replays, Launches, Locks, Statuses

LEMMA CallRecordsTyped ==
    ASSUME NEW R, NEW S, NEW l, NEW v, CallStep(R, S, l, v), IsCall(R, l, v), Recorded(R), Typed(R)
    PROVE  /\ DOMAIN R.records \subseteq DOMAIN S.records
           /\ \A id \in DOMAIN S.records : S.records[id] \in Seq(Statuses) \ {<<>>}
  <1> DEFINE id == AgentId(R, l, v)
  <1>1. \A x \in DOMAIN R.records : R.records[x] \in Seq(Statuses) \ {<<>>}
    BY DEF Typed
  <1> HIDE DEF id
  <1>2. ASSUME NEW status \in Statuses, Adds(R, S, id, status)
        PROVE  S.records[id] \in Seq(Statuses) \ {<<>>}
    <2>1. RecordsOf(R, id) \in Seq(Statuses)
      BY <1>1 DEF RecordsOf
    <2>2. S.records[id] = Append(RecordsOf(R, id), status)
      BY <1>2 DEF Adds
    <2> QED BY <2>1, <2>2
  <1>3. ASSUME NEW status \in Statuses, Sets(R, S, id, status), id \in DOMAIN R.records
        PROVE  S.records[id] \in Seq(Statuses) \ {<<>>}
    <2>1. S.records[id] = [R.records[id] EXCEPT ![1] = status] /\ R.records[id] \in Seq(Statuses) \ {<<>>}
      BY <1>1, <1>3 DEF Sets
    <2> QED BY <2>1
  <1>4. CASE S.records = R.records
    BY <1>1, <1>4
  <1>5. CASE \E status \in Statuses : Adds(R, S, id, status)
    BY <1>1, <1>2, <1>5 DEF Adds
  <1>6. CASE id \in DOMAIN R.records /\ \E status \in Statuses : Sets(R, S, id, status)
    BY <1>1, <1>3, <1>6 DEF Sets
  <1> QED BY <1>4, <1>5, <1>6, CallRecords DEF id

\* A step of a run keeps its types and its lanes.
LEMMA RunTyped ==
    ASSUME NEW R, NEW S, RunStep(R, S), Typed(R), Laid(R), SlotsOf(R), Recorded(R), CachedOK(R)
    PROVE  Typed(S) /\ Laid(S)
  <1>1. ASSUME NEW l, NEW v, R.at = "lanes", R.status = "running", IsCall(R, l, v), CallStep(R, S, l, v)
        PROVE  Typed(S) /\ Laid(S)
    <2>1. Laid(S)
      BY <1>1, CallLaid
    <2>2. PICK to \in Places \ {"new"} : \E x : Moves(R, S, l, v, to, x)
      BY <1>1, CallMoves
    <2>3. Only(R, S, {"lanes", "records", "free", "started"})
      BY <2>2 DEF Moves
    <2>4. S.free \in 0..Width
      BY <1>1, CallSlots
    <2>5. S.started = R.started \/ S.started = R.started + 1
      BY <1>1 DEF CallStep, Skips, MeetsCap, Begins, TakesSlot, Replays, Launches, Locks, Replies
    <2>6. \A id \in DOMAIN S.records : S.records[id] \in Seq(Statuses) \ {<<>>}
      BY <1>1, CallRecordsTyped
    <2> QED BY <2>1, <2>3, <2>4, <2>5, <2>6 DEF Only, Typed, Fields
  <1>2. ASSUME Stops(R, S), R.status = "running"
        PROVE  Typed(S) /\ Laid(S)
    BY <1>2 DEF Stops, Only, Typed, Fields, Laid, Done
  <1>3. ASSUME Leaves(R, S), R.status = "running"
        PROVE  Typed(S) /\ Laid(S)
    <2>1. R.at = "human" => /\ Phases[R.phase].next \subseteq Nat
                            /\ Phases[R.phase].timeout \in Nat
      <3>1. R.at = "human" => Phases[R.phase] \in PhaseSpec
        BY WorkflowBounds DEF Typed
      <3> QED BY <3>1 DEF PhaseSpec
    <2>2. S.phase \in Nat \ {0}
      BY <1>3, <2>1 DEF Leaves, Typed
    <2>3. MaxJumps \in Nat
      BY WorkflowBounds
    <2>4. S.jumps \in 0..MaxJumps
      BY <1>3, <2>3 DEF Leaves, Typed
    <2>5. DOMAIN S.lanes = {}
      BY <1>3 DEF Leaves
    <2> QED BY <1>3, <2>2, <2>4, <2>5 DEF Leaves, Only, Typed, Fields, Laid, Done
  <1>4. ASSUME Enters(R, S), R.status = "running"
        PROVE  Typed(S) /\ Laid(S)
    <2>1. R.phase \in DOMAIN Phases /\ S.lanes = Lanes(R.phase) /\ S.at = "lanes" /\ S.phase = R.phase
          /\ S.status = "running"
      BY <1>4 DEF Enters, Only, Typed, Fields
    <2>2. Laid(S)
      BY <2>1, FreshLanes DEF Laid
    <2>3. S.round \in Nat
      BY <1>4 DEF Enters, Typed
    <2> QED BY <1>4, <2>2, <2>3 DEF Enters, Only, Typed, Fields
  <1>5. ASSUME Asks(R, S), R.status = "running"
        PROVE  Typed(S) /\ Laid(S)
    BY <1>5 DEF Asks, Only, Typed, Fields, Laid
  <1>6. ASSUME Cancels(R, S), R.status = "running"
        PROVE  Typed(S) /\ Laid(S)
    BY <1>6 DEF Cancels, Only, Typed, Fields, Laid
  <1>7. ASSUME Dies(R, S)
        PROVE  Typed(S) /\ Laid(S)
    BY <1>7 DEF Dies, Only, Typed, Fields, Laid
  <1>8. ASSUME Starts(S)
        PROVE  Typed(S) /\ Laid(S)
    <2>1. Width \in Nat \ {0} /\ MaxJumps \in Nat
      BY WorkflowBounds
    <2>2. DOMAIN S.records = {} /\ DOMAIN S.lanes = {}
      BY <1>8 DEF Starts
    <2>3. Laid(S)
      BY <1>8, <2>2 DEF Starts, Laid
    <2>4. /\ S.free \in 0..Width /\ S.jumps \in 0..MaxJumps
          /\ S.phase \in Nat \ {0} /\ S.round \in Nat /\ S.started \in Nat
      BY <1>8, <2>1 DEF Starts
    <2>5. S.at # "human" /\ S.cancelled \in BOOLEAN
      BY <1>8 DEF Starts
    <2> QED BY <1>8, <2>2, <2>3, <2>4, <2>5, Zenon DEF Starts, Typed
  <1> QED BY <1>1, <1>2, <1>3, <1>4, <1>5, <1>6, <1>7, <1>8 DEF RunStep, Turns

\* A run that joined its lanes, or has none, has no call under way.
LEMMA JoinedAt ==
    ASSUME NEW R, Laid(R), R.status # "dead", R.at = "lanes" => Joined(R)
    PROVE  \A P : "end" \notin P => CallsAt(R, P) = {}
  <1> SUFFICES ASSUME NEW P, "end" \notin P
               PROVE  CallsAt(R, P) = {}
    OBVIOUS
  <1>1. \A l \in DOMAIN R.lanes : \A v \in DOMAIN R.lanes[l].votes : R.lanes[l].votes[v].at = "end"
    BY DEF Laid, Joined, LaneOK
  <1> QED BY <1>1, InCallsAt

\* Lanes that were just made have only new calls.
LEMMA FreshAt ==
    ASSUME NEW S, NEW p \in DOMAIN Phases, S.lanes = Lanes(p)
    PROVE  \A P : "new" \notin P => CallsAt(S, P) = {}
  <1> SUFFICES ASSUME NEW P, "new" \notin P
               PROVE  CallsAt(S, P) = {}
    OBVIOUS
  <1>1. \A l \in DOMAIN S.lanes : \A v \in DOMAIN S.lanes[l].votes : S.lanes[l].votes[v].at = "new"
    BY FreshLanes
  <1> QED BY <1>1, InCallsAt

LEMMA NoneAt == ASSUME NEW S, DOMAIN S.lanes = {} PROVE \A P : CallsAt(S, P) = {}
  BY InCallsAt

\* Between its calls a run neither starts nor loses one.
LEMMA TurnAt ==
    ASSUME NEW R, NEW S, Turns(R, S) \/ Cancels(R, S), R.status = "running", Typed(R), Laid(R),
           NEW P, "new" \notin P, "end" \notin P
    PROVE  CallsAt(S, P) = CallsAt(R, P)
  <1>1. CASE Stops(R, S) \/ Asks(R, S) \/ Cancels(R, S)
    <2>1. S.lanes = R.lanes
      BY <1>1 DEF Stops, Asks, Cancels, Only, Typed, Fields
    <2> QED BY <2>1 DEF CallsAt
  <1>2. CASE Leaves(R, S)
    <2>1. CallsAt(R, P) = {}
      BY <1>2, JoinedAt DEF Leaves, Agreed
    <2>2. DOMAIN S.lanes = {}
      BY <1>2 DEF Leaves
    <2> QED BY <2>1, <2>2, NoneAt
  <1>3. CASE Enters(R, S)
    <2>1. CallsAt(R, P) = {}
      BY <1>3, JoinedAt DEF Enters, Agreed
    <2>2. CallsAt(S, P) = {}
      BY <1>3, FreshAt DEF Enters
    <2> QED BY <2>1, <2>2
  <1> QED BY <1>1, <1>2, <1>3 DEF Turns

\* A run that stops or goes on has all its slots.
LEMMA RunSettled ==
    ASSUME NEW R, NEW S, RunStep(R, S), Typed(R), Laid(R), CachedOK(R)
    PROVE  Settled(S)
  <1>1. ASSUME NEW l, NEW v, R.at = "lanes", R.status = "running", IsCall(R, l, v), CallStep(R, S, l, v)
        PROVE  S.status = "running"
    BY <1>1, CallLaid
  <1>2. ASSUME Stops(R, S), R.status = "running"
        PROVE  CallsAt(S, Places \ {"end"}) = {}
    <2>1. CallsAt(R, Places \ {"end"}) = {}
      BY <1>2, JoinedAt DEF Stops
    <2>2. S.lanes = R.lanes
      BY <1>2 DEF Stops, Only, Typed, Fields
    <2> QED BY <2>1, <2>2 DEF CallsAt
  <1>3. ASSUME S.lanes = <<>>
        PROVE  CallsAt(S, Places \ {"end"}) = {}
    BY <1>3, NoneAt
  <1>4. ASSUME Enters(R, S) \/ Asks(R, S) \/ Cancels(R, S), R.status = "running"
        PROVE  S.status = "running"
    BY <1>4 DEF Enters, Asks, Cancels, Only, Typed, Fields
  <1> QED BY <1>1, <1>2, <1>3, <1>4 DEF RunStep, Turns, Leaves, Dies, Starts, Settled

LEMMA RunSlots ==
    ASSUME NEW R, NEW S, RunStep(R, S), Typed(R), Laid(R), SlotsOf(R)
    PROVE  SlotsOf(S)
  <1>1. ASSUME NEW l, NEW v, R.status = "running", IsCall(R, l, v), CallStep(R, S, l, v)
        PROVE  SlotsOf(S)
    BY <1>1, CallSlots
  <1>2. ASSUME Turns(R, S) \/ Cancels(R, S), R.status = "running"
        PROVE  SlotsOf(S)
    <2>1. CallsAt(S, Slotted) = CallsAt(R, Slotted)
      BY <1>2, TurnAt DEF Slotted
    <2>2. S.free = R.free
      BY <1>2 DEF Turns, Stops, Leaves, Enters, Asks, Cancels, Only, Typed, Fields
    <2> QED BY <1>2, <2>1, <2>2 DEF SlotsOf
  <1>3. ASSUME Dies(R, S)
        PROVE  SlotsOf(S)
    BY <1>3 DEF Dies, SlotsOf
  <1>4. ASSUME Starts(S)
        PROVE  SlotsOf(S)
    <2>1. CallsAt(S, Slotted) = {}
      BY <1>4, NoneAt DEF Starts
    <2>2. Width \in Nat
      BY WorkflowBounds
    <2> QED BY <1>4, <2>1, <2>2, FS_EmptySet DEF Starts, SlotsOf
  <1> QED BY <1>1, <1>2, <1>3, <1>4 DEF RunStep

-----------------------------------------------------------------------------
(* Records, and the cap. *)

\* The id of a call does not change while its stage lasts.
LEMMA IdOf ==
    ASSUME NEW R, NEW S, NEW l, NEW v, S.phase = R.phase, S.round = R.round,
           S.lanes[l].stage = R.lanes[l].stage
    PROVE  AgentId(S, l, v) = AgentId(R, l, v)
  BY DEF AgentId, Call, Shape

\* Every call that a step leaves in its stage was there before, with its id.
LEMMA MovesCalls ==
    ASSUME NEW R, NEW S, NEW l, NEW v, NEW to, NEW value, IsCall(R, l, v), Moves(R, S, l, v, to, value),
           NEW k \in DOMAIN S.lanes, NEW w \in DOMAIN S.lanes[k].votes,
           S.lanes[k].votes[w].at # "new", to # "new"
    PROVE  /\ k \in DOMAIN R.lanes /\ w \in DOMAIN R.lanes[k].votes
           /\ AgentId(S, k, w) = AgentId(R, k, w)
           /\ <<k, w>> # <<l, v>> => S.lanes[k].votes[w] = R.lanes[k].votes[w]
           /\ <<k, w>> = <<l, v>> =>
                 /\ S.lanes[k].votes[w].at = to
                 /\ to = "end" => S.lanes[k].votes[w].value = value
  <1>1. /\ S.phase = R.phase /\ S.round = R.round /\ DOMAIN S.lanes = DOMAIN R.lanes
        /\ \A j \in DOMAIN R.lanes \ {l} : S.lanes[j] = R.lanes[j]
    BY DEF Moves, Only, OnLane, IsCall, Fields
  <1>2. CASE k # l
    BY <1>1, <1>2, IdOf
  <1>3. CASE k = l /\ ((to # "end" /\ Goes(R.lanes[l], S.lanes[l], v, to))
                       \/ (to = "end" /\ Closes(R.lanes[l], S.lanes[l], v, value)))
    <2>1. /\ S.lanes[l].stage = R.lanes[l].stage /\ DOMAIN S.lanes[l].votes = DOMAIN R.lanes[l].votes
          /\ \A j \in DOMAIN R.lanes[l].votes \ {v} : S.lanes[l].votes[j] = R.lanes[l].votes[j]
      <3>1. CASE Goes(R.lanes[l], S.lanes[l], v, to)
        BY <3>1 DEF Goes
      <3>2. CASE Closes(R.lanes[l], S.lanes[l], v, value)
        BY <3>2 DEF Closes
      <3> QED BY <1>3, <3>1, <3>2
    <2>2. AgentId(S, k, w) = AgentId(R, k, w)
      BY <1>1, <1>3, <2>1, IdOf
    <2>3. S.lanes[l].votes[v].at = to
      <3>1. CASE to # "end" /\ Goes(R.lanes[l], S.lanes[l], v, to)
        BY <3>1 DEF Goes
      <3>2. CASE to = "end" /\ Closes(R.lanes[l], S.lanes[l], v, value)
        BY <3>2 DEF Closes
      <3> QED BY <1>3, <3>1, <3>2
    <2>4. to = "end" => S.lanes[l].votes[v].value = value
      BY <1>3 DEF Closes
    <2> QED BY <1>1, <1>3, <2>1, <2>2, <2>3, <2>4
  <1>4. CASE k = l /\ Advances(R.phase, l, R.lanes[l], S.lanes[l], v, value)
    BY <1>4, FreshLane DEF Advances, IsCall
  <1> QED BY <1>2, <1>3, <1>4 DEF Moves

LEMMA RunRecorded ==
    ASSUME NEW R, NEW S, RunStep(R, S), Typed(R), Laid(R), Recorded(R), CachedOK(R)
    PROVE  Recorded(S)
  <1>1. ASSUME NEW l, NEW v, IsCall(R, l, v), CallStep(R, S, l, v)
        PROVE  Recorded(S)
    <2> SUFFICES ASSUME NEW k \in DOMAIN S.lanes, NEW w \in DOMAIN S.lanes[k].votes,
                        S.lanes[k].votes[w].at \in Working \cup {"end"},
                        S.lanes[k].votes[w].value # "cap"
                 PROVE  AgentId(S, k, w) \in DOMAIN S.records
      BY DEF Recorded
    <2>1. DOMAIN R.records \subseteq DOMAIN S.records
      BY <1>1, CallRecordsTyped
    <2>2. S.lanes[k].votes[w].at # "new"
      BY DEF Working
    <2>3. ASSUME NEW to, to # "new", NEW value, Moves(R, S, l, v, to, value)
          PROVE  /\ k \in DOMAIN R.lanes /\ w \in DOMAIN R.lanes[k].votes
                 /\ AgentId(S, k, w) = AgentId(R, k, w)
                 /\ <<k, w>> # <<l, v>> => S.lanes[k].votes[w] = R.lanes[k].votes[w]
                 /\ <<k, w>> = <<l, v>> =>
                       /\ S.lanes[k].votes[w].at = to
                       /\ to = "end" => S.lanes[k].votes[w].value = value
      BY <1>1, <2>2, <2>3, MovesCalls
    <2>4. PICK to \in Places \ {"new"} : \E value : Moves(R, S, l, v, to, value)
      BY <1>1, CallMoves
    <2>5. CASE <<k, w>> # <<l, v>>
      <3>1. AgentId(R, k, w) \in DOMAIN R.records
        BY <2>3, <2>4, <2>5 DEF Recorded
      <3> QED BY <2>1, <2>3, <2>4, <3>1
    <2>6. CASE <<k, w>> = <<l, v>>
      <3>1. AgentId(R, l, v) \in DOMAIN S.records
        <4>1. CASE \E status : Adds(R, S, AgentId(R, l, v), status)
          BY <4>1 DEF Adds
        <4>2. CASE R.lanes[l].votes[v].at \in Working
          BY <1>1, <2>1, <4>2, WorkRecorded
        <4>3. CASE MeetsCap(R, S, l, v)
          BY <2>3, <2>6, <4>3 DEF MeetsCap
        <4>4. CASE Begins(R, S, l, v)
          BY <2>3, <2>6, <4>4 DEF Begins, Working
        <4>5. CASE TakesSlot(R, S, l, v)
          BY <2>3, <2>6, <4>5 DEF TakesSlot, Working
        <4> QED BY <1>1, <4>1, <4>2, <4>3, <4>4, <4>5
                DEF CallStep, Skips, Replays, Launches, Locks, Replies, Working
      <3> QED BY <2>3, <2>4, <2>6, <3>1
    <2> QED BY <2>5, <2>6
  <1>2. ASSUME Stops(R, S) \/ Asks(R, S) \/ Cancels(R, S)
        PROVE  Recorded(S)
    <2>1. S.lanes = R.lanes /\ S.phase = R.phase /\ S.round = R.round /\ S.records = R.records
      BY <1>2 DEF Stops, Asks, Cancels, Only, Typed, Fields
    <2>2. \A k, w : AgentId(S, k, w) = AgentId(R, k, w)
      BY <2>1, IdOf
    <2> QED BY <2>1, <2>2 DEF Recorded
  <1>3. ASSUME S.lanes = <<>>
        PROVE  Recorded(S)
    BY <1>3 DEF Recorded
  <1>4. ASSUME Enters(R, S)
        PROVE  Recorded(S)
    <2>1. \A l \in DOMAIN S.lanes : \A v \in DOMAIN S.lanes[l].votes : S.lanes[l].votes[v].at = "new"
      BY <1>4, FreshLanes DEF Enters
    <2> QED BY <2>1 DEF Recorded, Working
  <1> QED BY <1>1, <1>2, <1>3, <1>4 DEF RunStep, Turns, Leaves, Dies, Starts

LEMMA InRecords ==
    ASSUME NEW R, NEW P
    PROVE  \A x : x \in RecordsIn(R, P) <=>
              \E id \in DOMAIN R.records : \E k \in DOMAIN R.records[id] :
                  x = <<id, k>> /\ R.records[id][k] \in P
  BY DEF RecordsIn

\* A record that is added is counted by its status, and no other changes.
LEMMA AddsCounted ==
    ASSUME NEW R, NEW S, NEW id, NEW status \in Statuses, Typed(R), Adds(R, S, id, status), NEW P
    PROVE  /\ status \notin P => RecordsIn(S, P) = RecordsIn(R, P)
           /\ status \in P => \E x : x \notin RecordsIn(R, P) /\ RecordsIn(S, P) = RecordsIn(R, P) \cup {x}
           /\ \A y \in DOMAIN R.records : S.records[y][1] = R.records[y][1]
           /\ id \notin DOMAIN R.records => S.records[id][1] = status
  <1> DEFINE old == RecordsOf(R, id)
             n == Len(old) + 1
  <1>1. \A y \in DOMAIN R.records : R.records[y] \in Seq(Statuses) /\ R.records[y] # <<>>
    BY DEF Typed
  <1>2. old \in Seq(Statuses) /\ (id \notin DOMAIN R.records => old = <<>>)
        /\ (id \in DOMAIN R.records => old = R.records[id])
    BY <1>1 DEF RecordsOf
  <1>3. /\ DOMAIN S.records = {id} \cup DOMAIN R.records /\ S.records[id] = Append(old, status)
        /\ \A y \in DOMAIN R.records \ {id} : S.records[y] = R.records[y]
    BY DEF Adds
  <1> HIDE DEF old
  <1>4. /\ n \in Nat \ {0} /\ DOMAIN old = 1..(n - 1) /\ DOMAIN S.records[id] = DOMAIN old \cup {n}
        /\ n \notin DOMAIN old /\ S.records[id][n] = status
        /\ \A k \in DOMAIN old : S.records[id][k] = old[k]
    BY <1>2, <1>3
  <1>5. /\ \A y \in DOMAIN R.records : S.records[y][1] = R.records[y][1]
        /\ id \notin DOMAIN R.records => S.records[id][1] = status
    <2>1. id \in DOMAIN R.records => 1 \in DOMAIN old
      BY <1>1, <1>2
    <2>2. id \notin DOMAIN R.records => n = 1
      BY <1>2
    <2> QED BY <1>2, <1>3, <1>4, <2>1, <2>2
  <1> HIDE DEF n
  <1>6. \A y, k : <<y, k>> \in RecordsIn(S, P) <=>
                    <<y, k>> \in RecordsIn(R, P) \/ (<<y, k>> = <<id, n>> /\ status \in P)
    BY <1>2, <1>3, <1>4, InRecords
  <1>7. <<id, n>> \notin RecordsIn(R, P)
    BY <1>2, <1>4, InRecords
  <1>8. \A x : x \in RecordsIn(S, P) \/ x \in RecordsIn(R, P) => \E y, k : x = <<y, k>>
    BY InRecords
  <1>9. status \notin P => RecordsIn(S, P) = RecordsIn(R, P)
    BY <1>6, <1>8
  <1>10. status \in P => RecordsIn(S, P) = RecordsIn(R, P) \cup {<<id, n>>}
    BY <1>6, <1>8
  <1> QED BY <1>5, <1>7, <1>9, <1>10

\* A record whose status is replaced by one that is in P or not as it was is counted as before.
LEMMA SetsKeep ==
    ASSUME NEW R, NEW S, NEW id, NEW status, Typed(R), id \in DOMAIN R.records, status \in Statuses,
           Sets(R, S, id, status), NEW P, status \in P <=> R.records[id][1] \in P
    PROVE  RecordsIn(S, P) = RecordsIn(R, P)
  <1>1. R.records[id] \in Seq(Statuses) /\ R.records[id] # <<>>
    BY DEF Typed
  <1>2. /\ DOMAIN S.records = DOMAIN R.records
        /\ S.records[id] = [R.records[id] EXCEPT ![1] = status]
        /\ \A y \in DOMAIN R.records \ {id} : S.records[y] = R.records[y]
    BY DEF Sets
  <1>3. /\ DOMAIN S.records[id] = DOMAIN R.records[id] /\ 1 \in DOMAIN R.records[id]
        /\ S.records[id][1] = status
        /\ \A k \in DOMAIN R.records[id] \ {1} : S.records[id][k] = R.records[id][k]
    BY <1>1, <1>2
  <1>4. \A y, k : <<y, k>> \in RecordsIn(S, P) <=> <<y, k>> \in RecordsIn(R, P)
    BY <1>2, <1>3, InRecords
  <1>5. \A x : x \in RecordsIn(S, P) \/ x \in RecordsIn(R, P) => \E y, k : x = <<y, k>>
    BY InRecords
  <1> QED BY <1>4, <1>5

\* What a record that is written again looks like.
LEMMA SetsCounted ==
    ASSUME NEW R, NEW S, NEW id \in DOMAIN R.records, NEW status \in Statuses, Typed(R),
           Sets(R, S, id, status)
    PROVE  /\ \A P : (status \in P <=> R.records[id][1] \in P) => RecordsIn(S, P) = RecordsIn(R, P)
           /\ DOMAIN S.records = DOMAIN R.records /\ S.records[id][1] = status
           /\ \A y \in DOMAIN R.records \ {id} : S.records[y] = R.records[y]
  <1>1. R.records[id] \in Seq(Statuses) /\ R.records[id] # <<>>
    BY DEF Typed
  <1>2. /\ DOMAIN S.records = DOMAIN R.records
        /\ S.records[id] = [R.records[id] EXCEPT ![1] = status]
        /\ \A y \in DOMAIN R.records \ {id} : S.records[y] = R.records[y]
    BY DEF Sets
  <1>3. S.records[id][1] = status
    BY <1>1, <1>2
  <1> QED BY <1>2, <1>3, SetsKeep

\* A call that met the cap stays in its lane.
LEMMA CapStays ==
    ASSUME NEW R, NEW S, NEW l, NEW v, NEW to \in Places, NEW value, IsCall(R, l, v),
           Moves(R, S, l, v, to, value),
           MetCap(R) \/ (to = "end" /\ value = "cap")
    PROVE  MetCap(S)
  <1>1. /\ DOMAIN S.lanes = DOMAIN R.lanes /\ l \in DOMAIN R.lanes /\ v \in DOMAIN R.lanes[l].votes
        /\ \A j \in DOMAIN R.lanes \ {l} : S.lanes[j] = R.lanes[j]
    BY DEF Moves, OnLane, IsCall
  <1>2. R.lanes[l].votes[v].value # "cap"
    BY DEF IsCall, LaneOK, None
  <1>3. CASE to = "end" /\ value = "cap"
    <2>1. Closes(R.lanes[l], S.lanes[l], v, value)
      BY <1>3 DEF Moves, Advances, Errors
    <2> QED BY <1>1, <1>3, <2>1 DEF Closes, MetCap
  <1>4. ASSUME NEW k \in DOMAIN R.lanes, NEW w \in DOMAIN R.lanes[k].votes,
               R.lanes[k].votes[w].value = "cap"
        PROVE  MetCap(S)
    <2>1. CASE k # l
      BY <1>1, <1>4, <2>1 DEF MetCap
    <2>2. CASE k = l
      <3>1. w # v
        BY <1>2, <1>4, <2>2
      <3>2. DOMAIN S.lanes[l].votes = DOMAIN R.lanes[l].votes /\ S.lanes[l].votes[w] = R.lanes[l].votes[w]
        BY <1>4, <2>2, <3>1 DEF Moves, Goes, Closes, Advances, Errors
      <3> QED BY <1>1, <1>4, <2>2, <3>2 DEF MetCap
    <2> QED BY <2>1, <2>2
  <1> QED BY <1>3, <1>4 DEF MetCap

\* What a step of a call counts for: it waits for a slot, it gets a record, or neither.
LEMMA CallCounts ==
    ASSUME NEW R, NEW S, NEW l, NEW v, CallStep(R, S, l, v), IsCall(R, l, v), R.status = "running",
           Typed(R), Recorded(R), FirstCounts(R)
    PROVE  LET old == CallsAt(R, Waiting)
               new == CallsAt(S, Waiting)
               x == <<l, v>>
           IN  \/ Counted(S) = Counted(R) /\ new = old \ {x} /\ S.started >= R.started
               \/ Counted(S) = Counted(R) /\ new = old /\ S.started = R.started
               \/ Counted(S) = Counted(R) /\ new = old \cup {x} /\ S.started = R.started + 1
                     /\ R.started < Cap
               \/ /\ \E y : y \notin Counted(R) /\ Counted(S) = Counted(R) \cup {y}
                  /\ x \in old /\ new = old \ {x} /\ S.started = R.started
  <1> DEFINE old == CallsAt(R, Waiting)
             new == CallsAt(S, Waiting)
             x == <<l, v>>
             at == R.lanes[l].votes[v].at
             id == AgentId(R, l, v)
  <1>1. \A to, value : Moves(R, S, l, v, to, value) =>
            new = IF to \in Waiting THEN old \cup {x} ELSE old \ {x}
    BY MovesAt DEF Waiting
  <1>2. x \in old <=> at \in Waiting
    BY InCallsAt DEF IsCall
  <1>3. ASSUME NEW status \in Statuses, Adds(R, S, id, status)
        PROVE  /\ status = "skipped" => Counted(S) = Counted(R)
               /\ status # "skipped" => \E y : y \notin Counted(R) /\ Counted(S) = Counted(R) \cup {y}
    <2> HIDE DEF id
    <2>1. ASSUME NEW P
          PROVE  /\ status \notin P => RecordsIn(S, P) = RecordsIn(R, P)
                 /\ status \in P => \E y : y \notin RecordsIn(R, P) /\ RecordsIn(S, P) = RecordsIn(R, P) \cup {y}
      BY <1>3, AddsCounted
    <2> QED BY <2>1 DEF Counted
  <1>4. S.records = R.records => Counted(S) = Counted(R)
    BY DEF Counted, RecordsIn
  <1>5. R.started \in Nat /\ Cap \in Nat
    BY WorkflowBounds DEF Typed
  <1>6. ASSUME NEW value \in Answers \cup {"null"}, NEW status \in {"done", "cancelled", "failed"},
               Replies(R, S, l, v, value, status)
        PROVE  Counted(S) = Counted(R)
    <2>1. id \in DOMAIN R.records /\ R.records[id][1] \in Statuses
      <3>1. id \in DOMAIN R.records
        BY <1>6, WorkRecorded DEF Replies
      <3>2. R.records[id] \in Seq(Statuses) \ {<<>>}
        BY <3>1 DEF Typed
      <3> QED BY <3>1, <3>2
    <2>2. R.records[id][1] # "skipped"
      BY <1>6 DEF FirstCounts, Replies, IsCall
    <2>3. status \in Statuses \ {"skipped"} /\ R.records[id][1] \in Statuses \ {"skipped"}
      BY <2>1, <2>2 DEF Statuses
    <2>4. \A P : (status \in P <=> R.records[id][1] \in P) => RecordsIn(S, P) = RecordsIn(R, P)
      <3>1. Sets(R, S, id, status)
        BY <1>6 DEF Replies
      <3> HIDE DEF id
      <3>2. id \in DOMAIN R.records /\ status \in Statuses
        BY <2>1, <2>3
      <3> SUFFICES ASSUME NEW P, status \in P <=> R.records[id][1] \in P
                   PROVE  RecordsIn(S, P) = RecordsIn(R, P)
        OBVIOUS
      <3> QED BY <3>1, <3>2, SetsKeep
    <2> QED BY <2>3, <2>4 DEF Counted
  <1> HIDE DEF old, new, x, id
  <1>7. CASE Skips(R, S, l, v)
    BY <1>1, <1>3, <1>5, <1>7 DEF Skips, Waiting, Statuses, id, old, new, x
  <1>8. CASE MeetsCap(R, S, l, v)
    BY <1>1, <1>4, <1>5, <1>8 DEF MeetsCap, Waiting, old, new, x
  <1>9. CASE Begins(R, S, l, v)
    BY <1>1, <1>4, <1>5, <1>9 DEF Begins, Waiting, old, new, x
  <1>10. CASE TakesSlot(R, S, l, v)
    <2>1. new = old \cup {x} /\ x \in old
      BY <1>1, <1>2, <1>10 DEF TakesSlot, Waiting
    <2> QED BY <1>4, <1>10, <2>1 DEF TakesSlot, old, new, x
  <1>11. CASE Replays(R, S, l, v) \/ Launches(R, S, l, v)
    <2>1. new = old \ {x} /\ x \in old
      BY <1>1, <1>2, <1>11 DEF Replays, Launches, Waiting, Working
    <2>2. \E y : y \notin Counted(R) /\ Counted(S) = Counted(R) \cup {y}
      BY <1>3, <1>11 DEF Replays, Launches, Statuses, id
    <2> QED BY <1>11, <2>1, <2>2 DEF Replays, Launches, old, new, x
  <1>12. CASE Locks(R, S, l, v)
    <2>1. new = old \ {x}
      BY <1>1, <1>12 DEF Locks, Waiting
    <2> QED BY <1>4, <1>5, <1>12, <2>1 DEF Locks, old, new, x
  <1>13. CASE \E value \in Answers \cup {"null"}, status \in {"done", "cancelled", "failed"} :
                  Replies(R, S, l, v, value, status)
    <2>1. new = old \ {x}
      BY <1>1, <1>13 DEF Replies, Waiting
    <2> QED BY <1>5, <1>6, <1>13, <2>1 DEF Replies, old, new, x
  <1> QED BY <1>7, <1>8, <1>9, <1>10, <1>11, <1>12, <1>13 DEF CallStep

LEMMA CallCap ==
    ASSUME NEW R, NEW S, NEW l, NEW v, CallStep(R, S, l, v), IsCall(R, l, v), R.status = "running",
           Typed(R), Recorded(R), FirstCounts(R), CapCount(R)
    PROVE  CapCount(S)
  <1> DEFINE old == CallsAt(R, Waiting)
             new == CallsAt(S, Waiting)
             x == <<l, v>>
             c == Counted(R)
             d == Counted(S)
  <1>1. /\ IsFiniteSet(old) /\ IsFiniteSet(c) /\ Cardinality(c) + Cardinality(old) <= Cap
        /\ Cardinality(c) + Cardinality(old) <= R.started
    BY DEF CapCount
  <1>2. /\ Cardinality(old) \in Nat /\ IsFiniteSet(old \ {x}) /\ IsFiniteSet(old \cup {x})
        /\ Cardinality(old \ {x}) \in Nat /\ Cardinality(old \ {x}) <= Cardinality(old)
        /\ x \in old => Cardinality(old \ {x}) = Cardinality(old) - 1
        /\ Cardinality(old \cup {x}) \in Nat /\ Cardinality(old \cup {x}) <= Cardinality(old) + 1
    <2> HIDE DEF x, old
    <2>1. /\ Cardinality(old) \in Nat /\ IsFiniteSet(old \cup {x}) /\ IsFiniteSet(old \ {x})
          /\ x \in old => /\ Cardinality(old \cup {x}) = Cardinality(old)
                          /\ Cardinality(old \ {x}) = Cardinality(old) - 1
          /\ x \notin old => /\ Cardinality(old \cup {x}) = Cardinality(old) + 1
                             /\ Cardinality(old \ {x}) = Cardinality(old)
      BY <1>1, CountOf
    <2>2. Cardinality(old \cup {x}) \in Nat /\ Cardinality(old \ {x}) \in Nat
      BY <2>1, FS_CardinalityType
    <2> QED BY <2>1, <2>2
  <1>3. Cardinality(c) \in Nat /\ R.started \in Nat /\ Cap \in Nat
    BY <1>1, FS_CardinalityType, WorkflowBounds DEF Typed
  <1>4. \A y : y \notin c => IsFiniteSet(c \cup {y}) /\ Cardinality(c \cup {y}) = Cardinality(c) + 1
    BY <1>1, FS_AddElement
  <1>5. \/ d = c /\ new = old \ {x} /\ S.started >= R.started
        \/ d = c /\ new = old /\ S.started = R.started
        \/ d = c /\ new = old \cup {x} /\ S.started = R.started + 1 /\ R.started < Cap
        \/ /\ \E y : y \notin c /\ d = c \cup {y}
           /\ x \in old /\ new = old \ {x} /\ S.started = R.started
    BY CallCounts, Zenon
  <1>6. S.started \in Nat
    BY <1>3 DEF CallStep, Skips, MeetsCap, Begins, TakesSlot, Replays, Launches, Locks, Replies
  <1> HIDE DEF old, new, x, c, d
  <1>7. /\ IsFiniteSet(d) /\ IsFiniteSet(new) /\ Cardinality(d) \in Nat /\ Cardinality(new) \in Nat
        /\ Cardinality(d) + Cardinality(new) <= Cap /\ Cardinality(d) + Cardinality(new) <= S.started
    <2>1. CASE d = c /\ new = old \ {x} /\ S.started >= R.started
      BY <1>1, <1>2, <1>3, <1>6, <2>1
    <2>2. CASE d = c /\ new = old /\ S.started = R.started
      BY <1>1, <1>2, <1>3, <2>2
    <2>3. CASE d = c /\ new = old \cup {x} /\ S.started = R.started + 1 /\ R.started < Cap
      BY <1>1, <1>2, <1>3, <2>3
    <2>4. CASE /\ \E y : y \notin c /\ d = c \cup {y}
               /\ x \in old /\ new = old \ {x} /\ S.started = R.started
      <3>1. IsFiniteSet(d) /\ Cardinality(d) = Cardinality(c) + 1
        BY <1>4, <2>4
      <3> QED BY <1>1, <1>2, <1>3, <2>4, <3>1
    <2> QED BY <1>5, <2>1, <2>2, <2>3, <2>4
  <1>8. Cardinality(d) <= Cap
    BY <1>3, <1>7
  <1> QED BY <1>7, <1>8 DEF CapCount, new, d

LEMMA CallFirst ==
    ASSUME NEW R, NEW S, NEW l, NEW v, CallStep(R, S, l, v), IsCall(R, l, v), R.status = "running",
           Typed(R), Laid(R), Recorded(R), FirstCounts(R), CachedOK(R)
    PROVE  FirstCounts(S)
  <1> DEFINE id == AgentId(R, l, v)
  <1>1. PICK to \in Places \ {"new"} : \E y : Moves(R, S, l, v, to, y)
    BY CallMoves
  <1>2. PICK value : Moves(R, S, l, v, to, value)
    BY <1>1
  <1>3. S.cancelled = R.cancelled
    BY <1>2 DEF Moves, Only, IsCall, Fields
  <1>4. \A y \in DOMAIN R.records :
            R.records[y][1] # "skipped" => y \in DOMAIN S.records /\ S.records[y][1] # "skipped"
    <2>1. ASSUME NEW status \in Statuses, Adds(R, S, id, status)
          PROVE  \A y \in DOMAIN R.records : y \in DOMAIN S.records /\ S.records[y][1] = R.records[y][1]
      <3> HIDE DEF id
      <3>1. \A y \in DOMAIN R.records : S.records[y][1] = R.records[y][1]
        BY <2>1, AddsCounted
      <3> QED BY <2>1, <3>1 DEF Adds
    <2>2. ASSUME NEW status \in Statuses, status # "skipped", Sets(R, S, id, status), id \in DOMAIN R.records
          PROVE  \A y \in DOMAIN R.records :
                     R.records[y][1] # "skipped" => y \in DOMAIN S.records /\ S.records[y][1] # "skipped"
      <3> HIDE DEF id
      <3>1. /\ DOMAIN S.records = DOMAIN R.records /\ S.records[id][1] = status
            /\ \A y \in DOMAIN R.records \ {id} : S.records[y] = R.records[y]
        <4>1. Sets(R, S, id, status) /\ id \in DOMAIN R.records /\ status \in Statuses
          BY <2>2
        <4> QED BY <4>1, SetsCounted
      <3> QED BY <2>2, <3>1
    <2> QED BY <2>1, <2>2, CallRecords
  <1>5. ~R.cancelled => RecordsIn(S, {"skipped"}) = {}
    <2>1. ASSUME ~R.cancelled, NEW status \in Statuses \ {"skipped"}, Adds(R, S, id, status)
          PROVE  RecordsIn(S, {"skipped"}) = RecordsIn(R, {"skipped"})
      <3> HIDE DEF id
      <3> QED BY <2>1, AddsCounted
    <2>2. ASSUME NEW status \in Statuses, status # "skipped", Sets(R, S, id, status), id \in DOMAIN R.records,
                 R.records[id][1] # "skipped"
          PROVE  RecordsIn(S, {"skipped"}) = RecordsIn(R, {"skipped"})
      <3> HIDE DEF id
      <3>1. id \in DOMAIN R.records /\ status \in Statuses /\ Sets(R, S, id, status)
        BY <2>2
      <3>2. status \in {"skipped"} <=> R.records[id][1] \in {"skipped"}
        BY <2>2
      <3> QED BY <3>1, <3>2, SetsKeep
    <2>3. S.records = R.records => RecordsIn(S, {"skipped"}) = RecordsIn(R, {"skipped"})
      BY DEF RecordsIn
    <2>4. ~R.cancelled => RecordsIn(S, {"skipped"}) = RecordsIn(R, {"skipped"})
      <3>1. CASE \E y \in Answers \cup {"null"}, status \in {"done", "cancelled", "failed"} :
                      Replies(R, S, l, v, y, status)
        <4>1. id \in DOMAIN R.records /\ R.records[id][1] # "skipped"
          BY <3>1, WorkRecorded DEF Replies, FirstCounts, IsCall
        <4>2. \E status \in Statuses \ {"skipped"} : Sets(R, S, id, status)
          BY <3>1 DEF Replies, Statuses
        <4> QED BY <2>2, <4>1, <4>2
      <3>2. CASE Replays(R, S, l, v)
        BY <2>1, <3>2 DEF Replays, Statuses
      <3>3. CASE Launches(R, S, l, v)
        BY <2>1, <3>3 DEF Launches, Statuses
      <3> QED BY <2>3, <3>1, <3>2, <3>3 DEF CallStep, Skips, MeetsCap, Begins, TakesSlot, Locks
    <2> QED BY <2>4 DEF FirstCounts
  <1>6. ASSUME NEW k \in DOMAIN S.lanes, NEW w \in DOMAIN S.lanes[k].votes,
               S.lanes[k].votes[w].at \in Working
        PROVE  S.records[AgentId(S, k, w)][1] # "skipped"
    <2>1. S.lanes[k].votes[w].at # "new"
      BY <1>6 DEF Working
    <2>2. /\ k \in DOMAIN R.lanes /\ w \in DOMAIN R.lanes[k].votes
          /\ AgentId(S, k, w) = AgentId(R, k, w)
          /\ <<k, w>> # <<l, v>> => S.lanes[k].votes[w] = R.lanes[k].votes[w]
          /\ <<k, w>> = <<l, v>> => S.lanes[k].votes[w].at = to
      BY <1>2, <2>1, MovesCalls
    <2>3. CASE R.lanes[k].votes[w].at \in Working
      <3>1. R.records[AgentId(R, k, w)][1] # "skipped"
        BY <2>2, <2>3 DEF FirstCounts
      <3>2. R.lanes[k].votes[w].value # "cap"
        BY <2>2, <2>3 DEF Laid, LaneOK, None, Working
      <3> QED BY <1>4, <2>2, <2>3, <3>1, <3>2 DEF Recorded
    <2>4. CASE R.lanes[k].votes[w].at \notin Working
      <3>1. <<k, w>> = <<l, v>> /\ to \in Working
        BY <1>6, <2>2, <2>4
      <3>2. \A to2, y : to2 # "new" /\ Moves(R, S, l, v, to2, y) => to2 \in Working
        BY <1>6, <2>1, <3>1, MovesCalls
      <3>3. Launches(R, S, l, v)
        <4>1. /\ \A to2, y : to2 \in {"local", "gate", "end"} => ~Moves(R, S, l, v, to2, y)
              /\ R.lanes[l].votes[v].at # "tree"
          BY <2>4, <3>1, <3>2 DEF Working
        <4>2. ~Skips(R, S, l, v) /\ ~MeetsCap(R, S, l, v)
          BY <4>1 DEF Skips, MeetsCap
        <4>3. ~Begins(R, S, l, v) /\ ~TakesSlot(R, S, l, v) /\ ~Locks(R, S, l, v)
          BY <4>1 DEF Begins, TakesSlot, Locks
        <4>4. ~Replays(R, S, l, v)
          BY <4>1 DEF Replays
        <4>5. \A y, status : ~Replies(R, S, l, v, y, status)
          BY <4>1 DEF Replies
        <4> QED BY <4>2, <4>3, <4>4, <4>5 DEF CallStep
      <3>4. Adds(R, S, id, "running")
        BY <3>3 DEF Launches
      <3>5. CASE id \in DOMAIN R.records
        <4>1. R.records[id] \in Seq(Statuses) \ {<<>>}
          BY <3>5 DEF Typed
        <4>2. <<id, 1>> \notin RecordsIn(R, {"skipped"}) /\ 1 \in DOMAIN R.records[id]
          BY <3>3, <4>1 DEF Launches, FirstCounts
        <4>3. R.records[id][1] # "skipped"
          BY <3>5, <4>2, InRecords
        <4> QED BY <1>4, <2>2, <3>1, <3>5, <4>3
      <3>6. CASE id \notin DOMAIN R.records
        <4> HIDE DEF id
        <4>1. S.records[id][1] = "running"
          BY <3>4, <3>6, AddsCounted DEF Statuses
        <4> QED BY <2>2, <3>1, <4>1 DEF id
      <3> QED BY <3>5, <3>6
    <2> QED BY <2>3, <2>4
  <1> QED BY <1>3, <1>5, <1>6 DEF FirstCounts

LEMMA CallMet ==
    ASSUME NEW R, NEW S, NEW l, NEW v, CallStep(R, S, l, v), IsCall(R, l, v), R.status = "running",
           Typed(R), Laid(R), R.at = "lanes", CapMet(R), CachedOK(R)
    PROVE  CapMet(S)
  <1>1. S.status = "running"
    BY CallLaid
  <1>2. PICK to \in Places \ {"new"} : \E y : Moves(R, S, l, v, to, y)
    BY CallMoves
  <1>3. MetCap(R) => MetCap(S)
    BY <1>2, CapStays
  <1>4. CASE MeetsCap(R, S, l, v)
    <2>1. MetCap(S)
      BY <1>4, CapStays DEF MeetsCap, Places
    <2> QED BY <1>1, <2>1 DEF CapMet
  <1>5. CASE ~MeetsCap(R, S, l, v)
    <2>1. S.started = R.started \/ (S.started = R.started + 1 /\ R.started < Cap)
      <3>1. R.started \in Nat /\ Cap \in Nat
        BY WorkflowBounds DEF Typed
      <3> QED BY <1>5, <3>1 DEF CallStep, Skips, Begins, TakesSlot, Replays, Launches, Locks, Replies
    <2>2. R.started \in Nat /\ Cap \in Nat
      BY WorkflowBounds DEF Typed
    <2> QED BY <1>1, <1>3, <2>1, <2>2 DEF CapMet
  <1> QED BY <1>4, <1>5

\* A phase that agreed has no call that met the cap.
LEMMA AgreedUnmet ==
    ASSUME NEW R, Laid(R), R.status # "dead", R.at = "lanes" => Agreed(R)
    PROVE  ~MetCap(R)
  <1> SUFFICES ASSUME NEW l \in DOMAIN R.lanes, NEW v \in DOMAIN R.lanes[l].votes,
                      R.lanes[l].votes[v].value = "cap"
               PROVE  FALSE
    BY DEF MetCap
  <1>1. R.at = "lanes" /\ LaneOK(R.phase, l, R.lanes[l])
    BY DEF Laid
  <1>2. R.lanes[l].result # None /\ R.lanes[l].result \notin Errors
    BY <1>1 DEF Agreed, Joined
  <1> QED BY <1>1, <1>2 DEF LaneOK, Errors

CapInv(R) == CapCount(R) /\ FirstCounts(R) /\ CapMet(R)

LEMMA RunCap ==
    ASSUME NEW R, NEW S, RunStep(R, S), Typed(R), Laid(R), Recorded(R), CapInv(R), CachedOK(R)
    PROVE  CapInv(S)
  <1> USE DEF CapInv
  <1>1. ASSUME NEW l, NEW v, R.at = "lanes", R.status = "running", IsCall(R, l, v), CallStep(R, S, l, v)
        PROVE  CapInv(S)
    BY <1>1, CallCap, CallFirst, CallMet
  <1>2. ASSUME Turns(R, S) \/ Cancels(R, S), R.status = "running"
        PROVE  CapInv(S)
    <2>1. CallsAt(S, Waiting) = CallsAt(R, Waiting)
      BY <1>2, TurnAt DEF Waiting
    <2>2. S.records = R.records /\ S.started = R.started /\ (S.cancelled = R.cancelled \/ S.cancelled)
      BY <1>2 DEF Turns, Stops, Leaves, Enters, Asks, Cancels, Only, Typed, Fields
    <2>3. Counted(S) = Counted(R) /\ RecordsIn(S, {"skipped"}) = RecordsIn(R, {"skipped"})
      BY <2>2 DEF Counted, RecordsIn
    <2>4. CapCount(S)
      BY <1>2, <2>1, <2>2, <2>3 DEF CapCount
    <2>5. CASE Stops(R, S) \/ Asks(R, S) \/ Cancels(R, S)
      <3>1. S.lanes = R.lanes /\ S.phase = R.phase /\ S.round = R.round
        BY <2>5 DEF Stops, Asks, Cancels, Only, Typed, Fields
      <3>2. \A k, w : AgentId(S, k, w) = AgentId(R, k, w)
        BY <3>1, IdOf
      <3>3. FirstCounts(S)
        BY <1>2, <2>2, <2>3, <3>1, <3>2 DEF FirstCounts
      <3>4. S.status = "done" => DOMAIN R.lanes = {}
        BY <1>2, <2>5 DEF Stops, Asks, Cancels, Only, Typed, Fields, Laid
      <3>5. R.started \in Nat /\ Cap \in Nat
        BY WorkflowBounds DEF Typed
      <3>6. CapMet(S)
        BY <1>2, <2>2, <3>1, <3>4, <3>5 DEF CapMet, MetCap
      <3> QED BY <2>4, <3>3, <3>6
    <2>6. CASE Leaves(R, S) \/ Enters(R, S)
      <3>1. ~MetCap(R)
        BY <1>2, <2>6, AgreedUnmet DEF Leaves, Enters, Laid, MetCap
      <3>2. R.started \in Nat /\ Cap \in Nat
        BY WorkflowBounds DEF Typed
      <3>3. CapMet(S)
        BY <1>2, <2>2, <3>1, <3>2 DEF CapMet
      <3>4. CallsAt(S, Working) = {}
        <4>1. CASE Leaves(R, S)
          BY <4>1, NoneAt DEF Leaves
        <4>2. CASE Enters(R, S)
          BY <4>2, FreshAt DEF Enters, Working
        <4> QED BY <2>6, <4>1, <4>2
      <3>5. FirstCounts(S)
        BY <1>2, <2>2, <2>3, <3>4, InCallsAt DEF FirstCounts
      <3> QED BY <2>4, <3>3, <3>5
    <2> QED BY <1>2, <2>5, <2>6 DEF Turns
  <1>3. ASSUME Dies(R, S)
        PROVE  CapInv(S)
    <2>1. S.records = R.records /\ S.status = "dead"
      BY <1>3 DEF Dies, Only, Typed, Fields
    <2>2. Counted(S) = Counted(R)
      BY <2>1 DEF Counted, RecordsIn
    <2> QED BY <2>1, <2>2 DEF CapCount, FirstCounts, CapMet
  <1>4. ASSUME Starts(S)
        PROVE  CapInv(S)
    <2>1. S.records = <<>> /\ S.lanes = <<>> /\ S.started = 0 /\ S.status = "running"
      BY <1>4 DEF Starts
    <2>2. DOMAIN S.records = {} /\ DOMAIN S.lanes = {}
      BY <2>1
    <2>3. \A P : CallsAt(S, P) = {} /\ RecordsIn(S, P) = {}
      BY <2>2, NoneAt DEF RecordsIn
    <2>4. Cap \in Nat
      BY WorkflowBounds
    <2>5. CapCount(S)
      <3>1. Counted(S) = {} /\ CallsAt(S, Waiting) = {}
        BY <2>3 DEF Counted
      <3>2. IsFiniteSet({}) /\ Cardinality({}) = 0
        BY FS_EmptySet
      <3> QED BY <2>1, <2>4, <3>1, <3>2 DEF CapCount
    <2> QED BY <2>1, <2>2, <2>3, <2>4, <2>5 DEF FirstCounts, CapMet
  <1> QED BY <1>1, <1>2, <1>3, <1>4 DEF RunStep

-----------------------------------------------------------------------------
(* The process gate, and the cancel. *)

LEMMA HoldsAre ==
    ASSUME NEW r
    PROVE  Holds(r) = CallsAt(run[r], Working)
  <1>1. \A x : x \in Calls(r) <=>
            \E l \in DOMAIN run[r].lanes : \E v \in DOMAIN run[r].lanes[l].votes : x = <<l, v>>
    BY DEF Calls
  <1>2. \A x : x \in Holds(r) <=> x \in CallsAt(run[r], Working)
    BY <1>1, InCallsAt DEF Holds, Working
  <1> QED BY <1>2

\* Only a launch puts a call to work, and only its end takes it off.
LEMMA CallWork ==
    ASSUME NEW R, NEW S, NEW l, NEW v, IsCall(R, l, v)
    PROVE  LET old == CallsAt(R, Working)
               new == CallsAt(S, Working)
               x == <<l, v>>
           IN  /\ Launches(R, S, l, v) => x \notin old /\ new = old \cup {x}
               /\ \A value, status : Replies(R, S, l, v, value, status) => x \in old /\ new = old \ {x}
               /\ \/ Skips(R, S, l, v) \/ MeetsCap(R, S, l, v) \/ Begins(R, S, l, v)
                  \/ TakesSlot(R, S, l, v) \/ Replays(R, S, l, v) \/ Locks(R, S, l, v)
                  => new = old
  <1> DEFINE old == CallsAt(R, Working)
             new == CallsAt(S, Working)
             x == <<l, v>>
             at == R.lanes[l].votes[v].at
  <1>1. \A to, value : Moves(R, S, l, v, to, value) =>
            new = IF to \in Working THEN old \cup {x} ELSE old \ {x}
    BY MovesAt DEF Working
  <1>2. x \in old <=> at \in Working
    BY InCallsAt DEF IsCall
  <1> HIDE DEF old, new, x
  <1>3. Launches(R, S, l, v) => x \notin old /\ new = old \cup {x}
    BY <1>1, <1>2 DEF Launches, Working
  <1>4. \A value, status : Replies(R, S, l, v, value, status) => x \in old /\ new = old \ {x}
    BY <1>1, <1>2 DEF Replies, Working
  <1>5. /\ Skips(R, S, l, v) => x \notin old /\ new = old \ {x}
        /\ MeetsCap(R, S, l, v) => x \notin old /\ new = old \ {x}
        /\ Begins(R, S, l, v) => x \notin old /\ new = old \ {x}
        /\ TakesSlot(R, S, l, v) => x \notin old /\ new = old \ {x}
        /\ Replays(R, S, l, v) => x \notin old /\ new = old \ {x}
        /\ Locks(R, S, l, v) => x \in old /\ new = old \cup {x}
    BY <1>1, <1>2 DEF Skips, MeetsCap, Begins, TakesSlot, Replays, Locks, Working
  <1> QED BY <1>3, <1>4, <1>5 DEF old, new, x

\* A step of a cancelled run puts no call to work.
LEMMA CancelledWork ==
    ASSUME NEW R, NEW S, RunStep(R, S), R.status = "running", S.status = "running", R.cancelled,
           Typed(R), Laid(R)
    PROVE  CallsAt(S, Working) \subseteq CallsAt(R, Working)
  <1>1. ASSUME NEW l, NEW v, IsCall(R, l, v), CallStep(R, S, l, v)
        PROVE  CallsAt(S, Working) \subseteq CallsAt(R, Working)
    <2>1. ~Launches(R, S, l, v)
      BY DEF Launches
    <2>2. /\ \A value, status : Replies(R, S, l, v, value, status) =>
                 CallsAt(S, Working) = CallsAt(R, Working) \ {<<l, v>>}
          /\ \/ Skips(R, S, l, v) \/ MeetsCap(R, S, l, v) \/ Begins(R, S, l, v)
             \/ TakesSlot(R, S, l, v) \/ Replays(R, S, l, v) \/ Locks(R, S, l, v)
             => CallsAt(S, Working) = CallsAt(R, Working)
      BY <1>1, CallWork
    <2> QED BY <1>1, <2>1, <2>2 DEF CallStep
  <1>2. ASSUME Turns(R, S) \/ Cancels(R, S)
        PROVE  CallsAt(S, Working) \subseteq CallsAt(R, Working)
    BY <1>2, TurnAt DEF Working
  <1> QED BY <1>1, <1>2 DEF RunStep, Dies

LEMMA WorkFinite ==
    ASSUME NEW R, SlotsOf(R), R.status = "running"
    PROVE  IsFiniteSet(CallsAt(R, Working))
  <1>1. CallsAt(R, Working) \subseteq CallsAt(R, Slotted)
    BY InCallsAt DEF Working, Slotted
  <1> QED BY <1>1, FS_Subset DEF SlotsOf

\* What a call does to the gate: a launch takes a slot, and an agent's end gives one back.
LEMMA CallGate ==
    ASSUME NEW r \in DOMAIN run, NEW l, NEW v, IsCall(run[r], l, v), CallAction(r, l, v)
    PROVE  LET old == CallsAt(run[r], Working)
               new == CallsAt(run'[r], Working)
               x == <<l, v>>
           IN  \/ gate' = gate /\ new = old
               \/ gate > 0 /\ gate' = gate - 1 /\ x \notin old /\ new = old \cup {x}
               \/ gate' = gate + 1 /\ x \in old /\ new = old \ {x}
  <1> DEFINE R == run[r]
             S == run'[r]
  <1>1. CASE Admit(r, l, v)
    BY <1>1, AdmitIs, CallWork
  <1>2. CASE TakeLocal(r, l, v)
    BY <1>2, TakeLocalIs, CallWork
  <1>3. CASE TakeGate(r, l, v)
    BY <1>3, TakeGateIs, CallWork
  <1>4. CASE TakeTree(r, l, v)
    BY <1>4, TakeTreeIs, CallWork
  <1>5. CASE Reply(r, l, v)
    <2>1. gate' = gate + 1 /\ \E value, status : Replies(R, S, l, v, value, status)
      BY <1>5, ReplyIs
    <2> QED BY <2>1, CallWork
  <1> QED BY <1>1, <1>2, <1>3, <1>4, <1>5 DEF CallAction

LEMMA InHolders ==
    \A x : x \in Holders <=> \E r \in Runs : \E c \in CallsAt(run[r], Working) : x = <<r, c>>
  BY DEF Holders

\* A run that is not at work holds no slot.
LEMMA SettledWork ==
    ASSUME NEW R, Settled(R), R.status # "running"
    PROVE  CallsAt(R, Working) = {}
  <1>1. CallsAt(R, Working) \subseteq CallsAt(R, Places \ {"end"})
    BY InCallsAt DEF Working, Places
  <1> QED BY <1>1 DEF Settled

\* The gate is full or its slots are with agents at work, whatever the runs do.
LEMMA GateStep ==
    ASSUME WellFormed, \A r \in Runs : Settled(run[r]), [Next]_vars, GateInv
    PROVE  GateInv'
  <1> USE DEF WellFormed
  <1>1. Cardinality(Holders) \in Nat /\ GateWidth \in Nat /\ gate \in Nat
    BY FS_CardinalityType, WorkflowBounds DEF GateInv
  <1>0. \A y : y \in Holders' <=> \E q \in Runs : \E c \in CallsAt(run[q], Working)' : y = <<q, c>>
    BY DEF Holders
  <1>2. ASSUME NEW r \in Runs, NEW l, NEW v, IsCall(run[r], l, v), CallAction(r, l, v)
        PROVE  GateInv'
    <2> DEFINE old == CallsAt(run[r], Working)
               new == CallsAt(run'[r], Working)
               x == <<r, <<l, v>>>>
    <2>1. OneRun(r)
      BY <1>2, CallActionIs
    <2>2. \A q \in Runs \ {r} : CallsAt(run[q], Working)' = CallsAt(run[q], Working)
      BY <2>1 DEF OneRun, CallsAt, Working
    <2>3. CallsAt(run[r], Working)' = new
      BY DEF CallsAt, Working
    <2>4. \A q, c : /\ q # r => (<<q, c>> \in Holders' <=> <<q, c>> \in Holders)
                    /\ q = r => (<<q, c>> \in Holders' <=> c \in new)
                    /\ q = r => (<<q, c>> \in Holders <=> c \in old)
      <3> HIDE DEF new
      <3> QED BY <1>0, <2>2, <2>3, InHolders
    <2>8. \A y : y \in Holders' \/ y \in Holders => \E q, c : y = <<q, c>>
      BY <1>0, InHolders
    <2> HIDE DEF old, new
    <2>5. CASE gate' = gate /\ new = old
      <3>1. Holders' = Holders
        BY <2>4, <2>5, <2>8
      <3> QED BY <2>5, <3>1 DEF GateInv
    <2>6. CASE gate > 0 /\ gate' = gate - 1 /\ <<l, v>> \notin old /\ new = old \cup {<<l, v>>}
      <3>1. \A q, c : <<q, c>> \in Holders' <=> <<q, c>> \in Holders \/ <<q, c>> = x
        BY <2>4, <2>6
      <3>2. Holders' = Holders \cup {x} /\ x \notin Holders
        BY <2>4, <2>6, <2>8, <3>1
      <3> HIDE DEF x
      <3>3. IsFiniteSet(Holders') /\ Cardinality(Holders') = Cardinality(Holders) + 1
        BY <3>2, FS_AddElement DEF GateInv
      <3> QED BY <1>1, <2>6, <3>3 DEF GateInv
    <2>7. CASE gate' = gate + 1 /\ <<l, v>> \in old /\ new = old \ {<<l, v>>}
      <3>1. \A q, c : <<q, c>> \in Holders' <=> <<q, c>> \in Holders /\ <<q, c>> # x
        BY <2>4, <2>7
      <3>2. Holders' = Holders \ {x} /\ x \in Holders
        BY <2>4, <2>7, <2>8, <3>1
      <3> HIDE DEF x
      <3>3. IsFiniteSet(Holders') /\ Cardinality(Holders') = Cardinality(Holders) - 1
        BY <3>2, FS_RemoveElement DEF GateInv
      <3> QED BY <1>1, <2>7, <3>3 DEF GateInv
    <2>9. \/ gate' = gate /\ new = old
          \/ gate > 0 /\ gate' = gate - 1 /\ <<l, v>> \notin old /\ new = old \cup {<<l, v>>}
          \/ gate' = gate + 1 /\ <<l, v>> \in old /\ new = old \ {<<l, v>>}
      BY <1>2, CallGate DEF old, new
    <2> QED BY <2>5, <2>6, <2>7, <2>9
  <1>3. ASSUME NEW r \in Runs, OneRun(r), gate' = gate,
               CallsAt(run'[r], Working) = CallsAt(run[r], Working)
        PROVE  GateInv'
    <2>1. \A q \in Runs : CallsAt(run[q], Working)' = CallsAt(run[q], Working)
      BY <1>3 DEF OneRun, CallsAt, Working
    <2>2. \A y : y \in Holders' <=> y \in Holders
      BY <1>0, <2>1, InHolders
    <2>3. Holders' = Holders
      BY <2>2
    <2> QED BY <1>3, <2>3 DEF GateInv
  <1>4. ASSUME run' = Dead, gate' = GateWidth
        PROVE  GateInv'
    <2>1. ASSUME NEW q \in Runs
          PROVE  CallsAt(run[q], Working)' = {}
      <3>1. run[q].status = "running" \/ run'[q] = run[q]
        BY <1>4, DeadIs DEF Typed
      <3>2. CallsAt(run'[q], Working) = {}
        <4>1. CASE run[q].status = "running"
          <5>1. Dies(run[q], run'[q])
            BY <1>4, <4>1, DeadIs DEF Typed
          <5> QED BY <5>1, NoneAt DEF Dies
        <4>2. CASE run[q].status # "running"
          BY <3>1, <4>2, SettledWork
        <4> QED BY <4>1, <4>2
      <3> QED BY <3>2 DEF CallsAt, Working
    <2>2. Holders' = {}
      BY <1>0, <2>1
    <2> QED BY <1>1, <1>4, <2>2, FS_EmptySet DEF GateInv
  <1>5. ASSUME NEW r \in Runs, OneRun(r), gate' = gate, run[r].status = "running",
               Turns(run[r], run'[r]) \/ Cancels(run[r], run'[r])
        PROVE  GateInv'
    BY <1>3, <1>5, TurnAt DEF Working
  <1>6. ASSUME NEW r \in Runs, Cancel(r)
        PROVE  GateInv'
    BY <1>5, <1>6, CancelIs DEF Typed
  <1>7. ASSUME NEW r \in Runs, NEW a, Start(r, a)
        PROVE  GateInv'
    <2>1. OneRun(r) /\ gate' = gate /\ run[r].status # "running" /\ run'[r].lanes = <<>>
      BY <1>7, StartIs DEF Starts
    <2>2. CallsAt(run'[r], Working) = {} /\ CallsAt(run[r], Working) = {}
      BY <2>1, NoneAt, SettledWork
    <2> QED BY <1>3, <2>1, <2>2
  <1>8. CASE UNCHANGED vars
    <2>1. Holders' = Holders /\ gate' = gate
      BY <1>8 DEF vars, Holders, CallsAt, Working
    <2> QED BY <2>1 DEF GateInv
  <1>9. CASE Kill \/ \E r \in Runs : Tears(r)
    BY <1>4, <1>9 DEF Kill, Tears, Tear
  <1> QED BY <1>2, <1>5, <1>6, <1>7, <1>8, <1>9, Steps

-----------------------------------------------------------------------------
(* What was said, and what the journal knows of it. *)

\* A call that a step leaves in its stage asks what it asked.
LEMMA QuestionOf ==
    ASSUME NEW R, NEW S, NEW l, S.phase = R.phase, S.args = R.args, S.union = R.union,
           S.scope = R.scope, S.lanes[l].stage = R.lanes[l].stage, S.lanes[l].prev = R.lanes[l].prev
    PROVE  Question(S, l) = Question(R, l)
  <1>1. Call(S, l) = Call(R, l) /\ Shape(S) = Shape(R)
    BY DEF Call, Shape
  <1> QED BY <1>1 DEF Question, Prompt

LEMMA MovesQuestion ==
    ASSUME NEW R, NEW S, NEW l, NEW v, NEW to, NEW value, IsCall(R, l, v), Moves(R, S, l, v, to, value),
           NEW k \in DOMAIN S.lanes, NEW w \in DOMAIN S.lanes[k].votes, S.lanes[k].votes[w].at # "new"
    PROVE  Question(S, k) = Question(R, k)
  <1>1. /\ S.phase = R.phase /\ S.args = R.args /\ S.union = R.union /\ S.scope = R.scope
        /\ DOMAIN S.lanes = DOMAIN R.lanes
        /\ \A j \in DOMAIN R.lanes \ {l} : S.lanes[j] = R.lanes[j]
    BY DEF Moves, Only, OnLane, IsCall, Fields
  <1>2. CASE k # l
    BY <1>1, <1>2, QuestionOf
  <1>3. CASE k = l /\ (Goes(R.lanes[l], S.lanes[l], v, to) \/ Closes(R.lanes[l], S.lanes[l], v, value))
    <2>1. S.lanes[l].stage = R.lanes[l].stage /\ S.lanes[l].prev = R.lanes[l].prev
      BY <1>3 DEF Goes, Closes
    <2> QED BY <1>1, <1>3, <2>1, QuestionOf
  <1>4. CASE k = l /\ Advances(R.phase, l, R.lanes[l], S.lanes[l], v, value)
    BY <1>4, FreshLane DEF Advances, IsCall
  <1> QED BY <1>2, <1>3, <1>4 DEF Moves

\* A step of a call ends it with what was said to its question, if it does with an answer.
LEMMA CallSaid ==
    ASSUME NEW R, NEW S, NEW l, NEW v, IsCall(R, l, v), R.status = "running",
           NEW A, Said(R, A), Real(A), NEW B, A \subseteq B,
           \/ Skips(R, S, l, v) \/ MeetsCap(R, S, l, v) \/ Begins(R, S, l, v)
           \/ TakesSlot(R, S, l, v) \/ Replays(R, S, l, v) \/ Launches(R, S, l, v) \/ Locks(R, S, l, v)
           \/ \E value \in Answers \cup {"null"}, status \in {"done", "cancelled", "failed"} :
                 /\ Replies(R, S, l, v, value, status)
                 /\ value \in Answers => <<Question(R, l), value>> \in B
    PROVE  Said(S, B)
  <1>0. CachedOK(R) /\ CallStep(R, S, l, v)
    BY DEF Said, Real, CachedOK, CallStep
  <1>1. PICK to \in Places \ {"new"} : \E y : Moves(R, S, l, v, to, y)
    BY <1>0, CallMoves
  <1>2. S.cached = R.cached
    BY <1>1 DEF Moves, Only, IsCall, Fields
  <1>4. ASSUME NEW k \in DOMAIN S.lanes, NEW w \in DOMAIN S.lanes[k].votes,
               S.lanes[k].votes[w].at = "end", S.lanes[k].votes[w].value \in Answers
        PROVE  <<Question(S, k), S.lanes[k].votes[w].value>> \in B
    <2>1. \A to2, y : Moves(R, S, l, v, to2, y) /\ to2 # "new" =>
              /\ k \in DOMAIN R.lanes /\ w \in DOMAIN R.lanes[k].votes
              /\ <<k, w>> # <<l, v>> => S.lanes[k].votes[w] = R.lanes[k].votes[w]
              /\ <<k, w>> = <<l, v>> => to2 = "end" /\ S.lanes[k].votes[w].value = y
      BY <1>4, MovesCalls
    <2>2. Question(S, k) = Question(R, k)
      BY <1>1, <1>4, MovesQuestion
    <2>3. CASE <<k, w>> # <<l, v>>
      BY <1>1, <1>4, <2>1, <2>2, <2>3 DEF Said
    <2>4. CASE <<k, w>> = <<l, v>>
      <3>1. S.lanes[k].votes[w].value \notin Errors /\ "end" # "new"
        BY <1>4, WorkflowBounds DEF Errors
      <3>2. CASE Replays(R, S, l, v)
        <4>1. PICK value \in Cached(R, l) : Moves(R, S, l, v, "end", value)
          BY <3>2 DEF Replays
        <4>2. S.lanes[k].votes[w].value = value
          BY <2>1, <2>4, <4>1
        <4>3. \E x \in R.cached : x[1] = Question(R, l) /\ x[2] = value
          BY DEF Cached, ContentKey
        <4>4. <<Question(R, l), value>> \in B
          BY <4>3 DEF Said, Real
        <4> QED BY <2>2, <2>4, <4>2, <4>4
      <3>3. ASSUME NEW value \in Answers \cup {"null"}, NEW status, Replies(R, S, l, v, value, status),
                   value \in Answers => <<Question(R, l), value>> \in B
            PROVE  <<Question(S, k), S.lanes[k].votes[w].value>> \in B
        <4>1. S.lanes[k].votes[w].value = IF R.cancelled THEN "cancelled" ELSE value
          BY <2>1, <2>4, <3>3 DEF Replies
        <4>2. S.lanes[k].votes[w].value = value /\ value \in Answers
          BY <1>4, <3>1, <4>1, WorkflowBounds DEF Errors
        <4>3. <<Question(R, l), value>> \in B
          BY <3>3, <4>2
        <4> QED BY <2>2, <2>4, <4>2, <4>3
      <3>4. \A to2, y : Moves(R, S, l, v, to2, y) /\ to2 # "new" => to2 = "end" /\ y \notin Errors
        BY <2>1, <2>4, <3>1
      <3>5. ~Skips(R, S, l, v) /\ ~MeetsCap(R, S, l, v)
        BY <3>4 DEF Skips, MeetsCap, Errors
      <3>6. ~Begins(R, S, l, v) /\ ~TakesSlot(R, S, l, v) /\ ~Launches(R, S, l, v) /\ ~Locks(R, S, l, v)
        BY <3>4 DEF Begins, TakesSlot, Launches, Locks, Working
      <3> QED BY <3>2, <3>3, <3>5, <3>6
    <2> QED BY <2>3, <2>4
  <1> QED BY <1>2, <1>4 DEF Said

\* Between its calls a run says nothing.
LEMMA TurnSaid ==
    ASSUME NEW R, NEW S, Turns(R, S) \/ Cancels(R, S) \/ Dies(R, S), Typed(R), R.status = "running",
           NEW A, Said(R, A)
    PROVE  Said(S, A)
  <1>1. S.cached = R.cached
    BY DEF Turns, Stops, Leaves, Enters, Asks, Cancels, Dies, Only, Typed, Fields
  <1>2. CASE Stops(R, S) \/ Asks(R, S) \/ Cancels(R, S)
    <2>1. /\ S.lanes = R.lanes /\ S.phase = R.phase /\ S.args = R.args /\ S.union = R.union
          /\ S.scope = R.scope
      BY <1>2 DEF Stops, Asks, Cancels, Only, Typed, Fields
    <2>2. \A k : Question(S, k) = Question(R, k)
      BY <2>1, QuestionOf
    <2> QED BY <1>1, <2>1, <2>2 DEF Said
  <1>3. CASE Leaves(R, S) \/ Dies(R, S)
    BY <1>1, <1>3 DEF Leaves, Dies, Said
  <1>4. CASE Enters(R, S)
    <2>1. \A l \in DOMAIN S.lanes : \A v \in DOMAIN S.lanes[l].votes : S.lanes[l].votes[v].at = "new"
      BY <1>4, FreshLanes DEF Enters
    <2> QED BY <1>1, <2>1 DEF Said
  <1> QED BY <1>2, <1>3, <1>4 DEF Turns

LineFields == {"key", "status", "value", "whole", "ended", "legible"}
LineOK(line, A) ==
    /\ DOMAIN line = LineFields
    /\ line.status \in {"done", "failed", "cancelled"}
    /\ {line.whole, line.ended, line.legible} \subseteq BOOLEAN
    /\ line.whole /\ line.status = "done" => <<line.key, line.value>> \in A

\* A sequence is one of its own elements.
LEMMA OwnElements ==
    ASSUME NEW X, NEW s \in Seq(X)
    PROVE  s \in Seq({s[k] : k \in DOMAIN s})
  <1> DEFINE Y == {s[k] : k \in DOMAIN s}
  <1>1. DOMAIN s = 1..Len(s) /\ Len(s) \in Nat /\ \A k \in DOMAIN s : s[k] \in Y
    OBVIOUS
  <1> HIDE DEF Y
  <1>2. s \in [1..Len(s) -> Y]
    BY <1>1
  <1>3. s \in Seq(Y)
    BY <1>1, <1>2
  <1> QED BY <1>3 DEF Y

\* Whatever a line is appended behind, the journal says nothing that was not answered.
LEMMA WriteLogged ==
    ASSUME NEW lines, NEW A, Logged(lines, A), NEW B, A \subseteq B, NEW line, LineOK(line, B)
    PROVE  Logged(Write(lines, line), B)
  <1> DEFINE n == Len(lines)
             X == {lines[k] : k \in DOMAIN lines}
             glued == Glued(lines[n], line)
             new == Write(lines, line)
  <1>1. /\ lines \in Seq(X) /\ n \in Nat /\ DOMAIN lines = 1..n
        /\ \A k \in DOMAIN lines : LineOK(lines[k], B)
    BY DEF Logged, LineOK, LineFields
  <1>2. ASSUME NEW Y, NEW t \in Seq(Y), \A k \in DOMAIN t : LineOK(t[k], B)
        PROVE  Logged(t, B)
    <2>1. t \in Seq({t[k] : k \in DOMAIN t})
      BY OwnElements
    <2> QED BY <1>2, <2>1 DEF Logged, LineOK, LineFields
  <1>3. CASE lines # <<>> /\ ~lines[n].ended
    <2>1. new = [lines EXCEPT ![n] = glued]
      BY <1>3 DEF Write
    <2>2. n \in DOMAIN lines
      BY <1>1, <1>3
    <2>3. LineOK(glued, B)
      BY <1>1, <2>2 DEF LineOK, LineFields, Glued
    <2> HIDE DEF glued, X, new
    <2>4. new \in Seq(X \cup {glued}) /\ DOMAIN new = DOMAIN lines
      <3>1. lines \in [1..n -> X \cup {glued}]
        BY <1>1
      <3>2. new \in [1..n -> X \cup {glued}]
        BY <2>1, <3>1
      <3> QED BY <1>1, <3>2
    <2>5. \A k \in DOMAIN new : LineOK(new[k], B)
      BY <1>1, <2>1, <2>2, <2>3, <2>4
    <2> QED BY <1>2, <2>4, <2>5 DEF new
  <1>4. CASE ~(lines # <<>> /\ ~lines[n].ended)
    <2>1. new = Append(lines, line)
      BY <1>4 DEF Write
    <2> HIDE DEF X, new
    <2>2. new \in Seq(X \cup {line})
      BY <1>1, <2>1
    <2>3. \A k \in DOMAIN new : new[k] = line \/ (k \in DOMAIN lines /\ new[k] = lines[k])
      BY <1>1, <2>1
    <2>4. \A k \in DOMAIN new : LineOK(new[k], B)
      BY <1>1, <2>3
    <2> QED BY <1>2, <2>2, <2>4 DEF new
  <1> QED BY <1>3, <1>4

LEMMA LoadSaid ==
    ASSUME NEW lines, NEW A, Logged(lines, A)
    PROVE  Load(lines) \subseteq A
  BY DEF Load, LastOfKey, Logged

\* What a line is that a crash tears.
Torn(line, whole, legible) ==
    [line EXCEPT !.whole = whole, !.ended = FALSE, !.legible = legible]

\* What a call's end writes to the journal.
LEMMA LineIs ==
    ASSUME NEW R, NEW l, NEW status \in {"done", "failed", "cancelled"}, NEW value, NEW B,
           status = "done" => <<Question(R, l), value>> \in B
    PROVE  /\ LineOK(Line(R, l, status, value), B)
           /\ \A whole, legible \in BOOLEAN : LineOK(Torn(Line(R, l, status, value), whole, legible), B)
  BY DEF LineOK, Line, LineFields, ContentKey, Torn

SaidInv ==
    /\ DOMAIN journal = Runs /\ DOMAIN answers = Runs
    /\ \A r \in Runs : Said(run[r], answers[r]) /\ Logged(journal[r], answers[r]) /\ Real(answers[r])

\* A line, and the answer it carries if it does, are added for one run.
LEMMA LineStep ==
    ASSUME SaidInv, NEW r \in Runs, NEW l, NEW value, NEW line,
           \/ answers' = answers /\ value \notin Answers
           \/ /\ answers' = [answers EXCEPT ![r] = @ \cup {<<Question(run[r], l), value>>}]
              /\ value \in Answers,
           LineOK(line, answers[r] \cup {<<Question(run[r], l), value>>}),
           value \notin Answers => line.status # "done",
           journal' = [journal EXCEPT ![r] = Write(@, line)]
    PROVE  /\ DOMAIN journal' = Runs /\ DOMAIN answers' = Runs
           /\ \A q \in Runs : /\ answers[q] \subseteq answers'[q]
                              /\ Logged(journal'[q], answers'[q]) /\ Real(answers'[q])
           /\ value \in Answers => <<Question(run[r], l), value>> \in answers'[r]
           /\ \A q \in Runs \ {r} : answers'[q] = answers[q]
  <1> DEFINE A == answers[r]
             B == answers'[r]
  <1>1. /\ DOMAIN journal = Runs /\ DOMAIN answers = Runs
        /\ \A q \in Runs : Logged(journal[q], answers[q]) /\ Real(answers[q])
    BY DEF SaidInv
  <1>2. /\ DOMAIN answers' = Runs /\ \A q \in Runs \ {r} : answers'[q] = answers[q]
        /\ DOMAIN journal' = Runs /\ \A q \in Runs \ {r} : journal'[q] = journal[q]
        /\ journal'[r] = Write(journal[r], line)
    BY <1>1
  <1>3. B = IF value \in Answers THEN A \cup {<<Question(run[r], l), value>>} ELSE A
    BY <1>1
  <1>4. Real(B)
    BY <1>1, <1>3 DEF Real
  <1>5. LineOK(line, B)
    BY <1>3 DEF LineOK
  <1> HIDE DEF A, B
  <1>6. A \subseteq B
    BY <1>3
  <1>7. Logged(journal'[r], B)
    BY <1>1, <1>2, <1>5, <1>6, WriteLogged DEF A
  <1> QED BY <1>1, <1>2, <1>3, <1>4, <1>6, <1>7 DEF A, B

LEMMA SaidStep ==
    ASSUME WellFormed, SaidInv, [Next]_vars
    PROVE  SaidInv'
  <1> USE DEF WellFormed
  <1>1. \A r \in Runs : Said(run[r], answers[r]) /\ Logged(journal[r], answers[r]) /\ Real(answers[r])
    BY DEF SaidInv
  <1>2. ASSUME NEW r \in Runs, OneRun(r), UNCHANGED <<journal, answers>>, Said(run'[r], answers[r])
        PROVE  SaidInv'
    BY <1>2 DEF SaidInv, OneRun
  <1>3. ASSUME NEW r \in Runs, NEW l, NEW v, IsCall(run[r], l, v), run[r].status = "running",
               CallAction(r, l, v)
        PROVE  SaidInv'
    <2>1. CASE Reply(r, l, v)
      <3>1. OneRun(r)
        BY <1>3, <2>1, ReplyIs
      <3>2. PICK value \in Answers \cup {"null"}, status \in {"done", "cancelled", "failed"} :
                /\ status = "done" <=> value # "null"
                /\ Replies(run[r], run'[r], l, v, value, status) /\ Journal(r, l, status, value)
                /\ answers' = IF value = "null" THEN answers
                              ELSE [answers EXCEPT ![r] = @ \cup {<<Question(run[r], l), value>>}]
        <4>1. r \in DOMAIN run
          BY <1>3
        <4> QED BY <1>3, <2>1, <4>1, ReplyIs
      <3>3. "null" \notin Answers
        BY WorkflowBounds
      <3>4. journal' = [journal EXCEPT ![r] = Write(@, Line(run[r], l, status, value))]
        BY <3>2 DEF Journal
      <3>5. LineOK(Line(run[r], l, status, value), answers[r] \cup {<<Question(run[r], l), value>>})
        BY LineIs
      <3>6. Line(run[r], l, status, value).status = status
        BY DEF Line
      <3>7. /\ DOMAIN journal' = Runs /\ DOMAIN answers' = Runs
            /\ \A q \in Runs : /\ answers[q] \subseteq answers'[q]
                               /\ Logged(journal'[q], answers'[q]) /\ Real(answers'[q])
            /\ value \in Answers => <<Question(run[r], l), value>> \in answers'[r]
            /\ \A q \in Runs \ {r} : answers'[q] = answers[q]
        <4> DEFINE line == Line(run[r], l, status, value)
        <4>1. \/ answers' = answers /\ value \notin Answers
              \/ /\ answers' = [answers EXCEPT ![r] = @ \cup {<<Question(run[r], l), value>>}]
                 /\ value \in Answers
          BY <3>2, <3>3
        <4>2. value \notin Answers => line.status # "done"
          BY <3>2, <3>3, <3>6
        <4>3. journal' = [journal EXCEPT ![r] = Write(@, line)]
          BY <3>4
        <4>4. LineOK(line, answers[r] \cup {<<Question(run[r], l), value>>})
          BY <3>5
        <4> HIDE DEF line
        <4> QED BY <4>1, <4>2, <4>3, <4>4, LineStep
      <3>8. Said(run'[r], answers'[r])
        <4>1. \E x \in Answers \cup {"null"}, y \in {"done", "cancelled", "failed"} :
                 /\ Replies(run[r], run'[r], l, v, x, y)
                 /\ x \in Answers => <<Question(run[r], l), x>> \in answers'[r]
          BY <3>2, <3>7
        <4>2. answers[r] \subseteq answers'[r]
          BY <3>7
        <4> QED BY <1>1, <1>3, <4>1, <4>2, CallSaid
      <3> QED BY <1>1, <3>1, <3>7, <3>8 DEF SaidInv, OneRun
    <2>2. CASE ~Reply(r, l, v)
      <3>1. /\ OneRun(r) /\ UNCHANGED <<journal, answers>>
            /\ \/ Skips(run[r], run'[r], l, v) \/ MeetsCap(run[r], run'[r], l, v)
               \/ Begins(run[r], run'[r], l, v) \/ TakesSlot(run[r], run'[r], l, v)
               \/ Replays(run[r], run'[r], l, v) \/ Launches(run[r], run'[r], l, v)
               \/ Locks(run[r], run'[r], l, v)
        BY <1>3, <2>2, AdmitIs, TakeLocalIs, TakeGateIs, TakeTreeIs DEF CallAction
      <3>2. Said(run'[r], answers[r])
        BY <1>1, <1>3, <3>1, CallSaid
      <3> QED BY <1>2, <3>1, <3>2
    <2> QED BY <2>1, <2>2
  <1>4. ASSUME NEW r \in Runs, OneRun(r), UNCHANGED <<journal, answers>>, run[r].status = "running",
               Turns(run[r], run'[r]) \/ Cancels(run[r], run'[r])
        PROVE  SaidInv'
    BY <1>1, <1>2, <1>4, TurnSaid
  <1>5. ASSUME NEW r \in Runs, Cancel(r)
        PROVE  SaidInv'
    BY <1>4, <1>5, CancelIs DEF Typed
  <1>6. ASSUME NEW r \in Runs, NEW a, Start(r, a)
        PROVE  SaidInv'
    <2>1. /\ OneRun(r) /\ UNCHANGED <<journal, answers>> /\ run'[r].lanes = <<>>
          /\ run'[r].cached = Load(journal[r])
      BY <1>6, StartIs DEF Starts
    <2>2. Said(run'[r], answers[r])
      BY <1>1, <2>1, LoadSaid DEF Said
    <2> QED BY <1>2, <2>1, <2>2
  <1>7. ASSUME run' = Dead
        PROVE  DOMAIN run' = Runs /\ \A q \in Runs : \A A : Said(run[q], A) => Said(run'[q], A)
    BY <1>7, DeadIs, TurnSaid DEF Typed
  <1>8. CASE Kill
    BY <1>1, <1>7, <1>8 DEF Kill, SaidInv
  <1>9. ASSUME NEW r \in Runs, Tears(r)
        PROVE  SaidInv'
    <2>1. PICK l, v : IsCall(run[r], l, v) /\ Tear(r, l, v)
      BY <1>9 DEF Tears
    <2>2. run' = Dead
      BY <2>1 DEF Tear
    <2>3. PICK value \in Answers, whole, legible \in BOOLEAN :
              /\ journal' = [journal EXCEPT ![r] =
                    Write(@, Torn(Line(run[r], l, "done", value), whole, legible))]
              /\ answers' = [answers EXCEPT ![r] = @ \cup {<<Question(run[r], l), value>>}]
      BY <2>1, Zenon DEF Tear, Torn
    <2> DEFINE line == Torn(Line(run[r], l, "done", value), whole, legible)
    <2>4. LineOK(line, answers[r] \cup {<<Question(run[r], l), value>>})
      BY LineIs
    <2>5. journal' = [journal EXCEPT ![r] = Write(@, line)]
      BY <2>3
    <2> HIDE DEF line
    <2>6. /\ DOMAIN journal' = Runs /\ DOMAIN answers' = Runs
          /\ \A q \in Runs : /\ answers[q] \subseteq answers'[q]
                             /\ Logged(journal'[q], answers'[q]) /\ Real(answers'[q])
      BY <2>3, <2>4, <2>5, LineStep
    <2>7. \A q \in Runs : Said(run'[q], answers[q])
      BY <1>1, <1>7, <2>2
    <2>8. \A q \in Runs : Said(run'[q], answers'[q])
      BY <2>6, <2>7 DEF Said
    <2> QED BY <1>7, <2>2, <2>6, <2>8 DEF SaidInv
  <1>10. CASE UNCHANGED vars
    BY <1>10 DEF vars, SaidInv
  <1> QED BY <1>3, <1>4, <1>5, <1>6, <1>8, <1>9, <1>10, Steps

-----------------------------------------------------------------------------
(* The invariant, and what follows from it. *)

RunInv(R) == Typed(R) /\ Laid(R) /\ Settled(R) /\ SlotsOf(R) /\ Recorded(R) /\ CapInv(R)
WorkflowInv ==
    /\ DOMAIN run = Runs /\ \A r \in Runs : RunInv(run[r])
    /\ SaidInv /\ GateInv /\ tree \in BOOLEAN

LEMMA IdleIs ==
    RunInv(Idle)
  <1>1. /\ DOMAIN Idle = Fields /\ Idle.status = "idle" /\ Idle.at = "phase" /\ Idle.lanes = <<>>
        /\ Idle.records = <<>> /\ Idle.free = Width /\ Idle.jumps = 0 /\ Idle.phase = 1
        /\ Idle.round = 0 /\ Idle.started = 0 /\ Idle.cancelled = FALSE
    BY DEF Idle, Fields
  <1> HIDE DEF Idle
  <1>2. DOMAIN Idle.lanes = {} /\ DOMAIN Idle.records = {}
    BY <1>1
  <1>3. Width \in Nat /\ MaxJumps \in Nat /\ Cap \in Nat
    BY WorkflowBounds
  <1>4. Idle.free \in 0..Width /\ Idle.jumps \in 0..MaxJumps
    BY <1>1, <1>3
  <1>5. Idle.phase \in Nat \ {0} /\ Idle.round \in Nat /\ Idle.started \in Nat
    BY <1>1
  <1>11. Idle.cancelled \in BOOLEAN /\ Idle.at # "human"
    BY <1>1
  <1>6. Typed(Idle)
    BY <1>1, <1>2, <1>4, <1>5, <1>11, Zenon DEF Typed
  <1>7. Laid(Idle) /\ Recorded(Idle)
    BY <1>1, <1>2 DEF Laid, Recorded
  <1>8. \A P : CallsAt(Idle, P) = {} /\ RecordsIn(Idle, P) = {}
    BY <1>2, NoneAt DEF RecordsIn
  <1>9. Settled(Idle) /\ SlotsOf(Idle)
    BY <1>1, <1>8 DEF Settled, SlotsOf
  <1>10. CapInv(Idle)
    <2>1. Counted(Idle) = {}
      BY <1>8 DEF Counted
    <2>2. IsFiniteSet({}) /\ Cardinality({}) = 0
      BY FS_EmptySet
    <2> QED BY <1>1, <1>3, <2>1, <2>2 DEF CapInv, CapCount, FirstCounts, CapMet
  <1> QED BY <1>6, <1>7, <1>9, <1>10 DEF RunInv

LEMMA RunKept ==
    ASSUME NEW R, NEW S, RunStep(R, S), RunInv(R), CachedOK(R)
    PROVE  RunInv(S)
  BY RunTyped, RunSettled, RunSlots, RunRecorded, RunCap DEF RunInv

LEMMA TreeStep ==
    ASSUME WellFormed, [Next]_vars, tree \in BOOLEAN
    PROVE  tree' \in BOOLEAN
  <1>1. ASSUME NEW r \in Runs, NEW l, NEW v, IsCall(run[r], l, v), CallAction(r, l, v)
        PROVE  tree' \in BOOLEAN
    <2>1. r \in DOMAIN run
      BY DEF WellFormed
    <2>2. CASE Reply(r, l, v)
      <3>1. tree' \in {FALSE, tree}
        BY <1>1, <2>1, <2>2, ReplyIs
      <3> QED BY <3>1
    <2> QED BY <1>1, <2>1, <2>2, AdmitIs, TakeLocalIs, TakeGateIs, TakeTreeIs DEF CallAction
  <1>2. ASSUME NEW r \in Runs, Cancel(r) \/ \E a \in Args : Start(r, a)
        PROVE  tree' = tree
    BY <1>2 DEF Cancel, Start
  <1>3. Kill \/ (\E r \in Runs : Tears(r)) => tree' = FALSE
    BY DEF Kill, Tears, Tear
  <1> QED BY <1>1, <1>2, <1>3, Steps DEF vars

LEMMA WorkflowKept ==
    Spec => []WorkflowInv
  <1>1. Init => WorkflowInv
    <2> SUFFICES ASSUME Init
                 PROVE  WorkflowInv
      OBVIOUS
    <2>1. DOMAIN run = Runs /\ \A r \in Runs : run[r] = Idle
      BY DEF Init
    <2>2. \A r \in Runs : RunInv(run[r])
      BY <2>1, IdleIs
    <2>3. SaidInv
      <3>1. DOMAIN journal = Runs /\ DOMAIN answers = Runs
            /\ \A r \in Runs : journal[r] = <<>> /\ answers[r] = {}
        BY DEF Init
      <3>2. Idle.cached = {} /\ Idle.status = "idle"
        BY DEF Idle
      <3>3. Logged(<<>>, {})
        BY DEF Logged
      <3> QED BY <2>1, <3>1, <3>2, <3>3 DEF SaidInv, Said, Real
    <2>4. GateInv
      <3>1. \A r \in Runs : CallsAt(run[r], Working) = {}
        BY <2>1, NoneAt DEF Idle
      <3>2. Holders = {}
        BY <3>1, InHolders
      <3>3. gate = GateWidth /\ GateWidth \in Nat
        BY WorkflowBounds DEF Init
      <3> QED BY <3>2, <3>3, FS_EmptySet DEF GateInv
    <2>5. tree \in BOOLEAN
      BY DEF Init
    <2> QED BY <2>1, <2>2, <2>3, <2>4, <2>5 DEF WorkflowInv
  <1>2. WorkflowInv /\ [Next]_vars => WorkflowInv'
    <2> SUFFICES ASSUME WorkflowInv, [Next]_vars
                 PROVE  WorkflowInv'
      OBVIOUS
    <2>1. WellFormed
      BY DEF WorkflowInv, RunInv, WellFormed
    <2>2. DOMAIN run' = Runs /\ \A r \in Runs : run'[r] = run[r] \/ RunStep(run[r], run'[r])
      BY <2>1, EachRun
    <2>3. \A r \in Runs : RunInv(run[r]) /\ CachedOK(run[r])
      BY DEF WorkflowInv, SaidInv, Said, Real, CachedOK
    <2>4. \A r \in Runs : RunInv(run'[r])
      BY <2>2, <2>3, RunKept
    <2>5. SaidInv' /\ GateInv' /\ tree' \in BOOLEAN
      BY <2>1, <2>3, SaidStep, GateStep, TreeStep DEF WorkflowInv, RunInv
    <2>6. \A r \in Runs : RunInv(run[r])'
      BY <2>4 DEF RunInv, Typed, Laid, LaneOK, Settled, SlotsOf, Recorded, CapInv, CapCount,
                  FirstCounts, CapMet, MetCap, Counted, RecordsIn, CallsAt, AgentId, Call, Shape,
                  Lane, Stages
    <2> QED BY <2>2, <2>5, <2>6 DEF WorkflowInv
  <1> QED BY <1>1, <1>2, PTL DEF Spec

LEMMA InCalls ==
    ASSUME NEW r, NEW c \in Calls(r)
    PROVE  \E l \in DOMAIN run[r].lanes : \E v \in DOMAIN run[r].lanes[l].votes : c = <<l, v>>
  BY DEF Calls

\* Every variable holds what it may: the statuses and places of runs, calls, records and
\* lines, free slots between none and all of them, and no more routes than the limit.
THEOREM TypesHold ==
    Spec => []TypeOK
  <1>1. WorkflowInv => TypeOK
    <2> SUFFICES ASSUME WorkflowInv
                 PROVE  TypeOK
      OBVIOUS
    <2>1. ASSUME NEW r \in Runs
          PROVE  /\ run[r].status \in {"idle", "running", "done", "cancelled", "failed", "dead"}
                 /\ run[r].at \in {"phase", "lanes", "human"}
                 /\ run[r].free \in 0..Width /\ run[r].started \in Nat /\ run[r].jumps \in 0..MaxJumps
                 /\ \A id \in DOMAIN run[r].records : run[r].records[id] \in Seq(Statuses) \ {<<>>}
                 /\ \A k \in DOMAIN journal[r] : journal[r][k].status \in {"done", "failed", "cancelled"}
                 /\ \A x \in answers[r] : x[2] \in Answers
      BY DEF WorkflowInv, RunInv, Typed, SaidInv, Logged, Real, Done
    <2>2. ASSUME NEW r \in Runs, NEW c \in Calls(r)
          PROVE  /\ run[r].lanes[c[1]].votes[c[2]].at \in {"new", "local", "gate", "tree", "live", "end"}
                 /\ run[r].lanes[c[1]].votes[c[2]].value \in Values \cup Errors \cup {None}
      <3>1. PICK l \in DOMAIN run[r].lanes : \E v \in DOMAIN run[r].lanes[l].votes : c = <<l, v>>
        BY InCalls
      <3>2. LaneOK(run[r].phase, l, run[r].lanes[l])
        BY <3>1 DEF WorkflowInv, RunInv, Laid
      <3> QED BY <3>1, <3>2, LaneShape DEF Places
    <2>3. gate \in 0..GateWidth /\ tree \in BOOLEAN
      <3>1. Cardinality(Holders) \in Nat /\ GateWidth \in Nat
        BY FS_CardinalityType, WorkflowBounds DEF WorkflowInv, GateInv
      <3> QED BY <3>1 DEF WorkflowInv, GateInv
    <2> QED BY <2>1, <2>2, <2>3 DEF TypeOK
  <1> QED BY <1>1, WorkflowKept, PTL

\* A cancel loses no agent: one that waited is recorded as skipped, one that worked has the
\* record of its start, and whoever has neither met the cap (Exec::dispatch).
THEOREM CancelAccounts ==
    Spec => []CancelAccountsForAll
  <1>1. WorkflowInv => CancelAccountsForAll
    <2> SUFFICES ASSUME WorkflowInv, NEW r \in Runs, run[r].status = "cancelled", run[r].at = "lanes",
                        NEW c \in Calls(r), run[r].lanes[c[1]].votes[c[2]].value # "cap"
                 PROVE  AgentId(run[r], c[1], c[2]) \in DOMAIN run[r].records
      BY DEF CancelAccountsForAll
    <2>1. PICK l \in DOMAIN run[r].lanes : \E v \in DOMAIN run[r].lanes[l].votes : c = <<l, v>>
      BY InCalls
    <2>2. PICK v \in DOMAIN run[r].lanes[l].votes : c = <<l, v>>
      BY <2>1
    <2>3. run[r].lanes[l].votes[v].at \in Places
      BY DEF WorkflowInv, RunInv, Laid, LaneOK
    <2>4. CallsAt(run[r], Places \ {"end"}) = {}
      BY DEF WorkflowInv, RunInv, Settled
    <2>5. run[r].lanes[l].votes[v].at = "end"
      <3>1. <<l, v>> \notin CallsAt(run[r], Places \ {"end"})
        BY <2>4
      <3>2. run[r].lanes[l].votes[v].at \notin Places \ {"end"}
        BY <3>1, InCallsAt
      <3> QED BY <2>3, <3>2
    <2> QED BY <2>2, <2>5 DEF WorkflowInv, RunInv, Recorded
  <1> QED BY <1>1, WorkflowKept, PTL

\* What a call ends with is an answer to its own question, given now or in an earlier run
\* of which the journal kept the line (journal.rs:4-9).
THEOREM AnswersMatch ==
    Spec => []AnswersMatchQuestions
  <1>1. WorkflowInv => AnswersMatchQuestions
    <2> SUFFICES ASSUME WorkflowInv, NEW r \in Runs, run[r].status = "running", NEW c \in Calls(r),
                        run[r].lanes[c[1]].votes[c[2]].at = "end",
                        run[r].lanes[c[1]].votes[c[2]].value \in Answers
                 PROVE  <<Question(run[r], c[1]), run[r].lanes[c[1]].votes[c[2]].value>> \in answers[r]
      BY DEF AnswersMatchQuestions, Running
    <2>1. PICK l \in DOMAIN run[r].lanes : \E v \in DOMAIN run[r].lanes[l].votes : c = <<l, v>>
      BY InCalls
    <2> QED BY <2>1 DEF WorkflowInv, SaidInv, Said
  <1> QED BY <1>1, WorkflowKept, PTL

\* A run starts at most max_agents agents, those it replays included, and a run that is
\* done never met the cap: the call that did ends its lane, and so its phase, with an error.
THEOREM CapHolds ==
    Spec => []CapIsAnError
  <1>1. WorkflowInv => CapIsAnError
    BY DEF WorkflowInv, RunInv, CapInv, CapCount, CapMet, Counted, CapIsAnError
  <1> QED BY <1>1, WorkflowKept, PTL

\* A cancelled run puts no call to work, whatever place the call has come to: the waits for
\* a run slot and for the gate look at the cancel when they end.
THEOREM NothingStarts ==
    Spec => CancelStartsNothing
  <1>1. WorkflowInv /\ [Next]_vars =>
            [\A r \in Runs : run[r].cancelled /\ Running(r) /\ Running(r)' =>
                Cardinality(Holds(r)') <= Cardinality(Holds(r))]_vars
    <2> SUFFICES ASSUME WorkflowInv, [Next]_vars, NEW r \in Runs, run[r].cancelled,
                        run[r].status = "running", run'[r].status = "running"
                 PROVE  Cardinality(Holds(r)') <= Cardinality(Holds(r))
      BY DEF Running
    <2> DEFINE old == CallsAt(run[r], Working)
               new == CallsAt(run'[r], Working)
    <2>1. WellFormed /\ Typed(run[r]) /\ Laid(run[r]) /\ SlotsOf(run[r])
      BY DEF WorkflowInv, RunInv, WellFormed
    <2>2. run'[r] = run[r] \/ RunStep(run[r], run'[r])
      BY <2>1, EachRun
    <2>3. new \subseteq old
      BY <2>1, <2>2, CancelledWork
    <2>4. IsFiniteSet(old)
      BY <2>1, WorkFinite
    <2>5. Holds(r) = old
      BY HoldsAre
    <2>6. Holds(r)' = new
      <3>1. Calls(r)' = UNION {{l} \X DOMAIN run'[r].lanes[l].votes : l \in DOMAIN run'[r].lanes}
        BY DEF Calls
      <3>2. \A x : x \in Calls(r)' <=>
                \E l \in DOMAIN run'[r].lanes : \E v \in DOMAIN run'[r].lanes[l].votes : x = <<l, v>>
        BY <3>1
      <3>3. \A x : x \in Holds(r)' <=> x \in Calls(r)' /\ run'[r].lanes[x[1]].votes[x[2]].at \in Working
        BY DEF Holds, Working
      <3>4. \A x : x \in Holds(r)' <=> x \in new
        BY <3>2, <3>3, InCallsAt
      <3> QED BY <3>4
    <2> HIDE DEF old, new
    <2>7. Cardinality(new) <= Cardinality(old)
      BY <2>3, <2>4, FS_Subset
    <2> QED BY <2>5, <2>6, <2>7
  <1> QED BY <1>1, WorkflowKept, PTL DEF Spec, CancelStartsNothing

-----------------------------------------------------------------------------
(* A run whose plan names each of its calls once ends with no record of an *)
(* agent at work.  A record is found again by its id alone                 *)
(* (RunSummary::settle), so this needs that no two calls of a run share an *)
(* id.  The plan can break that in two ways, and NamesOnce says that it    *)
(* does neither: a label that two lanes of a phase share, and a route back *)
(* to a phase that made calls.  Then the id of a call that has not started *)
(* is in no record (Fresh), the record a call makes is the only one of its *)
(* id, and it says "running" exactly as long as the call works (Shown).    *)

\* Lanes that no position tells apart have labels of their own, and a person's answer or
\* silence leads to the same question or onwards.
NamesOnce ==
    \A p \in DOMAIN Phases :
        /\ Phases[p].shape # "each" =>
              \A l, k \in DOMAIN Phases[p].lanes : l # k =>
                  \A s \in DOMAIN Stages(p, l), t \in DOMAIN Stages(p, k) :
                      Stages(p, l)[s].label # Stages(p, k)[t].label
        /\ \A target \in Phases[p].next \cup {Phases[p].timeout} : target = 0 \/ target >= p

\* The id of vote v of a stage, in a round of the phase.
IdAt(p, round, l, s, v) ==
    <<p, Stages(p, l)[s].label,
      CASE Phases[p].shape = "quiet" -> round [] Phases[p].shape = "each" -> l [] OTHER -> 0,
      IF Len(Stages(p, l)) > 1 THEN s ELSE 0,
      IF Stages(p, l)[s].votes > 1 THEN v ELSE 0>>

\* The id of a call that a run of the phase has come to: in an earlier round, in an earlier
\* stage of its lane, or past its start.
Past(R, id) ==
    \E l \in DOMAIN R.lanes : \E s \in DOMAIN Stages(R.phase, l) :
    \E v \in 1..Stages(R.phase, l)[s].votes : \E round \in 0..R.round :
        /\ id = IdAt(R.phase, round, l, s, v)
        /\ round = R.round \/ Shape(R) = "quiet"
        /\ round = R.round =>
              \/ s < R.lanes[l].stage
              \/ s = R.lanes[l].stage /\ R.lanes[l].votes[v].at \in Working \cup {"end"}

\* Every record is alone under its id, and its id is that of a call of an earlier phase or of
\* one that this phase has come to.
Fresh(R) ==
    /\ \A id \in DOMAIN R.records : DOMAIN R.records[id] = {1}
    /\ R.status = "running" =>
          /\ \A id \in DOMAIN R.records : id[1] \in Nat /\ id[1] <= R.phase
          /\ R.at # "lanes" => \A id \in DOMAIN R.records : id[1] # R.phase
          /\ R.at = "lanes" => \A id \in DOMAIN R.records : id[1] = R.phase => Past(R, id)

\* A record that shows an agent at work is that of a call that works.
Shown(R) ==
    R.status # "dead" =>
        \A id \in DOMAIN R.records : R.records[id][1] = "running" =>
            \E c \in CallsAt(R, Working) : id = AgentId(R, c[1], c[2])

LEMMA IdIs ==
    ASSUME NEW R, NEW l, NEW v
    PROVE  AgentId(R, l, v) = IdAt(R.phase, R.round, l, R.lanes[l].stage, v)
  BY DEF AgentId, IdAt, Call, Shape

\* An id is that of one call.
LEMMA IdOnce ==
    ASSUME NamesOnce, NEW p \in DOMAIN Phases,
           NEW l \in DOMAIN Phases[p].lanes, NEW k \in DOMAIN Phases[p].lanes,
           NEW s \in DOMAIN Stages(p, l), NEW t \in DOMAIN Stages(p, k),
           NEW v \in 1..Stages(p, l)[s].votes, NEW w \in 1..Stages(p, k)[t].votes,
           NEW n, NEW m, IdAt(p, n, l, s, v) = IdAt(p, m, k, t, w)
    PROVE  l = k /\ s = t /\ v = w /\ (Phases[p].shape = "quiet" => n = m)
  <1>1. /\ Stages(p, l)[s].label = Stages(p, k)[t].label
        /\ (CASE Phases[p].shape = "quiet" -> n [] Phases[p].shape = "each" -> l [] OTHER -> 0)
           = (CASE Phases[p].shape = "quiet" -> m [] Phases[p].shape = "each" -> k [] OTHER -> 0)
        /\ (IF Len(Stages(p, l)) > 1 THEN s ELSE 0) = (IF Len(Stages(p, k)) > 1 THEN t ELSE 0)
        /\ (IF Stages(p, l)[s].votes > 1 THEN v ELSE 0) = (IF Stages(p, k)[t].votes > 1 THEN w ELSE 0)
    BY DEF IdAt
  <1>2. l = k
    BY <1>1 DEF NamesOnce
  <1>3. Len(Stages(p, l)) \in Nat \ {0} /\ DOMAIN Stages(p, l) = 1..Len(Stages(p, l))
        /\ Stages(p, l)[s].votes \in Nat \ {0}
    BY PlanOf
  <1>4. s = t
    BY <1>1, <1>2, <1>3
  <1>5. v = w
    BY <1>1, <1>2, <1>3, <1>4
  <1> QED BY <1>1, <1>2, <1>4, <1>5

\* What a run has come to it does not come back from while the phase lasts.
LEMMA PastStays ==
    ASSUME NEW R, NEW S, NEW l, NEW v, NEW to, NEW value, IsCall(R, l, v),
           Moves(R, S, l, v, to, value),
           R.lanes[l].votes[v].at \in Working => to \in Working \cup {"end"},
           NEW id, Past(R, id)
    PROVE  Past(S, id)
  <1>1. /\ S.phase = R.phase /\ S.round = R.round /\ DOMAIN S.lanes = DOMAIN R.lanes
        /\ \A j \in DOMAIN R.lanes \ {l} : S.lanes[j] = R.lanes[j]
    BY DEF Moves, Only, OnLane, IsCall, Fields
  <1>2. PICK k \in DOMAIN R.lanes : \E s \in DOMAIN Stages(R.phase, k) :
            \E w \in 1..Stages(R.phase, k)[s].votes : \E round \in 0..R.round :
                /\ id = IdAt(R.phase, round, k, s, w)
                /\ round = R.round \/ Shape(R) = "quiet"
                /\ round = R.round =>
                      \/ s < R.lanes[k].stage
                      \/ s = R.lanes[k].stage /\ R.lanes[k].votes[w].at \in Working \cup {"end"}
    BY DEF Past
  <1>3. PICK s \in DOMAIN Stages(R.phase, k) :
            \E w \in 1..Stages(R.phase, k)[s].votes : \E round \in 0..R.round :
                /\ id = IdAt(R.phase, round, k, s, w)
                /\ round = R.round \/ Shape(R) = "quiet"
                /\ round = R.round =>
                      \/ s < R.lanes[k].stage
                      \/ s = R.lanes[k].stage /\ R.lanes[k].votes[w].at \in Working \cup {"end"}
    BY <1>2
  <1>4. PICK w \in 1..Stages(R.phase, k)[s].votes, round \in 0..R.round :
                /\ id = IdAt(R.phase, round, k, s, w)
                /\ round = R.round \/ Shape(R) = "quiet"
                /\ round = R.round =>
                      \/ s < R.lanes[k].stage
                      \/ s = R.lanes[k].stage /\ R.lanes[k].votes[w].at \in Working \cup {"end"}
    BY <1>3
  <1>5. Shape(S) = Shape(R)
    BY <1>1 DEF Shape
  <1>6. round = R.round =>
            \/ s < S.lanes[k].stage
            \/ s = S.lanes[k].stage /\ S.lanes[k].votes[w].at \in Working \cup {"end"}
    <2>1. CASE k # l
      BY <1>1, <1>4, <2>1
    <2>2. k = l /\ s = R.lanes[l].stage => w \in DOMAIN R.lanes[l].votes
      BY <1>4 DEF IsCall, LaneOK
    <2>3. round = R.round =>
              \/ s < R.lanes[k].stage
              \/ s = R.lanes[k].stage /\ R.lanes[k].votes[w].at \in Working \cup {"end"}
      BY <1>4
    <2>4. ASSUME S.lanes[l].stage = R.lanes[l].stage, S.lanes[l].votes[v].at = to,
                 \A x \in DOMAIN R.lanes[l].votes \ {v} : S.lanes[l].votes[x] = R.lanes[l].votes[x],
                 k = l
          PROVE  round = R.round =>
                    \/ s < S.lanes[k].stage
                    \/ s = S.lanes[k].stage /\ S.lanes[k].votes[w].at \in Working \cup {"end"}
      <3>1. R.lanes[l].votes[v].at = "end" => to \in Working \cup {"end"}
        BY DEF IsCall
      <3>2. CASE w = v
        BY <2>3, <2>4, <3>1, <3>2
      <3>3. CASE w # v
        BY <2>2, <2>3, <2>4, <3>3
      <3> QED BY <3>2, <3>3
    <2>5. CASE k = l /\ to # "end" /\ Goes(R.lanes[l], S.lanes[l], v, to)
      <3>1. S.lanes[l].votes[v].at = to
        BY <2>5 DEF Goes
      <3> QED BY <2>5, <2>4, <3>1 DEF Goes
    <2>6. CASE k = l /\ to = "end" /\ Closes(R.lanes[l], S.lanes[l], v, value)
      <3>1. S.lanes[l].votes[v].at = to
        BY <2>6 DEF Closes
      <3> QED BY <2>6, <2>4, <3>1 DEF Closes
    <2>7. CASE k = l /\ Advances(R.phase, l, R.lanes[l], S.lanes[l], v, value)
      <3>1. S.lanes[l].stage = R.lanes[l].stage + 1
        BY <2>7, FreshLane DEF Advances, IsCall
      <3>2. R.lanes[l].stage \in Nat /\ s \in Nat
        <4>1. /\ R.lanes[l].stage \in DOMAIN Stages(R.phase, l)
              /\ R.phase \in DOMAIN Phases /\ l \in DOMAIN Phases[R.phase].lanes
          BY LaneShape DEF IsCall
        <4>2. \A i \in DOMAIN Stages(R.phase, l) : i \in Nat
          BY <4>1, PlanOf
        <4> QED BY <2>7, <4>1, <4>2
      <3> QED BY <1>4, <2>7, <3>1, <3>2
    <2> QED BY <2>1, <2>5, <2>6, <2>7 DEF Moves
  <1> QED BY <1>1, <1>4, <1>5, <1>6 DEF Past

\* A call that goes to work or ends is past its start.
LEMMA MovedPast ==
    ASSUME NEW R, NEW S, NEW l, NEW v, NEW to \in Working \cup {"end"}, NEW value, IsCall(R, l, v),
           Moves(R, S, l, v, to, value), R.round \in Nat
    PROVE  Past(S, AgentId(R, l, v))
  <1>1. S.phase = R.phase /\ S.round = R.round /\ DOMAIN S.lanes = DOMAIN R.lanes
    BY DEF Moves, Only, OnLane, IsCall, Fields
  <1>2. AgentId(R, l, v) = IdAt(R.phase, R.round, l, R.lanes[l].stage, v)
    BY IdIs
  <1>3. /\ l \in DOMAIN R.lanes /\ R.lanes[l].stage \in DOMAIN Stages(R.phase, l)
        /\ v \in 1..Stages(R.phase, l)[R.lanes[l].stage].votes
        /\ v \in DOMAIN R.lanes[l].votes
    BY DEF IsCall, LaneOK
  <1>4. \/ R.lanes[l].stage < S.lanes[l].stage
        \/ R.lanes[l].stage = S.lanes[l].stage /\ S.lanes[l].votes[v].at \in Working \cup {"end"}
    <2>1. CASE Advances(R.phase, l, R.lanes[l], S.lanes[l], v, value)
      <3>1. S.lanes[l].stage = R.lanes[l].stage + 1
        BY <2>1, FreshLane DEF Advances, IsCall
      <3>2. R.lanes[l].stage \in Nat
        BY <1>3, PlanOf DEF IsCall
      <3> QED BY <3>1, <3>2
    <2>2. CASE Goes(R.lanes[l], S.lanes[l], v, to)
      BY <2>2 DEF Goes
    <2>3. CASE Closes(R.lanes[l], S.lanes[l], v, value)
      <3>1. S.lanes[l].stage = R.lanes[l].stage /\ S.lanes[l].votes[v].at = "end"
        BY <2>3 DEF Closes
      <3> QED BY <3>1
    <2> QED BY <2>1, <2>2, <2>3 DEF Moves
  <1> QED BY <1>1, <1>2, <1>3, <1>4 DEF Past

\* The id of a call that has not started is in no record.
LEMMA NotYet ==
    ASSUME NamesOnce, NEW R, NEW l, NEW v, IsCall(R, l, v), Typed(R), Laid(R), Fresh(R),
           R.status = "running", R.at = "lanes",
           R.lanes[l].votes[v].at \notin Working
    PROVE  AgentId(R, l, v) \notin DOMAIN R.records
  <1> SUFFICES ASSUME AgentId(R, l, v) \in DOMAIN R.records
               PROVE  FALSE
    OBVIOUS
  <1>1. AgentId(R, l, v)[1] = R.phase
    BY DEF AgentId
  <1>2. Past(R, AgentId(R, l, v))
    BY <1>1 DEF Fresh
  <1>3. PICK k \in DOMAIN R.lanes : \E s \in DOMAIN Stages(R.phase, k) :
            \E w \in 1..Stages(R.phase, k)[s].votes : \E round \in 0..R.round :
                /\ AgentId(R, l, v) = IdAt(R.phase, round, k, s, w)
                /\ round = R.round \/ Shape(R) = "quiet"
                /\ round = R.round =>
                      \/ s < R.lanes[k].stage
                      \/ s = R.lanes[k].stage /\ R.lanes[k].votes[w].at \in Working \cup {"end"}
    BY <1>2 DEF Past
  <1>4. PICK s \in DOMAIN Stages(R.phase, k) :
            \E w \in 1..Stages(R.phase, k)[s].votes : \E round \in 0..R.round :
                /\ AgentId(R, l, v) = IdAt(R.phase, round, k, s, w)
                /\ round = R.round \/ Shape(R) = "quiet"
                /\ round = R.round =>
                      \/ s < R.lanes[k].stage
                      \/ s = R.lanes[k].stage /\ R.lanes[k].votes[w].at \in Working \cup {"end"}
    BY <1>3
  <1>5. PICK w \in 1..Stages(R.phase, k)[s].votes, round \in 0..R.round :
                /\ AgentId(R, l, v) = IdAt(R.phase, round, k, s, w)
                /\ round = R.round \/ Shape(R) = "quiet"
                /\ round = R.round =>
                      \/ s < R.lanes[k].stage
                      \/ s = R.lanes[k].stage /\ R.lanes[k].votes[w].at \in Working \cup {"end"}
    BY <1>4
  <1>6. AgentId(R, l, v) = IdAt(R.phase, R.round, l, R.lanes[l].stage, v)
    BY IdIs
  <1>7. /\ R.phase \in DOMAIN Phases /\ l \in DOMAIN Phases[R.phase].lanes
        /\ R.lanes[l].stage \in DOMAIN Stages(R.phase, l)
        /\ v \in 1..Stages(R.phase, l)[R.lanes[l].stage].votes
        /\ R.lanes[l].votes[v].at \notin {"end"}
    BY DEF IsCall, LaneOK
  <1>8. k \in DOMAIN Phases[R.phase].lanes
    BY DEF Laid
  <1>9. l = k /\ R.lanes[l].stage = s /\ v = w /\ (Phases[R.phase].shape = "quiet" => R.round = round)
    <2> DEFINE p == R.phase
               t == R.lanes[l].stage
               n == R.round
    <2>1. IdAt(p, n, l, t, v) = IdAt(p, round, k, s, w)
      BY <1>5, <1>6
    <2>2. /\ p \in DOMAIN Phases /\ l \in DOMAIN Phases[p].lanes /\ k \in DOMAIN Phases[p].lanes
          /\ t \in DOMAIN Stages(p, l) /\ s \in DOMAIN Stages(p, k)
          /\ v \in 1..Stages(p, l)[t].votes /\ w \in 1..Stages(p, k)[s].votes
      BY <1>7, <1>8
    <2> HIDE DEF p, t, n
    <2>3. l = k /\ t = s /\ v = w /\ (Phases[p].shape = "quiet" => n = round)
      BY <2>1, <2>2, IdOnce
    <2> QED BY <2>3 DEF p, t, n
  <1>10. R.lanes[l].stage \in Nat /\ round = R.round
    BY <1>5, <1>7, <1>9, PlanOf DEF Shape
  <1> QED BY <1>5, <1>7, <1>9, <1>10

LEMMA CallFresh ==
    ASSUME NamesOnce, NEW R, NEW S, NEW l, NEW v, IsCall(R, l, v), CallStep(R, S, l, v),
           Typed(R), Laid(R), Recorded(R), CachedOK(R), Fresh(R), R.status = "running", R.at = "lanes"
    PROVE  Fresh(S)
  <1> DEFINE id == AgentId(R, l, v)
  <1>1. S.status = "running" /\ S.at = "lanes" /\ S.phase = R.phase
    BY CallLaid
  <1>2. R.round \in Nat /\ \A x \in DOMAIN R.records : DOMAIN R.records[x] = {1}
    BY DEF Typed, Fresh
  <1>3. \A x \in DOMAIN R.records : x[1] \in Nat /\ x[1] <= R.phase /\ (x[1] = R.phase => Past(R, x))
    BY DEF Fresh
  <1>4. id[1] = R.phase /\ R.phase \in Nat
    BY DEF AgentId, Typed
  <1>5. ASSUME NEW to, NEW value, Moves(R, S, l, v, to, value),
               R.lanes[l].votes[v].at \in Working => to \in Working \cup {"end"}
        PROVE  \A x : Past(R, x) => Past(S, x)
    BY <1>5, PastStays
  <1>6. \A x : Past(R, x) => Past(S, x)
    <2>1. CASE \E value \in Answers \cup {"null"}, status \in {"done", "cancelled", "failed"} :
                    Replies(R, S, l, v, value, status)
      BY <1>5, <2>1 DEF Replies
    <2> QED BY <1>5, <2>1 DEF CallStep, Skips, MeetsCap, Begins, TakesSlot, Replays, Launches, Locks,
                              Working
  <1> HIDE DEF id
  <1>7. ASSUME S.records = R.records
        PROVE  Fresh(S)
    BY <1>1, <1>2, <1>3, <1>6, <1>7 DEF Fresh
  <1>8. ASSUME NEW status, Adds(R, S, id, status), id \notin DOMAIN R.records, Past(S, id)
        PROVE  Fresh(S)
    <2>1. /\ DOMAIN S.records = {id} \cup DOMAIN R.records /\ S.records[id] = Append(<<>>, status)
          /\ \A x \in DOMAIN R.records : S.records[x] = R.records[x]
      BY <1>8 DEF Adds, RecordsOf
    <2>2. \A x \in DOMAIN S.records : DOMAIN S.records[x] = {1}
      BY <1>2, <2>1
    <2> QED BY <1>1, <1>3, <1>4, <1>6, <1>8, <2>1, <2>2 DEF Fresh
  <1>9. ASSUME NEW status, Sets(R, S, id, status), id \in DOMAIN R.records
        PROVE  Fresh(S)
    <2>1. /\ DOMAIN S.records = DOMAIN R.records
          /\ S.records[id] = [R.records[id] EXCEPT ![1] = status]
          /\ \A x \in DOMAIN R.records \ {id} : S.records[x] = R.records[x]
      BY <1>9 DEF Sets
    <2>2. \A x \in DOMAIN S.records : DOMAIN S.records[x] = {1}
      BY <1>2, <2>1
    <2> QED BY <1>1, <1>3, <1>6, <2>1, <2>2 DEF Fresh
  <1>10. R.lanes[l].votes[v].at \notin Working => id \notin DOMAIN R.records
    BY NotYet DEF id
  <1>11. ASSUME NEW to \in Working \cup {"end"}, NEW value, Moves(R, S, l, v, to, value)
         PROVE  Past(S, id)
    BY <1>2, <1>11, MovedPast DEF id
  <1>12. CASE Skips(R, S, l, v)
    BY <1>8, <1>10, <1>11, <1>12 DEF Skips, Working, id
  <1>13. CASE Replays(R, S, l, v)
    BY <1>8, <1>10, <1>11, <1>13 DEF Replays, Working, id
  <1>14. CASE Launches(R, S, l, v)
    BY <1>8, <1>10, <1>11, <1>14 DEF Launches, Working, id
  <1>15. CASE \E value \in Answers \cup {"null"}, status \in {"done", "cancelled", "failed"} :
                   Replies(R, S, l, v, value, status)
    BY <1>9, <1>15, WorkRecorded DEF Replies, id
  <1> QED BY <1>7, <1>12, <1>13, <1>14, <1>15 DEF CallStep, MeetsCap, Begins, TakesSlot, Locks

\* Another call that works keeps working, under its id.
LEMMA OthersWork ==
    ASSUME NEW R, NEW S, NEW l, NEW v, NEW to, to # "new", NEW value, IsCall(R, l, v),
           Moves(R, S, l, v, to, value), NEW c \in CallsAt(R, Working),
           c # <<l, v>> \/ to \in Working
    PROVE  c \in CallsAt(S, Working) /\ AgentId(S, c[1], c[2]) = AgentId(R, c[1], c[2])
  <1>1. c \in CallsAt(S, Working)
    BY MovesAt DEF Working
  <1>2. PICK k \in DOMAIN S.lanes : \E w \in DOMAIN S.lanes[k].votes :
            c = <<k, w>> /\ S.lanes[k].votes[w].at \in Working
    BY <1>1, InCallsAt
  <1>3. PICK w \in DOMAIN S.lanes[k].votes : c = <<k, w>> /\ S.lanes[k].votes[w].at \in Working
    BY <1>2
  <1>4. AgentId(S, k, w) = AgentId(R, k, w)
    BY <1>3, MovesCalls DEF Working
  <1> QED BY <1>1, <1>3, <1>4

LEMMA CallShown ==
    ASSUME NamesOnce, NEW R, NEW S, NEW l, NEW v, IsCall(R, l, v), CallStep(R, S, l, v),
           Typed(R), Laid(R), Recorded(R), CachedOK(R), Fresh(R), Shown(R),
           R.status = "running", R.at = "lanes"
    PROVE  Shown(S)
  <1> DEFINE id == AgentId(R, l, v)
             Owner(X, x) == \E c \in CallsAt(X, Working) : x = AgentId(X, c[1], c[2])
  <1>1. \A x \in DOMAIN R.records : R.records[x][1] = "running" => Owner(R, x)
    BY DEF Shown
  <1>2. ASSUME NEW to, to # "new", NEW value, Moves(R, S, l, v, to, value), NEW x, Owner(R, x),
               x # id \/ to \in Working
        PROVE  Owner(S, x)
    <2>1. PICK c \in CallsAt(R, Working) : x = AgentId(R, c[1], c[2])
      BY <1>2
    <2>2. c # <<l, v>> \/ to \in Working
      BY <1>2, <2>1
    <2>3. c \in CallsAt(S, Working) /\ AgentId(S, c[1], c[2]) = AgentId(R, c[1], c[2])
      BY <1>2, <2>2, OthersWork
    <2> QED BY <2>1, <2>3
  <1>3. R.lanes[l].votes[v].at \notin Working => id \notin DOMAIN R.records
    BY NotYet
  <1>4. \A x \in DOMAIN R.records : R.records[x] \in Seq(Statuses)
    BY DEF Typed
  <1>5. ASSUME NEW status, Adds(R, S, id, status), id \notin DOMAIN R.records
        PROVE  /\ DOMAIN S.records = {id} \cup DOMAIN R.records /\ S.records[id][1] = status
               /\ \A x \in DOMAIN R.records : x # id /\ S.records[x] = R.records[x]
    BY <1>5 DEF Adds, RecordsOf
  <1>6. ASSUME NEW status \in {"done", "cancelled", "failed"}, Sets(R, S, id, status),
               id \in DOMAIN R.records
        PROVE  /\ DOMAIN S.records = DOMAIN R.records /\ S.records[id][1] = status
               /\ \A x \in DOMAIN R.records \ {id} : S.records[x] = R.records[x]
    <2>1. R.records[id] \in Seq(Statuses) \ {<<>>} /\ S.records[id] = [R.records[id] EXCEPT ![1] = status]
      BY <1>6 DEF Typed, Sets
    <2> QED BY <1>6, <2>1 DEF Sets
  <1> HIDE DEF id, Owner
  <1>7. CASE \E value \in Answers \cup {"null"}, status \in {"done", "cancelled", "failed"} :
                  Replies(R, S, l, v, value, status)
    <2>1. PICK value \in Answers \cup {"null"}, status \in {"done", "cancelled", "failed"} :
              Replies(R, S, l, v, value, status)
      BY <1>7
    <2>2. /\ DOMAIN S.records = DOMAIN R.records /\ S.records[id][1] = status
          /\ \A x \in DOMAIN R.records \ {id} : S.records[x] = R.records[x]
      BY <1>6, <2>1, WorkRecorded DEF Replies, id
    <2>3. \A x : x # id /\ Owner(R, x) => Owner(S, x)
      BY <1>2, <2>1 DEF Replies
    <2>4. \A x \in DOMAIN S.records : S.records[x][1] = "running" => Owner(S, x)
      BY <1>1, <2>2, <2>3
    <2> QED BY <2>4 DEF Shown, Owner
  <1>8. CASE Launches(R, S, l, v)
    <2>1. PICK to \in Working : Moves(R, S, l, v, to, None)
      BY <1>8 DEF Launches
    <2>2. /\ DOMAIN S.records = {id} \cup DOMAIN R.records
          /\ \A x \in DOMAIN R.records : x # id /\ S.records[x] = R.records[x]
      BY <1>3, <1>5, <1>8 DEF Launches, Working, id
    <2>3. \A x : Owner(R, x) => Owner(S, x)
      BY <1>2, <2>1 DEF Working
    <2>4. Owner(S, id)
      <3>1. <<l, v>> \in CallsAt(S, Working)
        BY <2>1, MovesAt DEF Working
      <3>2. PICK k \in DOMAIN S.lanes : \E w \in DOMAIN S.lanes[k].votes :
                <<l, v>> = <<k, w>> /\ S.lanes[k].votes[w].at \in Working
        BY <3>1, InCallsAt
      <3>3. l \in DOMAIN S.lanes /\ v \in DOMAIN S.lanes[l].votes /\ S.lanes[l].votes[v].at \in Working
        BY <3>2
      <3>4. AgentId(S, l, v) = id
        BY <2>1, <3>3, MovesCalls DEF Working, id
      <3> QED BY <3>1, <3>4 DEF Owner
    <2>5. \A x \in DOMAIN S.records : S.records[x][1] = "running" => Owner(S, x)
      BY <1>1, <2>2, <2>3, <2>4
    <2> QED BY <2>5 DEF Shown, Owner
  <1>9. CASE Skips(R, S, l, v) \/ Replays(R, S, l, v)
    <2>1. \E value : Moves(R, S, l, v, "end", value)
      BY <1>9 DEF Skips, Replays
    <2>2. \E status \in {"skipped", "done"} :
              /\ DOMAIN S.records = {id} \cup DOMAIN R.records /\ S.records[id][1] = status
              /\ \A x \in DOMAIN R.records : x # id /\ S.records[x] = R.records[x]
      BY <1>3, <1>5, <1>9 DEF Skips, Replays, Working, id
    <2>3. \A x : x # id /\ Owner(R, x) => Owner(S, x)
      BY <1>2, <2>1
    <2>4. \A x \in DOMAIN S.records : S.records[x][1] = "running" => Owner(S, x)
      BY <1>1, <2>2, <2>3
    <2> QED BY <2>4 DEF Shown, Owner
  <1>10. CASE MeetsCap(R, S, l, v) \/ Begins(R, S, l, v) \/ TakesSlot(R, S, l, v)
    <2>1. \E to \in {"end", "local", "gate"} : \E value : Moves(R, S, l, v, to, value)
      BY <1>10 DEF MeetsCap, Begins, TakesSlot
    <2>2. S.records = R.records /\ id \notin DOMAIN R.records
      BY <1>3, <1>10 DEF MeetsCap, Begins, TakesSlot, Working
    <2>3. \A x : x # id /\ Owner(R, x) => Owner(S, x)
      BY <1>2, <2>1
    <2>4. \A x \in DOMAIN S.records : S.records[x][1] = "running" => Owner(S, x)
      BY <1>1, <2>2, <2>3
    <2> QED BY <2>4 DEF Shown, Owner
  <1>11. CASE Locks(R, S, l, v)
    <2>1. \A x : Owner(R, x) => Owner(S, x)
      BY <1>2, <1>11 DEF Locks, Working
    <2>2. \A x \in DOMAIN S.records : S.records[x][1] = "running" => Owner(S, x)
      BY <1>1, <1>11, <2>1 DEF Locks
    <2> QED BY <2>2 DEF Shown, Owner
  <1> QED BY <1>7, <1>8, <1>9, <1>10, <1>11 DEF CallStep

\* Between its calls a run keeps what it has come to, and new calls have new ids.
LEMMA PastSame ==
    ASSUME NEW R, NEW S, S.phase = R.phase, S.round = R.round, S.lanes = R.lanes
    PROVE  \A id : Past(R, id) => Past(S, id)
  BY DEF Past, Shape

LEMMA PastRound ==
    ASSUME NEW R, NEW S, Typed(R), Laid(R), R.status = "running", R.at = "lanes", Enters(R, S),
           NEW id, Past(R, id)
    PROVE  Past(S, id)
  <1>1. /\ S.phase = R.phase /\ S.round = R.round + 1 /\ DOMAIN S.lanes = DOMAIN R.lanes
        /\ Shape(S) = "quiet" /\ R.round \in Nat
    BY FreshLanes DEF Enters, Only, Typed, Fields, Shape, Laid
  <1>2. \E l \in DOMAIN R.lanes : \E s \in DOMAIN Stages(R.phase, l) :
        \E v \in 1..Stages(R.phase, l)[s].votes : \E round \in 0..R.round :
            id = IdAt(R.phase, round, l, s, v)
    BY DEF Past
  <1>3. \A round \in 0..R.round : round \in 0..S.round /\ round # S.round
    BY <1>1
  <1> QED BY <1>1, <1>2, <1>3 DEF Past

LEMMA TurnFresh ==
    ASSUME NamesOnce, NEW R, NEW S, Turns(R, S) \/ Cancels(R, S), R.status = "running",
           Typed(R), Typed(S), Laid(R), Fresh(R)
    PROVE  Fresh(S)
  <1>1. /\ S.records = R.records /\ R.phase \in Nat /\ S.phase \in Nat
        /\ \A id \in DOMAIN R.records : DOMAIN R.records[id] = {1}
        /\ \A id \in DOMAIN R.records : id[1] \in Nat /\ id[1] <= R.phase
        /\ R.at # "lanes" => \A id \in DOMAIN R.records : id[1] # R.phase
        /\ R.at = "lanes" => \A id \in DOMAIN R.records : id[1] = R.phase => Past(R, id)
    BY DEF Turns, Stops, Leaves, Enters, Asks, Cancels, Only, Typed, Fields, Fresh
  <1>2. CASE Stops(R, S)
    BY <1>1, <1>2 DEF Stops, Done, Fresh
  <1>3. CASE Leaves(R, S)
    <2>1. \/ S.phase = R.phase + 1
          \/ R.at = "human" /\ S.phase # 0 /\ R.phase \in DOMAIN Phases
             /\ S.phase \in Phases[R.phase].next \cup {Phases[R.phase].timeout}
      BY <1>3 DEF Leaves, Typed
    <2>2. S.phase = R.phase + 1 \/ (R.at = "human" /\ S.phase >= R.phase)
      BY <2>1 DEF NamesOnce
    <2>3. \A id \in DOMAIN S.records : id[1] <= S.phase /\ id[1] # S.phase
      BY <1>1, <2>2
    <2> QED BY <1>1, <1>3, <2>3 DEF Leaves, Fresh
  <1>4. CASE Enters(R, S)
    <2>1. S.phase = R.phase /\ S.at = "lanes"
      BY <1>4 DEF Enters, Only, Typed, Fields
    <2>2. \A id \in DOMAIN R.records : id[1] = R.phase => Past(S, id)
      BY <1>1, <1>4, PastRound
    <2> QED BY <1>1, <2>1, <2>2 DEF Fresh
  <1>5. CASE Asks(R, S)
    <2>1. S.phase = R.phase /\ S.at # "lanes" /\ R.at # "lanes"
      BY <1>5 DEF Asks, Only, Typed, Fields
    <2> QED BY <1>1, <2>1 DEF Fresh
  <1>6. CASE Cancels(R, S)
    <2>1. S.phase = R.phase /\ S.round = R.round /\ S.lanes = R.lanes /\ S.at = R.at
      BY <1>6 DEF Cancels, Only, Typed, Fields
    <2>2. \A id : Past(R, id) => Past(S, id)
      BY <2>1, PastSame
    <2> QED BY <1>1, <2>1, <2>2 DEF Fresh
  <1> QED BY <1>2, <1>3, <1>4, <1>5, <1>6 DEF Turns

LEMMA TurnShown ==
    ASSUME NEW R, NEW S, Turns(R, S) \/ Cancels(R, S), R.status = "running",
           Typed(R), Laid(R), Shown(R)
    PROVE  Shown(S)
  <1>1. /\ S.records = R.records
        /\ \A id \in DOMAIN R.records : R.records[id][1] = "running" =>
                \E c \in CallsAt(R, Working) : id = AgentId(R, c[1], c[2])
    BY DEF Turns, Stops, Leaves, Enters, Asks, Cancels, Only, Typed, Fields, Shown
  <1>2. CASE Stops(R, S) \/ Asks(R, S) \/ Cancels(R, S)
    <2>1. S.lanes = R.lanes /\ S.phase = R.phase /\ S.round = R.round
      BY <1>2 DEF Stops, Asks, Cancels, Only, Typed, Fields
    <2>2. CallsAt(S, Working) = CallsAt(R, Working) /\ \A l, v : AgentId(S, l, v) = AgentId(R, l, v)
      BY <2>1, IdOf DEF CallsAt
    <2> QED BY <1>1, <2>2 DEF Shown
  <1>3. CASE Leaves(R, S) \/ Enters(R, S)
    <2>1. CallsAt(R, Working) = {}
      BY <1>3, JoinedAt DEF Leaves, Enters, Agreed, Working
    <2> QED BY <1>1, <2>1 DEF Shown
  <1> QED BY <1>2, <1>3 DEF Turns

LEMMA RunNamed ==
    ASSUME NamesOnce, NEW R, NEW S, RunStep(R, S), RunInv(R), RunInv(S), CachedOK(R),
           Fresh(R), Shown(R)
    PROVE  Fresh(S) /\ Shown(S)
  <1> USE DEF RunInv
  <1>1. ASSUME NEW l, NEW v, R.at = "lanes", R.status = "running", IsCall(R, l, v), CallStep(R, S, l, v)
        PROVE  Fresh(S) /\ Shown(S)
    BY <1>1, CallFresh, CallShown
  <1>2. ASSUME Turns(R, S) \/ Cancels(R, S), R.status = "running"
        PROVE  Fresh(S) /\ Shown(S)
    BY <1>2, TurnFresh, TurnShown
  <1>3. ASSUME Dies(R, S)
        PROVE  Fresh(S) /\ Shown(S)
    <2>1. S.records = R.records /\ S.status = "dead"
      BY <1>3 DEF Dies, Only, Typed, Fields
    <2> QED BY <2>1 DEF Fresh, Shown
  <1>4. ASSUME Starts(S)
        PROVE  Fresh(S) /\ Shown(S)
    <2>1. DOMAIN S.records = {}
      BY <1>4 DEF Starts
    <2> QED BY <2>1 DEF Fresh, Shown
  <1> QED BY <1>1, <1>2, <1>3, <1>4 DEF RunStep

Named == \A r \in Runs : Fresh(run[r]) /\ Shown(run[r])

\* A run ends, however it ends, only when each of its agents has, and its summary shows none
\* at work (run_plan, exec.rs:473), if its plan names each of its calls once.
THEOREM EndsSettled ==
    ASSUME NamesOnce
    PROVE  Spec => []EndedMeansSettled
  <1>1. Init => Named
    <2> SUFFICES ASSUME Init, NEW r \in Runs
                 PROVE  Fresh(run[r]) /\ Shown(run[r])
      BY DEF Named
    <2>1. DOMAIN run[r].records = {} /\ run[r].status = "idle"
      BY DEF Init, Idle
    <2> QED BY <2>1 DEF Fresh, Shown
  <1>2. WorkflowInv /\ WorkflowInv' /\ Named /\ [Next]_vars => Named'
    <2> SUFFICES ASSUME WorkflowInv, WorkflowInv', Named, [Next]_vars, NEW r \in Runs
                 PROVE  Fresh(run[r])' /\ Shown(run[r])'
      BY DEF Named
    <2>1. WellFormed /\ RunInv(run[r]) /\ CachedOK(run[r])
      BY DEF WorkflowInv, RunInv, WellFormed, SaidInv, Said, Real, CachedOK
    <2>2. run'[r] = run[r] \/ RunStep(run[r], run'[r])
      BY <2>1, EachRun
    <2>3. RunInv(run'[r])
      BY <2>1, <2>2, RunKept
    <2>4. Fresh(run'[r]) /\ Shown(run'[r])
      BY <2>1, <2>2, <2>3, RunNamed DEF Named
    <2> QED BY <2>4 DEF Fresh, Shown, Past, IdAt, Shape, Stages, CallsAt, AgentId, Call
  <1>3. WorkflowInv /\ Named => EndedMeansSettled
    <2> SUFFICES ASSUME WorkflowInv, Named, NEW r \in Runs, Ended(r)
                 PROVE  Holds(r) = {} /\ RecordsIn(run[r], {"running"}) = {}
      BY DEF EndedMeansSettled
    <2>1. CallsAt(run[r], Working) = {}
      BY SettledWork DEF Ended, WorkflowInv, RunInv
    <2>2. \A id \in DOMAIN run[r].records :
              DOMAIN run[r].records[id] = {1} /\ run[r].records[id][1] # "running"
      BY <2>1 DEF Named, Fresh, Shown, Ended
    <2>3. RecordsIn(run[r], {"running"}) = {}
      BY <2>2, InRecords
    <2> QED BY <2>1, <2>3, HoldsAre
  <1> QED BY <1>1, <1>2, <1>3, WorkflowKept, PTL DEF Spec

-----------------------------------------------------------------------------
(* What the journal has lost.  Only a torn line loses an answer: its own,  *)
(* if the line is not whole, and the one that the next append glues to it. *)
(* Owed counts what a last line without its end may still lose, so that    *)
(* the answers lost and those owed grow by two with a torn line and with   *)
(* nothing else.  That holds of what the lines say; a line cut inside a    *)
(* character makes the file unreadable from then on, and a run resumed     *)
(* from it knows nothing.                                                  *)

KeysOf(A) == {x[1] : x \in A}
\* The keys the journal answers.
Written(lines) ==
    {lines[k].key : k \in {j \in DOMAIN lines : lines[j].whole /\ lines[j].status = "done"}}
Owed(lines) ==
    IF lines = <<>> THEN 0
    ELSE IF lines[Len(lines)].ended THEN 0
    ELSE IF lines[Len(lines)].whole THEN 2 ELSE 1

\* What is lost on disk, and what its last line may still lose, is at most n.
LostOf(lines, A, n) ==
    /\ IsFiniteSet(KeysOf(A) \ Written(lines))
    /\ Cardinality(KeysOf(A) \ Written(lines)) + Owed(lines) <= n

\* What a run does not find of the answers given before it is at most n, or everything.
FoundOf(R, lines, n) ==
    \/ IsFiniteSet(R.known \ KeysOf(R.cached)) /\ Cardinality(R.known \ KeysOf(R.cached)) <= n
    \/ R.cached = {} /\ Garbled(lines)

LossAtMost(R, lines, A, n) == LostOf(lines, A, n) /\ FoundOf(R, lines, n)
\* What a line costs that is written.
Cost(line) == IF line.whole /\ line.ended THEN 0 ELSE 2

Budgets == {"start", "cancel", "kill", "tear", "fail"}
BudgetOK == DOMAIN budget = Budgets /\ budget.tear \in 0..MaxTears
Tears2 == 2 * (MaxTears - budget.tear)
LossInv == BudgetOK /\ \A r \in Runs : LossAtMost(run[r], journal[r], answers[r], Tears2)

LEMMA SpendKeeps ==
    ASSUME BudgetOK, UNCHANGED budget \/ \E k \in Budgets \ {"tear"} : Spend(k)
    PROVE  BudgetOK' /\ budget'.tear = budget.tear
  <1>1. CASE UNCHANGED budget
    BY <1>1 DEF BudgetOK
  <1>2. ASSUME NEW k \in Budgets \ {"tear"}, Spend(k)
        PROVE  BudgetOK' /\ budget'.tear = budget.tear
    <2>1. budget' = [budget EXCEPT ![k] = budget[k] - 1] /\ "tear" \in Budgets
      BY <1>2 DEF Spend, Budgets
    <2> QED BY <1>2, <2>1 DEF BudgetOK
  <1> QED BY <1>1, <1>2

\* A set that has at most one element more.
LEMMA OneMore ==
    ASSUME NEW S, IsFiniteSet(S), NEW a, NEW T, T \subseteq S \cup {a}
    PROVE  /\ IsFiniteSet(T) /\ Cardinality(T) \in Nat /\ Cardinality(S) \in Nat
           /\ Cardinality(T) <= Cardinality(S) + 1
  <1>0. Cardinality(S) \in Nat
    BY FS_CardinalityType
  <1>1. IsFiniteSet(S \cup {a}) /\ Cardinality(S \cup {a}) <= Cardinality(S) + 1
    <2>1. /\ IsFiniteSet(S \cup {a})
          /\ Cardinality(S \cup {a}) = IF a \in S THEN Cardinality(S) ELSE Cardinality(S) + 1
      BY FS_AddElement
    <2> QED BY <1>0, <2>1
  <1>2. IsFiniteSet(T) /\ Cardinality(T) <= Cardinality(S \cup {a})
    BY <1>1, FS_Subset
  <1>3. Cardinality(T) \in Nat /\ Cardinality(S \cup {a}) \in Nat
    BY <1>1, <1>2, FS_CardinalityType
  <1> QED BY <1>0, <1>1, <1>2, <1>3

\* The greatest element of a set of positions.
LEMMA LastIn ==
    ASSUME NEW n \in Nat, NEW G \in SUBSET (1..n), G # {}
    PROVE  \E k \in G : \A j \in G : j <= k
  <1> DEFINE T == {n - k : k \in G}
  <1>1. T \subseteq Nat /\ T # {}
    <2>1. \A k \in G : n - k \in Nat
      OBVIOUS
    <2>2. PICK k \in G : TRUE
      OBVIOUS
    <2> QED BY <2>1, <2>2
  <1>2. IsWellFoundedOn(OpToRel(<, Nat), Nat)
    BY NatLessThanWellFounded
  <1> HIDE DEF T
  <1>3. PICK m \in T : \A j \in T : ~(<<j, m>> \in OpToRel(<, Nat))
    BY <1>1, <1>2, WFMin
  <1>4. ASSUME NEW j \in T
        PROVE  m <= j
    <2>1. j \in Nat /\ m \in Nat
      BY <1>1
    <2>2. j < m => <<j, m>> \in OpToRel(<, Nat)
      BY <2>1 DEF OpToRel
    <2>3. ~(j < m)
      BY <1>3, <2>2
    <2> QED BY <2>1, <2>3
  <1>5. PICK k \in G : m = n - k
    BY DEF T
  <1>6. ASSUME NEW j \in G
        PROVE  j <= k
    <2>1. n - j \in T
      BY DEF T
    <2> QED BY <1>4, <1>5, <2>1
  <1> QED BY <1>6

\* A journal that can be read replays every key it answers: of the lines of one key it takes the last.
LEMMA LoadedKeys ==
    ASSUME NEW lines, NEW A, Logged(lines, A), ~Garbled(lines)
    PROVE  KeysOf(Load(lines)) = Written(lines)
  <1> DEFINE good == {k \in DOMAIN lines : lines[k].whole /\ lines[k].status = "done"}
             last == {j \in good : \A i \in good : lines[i].key = lines[j].key => i <= j}
  <1>1. Load(lines) = {<<lines[k].key, lines[k].value>> : k \in last}
    BY DEF Load, LastOfKey
  <1>2. Written(lines) = {lines[k].key : k \in good}
    BY DEF Written
  <1>3. \A x : x \in KeysOf(Load(lines)) <=> \E k \in last : x = lines[k].key
    <2> HIDE DEF last
    <2>1. \A x : x \in KeysOf(Load(lines)) <=> \E y \in Load(lines) : x = y[1]
      BY DEF KeysOf
    <2>2. \A y : y \in Load(lines) <=> \E k \in last : y = <<lines[k].key, lines[k].value>>
      BY <1>1
    <2>3. ASSUME NEW k \in last
          PROVE  lines[k].key \in KeysOf(Load(lines))
      <3>1. <<lines[k].key, lines[k].value>> \in Load(lines)
        BY <2>2
      <3> QED BY <2>1, <3>1
    <2>4. ASSUME NEW x \in KeysOf(Load(lines))
          PROVE  \E k \in last : x = lines[k].key
      <3>1. PICK y \in Load(lines) : x = y[1]
        BY <2>1
      <3>2. PICK k \in last : y = <<lines[k].key, lines[k].value>>
        BY <2>2, <3>1
      <3> QED BY <3>1, <3>2
    <2> QED BY <2>3, <2>4
  <1>4. ASSUME NEW k \in good
        PROVE  \E j \in last : lines[j].key = lines[k].key
    <2> DEFINE G == {i \in good : lines[i].key = lines[k].key}
    <2>0. Len(lines) \in Nat /\ DOMAIN lines = 1..Len(lines)
      BY DEF Logged
    <2>1. Len(lines) \in Nat /\ G \in SUBSET (1..Len(lines)) /\ G # {}
      <3>1. G \subseteq DOMAIN lines /\ k \in G
        OBVIOUS
      <3> HIDE DEF G
      <3> QED BY <2>0, <3>1
    <2> HIDE DEF G
    <2>2. PICK j \in G : \A i \in G : i <= j
      BY <2>1, LastIn
    <2> QED BY <2>2 DEF G
  <1>5. \A x : x \in KeysOf(Load(lines)) <=> x \in Written(lines)
    <2>1. \A x : x \in Written(lines) <=> \E k \in good : x = lines[k].key
      BY <1>2
    <2>2. last \subseteq good
      OBVIOUS
    <2> HIDE DEF good, last
    <2> QED BY <1>3, <1>4, <2>1, <2>2
  <1> QED BY <1>5

\* A line that is glued to the last one spoils it.
LEMMA GluedIs ==
    ASSUME NEW lines, NEW A, Logged(lines, A), lines # <<>>, ~lines[Len(lines)].ended,
           NEW line, line.ended \in BOOLEAN, NEW x \in Written(lines)
    PROVE  x \in Written(Write(lines, line)) \/ (lines[Len(lines)].whole /\ x = lines[Len(lines)].key)
  <1> DEFINE n == Len(lines)
             glued == Glued(lines[n], line)
             new == Write(lines, line)
  <1>1. PICK k \in DOMAIN lines : lines[k].whole /\ lines[k].status = "done" /\ x = lines[k].key
    BY DEF Written
  <1>2. new = [lines EXCEPT ![n] = glued]
    BY DEF Write
  <1> HIDE DEF glued, new
  <1>3. CASE k # n
    <2>1. k \in DOMAIN new /\ new[k] = lines[k]
      BY <1>2, <1>3
    <2> QED BY <1>1, <2>1 DEF Written, new
  <1> QED BY <1>1, <1>3

\* A line that is appended takes nothing from the others.
LEMMA AppendedIs ==
    ASSUME NEW lines, NEW A, Logged(lines, A), lines = <<>> \/ lines[Len(lines)].ended, NEW line
    PROVE  /\ Written(lines) \subseteq Written(Write(lines, line))
           /\ line.whole /\ line.status = "done" => line.key \in Written(Write(lines, line))
  <1> DEFINE n == Len(lines)
             new == Write(lines, line)
  <1>1. new = Append(lines, line)
    BY DEF Write
  <1>2. n \in Nat /\ DOMAIN lines = 1..n /\ lines \in Seq({lines[k] : k \in DOMAIN lines})
    BY DEF Logged
  <1>3. /\ DOMAIN new = 1..(n + 1) /\ new[n + 1] = line
        /\ \A k \in DOMAIN lines : k \in DOMAIN new /\ new[k] = lines[k]
    BY <1>1, <1>2
  <1> HIDE DEF n, new
  <1>4. n + 1 \in DOMAIN new
    BY <1>2, <1>3
  <1> QED BY <1>3, <1>4 DEF Written, new

\* A file that cannot be read never becomes readable again.
LEMMA StaysGarbled ==
    ASSUME NEW lines, NEW A, Logged(lines, A), Garbled(lines), NEW line
    PROVE  Garbled(Write(lines, line))
  <1> DEFINE n == Len(lines)
             glued == Glued(lines[n], line)
             new == Write(lines, line)
  <1>1. PICK k \in DOMAIN lines : ~lines[k].legible
    BY DEF Garbled
  <1>2. /\ n \in Nat /\ DOMAIN lines = 1..n /\ lines \in Seq({lines[j] : j \in DOMAIN lines})
        /\ \A j \in DOMAIN lines : "legible" \in DOMAIN lines[j]
    <2>1. \A j \in DOMAIN lines : DOMAIN lines[j] = {"key", "status", "value", "whole", "ended", "legible"}
      BY DEF Logged
    <2> QED BY <2>1 DEF Logged
  <1>3. CASE lines # <<>> /\ ~lines[n].ended
    <2>1. new = [lines EXCEPT ![n] = glued]
      BY <1>3 DEF Write
    <2>2. k = n => ~glued.legible
      BY <1>1, <1>2 DEF Glued
    <2> HIDE DEF n, glued, new
    <2>3. k \in DOMAIN new /\ new[k] = IF k = n THEN glued ELSE lines[k]
      BY <1>1, <2>1
    <2>4. ~new[k].legible
      BY <1>1, <2>2, <2>3
    <2> QED BY <2>3, <2>4 DEF Garbled, new
  <1>4. CASE ~(lines # <<>> /\ ~lines[n].ended)
    <2>1. new = Append(lines, line)
      BY <1>4 DEF Write
    <2>2. k \in DOMAIN new /\ new[k] = lines[k]
      BY <1>1, <1>2, <2>1
    <2> HIDE DEF n, new
    <2> QED BY <1>1, <2>2 DEF Garbled, new
  <1> QED BY <1>3, <1>4

\* What a last line owes after it was written.
LEMMA OwedAfter ==
    ASSUME NEW lines, NEW A, Logged(lines, A), NEW line, line.whole \in BOOLEAN, line.ended \in BOOLEAN
    PROVE  Owed(Write(lines, line)) =
               IF line.ended THEN 0
               ELSE IF lines # <<>> /\ ~lines[Len(lines)].ended THEN 1
               ELSE IF line.whole THEN 2 ELSE 1
  <1> DEFINE n == Len(lines)
             new == Write(lines, line)
  <1>1. n \in Nat /\ DOMAIN lines = 1..n /\ lines \in Seq({lines[k] : k \in DOMAIN lines})
    BY DEF Logged
  <1>2. CASE lines # <<>> /\ ~lines[n].ended
    <2> DEFINE glued == Glued(lines[n], line)
    <2>1. new = [lines EXCEPT ![n] = glued]
      BY <1>2 DEF Write
    <2>2. n \in DOMAIN lines
      BY <1>1, <1>2
    <2>3. glued.ended = line.ended /\ glued.whole = FALSE
      BY <2>2 DEF Logged, Glued
    <2> HIDE DEF glued
    <2>4. new # <<>> /\ Len(new) = n /\ new[n] = glued
      BY <1>1, <2>1, <2>2
    <2> HIDE DEF n, new
    <2> QED BY <1>2, <2>3, <2>4 DEF Owed, n, new
  <1>3. CASE ~(lines # <<>> /\ ~lines[n].ended)
    <2>1. new = Append(lines, line)
      BY <1>3 DEF Write
    <2>2. new # <<>> /\ Len(new) = n + 1 /\ new[n + 1] = line
      BY <1>1, <2>1
    <2> HIDE DEF n, new
    <2> QED BY <1>3, <2>2 DEF Owed, n, new
  <1> QED BY <1>2, <1>3

\* A line costs nothing if it is written whole and with its end, and two answers otherwise.
LEMMA WriteLoses ==
    ASSUME NEW lines, NEW A, Logged(lines, A), NEW line, line.whole \in BOOLEAN, line.ended \in BOOLEAN,
           NEW B, KeysOf(B) \subseteq KeysOf(A) \cup {line.key},
           line.status # "done" => KeysOf(B) \subseteq KeysOf(A),
           NEW n \in Nat, LostOf(lines, A, n)
    PROVE  LostOf(Write(lines, line), B, n + Cost(line))
  <1> DEFINE new == Write(lines, line)
             lost == KeysOf(A) \ Written(lines)
             after == KeysOf(B) \ Written(new)
             last == lines[Len(lines)]
  <1>1. /\ IsFiniteSet(lost) /\ Cardinality(lost) \in Nat /\ Cardinality(lost) + Owed(lines) <= n
        /\ KeysOf(A) \subseteq lost \cup Written(lines)
    BY FS_CardinalityType DEF LostOf
  <1>2. Owed(new) = IF line.ended THEN 0
                    ELSE IF lines # <<>> /\ ~last.ended THEN 1
                    ELSE IF line.whole THEN 2 ELSE 1
    BY OwedAfter
  <1>3. CASE lines # <<>> /\ ~last.ended
    <2>1. /\ Owed(lines) = IF last.whole THEN 2 ELSE 1
          /\ Owed(new) = IF line.ended THEN 0 ELSE 1
      BY <1>2, <1>3 DEF Owed
    <2>2. \A x \in Written(lines) : x \in Written(new) \/ (last.whole /\ x = last.key)
      BY <1>3, GluedIs
    <2> HIDE DEF new, lost, last
    <2>3. CASE last.whole
      <3> DEFINE both == lost \cup {last.key}
      <3>1. after \subseteq both \cup {line.key} /\ both \subseteq lost \cup {last.key}
        BY <1>1, <2>2
      <3> HIDE DEF after, both
      <3>2. /\ IsFiniteSet(both) /\ Cardinality(both) \in Nat
            /\ Cardinality(both) <= Cardinality(lost) + 1
        BY <1>1, <3>1, OneMore
      <3>3. /\ IsFiniteSet(after) /\ Cardinality(after) \in Nat
            /\ Cardinality(after) <= Cardinality(both) + 1
        BY <3>1, <3>2, OneMore
      <3>4. Cardinality(after) + Owed(new) <= n + Cost(line)
        BY <1>1, <2>1, <2>3, <3>2, <3>3 DEF Cost
      <3> QED BY <3>3, <3>4 DEF after, new, LostOf
    <2>4. CASE ~last.whole
      <3>1. after \subseteq lost \cup {line.key}
        BY <1>1, <2>2, <2>4
      <3> HIDE DEF after
      <3>2. /\ IsFiniteSet(after) /\ Cardinality(after) \in Nat
            /\ Cardinality(after) <= Cardinality(lost) + 1
        BY <1>1, <3>1, OneMore
      <3>3. Cardinality(after) + Owed(new) <= n + Cost(line)
        BY <1>1, <2>1, <2>4, <3>2 DEF Cost
      <3> QED BY <3>2, <3>3 DEF after, new, LostOf
    <2> QED BY <2>3, <2>4
  <1>4. CASE ~(lines # <<>> /\ ~last.ended)
    <2>1. /\ Owed(lines) = 0
          /\ Owed(new) = IF line.ended THEN 0 ELSE IF line.whole THEN 2 ELSE 1
      BY <1>2, <1>4 DEF Owed
    <2>2. /\ Written(lines) \subseteq Written(new)
          /\ line.whole /\ line.status = "done" => line.key \in Written(new)
      BY <1>4, AppendedIs
    <2> HIDE DEF new, lost, last
    <2>3. CASE line.whole
      <3>1. after \subseteq lost
        BY <1>1, <2>2, <2>3
      <3> HIDE DEF after
      <3>2. IsFiniteSet(after) /\ Cardinality(after) <= Cardinality(lost)
        BY <1>1, <3>1, FS_Subset
      <3>3. Cardinality(after) \in Nat
        BY <3>2, FS_CardinalityType
      <3>4. Cardinality(after) + Owed(new) <= n + Cost(line)
        BY <1>1, <2>1, <2>3, <3>2, <3>3 DEF Cost
      <3> QED BY <3>2, <3>4 DEF after, new, LostOf
    <2>4. CASE ~line.whole
      <3>1. after \subseteq lost \cup {line.key}
        BY <1>1, <2>2
      <3> HIDE DEF after
      <3>2. /\ IsFiniteSet(after) /\ Cardinality(after) \in Nat
            /\ Cardinality(after) <= Cardinality(lost) + 1
        BY <1>1, <3>1, OneMore
      <3>3. Cardinality(after) + Owed(new) <= n + Cost(line)
        BY <1>1, <2>1, <2>4, <3>2 DEF Cost
      <3> QED BY <3>2, <3>3 DEF after, new, LostOf
    <2> QED BY <2>3, <2>4
  <1> QED BY <1>3, <1>4

\* What a run was started with it keeps.
LEMMA KnownStays ==
    ASSUME NEW R, NEW S, R.status = "running", RunStep(R, S), DOMAIN R = Fields, CachedOK(R)
    PROVE  S.known = R.known /\ S.cached = R.cached
  <1>1. ASSUME NEW l, NEW v, CallStep(R, S, l, v)
        PROVE  S.known = R.known /\ S.cached = R.cached
    <2>1. PICK to, value : Moves(R, S, l, v, to, value)
      BY <1>1, CallMoves
    <2> QED BY <2>1 DEF Moves, Only, Fields
  <1>2. CASE Turns(R, S)
    BY <1>2 DEF Turns, Stops, Leaves, Enters, Asks, Only, Fields
  <1>3. CASE Cancels(R, S) \/ Dies(R, S)
    BY <1>3 DEF Cancels, Dies, Only, Fields
  <1> QED BY <1>1, <1>2, <1>3 DEF RunStep

LEMMA LossStays ==
    ASSUME NEW R, NEW lines, NEW A, NEW n \in Nat, LossAtMost(R, lines, A, n),
           NEW S, S.known = R.known, S.cached = R.cached, NEW m \in Nat, n <= m
    PROVE  LossAtMost(S, lines, A, m)
  <1>1. LostOf(lines, A, m)
    <2>1. Cardinality(KeysOf(A) \ Written(lines)) \in Nat /\ Owed(lines) \in Nat
      BY FS_CardinalityType DEF LossAtMost, LostOf, Owed
    <2> QED BY <2>1 DEF LossAtMost, LostOf
  <1>2. FoundOf(S, lines, m)
    <2>1. CASE R.cached = {} /\ Garbled(lines)
      BY <2>1 DEF FoundOf
    <2>2. CASE ~(R.cached = {} /\ Garbled(lines))
      <3> DEFINE gone == R.known \ KeysOf(R.cached)
      <3>1. IsFiniteSet(gone) /\ Cardinality(gone) <= n /\ S.known \ KeysOf(S.cached) = gone
        BY <2>2 DEF LossAtMost, FoundOf
      <3>2. Cardinality(gone) \in Nat
        BY <3>1, FS_CardinalityType
      <3> HIDE DEF gone
      <3>3. Cardinality(gone) <= m
        BY <3>1, <3>2
      <3> QED BY <3>1, <3>3 DEF FoundOf
    <2> QED BY <2>1, <2>2
  <1> QED BY <1>1, <1>2 DEF LossAtMost

\* What a run loses when a line of it is written: nothing, or two answers with a torn one.
LEMMA LineLoses ==
    ASSUME NEW R, NEW lines, NEW A, NEW n \in Nat, LossAtMost(R, lines, A, n), Logged(lines, A),
           NEW line, line.whole \in BOOLEAN, line.ended \in BOOLEAN,
           NEW B, B = A \/ (B = A \cup {<<line.key, line.value>>} /\ line.status = "done"),
           NEW S, S.known = R.known, S.cached = R.cached,
           NEW m \in Nat, m = n + Cost(line)
    PROVE  LossAtMost(S, Write(lines, line), B, m)
  <1>1. /\ KeysOf(B) \subseteq KeysOf(A) \cup {line.key}
        /\ line.status # "done" => KeysOf(B) \subseteq KeysOf(A)
    <2>1. \A x : x \in KeysOf(B) => \E y \in B : x = y[1]
      BY DEF KeysOf
    <2>2. \A y \in A : y[1] \in KeysOf(A)
      BY DEF KeysOf
    <2>3. \A y \in B : y \in A \/ (y[1] = line.key /\ line.status = "done")
      OBVIOUS
    <2> QED BY <2>1, <2>2, <2>3
  <1>2. LostOf(Write(lines, line), B, m)
    BY <1>1, WriteLoses DEF LossAtMost
  <1>3. FoundOf(S, lines, m)
    <2>1. n <= m
      BY DEF Cost
    <2> QED BY <2>1, LossStays DEF LossAtMost
  <1>4. FoundOf(S, Write(lines, line), m)
    BY <1>3, StaysGarbled DEF FoundOf
  <1> QED BY <1>2, <1>4 DEF LossAtMost

LEMMA LossStep ==
    ASSUME WellFormed, SaidInv, LossInv, [Next]_vars
    PROVE  LossInv'
  <1> USE DEF WellFormed
  <1> DEFINE Kept(q) == LossAtMost(run'[q], journal'[q], answers'[q], Tears2')
  <1>1. \A q \in Runs : /\ DOMAIN run[q] = Fields /\ CachedOK(run[q])
                        /\ Logged(journal[q], answers[q])
                        /\ LossAtMost(run[q], journal[q], answers[q], Tears2)
    BY DEF LossInv, Typed, SaidInv, Said, Real, CachedOK
  <1>2. BudgetOK /\ Tears2 \in Nat /\ MaxTears \in Nat
    BY WorkflowBounds DEF LossInv, BudgetOK, Tears2
  <1>3. ASSUME UNCHANGED budget \/ \E k \in Budgets \ {"tear"} : Spend(k)
        PROVE  BudgetOK' /\ Tears2' = Tears2
    BY <1>2, <1>3, SpendKeeps DEF Tears2
  <1>4. ASSUME NEW q \in Runs, run'[q] = run[q] \/ (run[q].status = "running" /\ RunStep(run[q], run'[q]))
        PROVE  run'[q].known = run[q].known /\ run'[q].cached = run[q].cached
    BY <1>1, <1>4, KnownStays
  <1>5. ASSUME UNCHANGED <<journal, answers>>, BudgetOK', Tears2' = Tears2, NEW q \in Runs,
               run'[q].known = run[q].known /\ run'[q].cached = run[q].cached
        PROVE  Kept(q)
    BY <1>1, <1>2, <1>5, LossStays
  <1>6. ASSUME NEW r \in Runs, OneRun(r), UNCHANGED <<journal, answers>>,
               UNCHANGED budget \/ \E k \in Budgets \ {"tear"} : Spend(k),
               run[r].status = "running", RunStep(run[r], run'[r])
        PROVE  LossInv'
    <2>1. BudgetOK' /\ Tears2' = Tears2
      BY <1>3, <1>6
    <2>2. \A q \in Runs : run'[q].known = run[q].known /\ run'[q].cached = run[q].cached
      BY <1>4, <1>6 DEF OneRun
    <2>3. \A q \in Runs : Kept(q)
      BY <1>5, <1>6, <2>1, <2>2
    <2> QED BY <2>1, <2>3 DEF LossInv
  <1>7. ASSUME NEW r \in Runs, NEW l, NEW v, IsCall(run[r], l, v), run[r].status = "running",
               run[r].at = "lanes", CallAction(r, l, v)
        PROVE  LossInv'
    <2>0. OneRun(r) /\ RunStep(run[r], run'[r])
      BY <1>7, CallActionIs DEF RunStep
    <2>1. CASE Reply(r, l, v)
      <3>1. UNCHANGED budget \/ Spend("fail")
        BY <2>1, <1>7, ReplyIs
      <3>2. PICK value \in Answers \cup {"null"}, status \in {"done", "cancelled", "failed"} :
                /\ status = "done" <=> value # "null"
                /\ Replies(run[r], run'[r], l, v, value, status) /\ Journal(r, l, status, value)
                /\ answers' = IF value = "null" THEN answers
                              ELSE [answers EXCEPT ![r] = @ \cup {<<Question(run[r], l), value>>}]
        <4>1. r \in DOMAIN run
          BY <1>7
        <4> QED BY <1>7, <2>1, <4>1, ReplyIs
      <3> DEFINE line == Line(run[r], l, status, value)
      <3>3. /\ line.whole = TRUE /\ line.ended = TRUE /\ line.key = Question(run[r], l)
            /\ line.value = value /\ line.status = status
        BY DEF Line, ContentKey
      <3>4. journal' = [journal EXCEPT ![r] = Write(@, line)]
        BY <3>2 DEF Journal
      <3> HIDE DEF line
      <3>5. BudgetOK' /\ Tears2' = Tears2
        BY <1>3, <3>1 DEF Budgets
      <3>6. run'[r].known = run[r].known /\ run'[r].cached = run[r].cached
        BY <1>4, <1>7, <2>0
      <3>7. /\ journal'[r] = Write(journal[r], line) /\ \A q \in Runs \ {r} : journal'[q] = journal[q]
            /\ \A q \in Runs \ {r} : answers'[q] = answers[q] /\ run'[q] = run[q]
            /\ \/ answers'[r] = answers[r]
               \/ /\ answers'[r] = answers[r] \cup {<<line.key, line.value>>}
                  /\ line.status = "done"
        BY <2>0, <3>2, <3>3, <3>4 DEF SaidInv, OneRun
      <3>8. Kept(r)
        <4>1. /\ LossAtMost(run[r], journal[r], answers[r], Tears2)
              /\ Logged(journal[r], answers[r])
          BY <1>1
        <4>2. /\ line.whole \in BOOLEAN /\ line.ended \in BOOLEAN
              /\ Tears2 = Tears2 + Cost(line)
          <5>1. /\ line.whole \in BOOLEAN /\ line.ended \in BOOLEAN
                /\ Cost(line) = 0
            BY <3>3 DEF Cost
          <5> QED BY <1>2, <5>1
        <4>3. LossAtMost(run'[r], Write(journal[r], line), answers'[r], Tears2)
          BY <1>2, <3>6, <3>7, <4>1, <4>2, LineLoses
        <4> QED BY <3>5, <3>7, <4>3
      <3>9. \A q \in Runs \ {r} : Kept(q)
        BY <1>1, <3>5, <3>7
      <3> QED BY <3>5, <3>8, <3>9 DEF LossInv
    <2>2. CASE ~Reply(r, l, v)
      <3>1. UNCHANGED <<journal, answers, budget>>
        BY <1>7, <2>2, AdmitIs, TakeLocalIs, TakeGateIs, TakeTreeIs DEF CallAction
      <3> QED BY <1>6, <1>7, <2>0, <3>1
    <2> QED BY <2>1, <2>2
  <1>8. ASSUME NEW r \in Runs, OneRun(r), UNCHANGED <<journal, answers, budget>>,
               run[r].status = "running", Turns(run[r], run'[r])
        PROVE  LossInv'
    BY <1>6, <1>8 DEF RunStep
  <1>9. ASSUME NEW r \in Runs, Cancel(r)
        PROVE  LossInv'
    <2>1. /\ OneRun(r) /\ UNCHANGED <<journal, answers>> /\ Spend("cancel")
          /\ run[r].status = "running" /\ RunStep(run[r], run'[r])
      BY <1>1, <1>9, CancelIs DEF RunStep
    <2> QED BY <1>6, <2>1 DEF Budgets
  <1>10. ASSUME NEW r \in Runs, NEW a, Start(r, a)
         PROVE  LossInv'
    <2>1. /\ OneRun(r) /\ UNCHANGED <<journal, answers>> /\ Spend("start")
          /\ run'[r].cached = Load(journal[r]) /\ run'[r].known = KeysOf(answers[r])
      BY <1>10, StartIs DEF KeysOf
    <2>2. BudgetOK' /\ Tears2' = Tears2
      BY <1>3, <2>1 DEF Budgets
    <2>3. \/ KeysOf(run'[r].cached) = Written(journal[r])
          \/ run'[r].cached = {} /\ Garbled(journal[r])
      <3>1. CASE Garbled(journal[r])
        BY <2>1, <3>1 DEF Load
      <3>2. CASE ~Garbled(journal[r])
        BY <1>1, <2>1, <3>2, LoadedKeys
      <3> QED BY <3>1, <3>2
    <2>4. Kept(r)
      <3> DEFINE lost == KeysOf(answers[r]) \ Written(journal[r])
      <3>1. IsFiniteSet(lost) /\ Cardinality(lost) + Owed(journal[r]) <= Tears2
        BY <1>1 DEF LossAtMost, LostOf
      <3>2. \/ run'[r].known \ KeysOf(run'[r].cached) = lost
            \/ run'[r].cached = {} /\ Garbled(journal[r])
        BY <2>1, <2>3
      <3> HIDE DEF lost
      <3>3. Cardinality(lost) \in Nat /\ Owed(journal[r]) \in Nat
        BY <3>1, FS_CardinalityType DEF Owed
      <3>4. Cardinality(lost) <= Tears2
        BY <1>2, <3>1, <3>3
      <3>5. journal'[r] = journal[r] /\ answers'[r] = answers[r]
        BY <2>1
      <3>6. FoundOf(run'[r], journal[r], Tears2)
        BY <3>1, <3>2, <3>4 DEF FoundOf
      <3> QED BY <2>2, <3>1, <3>5, <3>6 DEF LossAtMost, LostOf, lost
    <2>5. \A q \in Runs \ {r} : Kept(q)
      BY <1>5, <2>1, <2>2 DEF OneRun
    <2> QED BY <2>2, <2>4, <2>5 DEF LossInv
  <1>11. ASSUME run' = Dead
         PROVE  \A q \in Runs : run'[q].known = run[q].known /\ run'[q].cached = run[q].cached
    <2>1. \A q \in Runs : run'[q] = run[q] \/ (run[q].status = "running" /\ Dies(run[q], run'[q]))
      BY <1>1, <1>11, DeadIs
    <2> QED BY <1>4, <2>1 DEF RunStep
  <1>12. CASE Kill
    <2>1. UNCHANGED <<journal, answers>> /\ Spend("kill") /\ run' = Dead
      BY <1>12 DEF Kill
    <2>2. BudgetOK' /\ Tears2' = Tears2
      BY <1>3, <2>1 DEF Budgets
    <2>3. \A q \in Runs : Kept(q)
      BY <1>5, <1>11, <2>1, <2>2
    <2> QED BY <2>2, <2>3 DEF LossInv
  <1>13. ASSUME NEW r \in Runs, Tears(r)
         PROVE  LossInv'
    <2>1. PICK l, v : IsCall(run[r], l, v) /\ Tear(r, l, v)
      BY <1>13 DEF Tears
    <2>2. /\ run' = Dead /\ budget.tear > 0
          /\ budget' = [budget EXCEPT !.tear = @ - 1, !.kill = @ - 1]
      BY <2>1 DEF Tear
    <2>3. PICK value \in Answers, whole, legible \in BOOLEAN :
              /\ journal' = [journal EXCEPT ![r] =
                    Write(@, Torn(Line(run[r], l, "done", value), whole, legible))]
              /\ answers' = [answers EXCEPT ![r] = @ \cup {<<Question(run[r], l), value>>}]
      BY <2>1, Zenon DEF Tear, Torn
    <2> DEFINE line == Torn(Line(run[r], l, "done", value), whole, legible)
    <2>4. /\ line.whole = whole /\ line.ended = FALSE /\ line.key = Question(run[r], l)
          /\ line.value = value /\ line.status = "done"
      BY DEF Line, ContentKey, Torn
    <2>5. journal' = [journal EXCEPT ![r] = Write(@, line)]
      BY <2>3
    <2> HIDE DEF line
    <2>6. BudgetOK' /\ Tears2' = Tears2 + 2
      <3>1. DOMAIN budget' = Budgets /\ budget'.tear = budget.tear - 1
        BY <1>2, <2>2 DEF BudgetOK, Budgets
      <3> QED BY <1>2, <2>2, <3>1 DEF BudgetOK, Tears2
    <2>7. \A q \in Runs : run'[q].known = run[q].known /\ run'[q].cached = run[q].cached
      BY <1>11, <2>2
    <2>8. /\ journal'[r] = Write(journal[r], line) /\ \A q \in Runs \ {r} : journal'[q] = journal[q]
          /\ \A q \in Runs \ {r} : answers'[q] = answers[q]
          /\ answers'[r] = answers[r] \cup {<<line.key, line.value>>}
      BY <2>3, <2>4, <2>5 DEF SaidInv
    <2>9. Tears2' \in Nat /\ Tears2' >= Tears2 + 2 /\ Tears2 <= Tears2'
      BY <1>2, <2>6
    <2>10. Kept(r)
      <3>1. /\ LossAtMost(run[r], journal[r], answers[r], Tears2)
            /\ Logged(journal[r], answers[r])
        BY <1>1
      <3>2. /\ line.whole \in BOOLEAN /\ line.ended \in BOOLEAN /\ line.status = "done"
            /\ Tears2' = Tears2 + Cost(line)
        <4>1. Cost(line) = 2
          BY <2>4 DEF Cost
        <4> QED BY <1>2, <2>4, <2>6, <4>1
      <3>3. LossAtMost(run'[r], Write(journal[r], line), answers'[r], Tears2')
        BY <1>2, <2>7, <2>8, <2>9, <3>1, <3>2, LineLoses
      <3> QED BY <2>8, <3>3
    <2>11. \A q \in Runs \ {r} : Kept(q)
      BY <1>1, <1>2, <2>7, <2>8, <2>9, LossStays
    <2> QED BY <2>6, <2>10, <2>11 DEF LossInv
  <1>14. CASE UNCHANGED vars
    <2>1. /\ UNCHANGED <<journal, answers, budget>>
          /\ \A q \in Runs : run'[q].known = run[q].known /\ run'[q].cached = run[q].cached
      BY <1>14 DEF vars
    <2>2. BudgetOK' /\ Tears2' = Tears2
      BY <1>3, <2>1
    <2>3. \A q \in Runs : Kept(q)
      BY <1>5, <2>1, <2>2
    <2> QED BY <2>2, <2>3 DEF LossInv
  <1> QED BY <1>7, <1>8, <1>9, <1>10, <1>12, <1>13, <1>14, Steps

\* A resume knows every answer that earlier runs were given but two for each line that a
\* crash tore: the torn line's own, and the one that the next append glues to it
\* (Journal::record).  An answer is on disk before anything else happens.  Only when a line
\* was cut inside a character does the resume know less, and then it knows nothing
\* (Journal::load reads a file that is not UTF-8 as empty).
THEOREM KeepsAnswers ==
    Spec => []AnswersKept
  <1>1. Init => LossInv
    <2> SUFFICES ASSUME Init
                 PROVE  LossInv
      OBVIOUS
    <2>1. BudgetOK /\ Tears2 = 0
      <3>1. MaxTears \in Nat
        BY WorkflowBounds
      <3>2. DOMAIN budget = Budgets /\ budget.tear = MaxTears
        BY DEF Init, Budgets
      <3> QED BY <3>1, <3>2 DEF BudgetOK, Tears2
    <2>2. \A r \in Runs : run[r] = Idle /\ journal[r] = <<>> /\ answers[r] = {}
      BY DEF Init
    <2>3. Idle.known = {} /\ Idle.cached = {} /\ KeysOf({}) = {} /\ Owed(<<>>) = 0
      BY DEF Idle, KeysOf, Owed
    <2>4. IsFiniteSet({}) /\ Cardinality({}) = 0
      BY FS_EmptySet
    <2>5. LossAtMost(Idle, <<>>, {}, 0)
      <3> DEFINE lost == KeysOf({}) \ Written(<<>>)
                 gone == Idle.known \ KeysOf(Idle.cached)
      <3>1. lost = {} /\ gone = {}
        BY <2>3
      <3> HIDE DEF lost, gone
      <3>2. /\ IsFiniteSet(lost) /\ Cardinality(lost) + Owed(<<>>) <= 0
            /\ IsFiniteSet(gone) /\ Cardinality(gone) <= 0
        BY <2>3, <2>4, <3>1
      <3> QED BY <3>2 DEF LossAtMost, LostOf, FoundOf, lost, gone
    <2> QED BY <2>1, <2>2, <2>5 DEF LossInv
  <1>2. WorkflowInv /\ LossInv /\ [Next]_vars => LossInv'
    BY LossStep DEF WorkflowInv, RunInv, WellFormed
  <1>3. LossInv => AnswersKept
    BY DEF LossInv, LossAtMost, FoundOf, AnswersKept, Lost, Tears2, KeysOf
  <1> QED BY <1>1, <1>2, <1>3, WorkflowKept, PTL DEF Spec
=============================================================================

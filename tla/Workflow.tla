------------------------------ MODULE Workflow ------------------------------
(***************************************************************************)
(* Workflow runs: the executor of a plan (hotl-workflow/src/exec.rs), its  *)
(* resume journal (journal.rs) and the runner that turns a call into a     *)
(* child session (hotl/src/workflow.rs).                                   *)
(*                                                                         *)
(* A plan is a sequence of phases, a phase a set of lanes that run side by *)
(* side, a lane a sequence of stages: `agents` is a lane of one stage for  *)
(* each agent, `each` a lane for each item, `until_quiet` the lanes of     *)
(* `agents` again for each round.  A stage is one call, or `votes` equal   *)
(* ones.  An answer is "yes", "no" (the truthiness `accept` looks at) or   *)
(* "null", which stands for every failure of an agent.                     *)
(*                                                                         *)
(* All calls of a run are polled by one task, but a cancel, the process    *)
(* gate, the shared-tree lock and the agents' ends come from outside it.   *)
(* A kill takes every run of the process; what a resume finds is the       *)
(* journal.  Left out: errors of selectors and templates, the prefix       *)
(* stagger, worktrees and their merge, the summary's texts, a line of a    *)
(* failed agent that a crash tears, and an append the disk refuses while   *)
(* the process lives (`record` is best effort: that answer is not kept).   *)
(***************************************************************************)
EXTENDS Integers, Sequences, FiniteSets

CONSTANTS
    Runs,           \* the runs of one process
    Phases,         \* the plan
    Args,           \* what the plan's arguments may be
    Answers,        \* what an agent may answer
    Width,          \* the run's concurrency
    GateWidth,      \* the process gate
    Cap,            \* max_agents
    MaxJumps,       \* MAX_ROUTE_JUMPS
    MaxStarts, MaxCancels, MaxKills, MaxTears, MaxFails   \* bounds

\* One agent of the plan: what its label is, how many votes, whether it works in the
\* shared tree, and whether its templates read the arguments and which phases.
AgentSpec == [label : STRING, votes : Nat \ {0}, shared : BOOLEAN, args : BOOLEAN,
              reads : SUBSET Nat]
\* `rounds` and `max` are until_quiet's; the phases a human's answer leads to are `next`
\* (0: the next one), the one a timeout leads to is `timeout` (0: none), if it has a clock.
PhaseSpec == [shape : {"agents", "each", "quiet", "human"},
              lanes : Seq(Seq(AgentSpec) \ {<<>>}), rounds : Nat, max : Nat,
              next : SUBSET Nat, timeout : Nat, clock : BOOLEAN]

ASSUME WorkflowBounds ==
    /\ Phases \in Seq(PhaseSpec) /\ Phases # <<>>
    /\ Answers \subseteq {"yes", "no"} /\ Answers # {}
    /\ {Width, GateWidth} \subseteq Nat \ {0}
    /\ {Cap, MaxJumps, MaxStarts, MaxCancels, MaxKills, MaxTears, MaxFails} \subseteq Nat
    /\ \A p \in DOMAIN Phases : Phases[p].shape = "quiet" => Phases[p].max > 0

VARIABLES
    run,      \* what the executor of each run keeps, and its summary's records
    journal,  \* the lines of each run's journal.jsonl
    gate,     \* free slots of the process gate
    tree,     \* whether the shared-tree lock is held
    answers,  \* per run: what was asked, and what was really answered
    budget    \* what is left of the bounds

vars == <<run, journal, gate, tree, answers, budget>>

None == "none"
Errors == {"cancelled", "cap"}
Stages(p, l) == Phases[p].lanes[l]
Lane(p, l, stage, prev) ==
    [stage |-> stage, prev |-> prev, result |-> None,
     votes |-> [v \in 1..Stages(p, l)[stage].votes |-> [at |-> "new", value |-> None]]]
Lanes(p) == [l \in DOMAIN Phases[p].lanes |-> Lane(p, l, 1, None)]

Idle == [status |-> "idle", at |-> "phase", args |-> CHOOSE a \in Args : TRUE, phase |-> 1,
         jumps |-> 0, scope |-> [p \in DOMAIN Phases |-> <<>>], lanes |-> <<>>, round |-> 0,
         quiet |-> 0, union |-> {}, started |-> 0, cancelled |-> FALSE, records |-> <<>>,
         free |-> Width, cached |-> {}, known |-> {}]

Init ==
    /\ run = [r \in Runs |-> Idle]
    /\ journal = [r \in Runs |-> <<>>]
    /\ gate = GateWidth /\ tree = FALSE
    /\ answers = [r \in Runs |-> {}]
    /\ budget = [start |-> MaxStarts, cancel |-> MaxCancels, kill |-> MaxKills,
                 tear |-> MaxTears, fail |-> MaxFails]

Spend(k) == budget[k] > 0 /\ budget' = [budget EXCEPT ![k] = @ - 1]

-----------------------------------------------------------------------------
(* What a call is called, what it asks, and what the journal knows of it. *)

Call(R, l) == Stages(R.phase, l)[R.lanes[l].stage]
Shape(R) == Phases[R.phase].shape

\* The id of a call: the run's, then phase, label and position.
AgentId(R, l, v) ==
    <<R.phase, Call(R, l).label,
      CASE Shape(R) = "quiet" -> R.round [] Shape(R) = "each" -> l [] OTHER -> 0,
      IF Len(Stages(R.phase, l)) > 1 THEN R.lanes[l].stage ELSE 0,
      IF Call(R, l).votes > 1 THEN v ELSE 0>>

\* The rendered prompt: what the template reads of the arguments, of earlier phases, of
\* the item and the stage before it, and of the union so far.
Prompt(R, l) ==
    [args |-> IF Call(R, l).args THEN R.args ELSE None,
     read |-> [p \in Call(R, l).reads |->
                 IF Shape(R) = "quiet" /\ p = R.phase THEN <<R.union>> ELSE R.scope[p]],
     item |-> IF Shape(R) = "each" THEN l ELSE 0, prev |-> R.lanes[l].prev]

\* What an agent is asked.
Question(R, l) == <<R.phase, Call(R, l).label, Prompt(R, l)>>

\* Mutant: the key of a call leaves out its prompt.
MutKeyOfLabel(R, l) == <<R.phase, Call(R, l).label>>
\* content_key
ContentKey(R, l) == Question(R, l)

\* A line of the journal: whether it parses, has its end, and is UTF-8.
Line(R, l, status, value) ==
    [key |-> ContentKey(R, l), status |-> status, value |-> value,
     whole |-> TRUE, ended |-> TRUE, legible |-> TRUE]
\* Journal::record: an append behind a line that has no end is glued to it.
Glued(last, line) ==
    [last EXCEPT !.whole = FALSE, !.ended = line.ended, !.legible = last.legible /\ line.legible]
Write(lines, line) ==
    IF lines # <<>> /\ ~lines[Len(lines)].ended
    THEN [lines EXCEPT ![Len(lines)] = Glued(@, line)]
    ELSE Append(lines, line)

\* read_to_string refuses the whole file for one character that a crash cut in two.
Garbled(lines) == \E k \in DOMAIN lines : ~lines[k].legible

\* The last of the lines `good` for each key.
LastOfKey(lines, good) ==
    {<<lines[k].key, lines[k].value>> :
        k \in {j \in good : \A i \in good : lines[i].key = lines[j].key => i <= j}}
\* Mutant: the lines behind one that does not parse are not read.
MutLoadUntilTorn(lines) ==
    IF Garbled(lines) THEN {}
    ELSE LastOfKey(lines, {k \in DOMAIN lines : /\ \A j \in 1..k : lines[j].whole
                                               /\ lines[k].status = "done"})
\* Journal::load: the last whole `done` line of each key, and nothing of a file that is
\* not UTF-8 (`unwrap_or_default`).
Load(lines) ==
    IF Garbled(lines) THEN {}
    ELSE LastOfKey(lines, {k \in DOMAIN lines : lines[k].whole /\ lines[k].status = "done"})

Cached(R, l) == {c[2] : c \in {x \in R.cached : x[1] = ContentKey(R, l)}}

-----------------------------------------------------------------------------
(* The summary, and how a call's end moves its lane. *)

\* The records of each id, in their order.
RecordsOf(R, id) == IF id \in DOMAIN R.records THEN R.records[id] ELSE <<>>
WithRecords(R, id, statuses) ==
    [R EXCEPT !.records = [x \in {id} \cup DOMAIN @ |-> IF x = id THEN statuses ELSE @[x]]]

Record(R, l, v, status) ==
    LET id == AgentId(R, l, v) IN WithRecords(R, id, Append(RecordsOf(R, id), status))

\* RunSummary::settle: the first record with that id.
Settle(R, l, v, status) ==
    LET id == AgentId(R, l, v) IN WithRecords(R, id, [RecordsOf(R, id) EXCEPT ![1] = status])

Statuses == {"running", "done", "failed", "cancelled", "skipped"}
RecordsIn(R, S) ==
    UNION {{<<id, k>> : k \in {j \in DOMAIN R.records[id] : R.records[id][j] \in S}} :
              id \in DOMAIN R.records}

First(S) == CHOOSE k \in S : \A j \in S : k <= j

\* Exec::agent and the `each` pipeline, once every vote of a stage has ended: the first
\* error, the majority, or the answer; a null or the last stage ends the lane.
Advanced(R, l) ==
    LET lane == R.lanes[l]
        ended == DOMAIN lane.votes
        errs == {v \in ended : lane.votes[v].value \in Errors}
        yes == Cardinality({v \in ended : lane.votes[v].value = "yes"})
        value == IF Len(lane.votes) = 1 THEN lane.votes[1].value
                 ELSE IF 2 * yes > Len(lane.votes) THEN "yes" ELSE "no"
    IN  IF errs # {} THEN [lane EXCEPT !.result = lane.votes[First(errs)].value]
        ELSE IF value = "null" \/ lane.stage = Len(Stages(R.phase, l))
        THEN [lane EXCEPT !.result = value]
        ELSE Lane(R.phase, l, lane.stage + 1, value)

Put(R, l, v, at) == [R EXCEPT !.lanes[l].votes[v].at = at]

\* Mutant: the first error ends the votes.
MutFirstError(lane) ==
    \/ \E w \in DOMAIN lane.votes : lane.votes[w].value \in Errors
    \/ \A w \in DOMAIN lane.votes : lane.votes[w].at = "end"
\* join_all of a stage's votes.
Voted(lane) == \A w \in DOMAIN lane.votes : lane.votes[w].at = "end"

\* A call ends with a value.
Ends(R, l, v, value) ==
    LET R1 == [R EXCEPT !.lanes[l].votes[v] = [at |-> "end", value |-> value]]
    IN  IF Voted(R1.lanes[l])
        THEN [R1 EXCEPT !.lanes[l] = Advanced(R1, l)] ELSE R1

Skip(R, l, v) == Ends(Record(R, l, v, "skipped"), l, v, "cancelled")

Running(r) == run[r].status = "running"
At(r, l, v, at) == Running(r) /\ run[r].lanes[l].votes[v].at = at

-----------------------------------------------------------------------------
(* Exec::dispatch. *)

\* join_all polls its calls in order.
Polled(R, l, v) ==
    \A k \in DOMAIN R.lanes : \A w \in DOMAIN R.lanes[k].votes :
        (k < l \/ (k = l /\ w < v)) => R.lanes[k].votes[w].at # "new"

\* Mutant: the agent that meets the cap is started.
MutOnePastCap(R) == R.started > Cap
AtCap(R) == R.started >= Cap

Admit(r, l, v) ==
    /\ At(r, l, v, "new") /\ Polled(run[r], l, v)
    /\ LET R == run[r]
           counted == [R EXCEPT !.started = @ + 1]
       IN  run' = [run EXCEPT ![r] =
                    IF R.cancelled THEN Skip(R, l, v)
                    ELSE IF AtCap(R) THEN Ends(counted, l, v, "cap")
                    ELSE Put(counted, l, v, "local")]
    /\ UNCHANGED <<journal, gate, tree, answers, budget>>

\* Mutant: a call whose wait the cancel ended leaves no record.
MutSkipUnrecorded(r, l, v) ==
    /\ run[r].cancelled
    /\ run' = [run EXCEPT ![r] = Ends(@, l, v, "cancelled")]
    /\ UNCHANGED <<journal, gate, tree, answers, budget>>
\* The wait for a run slot, which a cancel ends.
SkipLocal(r, l, v) ==
    /\ run[r].cancelled
    /\ run' = [run EXCEPT ![r] = Skip(@, l, v)]
    /\ UNCHANGED <<journal, gate, tree, answers, budget>>

TakeLocal(r, l, v) ==
    /\ At(r, l, v, "local")
    /\ \/ SkipLocal(r, l, v)
       \/ /\ ~run[r].cancelled /\ run[r].free > 0
          /\ run' = [run EXCEPT ![r] = Put([run[r] EXCEPT !.free = @ - 1], l, v, "gate")]
          /\ UNCHANGED <<journal, gate, tree, answers, budget>>

\* Mutant: the wait for the gate does not look at the cancel.
MutGateUncancelled(r) == gate > 0
GateOpens(r) == ~run[r].cancelled /\ gate > 0

\* The wait for the gate.  A cached call ends here, and gives both slots back.
TakeGate(r, l, v) ==
    /\ At(r, l, v, "gate")
    /\ LET R == run[r]
           back == [R EXCEPT !.free = @ + 1]
       IN  \/ /\ R.cancelled
              /\ run' = [run EXCEPT ![r] = Skip(back, l, v)]
              /\ UNCHANGED gate
           \/ /\ GateOpens(r) /\ Cached(R, l) # {}
              /\ \E value \in Cached(R, l) :
                    run' = [run EXCEPT ![r] = Ends(Record(back, l, v, "done"), l, v, value)]
              /\ UNCHANGED gate
           \/ /\ GateOpens(r) /\ Cached(R, l) = {}
              /\ run' = [run EXCEPT ![r] =
                    Put(Record(R, l, v, "running"), l, v,
                        IF Call(R, l).shared THEN "tree" ELSE "live")]
              /\ gate' = gate - 1
    /\ UNCHANGED <<journal, tree, answers, budget>>

\* ChildRunner::run_one: the shared-tree lock, which no cancel interrupts.
TakeTree(r, l, v) ==
    /\ At(r, l, v, "tree") /\ ~tree
    /\ tree' = TRUE
    /\ run' = [run EXCEPT ![r] = Put(@, l, v, "live")]
    /\ UNCHANGED <<journal, gate, answers, budget>>

Journal(r, l, status, value) ==
    journal' = [journal EXCEPT ![r] = Write(@, Line(run[r], l, status, value))]

\* An agent ends: it answered, or it failed, or the cancel interrupted it (or the child
\* could not be built while it had no lock yet).
Reply(r, l, v) ==
    /\ Running(r) /\ run[r].lanes[l].votes[v].at \in {"tree", "live"}
    /\ LET R == run[r]
           lived == R.lanes[l].votes[v].at = "live"
       IN  \E value \in IF lived THEN Answers \cup {"null"} ELSE {"null"} :
              LET status == IF value # "null" THEN "done"
                            ELSE IF R.cancelled THEN "cancelled" ELSE "failed"
              IN  /\ IF value = "null" /\ ~(R.cancelled /\ lived)
                     THEN Spend("fail") ELSE UNCHANGED budget
                  /\ run' = [run EXCEPT ![r] =
                        Ends(Settle([R EXCEPT !.free = @ + 1], l, v, status), l, v,
                             IF R.cancelled THEN "cancelled" ELSE value)]
                  /\ Journal(r, l, status, value)
                  /\ answers' = IF value = "null" THEN answers
                                ELSE [answers EXCEPT ![r] = @ \cup {<<Question(R, l), value>>}]
                  /\ gate' = gate + 1
                  /\ tree' = IF Call(R, l).shared /\ lived THEN FALSE ELSE tree

-----------------------------------------------------------------------------
(* Exec::drive. *)

Over(R, status) == [R EXCEPT !.status = status]
Move(r, R) == run' = [run EXCEPT ![r] = R] /\ UNCHANGED <<journal, gate, tree, answers, budget>>
Complete(R, value, next) ==
    [R EXCEPT !.scope[R.phase] = value, !.at = "phase", !.phase = next, !.union = {}, !.lanes = <<>>]

EnterPhase(r) ==
    /\ Running(r) /\ run[r].at = "phase"
    /\ LET R == run[r]
       IN  Move(r, IF R.phase > Len(Phases) THEN Over(R, "done")
                   ELSE IF R.cancelled THEN Over(R, "cancelled")
                   ELSE IF Shape(R) = "human" THEN [R EXCEPT !.at = "human"]
                   ELSE [R EXCEPT !.at = "lanes", !.lanes = Lanes(R.phase),
                                  !.round = 0, !.quiet = 0])

\* join_all of a phase's lanes.
Joined(R) == \A l \in DOMAIN R.lanes : R.lanes[l].result # None

\* A phase, or a round of one, has all its values.
JoinPhase(r) ==
    /\ Running(r) /\ run[r].at = "lanes" /\ Joined(run[r])
    /\ LET R == run[r]
           P == Phases[R.phase]
           results == [l \in DOMAIN R.lanes |-> R.lanes[l].result]
           errs == {l \in DOMAIN results : results[l] \in Errors}
           found == {results[l] : l \in DOMAIN results} \ {"null"}
           quiet == IF found \subseteq R.union THEN R.quiet + 1 ELSE 0
           union == R.union \cup found
       IN  Move(r, IF errs # {}
                   THEN Over(R, IF results[First(errs)] = "cap" THEN "failed" ELSE "cancelled")
                   ELSE IF P.shape # "quiet" THEN Complete(R, results, R.phase + 1)
                   ELSE IF quiet >= P.rounds \/ R.round + 1 = P.max
                   THEN Complete(R, <<union>>, R.phase + 1)
                   ELSE [R EXCEPT !.round = @ + 1, !.quiet = quiet, !.union = union,
                                  !.lanes = Lanes(R.phase)])

\* Mutant: one route more than the limit.
MutOneJumpMore(R, target) ==
    IF target = 0 THEN Complete(R, <<>>, R.phase + 1)
    ELSE IF R.jumps > MaxJumps THEN Over(Complete(R, <<>>, target), "failed")
    ELSE [Complete(R, <<>>, target) EXCEPT !.jumps = @ + 1]
\* Mutant: a route back to an earlier phase costs nothing.
MutJumpsUncounted(R, target) ==
    IF target = 0 THEN Complete(R, <<>>, R.phase + 1) ELSE Complete(R, <<>>, target)
\* A route to another phase, MAX_ROUTE_JUMPS times; 0 falls through.
Route(R, target) ==
    IF target = 0 THEN Complete(R, <<>>, R.phase + 1)
    ELSE IF R.jumps >= MaxJumps THEN Over(Complete(R, <<>>, target), "failed")
    ELSE [Complete(R, <<>>, target) EXCEPT !.jumps = @ + 1]

Human(r) ==
    /\ Running(r) /\ run[r].at = "human"
    /\ \E target \in Phases[run[r].phase].next :
          Move(r, IF run[r].cancelled THEN Over(run[r], "cancelled") ELSE Route(run[r], target))

\* Nobody answered, in the time the plan gives if it gives one.
NobodyAnswers(r) ==
    /\ Running(r) /\ run[r].at = "human"
    /\ LET P == Phases[run[r].phase]
       IN  Move(r, IF run[r].cancelled THEN Over(run[r], "cancelled")
                   ELSE IF P.timeout = 0 THEN Over(run[r], "failed")
                   ELSE Route(run[r], P.timeout))
HumanTimesOut(r) == NobodyAnswers(r) /\ Phases[run[r].phase].clock

-----------------------------------------------------------------------------
(* Runs. *)

\* WorkflowTool::run_impl: a fresh run, or the resume of one that is over.
Start(r, a) ==
    /\ ~Running(r) /\ Spend("start")
    /\ run' = [run EXCEPT ![r] =
                [Idle EXCEPT !.status = "running", !.args = a, !.cached = Load(journal[r]),
                       !.known = {x[1] : x \in answers[r]}]]
    /\ UNCHANGED <<journal, gate, tree, answers>>

Cancel(r) ==
    /\ Running(r) /\ ~run[r].cancelled /\ Spend("cancel")
    /\ run' = [run EXCEPT ![r].cancelled = TRUE]
    /\ UNCHANGED <<journal, gate, tree, answers>>

Dead == [r \in Runs |-> IF Running(r) THEN [run[r] EXCEPT !.status = "dead", !.lanes = <<>>]
                                      ELSE run[r]]

\* The process dies, perhaps with a line half written (the answer is written raw, so
\* perhaps in the middle of a character) or without its end.
Kill ==
    /\ \E r \in Runs : Running(r)
    /\ Spend("kill")
    /\ run' = Dead /\ gate' = GateWidth /\ tree' = FALSE
    /\ UNCHANGED <<journal, answers>>

Tear(r, l, v) ==
    /\ At(r, l, v, "live") /\ budget.tear > 0 /\ budget.kill > 0
    /\ budget' = [budget EXCEPT !.tear = @ - 1, !.kill = @ - 1]
    /\ run' = Dead /\ gate' = GateWidth /\ tree' = FALSE
    /\ \E value \in Answers, whole, legible \in BOOLEAN :
          /\ whole => legible
          /\ journal' = [journal EXCEPT ![r] =
                Write(@, [Line(run[r], l, "done", value) EXCEPT
                            !.whole = whole, !.ended = FALSE, !.legible = legible])]
          /\ answers' = [answers EXCEPT ![r] = @ \cup {<<Question(run[r], l), value>>}]

-----------------------------------------------------------------------------
Calls(r) == UNION {{l} \X DOMAIN run[r].lanes[l].votes : l \in DOMAIN run[r].lanes}

Dispatch(r) ==
    \E c \in Calls(r) :
        \/ Admit(r, c[1], c[2]) \/ TakeLocal(r, c[1], c[2]) \/ TakeGate(r, c[1], c[2])
        \/ TakeTree(r, c[1], c[2]) \/ Reply(r, c[1], c[2])
Poll(r) == Dispatch(r) \/ EnterPhase(r) \/ JoinPhase(r) \/ HumanTimesOut(r)
Environment ==
    \/ Kill
    \/ \E r \in Runs : \/ Human(r) \/ NobodyAnswers(r) \/ Cancel(r)
                       \/ \E a \in Args : Start(r, a)
                       \/ \E c \in Calls(r) : Tear(r, c[1], c[2])

Next == Environment \/ \E r \in Runs : Poll(r)

\* The runtime polls a run that can move, an agent's session ends (its provider calls and
\* tools have their own limits), and a plan's clock runs out.
Spec == Init /\ [][Next]_vars /\ \A r \in Runs : WF_vars(Poll(r))

-----------------------------------------------------------------------------
(* Properties. *)

Values == Answers \cup {"null", "no"}

\* What every variable may hold (RunSummary, AgentRecord, Entry).
TypeOK ==
    /\ \A r \in Runs :
          /\ run[r].status \in {"idle", "running", "done", "cancelled", "failed", "dead"}
          /\ run[r].at \in {"phase", "lanes", "human"}
          /\ run[r].free \in 0..Width /\ run[r].started \in Nat /\ run[r].jumps \in 0..MaxJumps
          /\ \A id \in DOMAIN run[r].records : run[r].records[id] \in Seq(Statuses) \ {<<>>}
          /\ \A c \in Calls(r) :
                LET call == run[r].lanes[c[1]].votes[c[2]]
                IN  /\ call.at \in {"new", "local", "gate", "tree", "live", "end"}
                    /\ call.value \in Values \cup Errors \cup {None}
          /\ \A k \in DOMAIN journal[r] : journal[r][k].status \in {"done", "failed", "cancelled"}
          /\ \A x \in answers[r] : x[2] \in Answers
    /\ gate \in 0..GateWidth /\ tree \in BOOLEAN

Ended(r) == run[r].status \in {"done", "cancelled", "failed"}
Holds(r) == {c \in Calls(r) : run[r].lanes[c[1]].votes[c[2]].at \in {"tree", "live"}}

\* A run ends, however it ends, only when each of its agents has: none still works, and
\* the summary shows none at work (run_plan fills the counts "once every in-flight agent
\* settled", exec.rs:473).
EndedMeansSettled ==
    \A r \in Runs : Ended(r) =>
        /\ Holds(r) = {}
        /\ RecordsIn(run[r], {"running"}) = {}

\* The agents of a run never exceed max_agents, and one that met the cap is an error of
\* the run, never a phase that quietly lacks an answer.
CapIsAnError ==
    \A r \in Runs :
        /\ Cardinality(RecordsIn(run[r], Statuses \ {"skipped"})) <= Cap
        /\ run[r].status = "done" => run[r].started <= Cap

\* A run the cancel ended inside a phase has a record for every agent that a lane of that
\* phase has come to and that did not meet the cap, so that never started and lost can be
\* told apart (dispatch).
CancelAccountsForAll ==
    \A r \in Runs : run[r].status = "cancelled" /\ run[r].at = "lanes" =>
        \A c \in Calls(r) :
            \/ run[r].lanes[c[1]].votes[c[2]].value = "cap"
            \/ AgentId(run[r], c[1], c[2]) \in DOMAIN run[r].records

\* Whatever a call ends with was said to the very question the call asks in this run,
\* whether an agent said it now or the journal replays it (journal.rs:4-9).
AnswersMatchQuestions ==
    \A r \in Runs : Running(r) =>
        \A c \in Calls(r) :
            LET call == run[r].lanes[c[1]].votes[c[2]]
            IN  call.at = "end" /\ call.value \in Answers =>
                    <<Question(run[r], c[1]), call.value>> \in answers[r]

\* What earlier runs were answered and this one does not find in the journal.
Lost(r) == run[r].known \ {x[1] : x \in run[r].cached}

\* An answer is on disk before anything else happens, so only a torn line loses one, and
\* with it at most the line that the next append glues to it; unless the line was cut
\* inside a character, when the file is lost as a whole and never half of it
\* (Journal::record, Journal::load).
AnswersKept ==
    \A r \in Runs :
        \/ Cardinality(Lost(r)) <= 2 * (MaxTears - budget.tear)
        \/ run[r].cached = {} /\ Garbled(journal[r])

\* "A run killed mid-write leaves at most one torn tail, and one lost cache hit"
\* (journal.rs:77-79), first of any torn line and then of one that leaves the file
\* readable.
OneHitPerTear == \A r \in Runs : Cardinality(Lost(r)) <= MaxTears - budget.tear
OneHitPerReadableTear ==
    \A r \in Runs : ~Garbled(journal[r]) => Cardinality(Lost(r)) <= MaxTears - budget.tear

\* From the cancel on no call of the run takes a slot of the process.
CancelStartsNothing ==
    [][\A r \in Runs : run[r].cancelled /\ Running(r) /\ Running(r)' =>
          Cardinality(Holds(r)') <= Cardinality(Holds(r))]_vars

\* Every run ends: no slot, lock, vote, round, route or cancel keeps it for ever.
RunsEnd == \A r \in Runs : Running(r) ~> ~Running(r)
=============================================================================

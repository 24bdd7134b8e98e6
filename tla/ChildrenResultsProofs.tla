------------------------ MODULE ChildrenResultsProofs ------------------------
(***************************************************************************)
(* Proofs about Children, for every value of its constants: a result that  *)
(* a `wait` returned is not also on its way to the model, and none is      *)
(* lost.                                                                   *)
(***************************************************************************)
EXTENDS ChildrenProofs

-----------------------------------------------------------------------------
(* Who has seen the result of turn r of child i, and what was said of it. *)

\* A reader has it: waited for, or in the oneshot of a call that waits.
Handed(c, i, r) == calls[c].at = "parked" /\ calls[c].got.child = i /\ calls[c].got.run = r
Seen(i, r) == <<i, r>> \in waited \/ \E c \in Calls : Handed(c, i, r)

\* A notification of it waits in the mailbox, or is held.
Mailed(k, i, r) == inbox[k] = [kind |-> "Notify", child |-> i, run |-> r]
Noted(i, r) == <<i, r>> \in held \/ \E k \in 1..Len(inbox) : Mailed(k, i, r)

\* No result is of a turn to come; that of a turn that has told nobody is neither seen nor
\* noted, and until it is published not seen; one handed over without a notification gets none.
Untold == {"none", "fg", "drive", "notify"}
Unread == Untold \cup {"publish"}
Current ==
    /\ \A i \in Ids, r \in Nat : Seen(i, r) \/ Noted(i, r) => r <= tasks[i].run
    /\ \A i \in Ids : tasks[i].at \in Unread => ~Seen(i, tasks[i].run)
    /\ \A i \in Ids : tasks[i].at \in Untold => ~Noted(i, tasks[i].run)
    /\ \A c \in Calls, i \in Ids, r \in Nat :
          Handed(c, i, r) /\ ~calls[c].got.notified => ~Noted(i, r)

\* A result waited for: what is held or under way of it is withdrawn, now or behind it.
Recalled(k, i) == Withdrawing(i) \/ \E l \in k..Len(inbox) : inbox[l] = Unnotify(i)
Readers ==
    \A i \in Ids, r \in Nat : <<i, r>> \in waited =>
        /\ <<i, r>> \in held => Recalled(1, i)
        /\ \A k \in 1..Len(inbox) : Mailed(k, i, r) => Recalled(k, i)

\* With no panic to come, none has come.
NoPanics ==
    /\ "panics" \in DOMAIN budget /\ budget.panics = 0
    /\ \A i \in Ids : tasks[i].at \notin {"panicked", "lastword"}
ReadOnce == Current /\ Readers /\ NoPanics

-----------------------------------------------------------------------------
(* One reader. *)

\* A call that no result comes to: it stays as it is, or waits for none.
Still(c) ==
    \/ calls'[c] = calls[c]
    \/ /\ calls[c].at # "withdraw"
       /\ calls'[c].at = "parked" => calls'[c].got.child = 0

\* A child that tells no more than before: only a new turn begins with a result unread.
Keeps(i) ==
    /\ tasks[i].at = "withdraw" => tasks'[i].at = "withdraw"
    /\ tasks'[i].at \notin {"panicked", "lastword"}
    /\ tasks'[i].run >= tasks[i].run
    /\ tasks'[i].run = tasks[i].run =>
          /\ tasks'[i].at \in Untold => tasks[i].at \in Untold
          /\ tasks'[i].at \in Unread => tasks[i].at \in Unread

\* The turn of the child is over, and its result goes to the call.
Served(c, i) ==
    /\ tasks[i].at \in Unread /\ tasks'[i].at \notin Unread /\ tasks'[i].run = tasks[i].run
    /\ calls[c].at = "parked"
    /\ \E b \in BOOLEAN : /\ calls'[c].got = Handoff(i, tasks[i].run, b)
                          /\ b \/ tasks[i].at \in Untold

\* What keeps ReadOnce when nothing is sent and no `wait` returns.
Quiet ==
    /\ UNCHANGED <<inbox, waited>> /\ held' \subseteq held
    /\ "panics" \in DOMAIN budget' /\ budget'.panics = 0
    /\ \A i \in Ids : Keeps(i)
    /\ \A i \in Ids' \ Ids : tasks'[i].at = "none"
    /\ \A c \in Calls : Still(c) \/ \E i \in Ids : Served(c, i)

LEMMA ReadQuiet ==
    ASSUME CInv, CInv', Posted, ReadOnce, Ids \subseteq Ids', Quiet
    PROVE  ReadOnce'
  <1>1. /\ Ids' \subseteq Nat \ {0} /\ \A i \in Ids : tasks[i].run \in Nat
        /\ \A i \in Ids : tasks[i].at \in Untold => tasks[i].at \in Unread
    BY ChildOf DEF Ids, Tasks, Unread
  <1>2. \A n \in held \cup waited : n[1] \in Ids
    BY DEF Posted, Results
  <1>3. ASSUME NEW c \in Calls, NEW i \in Ids', NEW r \in Nat, Handed(c, i, r)'
        PROVE  /\ i \in Ids
               /\ \/ Handed(c, i, r) /\ calls'[c] = calls[c]
                  \/ /\ tasks[i].at \in Unread /\ tasks'[i].at \notin Unread
                     /\ tasks'[i].run = tasks[i].run /\ r = tasks[i].run
                     /\ calls'[c].got.notified \/ tasks[i].at \in Untold
    <2>1. calls'[c].at = "parked" /\ calls'[c].got.child = i /\ calls'[c].got.run = r /\ i # 0
      BY <1>1, <1>3 DEF Handed
    <2>2. CASE calls'[c] = calls[c]
      <3>1. i \in Ids
        BY <2>1, <2>2, CallOf DEF CallFits
      <3> QED BY <2>1, <2>2, <3>1 DEF Handed
    <2>3. CASE \E j \in Ids : Served(c, j)
      <3>1. PICK j \in Ids : Served(c, j)
        BY <2>3
      <3>2. PICK b \in BOOLEAN : /\ calls'[c].got = Handoff(j, tasks[j].run, b)
                                 /\ b \/ tasks[j].at \in Untold
        BY <3>1 DEF Served
      <3>3. j = i /\ r = tasks[j].run /\ calls'[c].got.notified = b
        BY <2>1, <3>2 DEF Handoff
      <3> QED BY <3>1, <3>2, <3>3 DEF Served
    <2> QED BY <2>1, <2>2, <2>3 DEF Quiet, Still
  <1>4. ASSUME NEW i \in Ids', NEW r \in Nat, Noted(i, r)'
        PROVE  i \in Ids /\ Noted(i, r)
    <2>1. CASE <<i, r>> \in held'
      BY <1>2, <2>1 DEF Quiet, Noted
    <2>2. CASE \E k \in 1..Len(inbox') : Mailed(k, i, r)'
      <3>1. PICK k \in 1..Len(inbox) : inbox[k] = [kind |-> "Notify", child |-> i, run |-> r]
        BY <2>2 DEF Quiet, Mailed
      <3>2. inbox[k] \in Messages
        BY <3>1 DEF Posted
      <3> QED BY <3>1, <3>2 DEF Messages, Noted, Mailed
    <2> QED BY <1>4, <2>1, <2>2 DEF Noted
  <1>5. Current'
    <2>0. \A i \in Ids' : tasks'[i].run \in Nat
      <3>1. tasks' \in Seq(Tasks) /\ Len(tasks') = Len(slots') /\ Ids' = 1..Len(slots')
        BY DEF CInv, KInv, Registry, Ids, Tasks, Senders
      <3>2. \A i \in Ids' : tasks'[i] \in Tasks
        BY <3>1
      <3> QED BY <3>2 DEF Tasks
    <2>1. /\ \A i \in Ids, r \in Nat : Seen(i, r) \/ Noted(i, r) => r <= tasks[i].run
          /\ \A i \in Ids, r \in Nat : tasks[i].at \in Unread /\ r = tasks[i].run => ~Seen(i, r)
          /\ \A i \in Ids, r \in Nat : tasks[i].at \in Untold /\ r = tasks[i].run => ~Noted(i, r)
          /\ \A c \in Calls, i \in Ids, r \in Nat :
                Handed(c, i, r) /\ ~calls[c].got.notified => ~Noted(i, r)
      BY DEF ReadOnce, Current
    <2>2. ASSUME NEW i \in Ids', NEW r \in Nat, Seen(i, r)'
          PROVE  /\ i \in Ids
                 /\ \/ Seen(i, r)
                    \/ tasks'[i].at \notin Unread /\ tasks'[i].run = tasks[i].run /\ r = tasks[i].run
      <3>1. CASE <<i, r>> \in waited'
        BY <1>2, <3>1 DEF Quiet, Seen
      <3>2. CASE \E c \in Calls : Handed(c, i, r)'
        BY <1>3, <3>2 DEF Seen
      <3> QED BY <2>2, <3>1, <3>2 DEF Seen
    <2>3. \A i \in Ids : /\ tasks'[i].run \in Nat /\ tasks'[i].run >= tasks[i].run
                         /\ tasks'[i].run = tasks[i].run =>
                               /\ tasks'[i].at \in Untold => tasks[i].at \in Untold
                               /\ tasks'[i].at \in Unread => tasks[i].at \in Unread
      BY <2>0 DEF Quiet, Keeps
    <2>4. ASSUME NEW i \in Ids', NEW r \in Nat, Seen(i, r)' \/ Noted(i, r)'
          PROVE  r <= tasks'[i].run
      <3>1. i \in Ids /\ r <= tasks[i].run
        BY <1>1, <1>4, <2>1, <2>2, <2>4
      <3> QED BY <1>1, <2>3, <3>1
    <2>5. ASSUME NEW i \in Ids', tasks'[i].at \in Unread, NEW r \in Nat, r = tasks'[i].run, Seen(i, r)'
          PROVE  FALSE
      <3>1. i \in Ids /\ (Seen(i, r) \/ r = tasks[i].run)
        BY <2>2, <2>5
      <3>2. r <= tasks[i].run
        BY <1>1, <2>1, <3>1
      <3>3. r = tasks[i].run /\ tasks[i].at \in Unread
        BY <1>1, <2>3, <2>5, <3>1, <3>2
      <3>4. Seen(i, r)
        BY <2>2, <2>5, <3>1
      <3> QED BY <2>1, <3>1, <3>3, <3>4
    <2>6. ASSUME NEW i \in Ids', tasks'[i].at \in Untold, NEW r \in Nat, r = tasks'[i].run, Noted(i, r)'
          PROVE  FALSE
      <3>1. i \in Ids /\ Noted(i, r)
        BY <1>4, <2>6
      <3>2. r = tasks[i].run /\ tasks[i].at \in Untold
        BY <1>1, <2>1, <2>3, <2>6, <3>1
      <3> QED BY <2>1, <3>1, <3>2
    <2>7. ASSUME NEW c \in Calls, NEW i \in Ids', NEW r \in Nat, Handed(c, i, r)',
                 ~calls'[c].got.notified, Noted(i, r)'
          PROVE  FALSE
      <3>1. i \in Ids /\ Noted(i, r)
        BY <1>4, <2>7
      <3>2. CASE Handed(c, i, r) /\ calls'[c] = calls[c]
        BY <2>1, <2>7, <3>1, <3>2
      <3>3. CASE r = tasks[i].run /\ tasks[i].at \in Untold
        BY <2>1, <3>1, <3>3
      <3> QED BY <1>3, <2>7, <3>2, <3>3
    <2> QED BY <2>0, <2>4, <2>5, <2>6, <2>7 DEF Current
  <1>6. \A i \in Ids : Withdrawing(i) => Withdrawing(i)'
    BY DEF Withdrawing, Quiet, Keeps, Still, Served
  <1>7. Readers'
    <2> SUFFICES ASSUME NEW i \in Ids', NEW r \in Nat, <<i, r>> \in waited'
                 PROVE  /\ <<i, r>> \in held' => Recalled(1, i)'
                        /\ \A k \in 1..Len(inbox') : Mailed(k, i, r)' => Recalled(k, i)'
      BY DEF Readers
    <2>1. i \in Ids /\ <<i, r>> \in waited /\ inbox' = inbox /\ held' \subseteq held
      BY <1>2 DEF Quiet
    <2>2. \A k \in 1..Len(inbox) \cup {1} : Recalled(k, i) => Recalled(k, i)'
      BY <1>6, <2>1 DEF Recalled, Unnotify
    <2>3. /\ <<i, r>> \in held => Recalled(1, i)
          /\ \A k \in 1..Len(inbox) : Mailed(k, i, r) => Recalled(k, i)
      BY <2>1 DEF ReadOnce, Readers
    <2>4. \A k \in 1..Len(inbox) : Mailed(k, i, r)' => Mailed(k, i, r)
      BY <2>1 DEF Mailed
    <2> QED BY <2>1, <2>2, <2>3, <2>4
  <1>8. NoPanics'
    BY DEF NoPanics, Quiet, Keeps
  <1> QED BY <1>5, <1>7, <1>8 DEF ReadOnce

\* One call goes elsewhere, and not to wait with a result.
LEMMA MoveStill ==
    ASSUME CInv, NEW c \in Calls, NEW k, calls' = [calls EXCEPT ![c] = k],
           calls[c].at # "withdraw", k.at # "parked" \/ k.got.child = 0
    PROVE  \A d \in Calls : Still(d)
  <1>1. calls'[c] = k /\ \A d \in Calls \ {c} : calls'[d] = calls[d]
    BY DEF CInv
  <1> QED BY <1>1 DEF Still

LEMMA OverStill ==
    ASSUME CInv, NEW c \in Calls, calls' = Over(c), calls[c].at # "withdraw"
    PROVE  \A d \in Calls : Still(d)
  BY OverIs, IdleFits DEF Still

\* One call goes on to another step.
LEMMA StepStill ==
    ASSUME CInv, NEW c \in Calls, NEW at, calls' = [calls EXCEPT ![c].at = at],
           calls[c].at \notin {"parked", "withdraw", "reply"}
    PROVE  \A d \in Calls : Still(d)
  <1> DEFINE k == [calls[c] EXCEPT !.at = at]
  <1>1. k.got = Empty /\ calls' = [calls EXCEPT ![c] = k]
    BY CallOf DEF CallFits, CallRecords
  <1>2. k.got.child = 0
    BY <1>1 DEF Empty
  <1> HIDE DEF k
  <1> QED BY <1>1, <1>2, MoveStill

\* Senders are dropped of calls that wait for something.
LEMMA DropStill ==
    ASSUME CInv, NEW S, NEW f, f = Drop(S), \A c \in S \cap Calls : calls[c].at # "withdraw"
    PROVE  \A c \in Calls : f[c] = calls[c] \/ (calls[c].at # "withdraw" /\ f[c].got.child = 0)
  <1> SUFFICES ASSUME NEW c \in Calls, c \in S, NEW m, m = [calls[c] EXCEPT !.got = Dropped]
               PROVE  m.got.child = 0
    BY DEF Drop
  <1>1. m.got = Dropped
    BY CallOf DEF CallRecords
  <1> QED BY <1>1 DEF Dropped, Empty

\* The tasks of the children are as they were.
LEMMA SameKeeps ==
    ASSUME CInv, NoPanics, NEW i \in Ids, tasks'[i] = tasks[i] \/ (tasks'[i].at = tasks[i].at /\ tasks'[i].run = tasks[i].run)
    PROVE  Keeps(i)
  <1>1. tasks[i].run \in Nat
    BY ChildOf DEF Tasks
  <1> QED BY <1>1 DEF Keeps, NoPanics

\* One task goes on, and no call hears of it.
LEMMA OneKeeps ==
    ASSUME CInv, NoPanics, NEW i \in Ids, Ids' = Ids, But(tasks', tasks, i), Keeps(i)
    PROVE  (\A j \in Ids : Keeps(j)) /\ Ids' \ Ids = {}
  BY SameKeeps, RegistryOf DEF But

LEMMA StillQuiet ==
    ASSUME CInv, NoPanics, \A c \in Calls : Still(c), \A i \in Ids : Keeps(i), Ids' \ Ids = {},
           UNCHANGED <<inbox, waited, held, budget>>
    PROVE  Quiet
  BY DEF Quiet, NoPanics

\* A call ends or goes on, its child with it, and nothing is said of a result.
LEMMA StartQuiet ==
    ASSUME CInv, KInv', NoPanics, NEW c \in Calls, SpawnStarts(c) \/ SpawnReturns(c)
    PROVE  Quiet
  <1> SUFFICES ASSUME NEW i, i = calls[c].on
               PROVE  Quiet
    OBVIOUS
  <1>1. i \in Ids /\ tasks[i].run \in Nat /\ tasks[i].at \in {"none", "fg"}
    <2>1. calls[c].at \in {"permit", "driving"}
      BY DEF SpawnStarts, SpawnReturns
    <2> QED BY <2>1, CallOf, ChildOf DEF CallFits, CInv, Begun, Tasks
  <1>2. /\ UNCHANGED <<inbox, waited, held, budget>>
        /\ \/ tasks[i].at = "none" /\ (GoTo(i, "drive") \/ GoTo(i, "fg"))
           \/ GoTo(i, "park")
    BY DEF SpawnStarts, SpawnReturns, GoTo, CInv, Begun
  <1>3. But(tasks', tasks, i) /\ Keeps(i)
    BY <1>1, <1>2, Goes DEF Keeps, Untold, Unread
  <1>4. Ids' = Ids
    <2>1. CASE SpawnStarts(c)
      BY <2>1, SameChildren DEF SpawnStarts
    <2>2. CASE SpawnReturns(c)
      BY <2>2, SameChildren DEF SpawnReturns
    <2> QED BY <2>1, <2>2
  <1>5. \A d \in Calls : Still(d)
    <2>1. /\ calls[c].at \in {"permit", "driving"}
          /\ calls' = Over(c) \/ calls' = [calls EXCEPT ![c].at = "driving"]
      BY DEF SpawnStarts, SpawnReturns
    <2> QED BY <2>1, OverStill, StepStill
  <1> QED BY <1>1, <1>2, <1>3, <1>4, <1>5, OneKeeps, StillQuiet

\* A child that fails to start serves its waiter, if it has one.
LEMMA SpawnFailsQuiet ==
    ASSUME CInv, KInv', NoPanics, NEW c \in Calls, SpawnFails(c)
    PROVE  Quiet
  <1> SUFFICES ASSUME NEW i, i = calls[c].on, NEW w, w = WaiterOf(i),
                      NEW C, C = IF Working(slots[i]) THEN {w} \cap Calls ELSE {}
               PROVE  Quiet
    OBVIOUS
  <1>1. /\ calls[c].at = "permit" /\ Abandoned(i, {c}) /\ GoTo(i, "ended")
        /\ UNCHANGED <<inbox, waited, held, budget>>
    BY DEF SpawnFails, GoTo
  <1>2. i \in Ids /\ tasks[i].run \in Nat /\ tasks[i].at = "none"
    BY <1>1, CallOf, ChildOf DEF CallFits, CInv, Begun, Tasks
  <1>3. PICK E \in SUBSET Calls : E = {c}
    OBVIOUS
  <1>4. Abandons(i, E, C)
    BY <1>1, <1>2, <1>3, AbandonedIs
  <1>5. But(tasks', tasks, i) /\ tasks'[i].at = "ended" /\ tasks'[i].run = tasks[i].run /\ Ids' = Ids
    BY <1>1, <1>2, <1>4, Goes DEF Abandons
  <1>6. Keeps(i)
    BY <1>2, <1>5 DEF Keeps, Untold, Unread
  <1>7. \A d \in Calls : Still(d) \/ Served(d, i)
    <2> SUFFICES ASSUME NEW d \in Calls PROVE Still(d) \/ Served(d, i)
      OBVIOUS
    <2>1. CASE d \in C
      <3> SUFFICES ASSUME NEW h, h = Handoff(i, tasks[i].run, FALSE) PROVE Served(d, i)
        OBVIOUS
      <3>1. calls[d].at = "parked" /\ calls'[d] = [calls[d] EXCEPT !.got = h]
        BY <1>4, <2>1 DEF Abandons
      <3>2. calls'[d].got = h
        BY <3>1, CallOf DEF CallRecords
      <3> QED BY <1>2, <1>5, <3>1, <3>2 DEF Served, Untold, Unread
    <2>2. CASE d \in E
      BY <1>1, <1>3, <1>4, <2>2, IdleFits DEF Abandons, Still
    <2>3. CASE d \notin C \cup E
      BY <1>4, <2>3 DEF Abandons, Still
    <2> QED BY <2>1, <2>2, <2>3
  <1>8. \A j \in Ids : Keeps(j)
    BY <1>2, <1>5, <1>6, OneKeeps
  <1> QED BY <1>1, <1>2, <1>5, <1>7, <1>8 DEF Quiet, NoPanics

\* A call that changes no child.
LEMMA CallQuiet ==
    ASSUME CInv, KInv', NoPanics, NEW c \in Calls, calls[c].at # "withdraw",
           UNCHANGED <<tasks, inbox, waited, held, budget>>, Ids' = Ids,
           \/ calls' = Over(c)
           \/ /\ calls[c].at \notin {"parked", "reply"}
              /\ \E at \in Steps : calls' = [calls EXCEPT ![c].at = at]
    PROVE  Quiet
  <1>1. \A d \in Calls : Still(d)
    BY OverStill, StepStill
  <1>2. \A i \in Ids : Keeps(i)
    BY SameKeeps
  <1> QED BY <1>1, <1>2, StillQuiet

LEMMA WaitQuiet ==
    ASSUME CInv, KInv', NoPanics, NEW c \in Calls,
           \/ Wait(c) /\ ~(\E i \in Ids : slots[i].state = "Done" /\ TakeDone(c, i))
           \/ WaitAny(c) /\ ~(\E i \in Ids : slots[i].state = "Done" /\ TakeDone(c, i))
           \/ WaitCancelled(c) \/ WaitTimesOut(c)
           \/ Resume(c) \/ ResumeSends(c) \/ ResumeReturns(c)
    PROVE  Quiet
  <1>1. Ids' = Ids
    <2>1. CASE Wait(c) \/ WaitAny(c)
      <3>1. UNCHANGED slots \/ \E i : \E s : slots' = [slots EXCEPT ![i] = s]
        BY <2>1 DEF Wait, WaitAny, TakeDone, Refused
      <3> QED BY <3>1, SameChildren
    <2>2. CASE WaitCancelled(c) \/ WaitTimesOut(c)
      <3>1. DOMAIN slots' = Ids
        BY <2>2 DEF WaitCancelled, WaitTimesOut, DropReceivers
      <3> QED BY <3>1, SameChildren
    <2>3. CASE Resume(c) \/ ResumeSends(c) \/ ResumeReturns(c)
      <3>1. UNCHANGED slots
        BY <2>3 DEF Resume, ResumeSends, ResumeReturns
      <3> QED BY <3>1, SameChildren
    <2> QED BY <2>1, <2>2, <2>3
  <1>2. CASE Wait(c) /\ ~(\E i \in Ids : slots[i].state = "Done" /\ TakeDone(c, i))
    <2>1. calls[c].on \in Ids
      BY <1>2, CallOf DEF Wait, CallFits
    <2>2. /\ calls[c].at = "due" /\ UNCHANGED <<tasks, inbox, held, waited, budget>>
          /\ calls' = Over(c) \/ calls' = [calls EXCEPT ![c].at = "parked"]
      BY <1>2, <2>1 DEF Wait, Refused
    <2> QED BY <1>1, <2>2, CallQuiet DEF Steps
  <1>3. CASE WaitAny(c) /\ ~(\E i \in Ids : slots[i].state = "Done" /\ TakeDone(c, i))
    <2>1. Unclaimed # {} => Oldest(Unclaimed) \in Ids /\ slots[Oldest(Unclaimed)].state = "Done"
      BY OldestIn DEF Unclaimed, Parked
    <2>2. /\ calls[c].at = "due" /\ UNCHANGED <<tasks, inbox, held, waited, budget>>
          /\ calls' = Over(c) \/ calls' = [calls EXCEPT ![c].at = "parked"]
      BY <1>3, <2>1 DEF WaitAny, Refused
    <2> QED BY <1>1, <2>2, CallQuiet DEF Steps
  <1>4. CASE WaitCancelled(c) \/ WaitTimesOut(c) \/ ResumeReturns(c)
    <2>1. /\ calls[c].at \in {"parked", "reply"} /\ calls' = Over(c)
          /\ UNCHANGED <<tasks, inbox, held, waited, budget>>
      BY <1>4 DEF WaitCancelled, WaitTimesOut, ResumeReturns, DropReceivers
    <2> QED BY <1>1, <2>1, CallQuiet
  <1>5. CASE Resume(c) \/ ResumeSends(c)
    <2>1. /\ calls[c].at \in {"due", "send"} /\ UNCHANGED <<tasks, inbox, held, waited, budget>>
          /\ \/ calls' = Over(c)
             \/ \E at \in {"send", "reply"} : calls' = [calls EXCEPT ![c].at = at]
      BY <1>5 DEF Resume, ResumeSends
    <2> QED BY <1>1, <2>1, CallQuiet DEF Steps
  <1> QED BY <1>2, <1>3, <1>4, <1>5

\* A `resume` that is cancelled stops its child, and the wait on it is told.
LEMMA ResumeCancelledQuiet ==
    ASSUME CInv, KInv', NoPanics, NEW c \in Calls, ResumeCancelled(c)
    PROVE  Quiet
  <1> SUFFICES ASSUME NEW i, i = calls[c].on, NEW f, f = Drop({slots[i].waiter})
               PROVE  Quiet
    OBVIOUS
  <1>1. /\ calls[c].at = "reply" /\ Stop(i) /\ calls' = [f EXCEPT ![c] = Idle]
        /\ tasks' = [j \in Ids |-> [tasks[j] EXCEPT !.reply = Dead(@, c)]]
        /\ UNCHANGED <<inbox, held, waited, budget>>
    BY DEF ResumeCancelled
  <1>2. Ids' = Ids /\ i \in Ids
    BY <1>1, SameChildren, CallOf DEF CallFits
  <1>3. \A d \in Calls : f[d] = calls[d] \/ (calls[d].at # "withdraw" /\ f[d].got.child = 0)
    <2>1. \A d \in {slots[i].waiter} \cap Calls : calls[d].at # "withdraw"
      BY <1>2, KeptIs
    <2> QED BY <2>1, DropStill
  <1>4. calls'[c] = Idle /\ \A d \in Calls \ {c} : calls'[d] = f[d]
    <2>1. DOMAIN f = Calls
      BY DEF Drop
    <2> QED BY <1>1, <2>1
  <1>5. \A d \in Calls : Still(d)
    BY <1>1, <1>3, <1>4, IdleFits DEF Still
  <1>6. \A j \in Ids : Keeps(j)
    <2> SUFFICES ASSUME NEW j \in Ids PROVE Keeps(j)
      OBVIOUS
    <2> DEFINE w == Dead(tasks[j].reply, c)
    <2>1. tasks'[j] = [tasks[j] EXCEPT !.reply = w]
      BY <1>1
    <2> HIDE DEF w
    <2>2. tasks'[j].at = tasks[j].at /\ tasks'[j].run = tasks[j].run
      BY <2>1, ChildOf DEF Tasks
    <2> QED BY <2>2, SameKeeps
  <1> QED BY <1>1, <1>2, <1>5, <1>6, StillQuiet

\* A child is registered, or refused.
LEMMA SpawnQuiet ==
    ASSUME CInv, KInv', NoPanics, NEW c \in Calls, Spawn(c)
    PROVE  Quiet
  <1>1. calls[c].at = "due" /\ UNCHANGED <<inbox, held, waited, budget>>
    BY DEF Spawn
  <1>2. CASE calls' = Over(c)
    <2>1. UNCHANGED <<slots, tasks>>
      BY <1>2, SpawnRefused
    <2> QED BY <1>1, <1>2, <2>1, SameChildren, CallQuiet
  <1>3. CASE calls' # Over(c)
    <2> SUFFICES ASSUME NEW n, n = Len(slots) + 1 PROVE Quiet
      OBVIOUS
    <2>1. PICK V \in SUBSET Parked : Registers(V, n, c)
      BY <1>3, SpawnIs
    <2> SUFFICES ASSUME NEW S, S = {slots[i].waiter : i \in V}, NEW f, f = Drop(S) PROVE Quiet
      OBVIOUS
    <2>2. \A d \in S \cap Calls : calls[d].at # "withdraw"
      BY KeptIs DEF Parked
    <2>3. \A d \in Calls : f[d] = calls[d] \/ (calls[d].at # "withdraw" /\ f[d].got.child = 0)
      BY <2>2, DropStill
    <2>4. calls' = [f EXCEPT ![c] = [f[c] EXCEPT !.at = "permit", !.on = n]]
      BY <2>1 DEF Registers
    <2>5. DOMAIN f = Calls /\ \A d \in Calls : f[d] \in {calls[d], [calls[d] EXCEPT !.got = Dropped]}
      BY DEF Drop
    <2>6. "at" \in DOMAIN f[c]
      <3>1. calls[c] \in CallRecords
        BY CallOf
      <3> QED BY <2>5, <3>1 DEF CallRecords
    <2>7. calls'[c].at = "permit" /\ \A d \in Calls \ {c} : calls'[d] = f[d]
      BY <2>4, <2>5, <2>6
    <2>8. \A d \in Calls : Still(d)
      BY <1>1, <2>3, <2>7 DEF Still
    <2>9. /\ Ids' = Ids \cup {n} /\ tasks'[n].at = "none" /\ \A i \in Ids : tasks'[i] = tasks[i]
      BY <2>1 DEF Registers
    <2>10. \A i \in Ids : Keeps(i)
      BY <2>9, SameKeeps
    <2> QED BY <1>1, <2>8, <2>9, <2>10 DEF Quiet, NoPanics
  <1> QED BY <1>2, <1>3

-----------------------------------------------------------------------------
(* The tasks. *)

\* A turn's end that serves a waiter, or finds none.
LEMMA ServeQuiet ==
    ASSUME CInv, KInv', NoPanics, NEW i \in Ids, NEW w, w = WaiterOf(i), NEW b \in BOOLEAN, NEW at,
           calls' = IF w \in Calls THEN Put(w, Handoff(i, tasks[i].run, b)) ELSE calls,
           GoTo(i, at), Ids' = Ids, tasks[i].at \in Unread, tasks[i].at \in Untold \/ b,
           at \in {"park", "withdraw"} \/ (at = "notify" /\ w \notin Calls /\ tasks[i].at \in Untold),
           UNCHANGED <<inbox, held, waited, budget>>
    PROVE  Quiet
  <1>1. But(tasks', tasks, i) /\ tasks'[i].at = at /\ tasks'[i].run = tasks[i].run /\ tasks[i].run \in Nat
    BY Goes, ChildOf DEF Tasks
  <1>2. Keeps(i)
    BY <1>1 DEF Keeps, Untold, Unread
  <1>3. \A d \in Calls : Still(d) \/ Served(d, i)
    <2> SUFFICES ASSUME NEW d \in Calls, NEW h, h = Handoff(i, tasks[i].run, b)
                 PROVE  Still(d) \/ Served(d, i)
      OBVIOUS
    <2>1. CASE w \notin Calls \/ d # w
      BY <2>1 DEF Still, Put, CInv
    <2>2. CASE w \in Calls /\ d = w
      <3> DEFINE k == [calls[w] EXCEPT !.got = h]
      <3>1. calls' = [calls EXCEPT ![w] = k] /\ w \in DOMAIN calls
        BY <2>2 DEF Put, CInv
      <3>2. calls'[d] = k
        BY <2>2, <3>1, Zenon
      <3>3. k.got = h
        BY <2>2, CallOf DEF CallRecords
      <3>4. calls[d].at = "parked"
        BY <2>2, WaiterIs
      <3>5. at \notin Unread
        BY <2>2 DEF Unread, Untold
      <3> QED BY <1>1, <3>2, <3>3, <3>4, <3>5 DEF Served
    <2> QED BY <2>1, <2>2
  <1>4. \A j \in Ids : Keeps(j)
    BY <1>1, <1>2, OneKeeps
  <1> QED BY <1>3, <1>4 DEF Quiet, NoPanics

LEMMA FinishQuiet ==
    ASSUME CInv, KInv', NoPanics, NEW i \in Ids, Finish(i)
    PROVE  Quiet
  <1> SUFFICES ASSUME NEW w, w = WaiterOf(i)
               PROVE  Quiet
    OBVIOUS
  <1>1. /\ tasks[i].at = "drive" /\ UNCHANGED <<inbox, held, waited, budget>>
        /\ \E s : slots' = [slots EXCEPT ![i] = s]
    BY DEF Finish
  <1>2. Ids' = Ids
    BY <1>1, SameChildren
  <1>3. \/ w \in Calls /\ calls' = Put(w, Handoff(i, tasks[i].run, FALSE)) /\ GoTo(i, "park")
        \/ w \notin Calls /\ calls' = calls /\ GoTo(i, "notify")
    BY DEF Finish
  <1>4. tasks[i].at \in Untold /\ tasks[i].at \in Unread
    BY <1>1 DEF Untold, Unread
  <1>5. CASE w \in Calls
    BY <1>1, <1>2, <1>3, <1>4, <1>5, ServeQuiet
  <1>6. CASE w \notin Calls
    BY <1>1, <1>2, <1>3, <1>4, <1>6, ServeQuiet
  <1> QED BY <1>5, <1>6

\* A task goes on, and no call hears of it but one that awaits a reply.
LEMMA TaskQuiet ==
    ASSUME CInv, NoPanics, NEW i \in Ids, Ids' = Ids, But(tasks', tasks, i),
           tasks'[i].at \notin Unread \cup {"panicked", "lastword"}, tasks'[i].run = tasks[i].run,
           tasks[i].at # "withdraw", \A c \in Calls : Still(c),
           UNCHANGED <<inbox, waited, held, budget>>
    PROVE  Quiet
  <1>1. Keeps(i)
    BY ChildOf DEF Keeps, Unread, Tasks
  <1> QED BY <1>1, OneKeeps, StillQuiet

LEMMA PublishQuiet ==
    ASSUME CInv, KInv', NoPanics, NEW i \in Ids, Publish(i)
    PROVE  Quiet
  <1> SUFFICES ASSUME NEW w, w = WaiterOf(i)
               PROVE  Quiet
    OBVIOUS
  <1>1. /\ tasks[i].at = "publish" /\ UNCHANGED <<inbox, held, waited, budget>>
        /\ UNCHANGED slots \/ \E s : slots' = [slots EXCEPT ![i] = s]
    BY DEF Publish
  <1>2. Ids' = Ids
    BY <1>1, SameChildren
  <1>3. CASE slots[i].state = "Finishing"
    <2>1. slots[i].run = tasks[i].run
      BY <1>3, ChildOf DEF Fits
    <2>2. PICK at \in {"park", "withdraw"} :
              /\ calls' = IF w \in Calls THEN Put(w, Handoff(i, slots[i].run, TRUE)) ELSE calls
              /\ GoTo(i, at)
      BY <1>3 DEF Publish
    <2>3. tasks[i].at \in Unread
      BY <1>1 DEF Unread
    <2> QED BY <1>1, <1>2, <2>1, <2>2, <2>3, ServeQuiet
  <1>4. CASE slots[i].state # "Finishing"
    <2>1. UNCHANGED calls /\ GoTo(i, "park")
      BY <1>4 DEF Publish
    <2>2. But(tasks', tasks, i) /\ tasks'[i].at = "park" /\ tasks'[i].run = tasks[i].run
      BY <2>1, Goes
    <2> QED BY <1>1, <1>2, <2>1, <2>2, TaskQuiet DEF Still, Unread, Untold
  <1> QED BY <1>3, <1>4

LEMMA ReplyQuiet ==
    ASSUME CInv, KInv', NoPanics, NEW i \in Ids, Reply(i)
    PROVE  Quiet
  <1> DEFINE t == [tasks[i] EXCEPT !.at = "park", !.reply = NoCall]
             w == tasks[i].reply
             h == Handoff(i, tasks[i].run, FALSE)
             k == [calls[w] EXCEPT !.got = h]
  <1>1. /\ tasks[i].at = "drive" /\ Settled(i) /\ tasks' = [tasks EXCEPT ![i] = t]
        /\ UNCHANGED <<inbox, held, waited, budget>>
    BY DEF Reply
  <1>2. Ids' = Ids
    BY <1>1, SameChildren
  <1>3. t.at = "park" /\ t.run = tasks[i].run
    BY ChildOf DEF Tasks
  <1>4. \A d \in Calls : Still(d)
    <2>1. CASE w \in Calls
      <3>1. calls' = [calls EXCEPT ![w] = k]
        BY <2>1 DEF Reply, Put
      <3>2. k.at = "reply" /\ calls[w].at = "reply"
        BY <2>1, KeptIs, CallOf DEF CallRecords
      <3> HIDE DEF k, w
      <3> QED BY <2>1, <3>1, <3>2, MoveStill
    <2>2. CASE w \notin Calls
      BY <2>2 DEF Reply, Still
    <2> QED BY <2>1, <2>2
  <1> HIDE DEF t
  <1>5. But(tasks', tasks, i) /\ tasks'[i] = t
    BY <1>1, Moved
  <1> QED BY <1>1, <1>2, <1>3, <1>4, <1>5, TaskQuiet DEF Unread, Untold

\* Another turn begins: nothing of it is known yet.
LEMMA TakeRequestQuiet ==
    ASSUME CInv, KInv', NoPanics, NEW i \in Ids, TakeRequest(i)
    PROVE  Quiet
  <1> DEFINE t == [at |-> "drive", run |-> tasks[i].run + 1, reply |-> reqs[i][1]]
  <1>1. /\ tasks[i].at = "park" /\ tasks' = [tasks EXCEPT ![i] = t]
        /\ UNCHANGED slots \/ \E s : slots' = [slots EXCEPT ![i] = s]
        /\ UNCHANGED <<calls, inbox, held, waited, budget>>
    BY DEF TakeRequest
  <1>2. t.at = "drive" /\ t.run = tasks[i].run + 1 /\ tasks[i].run \in Nat
    BY ChildOf DEF Tasks
  <1> HIDE DEF t
  <1>3. But(tasks', tasks, i) /\ tasks'[i] = t /\ Ids' = Ids
    BY <1>1, Moved, SameChildren
  <1>4. Keeps(i)
    BY <1>1, <1>2, <1>3 DEF Keeps
  <1> QED BY <1>1, <1>3, <1>4, OneKeeps, StillQuiet DEF Still

LEMMA EndQuiet ==
    ASSUME CInv, KInv', NoPanics, NEW i \in Ids, End(i)
    PROVE  Quiet
  <1> SUFFICES ASSUME NEW S, S = Repliers(i) PROVE Quiet
    OBVIOUS
  <1>1. /\ tasks[i].at = "park" /\ GoTo(i, "ended") /\ calls' = Drop(S)
        /\ UNCHANGED <<slots, inbox, held, waited, budget>>
    BY DEF End
  <1>2. But(tasks', tasks, i) /\ tasks'[i].at = "ended" /\ tasks'[i].run = tasks[i].run /\ Ids' = Ids
    BY <1>1, Goes, SameChildren
  <1>3. \A c \in Calls : Still(c)
    <2>1. \A c \in S \cap Calls : calls[c].at # "withdraw"
      BY RepliersAre
    <2> QED BY <1>1, <2>1, DropStill DEF Still
  <1> QED BY <1>1, <1>2, <1>3, TaskQuiet DEF Unread, Untold

\* Children that stay as they are, while the bounds may shrink.
LEMMA StopChildQuiet ==
    ASSUME CInv, KInv', NoPanics, NEW i \in Ids, StopChild(i)
    PROVE  Quiet
  <1> SUFFICES ASSUME NEW w, w = slots[i].waiter PROVE Quiet
    OBVIOUS
  <1>1. /\ Stop(i) /\ calls' = Drop({w}) /\ UNCHANGED <<tasks, inbox, held, waited>>
        /\ \E n : budget' = [budget EXCEPT !.stops = n]
    BY DEF StopChild
  <1>2. Ids' = Ids
    BY <1>1, SameChildren
  <1>3. \A c \in Calls : Still(c)
    <2>1. \A c \in {w} \cap Calls : calls[c].at # "withdraw"
      BY KeptIs
    <2> QED BY <1>1, <2>1, DropStill DEF Still
  <1>4. "panics" \in DOMAIN budget' /\ budget'.panics = 0
    BY <1>1 DEF NoPanics
  <1>5. \A j \in Ids : Keeps(j)
    BY <1>1, SameKeeps
  <1> QED BY <1>1, <1>2, <1>3, <1>4, <1>5 DEF Quiet

LEMMA ParentQuiet ==
    ASSUME CInv, KInv', NoPanics, \/ Release \/ Prompt \/ Dispatch \/ Joined \/ Interrupt \/ TurnEnds
                                  \/ SessionEnds \/ Rest \/ UNCHANGED vars
    PROVE  Quiet
  <1>1. UNCHANGED <<tasks, inbox, waited>> /\ held' \subseteq held
    BY DEF Release, Prompt, Dispatch, Joined, Interrupt, TurnEnds, SessionEnds, Rest, vars
  <1>2. "panics" \in DOMAIN budget' /\ budget'.panics = 0
    <2>1. \/ UNCHANGED budget \/ (\E n : budget' = [budget EXCEPT !.chunks = n])
          \/ \E n : budget' = [budget EXCEPT !.interrupts = n]
      BY DEF Release, Prompt, Dispatch, Joined, Interrupt, TurnEnds, SessionEnds, Rest, vars
    <2> QED BY <2>1 DEF NoPanics
  <1>3. Ids' = Ids
    <2>1. UNCHANGED slots \/ DOMAIN slots' = Ids
      BY DEF Release, Prompt, Dispatch, Joined, Interrupt, TurnEnds, SessionEnds, Rest, vars
    <2> QED BY <2>1, SameChildren
  <1>4. \A c \in Calls : Still(c)
    <2>1. CASE Dispatch
      <3>1. turn.at = "sampling" /\ \A c \in Calls : calls'[c] \in Chunk
        BY <2>1 DEF Dispatch
      <3> DEFINE Asked(op, i) == [Idle EXCEPT !.op = op, !.on = i, !.at = "due"]
      <3>2. Chunk = {Idle} \cup {Asked(op, i) : op \in Ops, i \in Ids \cup {0}}
        BY DEF Chunk
      <3>3. \A op, i : Asked(op, i).at = "due"
        BY DEF Idle
      <3> HIDE DEF Asked
      <3>4. \A k \in Chunk : k.at # "parked"
        BY <3>2, <3>3, IdleFits
      <3>5. \A c \in Calls : calls[c] = Idle
        BY <3>1 DEF CInv, Chunked
      <3> QED BY <3>1, <3>4, <3>5, IdleFits DEF Still
    <2>2. CASE ~Dispatch
      <3>1. UNCHANGED calls
        BY <2>2 DEF Release, Prompt, Joined, Interrupt, TurnEnds, SessionEnds, Rest, vars
      <3> QED BY <3>1 DEF Still
    <2> QED BY <2>1, <2>2
  <1>5. \A j \in Ids : Keeps(j)
    BY <1>1, SameKeeps
  <1> QED BY <1>1, <1>2, <1>3, <1>4, <1>5 DEF Quiet

-----------------------------------------------------------------------------
(* Results that are read, and messages about them. *)

\* What Current says, a turn at a time.
LEMMA CurrentIs ==
    ASSUME CInv, ReadOnce, NEW i \in Ids, NEW r \in Nat
    PROVE  /\ tasks[i].run \in Nat
           /\ Seen(i, r) \/ Noted(i, r) => r <= tasks[i].run
           /\ tasks[i].at \in Unread /\ r = tasks[i].run => ~Seen(i, r)
           /\ tasks[i].at \in Untold /\ r = tasks[i].run => ~Noted(i, r)
           /\ \A c \in Calls : Handed(c, i, r) /\ ~calls[c].got.notified => ~Noted(i, r)
  BY ChildOf DEF ReadOnce, Current, Tasks

\* No task reads a result that was not known, and none that begins to.
Follows(j) ==
    /\ tasks'[j].run = tasks[j].run /\ tasks'[j].at \notin {"panicked", "lastword"}
    /\ tasks'[j].at \in Untold => tasks[j].at \in Untold
    /\ tasks'[j].at \in Unread => tasks[j].at \in Unread

\* Current is kept, if no result is handed over and all that is new of what is waited for and
\* what is noted could be.
LEMMA CurrentKept ==
    ASSUME CInv, Posted, ReadOnce, Ids' = Ids, \A j \in Ids : Follows(j),
           \A d \in Calls : calls'[d] = calls[d] \/ calls'[d].at # "parked",
           \A j \in Ids, q \in Nat : <<j, q>> \in waited' /\ <<j, q>> \notin waited =>
               q <= tasks[j].run /\ (tasks[j].at \in Unread => q # tasks[j].run),
           \A j \in Ids, q \in Nat : Noted(j, q)' /\ ~Noted(j, q) =>
               /\ q = tasks[j].run /\ tasks'[j].at \notin Untold
               /\ \A d \in Calls : ~Handed(d, j, q)
    PROVE  Current'
  <1>1. \A d \in Calls, j \in Ids, q \in Nat :
            Handed(d, j, q)' => Handed(d, j, q) /\ calls'[d] = calls[d]
    BY DEF Handed
  <1>2. ASSUME NEW j \in Ids, NEW q \in Nat, Seen(j, q)'
        PROVE  q <= tasks[j].run /\ (tasks[j].at \in Unread => q # tasks[j].run)
    BY <1>1, <1>2, CurrentIs DEF Seen
  <1>3. ASSUME NEW j \in Ids, NEW q \in Nat, Noted(j, q)'
        PROVE  /\ q <= tasks[j].run /\ (tasks'[j].at \in Untold => q # tasks[j].run)
               /\ \A d \in Calls : Handed(d, j, q)' => calls'[d].got.notified
    <2>1. CASE Noted(j, q)
      BY <1>1, <2>1, CurrentIs DEF Follows
    <2>2. CASE ~Noted(j, q)
      BY <1>1, <1>3, <2>2, CurrentIs
    <2> QED BY <2>1, <2>2
  <1>4. \A j \in Ids : tasks[j].run \in Nat /\ tasks'[j].run = tasks[j].run
                       /\ (tasks'[j].at \in Unread => tasks[j].at \in Unread)
    BY ChildOf DEF Tasks, Follows
  <1>5. \A j \in Ids, q \in Nat : Seen(j, q)' \/ Noted(j, q)' => q <= tasks'[j].run
    BY <1>2, <1>3, <1>4
  <1>6. ASSUME NEW j \in Ids, NEW q, q = tasks'[j].run, tasks'[j].at \in Unread
        PROVE  ~Seen(j, q)'
    BY <1>2, <1>4, <1>6
  <1>7. ASSUME NEW j \in Ids, NEW q, q = tasks'[j].run, tasks'[j].at \in Untold
        PROVE  ~Noted(j, q)'
    BY <1>3, <1>4, <1>7
  <1>8. \A d \in Calls, j \in Ids, q \in Nat : Handed(d, j, q)' /\ ~calls'[d].got.notified => ~Noted(j, q)'
    BY <1>3
  <1> QED BY <1>4, <1>5, <1>6, <1>7, <1>8 DEF Current

LEMMA PanicsKept ==
    ASSUME NoPanics, Ids' = Ids, \A j \in Ids : Follows(j), UNCHANGED budget
    PROVE  NoPanics'
  BY DEF NoPanics, Follows

\* A result is waited for.
LEMMA ReadTaken ==
    ASSUME CInv, Posted, ReadOnce, Ids' = Ids, NEW i \in Ids, NEW r \in Nat,
           waited' = waited \cup {<<i, r>>}, UNCHANGED <<tasks, inbox, held, budget>>,
           r <= tasks[i].run, tasks[i].at \in Unread => r # tasks[i].run,
           \A d \in Calls : calls'[d] = calls[d] \/ (calls'[d].at # "parked" /\ calls[d].at # "withdraw"),
           Withdrawing(i)' \/ ~Noted(i, r)
    PROVE  ReadOnce'
  <1>1. \A j \in Ids : Follows(j)
    BY DEF Follows, ReadOnce, NoPanics
  <1>2. \A j \in Ids, q \in Nat : Noted(j, q)' => Noted(j, q)
    BY DEF Noted, Mailed
  <1>3. \A j \in Ids, q \in Nat : <<j, q>> \in waited' => <<j, q>> \in waited \/ (j = i /\ q = r)
    OBVIOUS
  <1>4. Current'
    BY <1>1, <1>2, <1>3, CurrentKept
  <1>5. Readers'
    <2> SUFFICES ASSUME NEW j \in Ids, NEW q \in Nat, <<j, q>> \in waited'
                 PROVE  /\ <<j, q>> \in held' => Recalled(1, j)'
                        /\ \A k \in 1..Len(inbox') : Mailed(k, j, q)' => Recalled(k, j)'
      BY DEF Readers
    <2>1. \A k \in 1..Len(inbox) \cup {1} : Recalled(k, j) => Recalled(k, j)'
      BY DEF Recalled, Unnotify, Withdrawing
    <2>2. \A k \in 1..Len(inbox) : Mailed(k, j, q)' => Mailed(k, j, q)
      BY DEF Mailed
    <2>3. CASE <<j, q>> \in waited
      BY <2>1, <2>2, <2>3 DEF ReadOnce, Readers
    <2>4. CASE j = i /\ q = r
      BY <2>2, <2>4 DEF Noted, Recalled
    <2> QED BY <1>3, <2>3, <2>4
  <1> QED BY <1>1, <1>4, <1>5, PanicsKept DEF ReadOnce

\* A message is put into the mailbox, and the calls and tasks learn nothing by it.
Sends(m) ==
    /\ inbox' = Append(inbox, m) /\ UNCHANGED <<waited, held, budget>> /\ Ids' = Ids
    /\ \A j \in Ids : Follows(j)
    /\ \A d \in Calls : calls'[d] = calls[d] \/ calls'[d].at # "parked"

\* What the mailbox holds then.
LEMMA SentIs ==
    ASSUME Posted, NEW m \in Messages, Sends(m)
    PROVE  /\ Len(inbox') = Len(inbox) + 1 /\ Len(inbox) \in Nat /\ inbox'[Len(inbox) + 1] = m
           /\ \A k \in 1..Len(inbox) : inbox'[k] = inbox[k]
  <1>1. inbox \in Seq(Messages)
    BY DEF Posted
  <1> QED BY <1>1, Appended DEF Sends

\* What was recalled still is, and behind what is sent now nothing is.
LEMMA SentKeeps ==
    ASSUME Posted, NEW m \in Messages, Sends(m), NEW j \in Ids, NEW k \in 1..Len(inbox) + 1,
           Withdrawing(j) => Withdrawing(j)' \/ m = Unnotify(j),
           Recalled(k, j)
    PROVE  Recalled(k, j)'
  <1>1. /\ Len(inbox') = Len(inbox) + 1 /\ Len(inbox) \in Nat /\ inbox'[Len(inbox) + 1] = m
        /\ \A l \in 1..Len(inbox) : inbox'[l] = inbox[l]
    BY SentIs
  <1>2. CASE Withdrawing(j)
    <2>1. CASE Withdrawing(j)'
      BY <2>1 DEF Recalled
    <2>2. CASE m = Unnotify(j)
      <3>1. inbox'[Len(inbox) + 1] = Unnotify(j)' /\ Len(inbox) + 1 \in k..Len(inbox')
        BY <1>1, <2>2 DEF Unnotify
      <3> QED BY <3>1 DEF Recalled
    <2> QED BY <1>2, <2>1, <2>2
  <1>3. CASE ~Withdrawing(j)
    <2>1. PICK l \in k..Len(inbox) : inbox[l] = Unnotify(j)
      BY <1>3 DEF Recalled
    <2>2. l \in k..Len(inbox') /\ inbox'[l] = Unnotify(j)'
      BY <1>1, <2>1 DEF Unnotify
    <2> QED BY <2>2 DEF Recalled
  <1> QED BY <1>2, <1>3

\* A notification is withdrawn behind it.
LEMMA ReadRecalled ==
    ASSUME CInv, Posted, ReadOnce, NEW i \in Ids, NEW m, m = Unnotify(i), Sends(m),
           \A j \in Ids \ {i} : Withdrawing(j) => Withdrawing(j)'
    PROVE  ReadOnce'
  <1>1. m \in Messages
    BY DEF Unnotify, Messages
  <1>2. /\ Len(inbox') = Len(inbox) + 1 /\ Len(inbox) \in Nat /\ inbox'[Len(inbox) + 1] = m
        /\ \A k \in 1..Len(inbox) : inbox'[k] = inbox[k]
    BY <1>1, SentIs
  <1>3. ASSUME NEW j \in Ids, NEW q \in Nat, NEW k \in 1..Len(inbox'), Mailed(k, j, q)'
        PROVE  k \in 1..Len(inbox) /\ Mailed(k, j, q)
    <2>1. k # Len(inbox) + 1
      BY <1>2, <1>3 DEF Mailed, Unnotify
    <2> QED BY <1>2, <1>3, <2>1 DEF Mailed
  <1>4. \A j \in Ids, q \in Nat : Noted(j, q)' => Noted(j, q)
    BY <1>3 DEF Noted, Sends
  <1>5. Current'
    BY <1>4, CurrentKept DEF Sends
  <1>6. Readers'
    <2> SUFFICES ASSUME NEW j \in Ids', NEW q \in Nat, <<j, q>> \in waited'
                 PROVE  /\ <<j, q>> \in held' => Recalled(1, j)'
                        /\ \A k \in 1..Len(inbox') : Mailed(k, j, q)' => Recalled(k, j)'
      BY DEF Readers
    <2>1. j \in Ids /\ <<j, q>> \in waited /\ held' = held /\ 1 \in 1..Len(inbox) + 1
      BY <1>2 DEF Sends
    <2>2. Withdrawing(j) => Withdrawing(j)' \/ m = Unnotify(j)
      BY <2>1
    <2>3. \A k \in 1..Len(inbox) + 1 : Recalled(k, j) => Recalled(k, j)'
      BY <1>1, <2>1, <2>2, SentKeeps
    <2>4. <<j, q>> \in held => Recalled(1, j)
      BY <2>1 DEF ReadOnce, Readers
    <2>5. \A k \in 1..Len(inbox) : Mailed(k, j, q) => Recalled(k, j)
      BY <2>1 DEF ReadOnce, Readers
    <2> QED BY <1>2, <1>3, <2>1, <2>3, <2>4, <2>5
  <1> QED BY <1>5, <1>6, PanicsKept DEF ReadOnce, Sends

\* A result nobody has seen is told.
LEMMA ReadTold ==
    ASSUME CInv, Posted, ReadOnce, NEW i \in Ids, NEW m, m = Note(i), Sends(m),
           tasks[i].at = "notify", tasks'[i].at = "publish", UNCHANGED calls,
           \A j \in Ids \ {i} : tasks'[j] = tasks[j]
    PROVE  ReadOnce'
  <1>1. tasks[i].run \in Nat /\ tasks[i].at \in Unread
    BY ChildOf DEF Tasks, Unread, Untold
  <1>2. m \in Messages /\ m = [kind |-> "Notify", child |-> i, run |-> tasks[i].run]
    BY <1>1 DEF Note, Messages
  <1>3. /\ Len(inbox') = Len(inbox) + 1 /\ Len(inbox) \in Nat /\ inbox'[Len(inbox) + 1] = m
        /\ \A k \in 1..Len(inbox) : inbox'[k] = inbox[k]
    BY <1>2, SentIs
  <1>4. ASSUME NEW j \in Ids, NEW q \in Nat, NEW k \in 1..Len(inbox'), Mailed(k, j, q)'
        PROVE  (k \in 1..Len(inbox) /\ Mailed(k, j, q)) \/ (j = i /\ q = tasks[i].run)
    <2>1. CASE k = Len(inbox) + 1
      BY <1>2, <1>3, <1>4, <2>1 DEF Mailed
    <2>2. CASE k # Len(inbox) + 1
      BY <1>3, <1>4, <2>2 DEF Mailed
    <2> QED BY <2>1, <2>2
  <1>5. ~Seen(i, tasks[i].run)
    BY <1>1, CurrentIs
  <1>6. Current'
    <2>1. \A j \in Ids, q \in Nat : Noted(j, q)' /\ ~Noted(j, q) => j = i /\ q = tasks[i].run
      BY <1>4 DEF Noted, Sends
    <2>2. \A d \in Calls : ~Handed(d, i, tasks[i].run)
      BY <1>5 DEF Seen
    <2> QED BY <2>1, <2>2, CurrentKept DEF Sends, Untold
  <1>7. \A j \in Ids : Withdrawing(j) => Withdrawing(j)'
    BY DEF Withdrawing
  <1>8. Readers'
    <2> SUFFICES ASSUME NEW j \in Ids', NEW q \in Nat, <<j, q>> \in waited'
                 PROVE  /\ <<j, q>> \in held' => Recalled(1, j)'
                        /\ \A k \in 1..Len(inbox') : Mailed(k, j, q)' => Recalled(k, j)'
      BY DEF Readers
    <2>1. j \in Ids /\ <<j, q>> \in waited /\ held' = held /\ 1 \in 1..Len(inbox) + 1
      BY <1>3 DEF Sends
    <2>2. ~(j = i /\ q = tasks[i].run)
      BY <1>5, <2>1 DEF Seen
    <2>3. \A k \in 1..Len(inbox) + 1 : Recalled(k, j) => Recalled(k, j)'
      BY <1>2, <1>7, <2>1, SentKeeps
    <2>4. <<j, q>> \in held => Recalled(1, j)
      BY <2>1 DEF ReadOnce, Readers
    <2>5. \A k \in 1..Len(inbox) : Mailed(k, j, q) => Recalled(k, j)
      BY <2>1 DEF ReadOnce, Readers
    <2> QED BY <1>3, <1>4, <2>1, <2>2, <2>3, <2>4, <2>5
  <1> QED BY <1>6, <1>8, PanicsKept DEF ReadOnce, Sends

\* A `wait` finds the result of a turn that is over, and withdraws what was said of it.
LEMMA TakeDoneRead ==
    ASSUME CInv, KInv', Posted, ReadOnce, NEW c \in Calls, NEW i \in Ids, slots[i].state = "Done",
           calls[c].at = "due", TakeDone(c, i), UNCHANGED <<tasks, inbox, held, budget>>
    PROVE  ReadOnce'
  <1> DEFINE k == [calls[c] EXCEPT !.at = "withdraw", !.on = i]
  <1>1. /\ calls' = [calls EXCEPT ![c] = k] /\ waited' = waited \cup {<<i, slots[i].run>>}
        /\ \E s : slots' = [slots EXCEPT ![i] = s]
    BY DEF TakeDone
  <1>2. k.at = "withdraw" /\ k.on = i
    BY CallOf DEF CallFits, CallRecords
  <1> HIDE DEF k
  <1>3. Ids' = Ids
    BY <1>1, SameChildren
  <1>4. slots[i].run = tasks[i].run /\ tasks[i].run \in Nat /\ tasks[i].at \notin Unread
    BY ChildOf DEF Fits, Tasks, Unread, Untold
  <1>5. calls'[c] = k /\ \A d \in Calls \ {c} : calls'[d] = calls[d]
    BY <1>1 DEF CInv
  <1>6. \A d \in Calls : calls'[d] = calls[d] \/ (calls'[d].at # "parked" /\ calls[d].at # "withdraw")
    BY <1>2, <1>5
  <1>7. Withdrawing(i)'
    BY <1>2, <1>5 DEF Withdrawing
  <1> QED BY <1>1, <1>3, <1>4, <1>6, <1>7, ReadTaken

\* The handoff is read: its notification, if there is one, is withdrawn next.
LEMMA WaitReturnsRead ==
    ASSUME CInv, CInv', Posted, ReadOnce, NEW c \in Calls, WaitReturns(c)
    PROVE  ReadOnce'
  <1> SUFFICES ASSUME NEW h, h = calls[c].got PROVE ReadOnce'
    OBVIOUS
  <1>1. /\ calls[c].at = "parked" /\ h # Empty /\ UNCHANGED <<slots, tasks, inbox, held, budget>>
        /\ waited' = IF h = Dropped THEN waited ELSE waited \cup {<<h.child, h.run>>}
        /\ calls' = IF h # Dropped /\ h.notified
                    THEN [calls EXCEPT ![c].at = "withdraw", ![c].on = h.child] ELSE Over(c)
    BY DEF WaitReturns
  <1>2. Ids' = Ids /\ KInv' /\ NoPanics
    BY <1>1 DEF CInv, Ids, ReadOnce
  <1>3. CASE h = Dropped
    <2>1. Quiet
      BY <1>1, <1>2, <1>3, CallQuiet
    <2> QED BY <1>2, <2>1, ReadQuiet
  <1>4. CASE h # Dropped
    <2> SUFFICES ASSUME NEW i, i = h.child, NEW r, r = h.run PROVE ReadOnce'
      OBVIOUS
    <2>1. i \in Ids /\ r \in Nat
      BY <1>1, <1>4, CallOf DEF CallFits, CallRecords, Gots
    <2>2. Handed(c, i, r) /\ Seen(i, r)
      BY <1>1 DEF Handed, Seen
    <2>3. r <= tasks[i].run /\ (tasks[i].at \in Unread => r # tasks[i].run)
      BY <2>1, <2>2, CurrentIs
    <2>4. waited' = waited \cup {<<i, r>>}
      BY <1>1, <1>4
    <2>5. CASE h.notified
      <3> DEFINE k == [calls[c] EXCEPT !.at = "withdraw", !.on = i]
      <3>1. calls' = [calls EXCEPT ![c] = k]
        BY <1>1, <1>4, <2>5
      <3>2. k.at = "withdraw" /\ k.on = i
        BY CallOf DEF CallFits, CallRecords
      <3> HIDE DEF k
      <3>3. calls'[c] = k /\ \A d \in Calls \ {c} : calls'[d] = calls[d]
        BY <3>1 DEF CInv
      <3>4. \A d \in Calls : calls'[d] = calls[d] \/ (calls'[d].at # "parked" /\ calls[d].at # "withdraw")
        BY <1>1, <3>2, <3>3
      <3>5. Withdrawing(i)'
        BY <3>2, <3>3 DEF Withdrawing
      <3> QED BY <1>1, <1>2, <2>1, <2>3, <2>4, <3>4, <3>5, ReadTaken
    <2>6. CASE ~h.notified
      <3>1. calls' = Over(c)
        BY <1>1, <2>6
      <3>2. \A d \in Calls : calls'[d] = calls[d] \/ (calls'[d].at # "parked" /\ calls[d].at # "withdraw")
        BY <1>1, <3>1, OverIs, IdleFits
      <3>3. ~Noted(i, r)
        BY <2>1, <2>2, <2>6, CurrentIs
      <3> QED BY <1>1, <1>2, <2>1, <2>3, <2>4, <3>2, <3>3, ReadTaken
    <2> QED BY <2>5, <2>6
  <1> QED BY <1>3, <1>4

\* A `wait` that has read a result recalls its notification.
LEMMA WithdrawRead ==
    ASSUME CInv, KInv', Posted, ReadOnce, NEW c \in Calls, Withdraw(c)
    PROVE  ReadOnce'
  <1> SUFFICES ASSUME NEW i, i = calls[c].on, NEW m, m = Unnotify(i) PROVE ReadOnce'
    OBVIOUS
  <1>1. /\ calls[c].at = "withdraw" /\ inbox' = Append(inbox, m) /\ calls' = Over(c)
        /\ UNCHANGED <<slots, tasks, waited, held, budget>>
    BY DEF Withdraw
  <1>2. i \in Ids /\ Ids' = Ids
    BY <1>1, CallOf DEF CallFits, Ids
  <1>3. \A d \in Calls : calls'[d] = calls[d] \/ calls'[d].at # "parked"
    BY <1>1, OverIs, IdleFits
  <1>4. \A j \in Ids : Follows(j)
    BY <1>1 DEF Follows, ReadOnce, NoPanics
  <1>5. \A j \in Ids \ {i} : Withdrawing(j) => Withdrawing(j)'
    BY <1>1, OverIs DEF Withdrawing
  <1> QED BY <1>1, <1>2, <1>3, <1>4, <1>5, ReadRecalled DEF Sends

LEMMA TakeBackRead ==
    ASSUME CInv, KInv', Posted, ReadOnce, NEW i \in Ids, TakeBack(i)
    PROVE  ReadOnce'
  <1>1. /\ tasks[i].at = "withdraw" /\ inbox' = Append(inbox, Unnotify(i)) /\ GoTo(i, "park")
        /\ UNCHANGED <<slots, calls, waited, held, budget>>
    BY DEF TakeBack
  <1>2. /\ Ids' = Ids /\ tasks'[i].at = "park" /\ tasks'[i].run = tasks[i].run
        /\ \A j \in Ids \ {i} : tasks'[j] = tasks[j]
    BY <1>1, Goes, RegistryOf DEF But, Ids
  <1>3. \A j \in Ids : Follows(j)
    BY <1>2 DEF Follows, ReadOnce, NoPanics, Untold, Unread
  <1>4. \A j \in Ids \ {i} : Withdrawing(j) => Withdrawing(j)'
    BY <1>1, <1>2 DEF Withdrawing
  <1> QED BY <1>1, <1>2, <1>3, <1>4, ReadRecalled DEF Sends

\* A child tells that its turn is over, while there is a session to tell.
LEMMA TellRead ==
    ASSUME CInv, CInv', Posted, ReadOnce, NEW i \in Ids, Tell(i)
    PROVE  ReadOnce'
  <1>1. /\ tasks[i].at = "notify" /\ GoTo(i, "publish")
        /\ inbox' = IF turn.at = "ended" THEN inbox ELSE Append(inbox, Note(i))
        /\ UNCHANGED <<slots, calls, waited, held, budget>>
    BY DEF Tell
  <1>2. /\ Ids' = Ids /\ tasks'[i].at = "publish" /\ tasks'[i].run = tasks[i].run
        /\ But(tasks', tasks, i) /\ \A j \in Ids \ {i} : tasks'[j] = tasks[j]
    BY <1>1, Goes, RegistryOf DEF But, Ids
  <1>3. NoPanics
    BY DEF ReadOnce
  <1>4. CASE turn.at = "ended"
    <2>1. Keeps(i)
      BY <1>1, <1>2, ChildOf DEF Keeps, Untold, Unread, Tasks
    <2>2. Quiet
      BY <1>1, <1>2, <1>3, <1>4, <2>1, OneKeeps, StillQuiet DEF Still
    <2> QED BY <1>2, <2>2, ReadQuiet
  <1>5. CASE turn.at # "ended"
    <2>1. \A j \in Ids : Follows(j)
      BY <1>1, <1>2, <1>3 DEF Follows, NoPanics, Untold, Unread
    <2> QED BY <1>1, <1>2, <1>5, <2>1, ReadTold DEF Sends
  <1> QED BY <1>4, <1>5

\* The parent reads its mailbox: a notification is held, or told, or taken back.
LEMMA MailRead ==
    ASSUME CInv, Posted, ReadOnce, Mail
    PROVE  ReadOnce'
  <1> SUFFICES ASSUME NEW m, m = Head(inbox) PROVE ReadOnce'
    OBVIOUS
  <1>1. inbox # <<>> /\ inbox' = Tail(inbox) /\ UNCHANGED <<slots, tasks, calls, waited, budget>>
    BY DEF Mail
  <1>2. /\ m \in Messages /\ m = inbox[1] /\ Len(inbox) \in Nat \ {0} /\ Len(inbox') = Len(inbox) - 1
        /\ \A k \in 1..Len(inbox') : inbox'[k] = inbox[k + 1]
    <2>1. inbox \in Seq(Messages)
      BY DEF Posted
    <2> QED BY <1>1, <2>1
  <1>3. Ids' = Ids /\ \A j \in Ids : Follows(j)
    BY <1>1 DEF Follows, Ids, ReadOnce, NoPanics
  <1>4. ASSUME NEW j \in Ids, NEW q \in Nat, <<j, q>> \in held'
        PROVE  m # Unnotify(j) /\ (<<j, q>> \in held \/ Mailed(1, j, q))
    <2>1. CASE m.kind = "Unnotify"
      <3>1. held' = {n \in held : n[1] # m.child}
        BY <2>1 DEF Mail
      <3>2. <<j, q>> \in held /\ j # m.child
        BY <1>4, <3>1
      <3> QED BY <3>2 DEF Unnotify
    <2>2. CASE m.kind = "Notify"
      <3>1. m # Unnotify(j) /\ held' \subseteq held \cup {<<m.child, m.run>>}
        BY <2>2 DEF Mail, Unnotify
      <3>2. <<j, q>> = <<m.child, m.run>> => m = [kind |-> "Notify", child |-> j, run |-> q]
        BY <1>2, <2>2 DEF Messages
      <3> QED BY <1>2, <1>4, <3>1, <3>2 DEF Mailed
    <2> QED BY <1>2, <2>1, <2>2 DEF Messages
  <1>5. ASSUME NEW j \in Ids, NEW q \in Nat, NEW k \in 1..Len(inbox'), Mailed(k, j, q)'
        PROVE  k + 1 \in 1..Len(inbox) /\ Mailed(k + 1, j, q)
    BY <1>2, <1>5 DEF Mailed
  <1>6. \A j \in Ids, q \in Nat : Noted(j, q)' => Noted(j, q)
    <2> SUFFICES ASSUME NEW j \in Ids, NEW q \in Nat, Noted(j, q)' PROVE Noted(j, q)
      OBVIOUS
    <2>1. CASE <<j, q>> \in held'
      BY <1>2, <1>4, <2>1 DEF Noted
    <2>2. CASE \E k \in 1..Len(inbox') : Mailed(k, j, q)'
      BY <1>5, <2>2 DEF Noted
    <2> QED BY <2>1, <2>2 DEF Noted
  <1>7. Current'
    BY <1>1, <1>3, <1>6, CurrentKept
  <1>8. ASSUME NEW j \in Ids, NEW k \in 1..Len(inbox), Recalled(k, j), k # 1 \/ m # Unnotify(j),
               NEW p \in 1..Len(inbox), p = IF k = 1 THEN 1 ELSE k - 1
        PROVE  Recalled(p, j)'
    <2>1. CASE Withdrawing(j)
      BY <1>1, <2>1 DEF Withdrawing, Recalled
    <2>2. CASE ~Withdrawing(j)
      <3>1. PICK l \in k..Len(inbox) : inbox[l] = Unnotify(j)
        BY <1>8, <2>2 DEF Recalled
      <3>2. l # 1
        BY <1>2, <1>8, <3>1
      <3>3. l - 1 \in p..Len(inbox') /\ l - 1 \in 1..Len(inbox') /\ l - 1 + 1 = l
        BY <1>2, <1>8, <3>1, <3>2
      <3>4. inbox'[l - 1] = Unnotify(j)'
        BY <1>2, <3>1, <3>3 DEF Unnotify
      <3> QED BY <3>3, <3>4 DEF Recalled
    <2> QED BY <2>1, <2>2
  <1>9. Readers'
    <2> SUFFICES ASSUME NEW j \in Ids', NEW q \in Nat, <<j, q>> \in waited'
                 PROVE  /\ <<j, q>> \in held' => Recalled(1, j)'
                        /\ \A k \in 1..Len(inbox') : Mailed(k, j, q)' => Recalled(k, j)'
      BY DEF Readers
    <2>1. j \in Ids /\ <<j, q>> \in waited
      BY <1>1, <1>3
    <2>2. /\ <<j, q>> \in held => Recalled(1, j)
          /\ \A k \in 1..Len(inbox) : Mailed(k, j, q) => Recalled(k, j)
      BY <2>1 DEF ReadOnce, Readers
    <2>3. ASSUME <<j, q>> \in held' PROVE Recalled(1, j)'
      <3>1. m # Unnotify(j) /\ Recalled(1, j) /\ 1 \in 1..Len(inbox)
        BY <1>2, <1>4, <2>1, <2>2, <2>3
      <3> QED BY <1>8, <2>1, <3>1
    <2>4. ASSUME NEW k \in 1..Len(inbox'), Mailed(k, j, q)' PROVE Recalled(k, j)'
      <3>1. k + 1 \in 1..Len(inbox) /\ Recalled(k + 1, j)
        BY <1>5, <2>1, <2>2, <2>4
      <3>2. k + 1 # 1 /\ k + 1 - 1 = k /\ k \in 1..Len(inbox)
        BY <1>2, <3>1
      <3> QED BY <1>8, <2>1, <3>1, <3>2
    <2> QED BY <2>3, <2>4
  <1> QED BY <1>1, <1>3, <1>7, <1>9, PanicsKept DEF ReadOnce

-----------------------------------------------------------------------------
(* The theorem. *)

LEMMA CallRead ==
    ASSUME CInv, CInv', Posted, ReadOnce, Ids \subseteq Ids', NEW c \in Calls, CallStep(c) \/ WaitTimesOut(c)
    PROVE  ReadOnce'
  <1>1. KInv' /\ NoPanics
    BY DEF CInv, ReadOnce
  <1>2. CASE (Wait(c) \/ WaitAny(c)) /\ \E i \in Ids : slots[i].state = "Done" /\ TakeDone(c, i)
    <2>1. calls[c].at = "due" /\ UNCHANGED <<tasks, inbox, held, budget>>
      BY <1>2 DEF Wait, WaitAny
    <2> QED BY <1>1, <1>2, <2>1, TakeDoneRead
  <1>3. CASE WaitReturns(c)
    BY <1>3, WaitReturnsRead
  <1>4. CASE Withdraw(c)
    BY <1>1, <1>4, WithdrawRead
  <1>5. CASE Spawn(c)
    BY <1>1, <1>5, SpawnQuiet, ReadQuiet
  <1>6. CASE SpawnStarts(c) \/ SpawnReturns(c)
    BY <1>1, <1>6, StartQuiet, ReadQuiet
  <1>7. CASE SpawnFails(c)
    BY <1>1, <1>7, SpawnFailsQuiet, ReadQuiet
  <1>8. CASE ResumeCancelled(c)
    BY <1>1, <1>8, ResumeCancelledQuiet, ReadQuiet
  <1>9. CASE \/ (Wait(c) \/ WaitAny(c)) /\ ~(\E i \in Ids : slots[i].state = "Done" /\ TakeDone(c, i))
             \/ WaitCancelled(c) \/ WaitTimesOut(c) \/ Resume(c) \/ ResumeSends(c) \/ ResumeReturns(c)
    <2>1. Quiet
      BY <1>1, <1>9, WaitQuiet
    <2> QED BY <2>1, ReadQuiet
  <1> QED BY <1>2, <1>3, <1>4, <1>5, <1>6, <1>7, <1>8, <1>9 DEF CallStep

LEMMA TaskRead ==
    ASSUME CInv, CInv', Posted, ReadOnce, Ids \subseteq Ids', NEW i \in Ids,
           TaskStep(i) \/ Panic(i) \/ StopChild(i)
    PROVE  ReadOnce'
  <1>1. KInv' /\ NoPanics
    BY DEF CInv, ReadOnce
  <1>2. CASE Finish(i)
    BY <1>1, <1>2, FinishQuiet, ReadQuiet
  <1>3. CASE Tell(i)
    BY <1>3, TellRead
  <1>4. CASE Publish(i)
    BY <1>1, <1>4, PublishQuiet, ReadQuiet
  <1>5. CASE TakeBack(i)
    BY <1>1, <1>5, TakeBackRead
  <1>6. CASE Reply(i)
    BY <1>1, <1>6, ReplyQuiet, ReadQuiet
  <1>7. CASE TakeRequest(i)
    BY <1>1, <1>7, TakeRequestQuiet, ReadQuiet
  <1>8. CASE End(i)
    BY <1>1, <1>8, EndQuiet, ReadQuiet
  <1>9. CASE StopChild(i)
    BY <1>1, <1>9, StopChildQuiet, ReadQuiet
  <1>10. ~(Watch(i) \/ LastWord(i) \/ Panic(i))
    BY <1>1 DEF Watch, LastWord, Panic, NoPanics
  <1> QED BY <1>2, <1>3, <1>4, <1>5, <1>6, <1>7, <1>8, <1>9, <1>10 DEF TaskStep

\* Where it begins, and every step.
LEMMA ReadInv ==
    ASSUME MaxPanics = 0
    PROVE  /\ Init => ReadOnce
           /\ AllInv /\ AllInv' /\ ReadOnce /\ [Next]_vars => ReadOnce'
  <1>1. ASSUME Init PROVE ReadOnce
    <2>1. Ids = {} /\ waited = {} /\ held = {} /\ inbox = <<>>
      BY <1>1 DEF Init, Ids
    <2>2. "panics" \in DOMAIN budget /\ budget.panics = 0
      BY <1>1 DEF Init
    <2> QED BY <2>1, <2>2 DEF ReadOnce, Current, Readers, NoPanics
  <1>2. ASSUME AllInv, AllInv', ReadOnce, [Next]_vars PROVE ReadOnce'
    <2>1. CInv /\ CInv' /\ KInv' /\ Posted
      BY <1>2 DEF AllInv, CInv
    <2>2. Ids \subseteq Ids'
      BY <1>2, <2>1, MoreIds
    <2>3. CASE \E c \in Calls : CallStep(c) \/ WaitTimesOut(c)
      BY <1>2, <2>1, <2>2, <2>3, CallRead
    <2>4. CASE \E i \in Ids : TaskStep(i) \/ Panic(i) \/ StopChild(i)
      BY <1>2, <2>1, <2>2, <2>4, TaskRead
    <2>5. CASE Mail
      BY <1>2, <2>1, <2>5, MailRead
    <2>6. CASE \/ Release \/ Prompt \/ Dispatch \/ Joined \/ Interrupt \/ TurnEnds \/ SessionEnds
               \/ Rest \/ UNCHANGED vars
      <3>1. Quiet
        BY <1>2, <2>1, <2>6, ParentQuiet DEF ReadOnce
      <3> QED BY <1>2, <2>1, <2>2, <3>1, ReadQuiet
    <2> QED BY <1>2, <2>3, <2>4, <2>5, <2>6 DEF Next
  <1> QED BY <1>1, <1>2

\* The result of a turn that a `wait` returned is not also on its way to the model (D5 of the
\* sub-agents' design): `Children::finish` notifies nobody of a result it hands over, and where a
\* waiter came only after the notification, `published` or the `wait` itself recalls it behind
\* the notification.  A child that panics is the exception the code makes: `abandoned` hands the
\* waiter the error, and the watcher tells the inbox too.
THEOREM OneReaderHolds ==
    ASSUME MaxPanics = 0
    PROVE  Spec => []OneReader
  <1>1. ASSUME AllInv, ReadOnce PROVE OneReader
    <2> SUFFICES ASSUME NEW n \in waited
                 PROVE  /\ n \in held => Withdrawing(n[1]) \/ \E k \in 1..Len(inbox) : inbox[k] = Unnotify(n[1])
                        /\ \A k \in 1..Len(inbox) :
                               inbox[k] = [kind |-> "Notify", child |-> n[1], run |-> n[2]] =>
                                   Withdrawing(n[1]) \/ \E l \in k..Len(inbox) : inbox[l] = Unnotify(n[1])
                        /\ ~(tasks[n[1]].at \in {"notify", "lastword"} /\ tasks[n[1]].run = n[2])
      BY DEF OneReader
    <2>1. CInv /\ n \in Results
      BY <1>1 DEF AllInv, Posted
    <2>2. PICK i \in Ids, r \in Nat : n = <<i, r>>
      BY <2>1 DEF Results
    <2>3. /\ <<i, r>> \in held => Recalled(1, i)
          /\ \A k \in 1..Len(inbox) : Mailed(k, i, r) => Recalled(k, i)
      BY <1>1, <2>2 DEF ReadOnce, Readers
    <2>4. ~(tasks[i].at \in {"notify", "lastword"} /\ tasks[i].run = r)
      <3>1. Seen(i, r)
        BY <2>2 DEF Seen
      <3>2. ~(tasks[i].at = "notify" /\ tasks[i].run = r)
        BY <1>1, <2>1, <3>1, CurrentIs DEF Unread, Untold
      <3> QED BY <1>1, <3>2 DEF ReadOnce, NoPanics
    <2> QED BY <2>2, <2>3, <2>4 DEF Recalled, Mailed
  <1>2. Init => ReadOnce
    BY ReadInv
  <1>3. AllInv /\ AllInv' /\ ReadOnce /\ [Next]_vars => ReadOnce'
    BY ReadInv
  <1> QED BY <1>1, <1>2, <1>3, AllHolds, PTL DEF Spec

-----------------------------------------------------------------------------
(* Nothing is lost, where no child is resumed and no turn interrupted. *)

Resumes == {"resumeFg", "resumeBg"}

\* Every turn is the first of its child, and no call is cut short.
First(k) == k.op \notin Resumes /\ k.at \notin {"send", "reply"} /\ (k.got.child # 0 => k.got.run = 1)
FirstTurns ==
    /\ \A c \in Calls : First(calls[c])
    /\ \A i \in Ids : reqs[i] = <<>> /\ tasks[i].run = 1 /\ tasks[i].reply = NoCall
    /\ ~turn.cancelled /\ "interrupts" \in DOMAIN budget /\ budget.interrupts = 0

\* What is recalled was read.
Taking(k, i) == inbox[k].kind = "Unnotify" /\ inbox[k].child = i
Backed == \A i \in Ids : Withdrawing(i) \/ (\E k \in 1..Len(inbox) : Taking(k, i)) => Seen(i, 1)

\* Somebody has the result of a turn that has ended, or somebody will be told.
Reaches(i) == tasks[i].at = "notify" \/ Noted(i, 1) \/ <<i, 1>> \in told \/ Seen(i, 1)
LossInv == FirstTurns /\ Backed /\ (turn.at # "ended" => \A n \in owed : n[2] = 1 /\ Reaches(n[1]))

\* A oneshot keeps its result until that is returned, and a call recalls what was read.
Hears(c) ==
    /\ First(calls[c])'
    /\ calls[c].at = "parked" /\ calls[c].got.child # 0 =>
           calls'[c] = calls[c] \/ <<calls[c].got.child, calls[c].got.run>> \in waited'
    /\ \A i \in Ids' : calls'[c].at = "withdraw" /\ calls'[c].on = i =>
           (calls[c].at = "withdraw" /\ calls[c].on = i) \/ Seen(i, 1)'

\* A child takes no request, and recalls what was read.
Lives(i) ==
    /\ reqs'[i] = <<>> /\ tasks'[i].run = 1 /\ tasks'[i].reply = NoCall
    /\ tasks'[i].at = "withdraw" => (i \in Ids /\ tasks[i].at = "withdraw") \/ Seen(i, 1)'

Calm == (\A c \in Calls : Hears(c)) /\ (\A i \in Ids' : Lives(i)) /\ waited \subseteq waited'

\* No message is lost but one that was read, and an ended turn has told somebody or will.
Passes ==
    /\ \A i \in Ids : tasks[i].at = "notify" \/ Noted(i, 1) \/ <<i, 1>> \in told =>
           turn'.at = "ended" \/ Reaches(i)'
    /\ \A i \in Ids', k \in 1..Len(inbox') : Taking(k, i)' =>
           (i \in Ids /\ \E l \in 1..Len(inbox) : Taking(l, i)) \/ Seen(i, 1)'
    /\ \A n \in owed' : n \in owed \/ (n[2] = 1 /\ Reaches(n[1])')

LEMMA SeenStays ==
    ASSUME CInv, FirstTurns, Calm, NEW i \in Ids, Seen(i, 1)
    PROVE  Seen(i, 1)'
  <1>1. i # 0
    BY RegistryOf
  <1>2. CASE <<i, 1>> \in waited
    BY <1>2 DEF Calm, Seen
  <1>3. CASE \E c \in Calls : Handed(c, i, 1)
    <2>1. PICK c \in Calls : Handed(c, i, 1)
      BY <1>3
    <2>2. Hears(c)
      BY DEF Calm
    <2> QED BY <1>1, <2>1, <2>2 DEF Hears, Handed, Seen
  <1> QED BY <1>2, <1>3 DEF Seen

\* A step that does all this keeps the invariant.
LEMMA LossKept ==
    ASSUME CInv, Posted, LossInv, Calm, Passes, Ids \subseteq Ids',
           ~turn'.cancelled, "interrupts" \in DOMAIN budget', budget'.interrupts = 0,
           turn.at = "ended" => turn'.at = "ended"
    PROVE  LossInv'
  <1>1. FirstTurns'
    BY DEF FirstTurns, Calm, Hears, Lives
  <1>2. \A i \in Ids : Seen(i, 1) => Seen(i, 1)'
    BY SeenStays DEF LossInv
  <1>3. Backed'
    <2> SUFFICES ASSUME NEW i \in Ids', Withdrawing(i)' \/ (\E k \in 1..Len(inbox') : Taking(k, i)')
                 PROVE  Seen(i, 1)'
      BY DEF Backed
    <2>1. CASE tasks'[i].at = "withdraw"
      <3>1. Lives(i)
        BY DEF Calm
      <3> QED BY <1>2, <2>1, <3>1 DEF Lives, LossInv, Backed, Withdrawing
    <2>2. CASE \E c \in Calls : calls'[c].at = "withdraw" /\ calls'[c].on = i
      <3>1. PICK c \in Calls : calls'[c].at = "withdraw" /\ calls'[c].on = i
        BY <2>2
      <3>2. (calls[c].at = "withdraw" /\ calls[c].on = i) \/ Seen(i, 1)'
        BY <3>1 DEF Calm, Hears
      <3>3. calls[c].at = "withdraw" => calls[c].on \in Ids
        BY CallOf DEF CallFits
      <3> QED BY <1>2, <3>2, <3>3 DEF LossInv, Backed, Withdrawing
    <2>3. CASE \E k \in 1..Len(inbox') : Taking(k, i)'
      BY <1>2, <2>3 DEF Passes, LossInv, Backed
    <2> QED BY <2>1, <2>2, <2>3 DEF Withdrawing
  <1>4. ASSUME turn'.at # "ended", NEW n \in owed' PROVE n[2] = 1 /\ Reaches(n[1])'
    <2>1. CASE n \in owed
      <3>1. n[2] = 1 /\ Reaches(n[1]) /\ n[1] \in Ids
        BY <1>4, <2>1 DEF LossInv, Posted, Results
      <3>2. CASE Seen(n[1], 1)
        BY <1>2, <3>1, <3>2 DEF Reaches
      <3>3. CASE ~Seen(n[1], 1)
        BY <1>4, <3>1, <3>3 DEF Reaches, Passes
      <3> QED BY <3>1, <3>2, <3>3
    <2>2. CASE n \notin owed
      BY <2>2 DEF Passes
    <2> QED BY <2>1, <2>2
  <1> QED BY <1>1, <1>3, <1>4 DEF LossInv

\* Nothing is sent, and no turn ends.
LEMMA CalmPasses ==
    ASSUME Posted, Calm, UNCHANGED <<inbox, held, told>>, Ids \subseteq Ids',
           \A i \in Ids : tasks[i].at = "notify" => tasks'[i].at = "notify",
           \A n \in owed' : n \in owed \/ (n[2] = 1 /\ Reaches(n[1])')
    PROVE  Passes
  <1>1. \A i : (Noted(i, 1) => Noted(i, 1)') /\ (<<i, 1>> \in told => <<i, 1>> \in told')
    BY DEF Noted, Mailed
  <1>2. \A i, k : Taking(k, i)' => Taking(k, i)
    BY DEF Taking
  <1>3. \A k \in 1..Len(inbox) : inbox[k].child \in Ids
    <2>1. inbox \in Seq(Messages)
      BY DEF Posted
    <2>2. \A k \in 1..Len(inbox) : inbox[k] \in Messages
      BY <2>1
    <2> QED BY <2>2 DEF Messages
  <1>4. ASSUME NEW i \in Ids', NEW k \in 1..Len(inbox'), Taking(k, i)'
        PROVE  i \in Ids /\ \E l \in 1..Len(inbox) : Taking(l, i)
    BY <1>2, <1>3, <1>4 DEF Taking
  <1> QED BY <1>1, <1>4 DEF Passes, Reaches

\* No step cuts a turn of the parent short.
LEMMA Uncut ==
    ASSUME CInv, FirstTurns, [Next]_vars
    PROVE  /\ ~turn'.cancelled /\ "interrupts" \in DOMAIN budget' /\ budget'.interrupts = 0
           /\ turn.at = "ended" => turn'.at = "ended"
  <1>1. turn \in Turns /\ ~turn.cancelled /\ "interrupts" \in DOMAIN budget /\ budget.interrupts = 0
    BY DEF FirstTurns, CInv, Chunked
  <1>2. \/ UNCHANGED turn
        \/ \E at : turn' = [turn EXCEPT !.at = at] /\ (turn.at = "ended" => at = "ended")
        \/ turn' = [at |-> "idle", cancelled |-> FALSE] /\ turn.at # "ended"
    <2>1. CASE \E c \in Calls : CallStep(c) \/ WaitTimesOut(c)
      BY <2>1 DEF CallStep, Spawn, SpawnStarts, SpawnFails, SpawnReturns, Wait, WaitAny, WaitReturns,
                  WaitCancelled, WaitTimesOut, Withdraw, Resume, ResumeSends, ResumeReturns, ResumeCancelled
    <2>2. CASE \E i \in Ids : TaskStep(i) \/ Panic(i) \/ StopChild(i)
      BY <2>2 DEF TaskStep, Finish, Tell, Publish, TakeBack, Reply, TakeRequest, End, Watch, LastWord,
                  Panic, StopChild
    <2>3. CASE Mail \/ Release \/ Prompt \/ Dispatch \/ Joined \/ TurnEnds \/ SessionEnds \/ Rest
               \/ UNCHANGED vars
      BY <2>3 DEF Mail, Release, Prompt, Dispatch, Joined, TurnEnds, SessionEnds, Rest, vars
    <2>4. ~Interrupt
      BY <1>1 DEF Interrupt
    <2> QED BY <2>1, <2>2, <2>3, <2>4 DEF Next
  <1>3. \/ UNCHANGED budget
        \/ \E n : \/ budget' = [budget EXCEPT !.chunks = n] \/ budget' = [budget EXCEPT !.stops = n]
                  \/ budget' = [budget EXCEPT !.panics = n]
    <2>1. CASE \E c \in Calls : CallStep(c) \/ WaitTimesOut(c)
      BY <2>1 DEF CallStep, Spawn, SpawnStarts, SpawnFails, SpawnReturns, Wait, WaitAny, WaitReturns,
                  WaitCancelled, WaitTimesOut, Withdraw, Resume, ResumeSends, ResumeReturns, ResumeCancelled
    <2>2. CASE \E i \in Ids : TaskStep(i) \/ Panic(i) \/ StopChild(i)
      BY <2>2 DEF TaskStep, Finish, Tell, Publish, TakeBack, Reply, TakeRequest, End, Watch, LastWord,
                  Panic, StopChild
    <2>3. CASE Mail \/ Release \/ Prompt \/ Dispatch \/ Joined \/ TurnEnds \/ SessionEnds \/ Rest
               \/ UNCHANGED vars
      BY <2>3 DEF Mail, Release, Prompt, Dispatch, Joined, TurnEnds, SessionEnds, Rest, vars
    <2>4. ~Interrupt
      BY <1>1 DEF Interrupt
    <2> QED BY <2>1, <2>2, <2>3, <2>4 DEF Next
  <1>4. ~turn'.cancelled /\ (turn.at = "ended" => turn'.at = "ended")
    BY <1>1, <1>2 DEF Turns
  <1>5. "interrupts" \in DOMAIN budget' /\ budget'.interrupts = 0
    BY <1>1, <1>3
  <1> QED BY <1>4, <1>5

\* A call that has received nothing goes on, is given something, or ends.
LEMMA MovesHears ==
    ASSUME CInv, FirstTurns, NEW c \in Calls,
           \/ calls'[c] = calls[c]
           \/ calls'[c] = Idle /\ (calls[c].at # "parked" \/ calls[c].got.child = 0)
           \/ /\ calls[c].got = Empty /\ calls[c].at # "withdraw"
              /\ \/ \E at : calls'[c] = [calls[c] EXCEPT !.at = at] /\ at \notin {"send", "reply", "withdraw"}
                 \/ \E g : calls'[c] = [calls[c] EXCEPT !.got = g] /\ (g.child # 0 => g.run = 1)
    PROVE  Hears(c)
  <1>1. calls[c] \in CallRecords /\ First(calls[c])
    BY CallOf DEF FirstTurns
  <1>2. First(calls'[c]) => First(calls[c])'
    BY DEF First
  <1>3. CASE calls'[c] = calls[c]
    BY <1>1, <1>2, <1>3 DEF Hears
  <1>4. CASE calls'[c] = Idle /\ (calls[c].at # "parked" \/ calls[c].got.child = 0)
    <2>1. First(Idle) /\ Idle.at = "over"
      BY DEF First, Idle, Empty, Resumes
    <2> QED BY <1>2, <1>4, <2>1 DEF Hears
  <1>5. ASSUME calls[c].got = Empty, calls[c].at # "withdraw",
               NEW at, calls'[c] = [calls[c] EXCEPT !.at = at], at \notin {"send", "reply", "withdraw"}
        PROVE  Hears(c)
    <2>1. calls'[c].at = at /\ calls'[c].op = calls[c].op /\ calls'[c].got = calls[c].got
      BY <1>1, <1>5 DEF CallRecords
    <2>2. First(calls'[c]) /\ calls[c].got.child = 0
      BY <1>1, <1>5, <2>1 DEF First, Empty
    <2> QED BY <1>2, <1>5, <2>1, <2>2 DEF Hears
  <1>6. ASSUME calls[c].got = Empty, calls[c].at # "withdraw",
               NEW g, calls'[c] = [calls[c] EXCEPT !.got = g], g.child # 0 => g.run = 1
        PROVE  Hears(c)
    <2>1. calls'[c].at = calls[c].at /\ calls'[c].op = calls[c].op /\ calls'[c].got = g
      BY <1>1, <1>6 DEF CallRecords
    <2>2. First(calls'[c]) /\ calls[c].got.child = 0
      BY <1>1, <1>6, <2>1 DEF First, Empty
    <2> QED BY <1>2, <1>6, <2>1, <2>2 DEF Hears
  <1> QED BY <1>3, <1>4, <1>5, <1>6

\* One call moves so, or some have their senders dropped.
LEMMA CallsHear ==
    ASSUME CInv, FirstTurns,
           \/ UNCHANGED calls
           \/ \E c \in Calls : Hears(c) /\ But(calls', calls, c)
           \/ \E S : calls' = Drop(S) /\ \A c \in S \cap Calls : calls[c].at = "parked" /\ calls[c].got = Empty
    PROVE  \A c \in Calls : Hears(c)
  <1>1. CASE UNCHANGED calls
    BY <1>1, MovesHears
  <1>2. ASSUME NEW c \in Calls, Hears(c), But(calls', calls, c)
        PROVE  \A d \in Calls : Hears(d)
    BY <1>2, MovesHears DEF But, CInv
  <1>3. ASSUME NEW S, calls' = Drop(S), \A c \in S \cap Calls : calls[c].at = "parked" /\ calls[c].got = Empty,
               NEW c \in Calls
        PROVE  Hears(c)
    <2>1. Dropped.child = 0
      BY DEF Dropped, Empty
    <2>2. CASE c \in S
      BY <1>3, <2>1, <2>2, MovesHears DEF Drop
    <2>3. CASE c \notin S
      BY <1>3, <2>3, MovesHears DEF Drop
    <2> QED BY <2>2, <2>3
  <1> QED BY <1>1, <1>2, <1>3

\* A task goes on, and no child takes a request.
LEMMA TaskLives ==
    ASSUME CInv, FirstTurns, Ids' = Ids,
           UNCHANGED reqs \/ (\E i : reqs' = [reqs EXCEPT ![i] = <<>>]),
           \/ UNCHANGED tasks
           \/ \E i \in Ids : /\ But(tasks', tasks, i) /\ tasks'[i].run = 1 /\ tasks'[i].reply = NoCall
                             /\ tasks'[i].at = "withdraw" => Seen(i, 1)'
    PROVE  \A i \in Ids' : Lives(i)
  <1>1. \A i \in Ids : reqs'[i] = <<>>
    BY RegistryOf DEF FirstTurns
  <1> QED BY <1>1, RegistryOf DEF FirstTurns, Lives, But

\* A child starts, or its first turn ends in its call.
LEMMA StartCarries ==
    ASSUME CInv, KInv', Posted, FirstTurns, NEW c \in Calls, SpawnStarts(c) \/ SpawnReturns(c)
    PROVE  Calm /\ Passes
  <1> SUFFICES ASSUME NEW i, i = calls[c].on PROVE Calm /\ Passes
    OBVIOUS
  <1>1. /\ calls[c].at \in {"permit", "driving"} /\ UNCHANGED <<reqs, inbox, held, told, owed, waited>>
        /\ GoTo(i, "drive") \/ GoTo(i, "fg") \/ GoTo(i, "park")
    BY DEF SpawnStarts, SpawnReturns, GoTo
  <1>2. i \in Ids /\ tasks[i].at \in {"none", "fg"} /\ calls[c].got = Empty
    BY <1>1, CallOf DEF CallFits, CInv, Begun
  <1>3. Ids' = Ids
    <2>1. CASE SpawnStarts(c)
      BY <2>1, SameChildren DEF SpawnStarts
    <2>2. CASE SpawnReturns(c)
      BY <2>2, SameChildren DEF SpawnReturns
    <2> QED BY <2>1, <2>2
  <1>4. /\ But(tasks', tasks, i) /\ tasks'[i].at # "withdraw"
        /\ tasks'[i].run = 1 /\ tasks'[i].reply = NoCall
    BY <1>1, <1>2, Goes DEF FirstTurns
  <1>5. But(calls', calls, c) /\ Hears(c)
    <2>1. CASE calls' = Over(c)
      BY <1>1, <2>1, OverIs, MovesHears DEF But, CInv
    <2>2. CASE calls' = [calls EXCEPT ![c].at = "driving"]
      <3>1. calls'[c] = [calls[c] EXCEPT !.at = "driving"] /\ But(calls', calls, c)
        BY <2>2 DEF CInv, But
      <3> QED BY <1>1, <1>2, <3>1, MovesHears
    <2> QED BY <2>1, <2>2 DEF SpawnStarts, SpawnReturns
  <1>6. Calm
    BY <1>1, <1>2, <1>3, <1>4, <1>5, CallsHear, TaskLives DEF Calm
  <1>7. \A j \in Ids : tasks[j].at = "notify" => tasks'[j].at = "notify"
    BY <1>2, <1>4, RegistryOf DEF But
  <1> QED BY <1>1, <1>3, <1>6, <1>7, CalmPasses

\* A child nothing drives any more gives its waiter, if it has one, the error.
LEMMA AbandonsCarries ==
    ASSUME CInv, KInv', Posted, FirstTurns, NEW i \in Ids, NEW E \in SUBSET Calls, Abandoned(i, E),
           tasks[i].at \in {"none", "panicked"}, \A e \in E : calls[e].at = "permit",
           NEW at, GoTo(i, at), at # "withdraw", UNCHANGED <<reqs, inbox, held, told, owed, waited>>
    PROVE  Calm /\ Passes
  <1> SUFFICES ASSUME NEW w, w = WaiterOf(i), NEW C, C = IF Working(slots[i]) THEN {w} \cap Calls ELSE {},
                      NEW h, h = Handoff(i, tasks[i].run, FALSE)
               PROVE  Calm /\ Passes
    OBVIOUS
  <1>1. Abandons(i, E, C)
    BY AbandonedIs
  <1>2. /\ But(tasks', tasks, i) /\ tasks'[i].at = at
        /\ tasks'[i].run = 1 /\ tasks'[i].reply = NoCall /\ Ids' = Ids
    BY <1>1, Goes DEF FirstTurns, Abandons
  <1>3. h.run = 1
    BY DEF Handoff, FirstTurns
  <1>4. ASSUME NEW d \in Calls PROVE Hears(d)
    <2>1. CASE d \in C
      <3>1. calls'[d] = [calls[d] EXCEPT !.got = h] /\ calls[d].at = "parked" /\ d \in {slots[i].waiter, any}
        BY <1>1, <2>1 DEF Abandons
      <3>2. calls[d].got = Empty
        BY <3>1, KeptIs
      <3> QED BY <1>3, <3>1, <3>2, MovesHears
    <2>2. CASE d \in E
      BY <1>1, <2>2, MovesHears DEF Abandons
    <2>3. CASE d \notin C \cup E
      BY <1>1, <2>3, MovesHears DEF Abandons
    <2> QED BY <2>1, <2>2, <2>3
  <1>5. Calm
    BY <1>2, <1>4, TaskLives DEF Calm
  <1>6. \A j \in Ids : tasks[j].at = "notify" => tasks'[j].at = "notify"
    BY <1>2, RegistryOf DEF But
  <1> QED BY <1>2, <1>5, <1>6, CalmPasses

LEMMA SpawnFailsCarries ==
    ASSUME CInv, KInv', Posted, FirstTurns, NEW c \in Calls, SpawnFails(c)
    PROVE  Calm /\ Passes
  <1> SUFFICES ASSUME NEW i, i = calls[c].on PROVE Calm /\ Passes
    OBVIOUS
  <1>1. /\ calls[c].at = "permit" /\ Abandoned(i, {c}) /\ GoTo(i, "ended")
        /\ UNCHANGED <<reqs, inbox, held, told, owed, waited>>
    BY DEF SpawnFails, GoTo
  <1>2. i \in Ids /\ tasks[i].at = "none"
    BY <1>1, CallOf DEF CallFits, CInv, Begun
  <1>3. PICK E \in SUBSET Calls : E = {c}
    OBVIOUS
  <1> QED BY <1>1, <1>2, <1>3, AbandonsCarries

\* A child is registered, or refused.
LEMMA SpawnCarries ==
    ASSUME CInv, KInv', Posted, FirstTurns, NEW c \in Calls, Spawn(c)
    PROVE  Calm /\ Passes
  <1>1. calls[c].at = "due" /\ UNCHANGED <<inbox, held, told, owed, waited>> /\ calls[c].got = Empty
    BY CallOf DEF Spawn, CallFits
  <1>2. CASE calls' = Over(c)
    <2>1. UNCHANGED <<slots, tasks, reqs>> /\ Ids' = Ids
      BY <1>2, SpawnRefused DEF Ids
    <2>2. But(calls', calls, c) /\ Hears(c)
      BY <1>1, <1>2, OverIs, MovesHears DEF But, CInv
    <2>3. Calm
      BY <1>1, <2>1, <2>2, CallsHear, TaskLives DEF Calm
    <2> QED BY <1>1, <2>1, <2>3, CalmPasses
  <1>3. CASE calls' # Over(c)
    <2> SUFFICES ASSUME NEW n, n = Len(slots) + 1 PROVE Calm /\ Passes
      OBVIOUS
    <2>1. PICK V \in SUBSET Parked : Registers(V, n, c)
      BY <1>3, SpawnIs
    <2> SUFFICES ASSUME NEW S, S = {slots[i].waiter : i \in V}, NEW f, f = Drop(S) PROVE Calm /\ Passes
      OBVIOUS
    <2>2. \A d \in S \cap Calls : calls[d].at = "parked" /\ calls[d].got = Empty
      BY KeptIs DEF Parked
    <2>3. calls' = [f EXCEPT ![c] = [f[c] EXCEPT !.at = "permit", !.on = n]]
      BY <2>1 DEF Registers
    <2>4. DOMAIN f = Calls /\ \A d \in Calls : f[d] = IF d \in S THEN [calls[d] EXCEPT !.got = Dropped] ELSE calls[d]
      BY DEF Drop
    <2>5. f[c] = calls[c]
      BY <1>1, <2>2, <2>4
    <2>6. calls'[c] = [calls[c] EXCEPT !.at = "permit", !.on = n] /\ \A d \in Calls \ {c} : calls'[d] = f[d]
      BY <2>3, <2>4, <2>5
    <2>7. Hears(c)
      <3>1. calls'[c].at = "permit" /\ calls'[c].op = calls[c].op /\ calls'[c].got = Empty
        BY <1>1, <2>6, CallOf DEF CallRecords
      <3>2. First(calls[c])' /\ Empty.child = 0
        BY <3>1 DEF First, FirstTurns, Empty
      <3> QED BY <1>1, <3>1, <3>2 DEF Hears
    <2>8. ASSUME NEW d \in Calls \ {c} PROVE Hears(d)
      <3>1. Dropped.child = 0
        BY DEF Dropped, Empty
      <3>2. CASE d \in S
        <4>1. /\ calls'[d] = [calls[d] EXCEPT !.got = Dropped]
              /\ calls[d].got = Empty /\ calls[d].at # "withdraw"
          BY <2>2, <2>4, <2>6, <3>2
        <4>2. \E g : calls'[d] = [calls[d] EXCEPT !.got = g] /\ (g.child # 0 => g.run = 1)
          BY <3>1, <4>1
        <4> QED BY <4>1, <4>2, MovesHears
      <3>3. CASE d \notin S
        BY <2>4, <2>6, <3>3, MovesHears
      <3> QED BY <3>2, <3>3
    <2>9. /\ Ids' = Ids \cup {n} /\ tasks'[n] = [at |-> "none", run |-> 1, reply |-> NoCall] /\ reqs'[n] = <<>>
          /\ \A i \in Ids : tasks'[i] = tasks[i] /\ reqs'[i] = reqs[i]
      BY <2>1 DEF Registers
    <2>10. \A i \in Ids' : Lives(i)
      BY <2>9 DEF Lives, FirstTurns
    <2>11. Calm
      BY <1>1, <2>7, <2>8, <2>10 DEF Calm
    <2> QED BY <1>1, <2>9, <2>11, CalmPasses
  <1> QED BY <1>2, <1>3

\* A `wait` takes a result at once, parks, or is refused.
LEMMA WaitCarries ==
    ASSUME CInv, KInv', Posted, FirstTurns, NEW c \in Calls, Wait(c) \/ WaitAny(c)
    PROVE  Calm /\ Passes
  <1>1. /\ calls[c].at = "due" /\ calls[c].got = Empty
        /\ UNCHANGED <<tasks, reqs, inbox, held, told, owed>>
    BY CallOf DEF Wait, WaitAny, CallFits
  <1>2. Ids' = Ids
    <2>1. UNCHANGED slots \/ \E i : \E s : slots' = [slots EXCEPT ![i] = s]
      BY DEF Wait, WaitAny, TakeDone, Refused
    <2> QED BY <2>1, SameChildren
  <1>3. \/ \E i \in Ids : slots[i].state = "Done" /\ TakeDone(c, i)
        \/ UNCHANGED waited /\ (calls' = Over(c) \/ calls' = [calls EXCEPT ![c].at = "parked"])
    <2>1. CASE Wait(c)
      <3>1. calls[c].on \in Ids
        BY <2>1, CallOf DEF Wait, CallFits
      <3> QED BY <2>1, <3>1 DEF Wait, Refused
    <2>2. CASE WaitAny(c)
      <3>1. Unclaimed # {} => Oldest(Unclaimed) \in Ids /\ slots[Oldest(Unclaimed)].state = "Done"
        BY OldestIn DEF Unclaimed, Parked
      <3> QED BY <2>2, <3>1 DEF WaitAny, Refused
    <2> QED BY <2>1, <2>2
  <1>4. But(calls', calls, c) /\ Hears(c) /\ waited \subseteq waited'
    <2>1. ASSUME NEW i \in Ids, slots[i].state = "Done", TakeDone(c, i)
          PROVE  But(calls', calls, c) /\ Hears(c) /\ waited \subseteq waited'
      <3> DEFINE k == [calls[c] EXCEPT !.at = "withdraw", !.on = i]
      <3>1. calls' = [calls EXCEPT ![c] = k] /\ waited' = waited \cup {<<i, slots[i].run>>}
        BY <2>1 DEF TakeDone
      <3>2. k.at = "withdraw" /\ k.on = i /\ k.op = calls[c].op /\ k.got = Empty
        BY <1>1, CallOf DEF CallRecords
      <3> HIDE DEF k
      <3>3. calls'[c] = k /\ But(calls', calls, c)
        BY <3>1 DEF CInv, But
      <3>4. slots[i].run = 1
        BY <2>1, ChildOf DEF Fits, FirstTurns
      <3>5. Seen(i, 1)'
        BY <3>1, <3>4 DEF Seen
      <3>6. First(calls[c])' /\ Empty.child = 0
        BY <3>2, <3>3 DEF First, FirstTurns, Empty
      <3> QED BY <1>1, <3>1, <3>2, <3>3, <3>5, <3>6 DEF Hears
    <2>2. CASE calls' = Over(c) /\ UNCHANGED waited
      BY <1>1, <2>2, OverIs, MovesHears DEF But, CInv
    <2>3. CASE calls' = [calls EXCEPT ![c].at = "parked"] /\ UNCHANGED waited
      <3>1. calls'[c] = [calls[c] EXCEPT !.at = "parked"] /\ But(calls', calls, c)
        BY <2>3 DEF CInv, But
      <3>2. Hears(c)
        BY <1>1, <3>1, MovesHears
      <3> QED BY <2>3, <3>1, <3>2
    <2> QED BY <1>3, <2>1, <2>2, <2>3
  <1>5. Calm
    BY <1>1, <1>2, <1>4, CallsHear, TaskLives DEF Calm
  <1> QED BY <1>1, <1>2, <1>5, CalmPasses

\* A `wait` that parked returns the result it was given, or gives up without one.
LEMMA WaitEndsCarries ==
    ASSUME CInv, KInv', Posted, FirstTurns, NEW c \in Calls, WaitReturns(c) \/ WaitTimesOut(c)
    PROVE  Calm /\ Passes
  <1> SUFFICES ASSUME NEW h, h = calls[c].got PROVE Calm /\ Passes
    OBVIOUS
  <1>1. calls[c].at = "parked" /\ UNCHANGED <<tasks, reqs, inbox, held, told, owed>>
    BY DEF WaitReturns, WaitTimesOut, DropReceivers
  <1>2. Ids' = Ids
    <2>1. UNCHANGED slots \/ DOMAIN slots' = Ids
      BY DEF WaitReturns, WaitTimesOut, DropReceivers
    <2> QED BY <2>1, SameChildren
  <1>3. But(calls', calls, c) /\ Hears(c) /\ waited \subseteq waited'
    <2>1. CASE calls' = Over(c) /\ h \in {Empty, Dropped} /\ UNCHANGED waited
      <3>1. h.child = 0
        BY <2>1 DEF Dropped, Empty
      <3> QED BY <1>1, <2>1, <3>1, OverIs, MovesHears DEF But, CInv
    <2>2. CASE h \notin {Empty, Dropped} /\ WaitReturns(c)
      <3> SUFFICES ASSUME NEW i, i = h.child
                   PROVE  But(calls', calls, c) /\ Hears(c) /\ waited \subseteq waited'
        OBVIOUS
      <3>1. i \in Ids /\ i # 0 /\ h.run = 1
        BY <2>2, CallOf DEF CallFits, FirstTurns, First
      <3>2. waited' = waited \cup {<<i, 1>>}
        BY <2>2, <3>1 DEF WaitReturns
      <3>3. Seen(i, 1)'
        BY <3>2 DEF Seen
      <3>4. CASE calls' = Over(c)
        <4>1. But(calls', calls, c) /\ calls'[c] = Idle
          BY <3>4, OverIs DEF But, CInv
        <4>2. First(Idle) /\ Idle.at = "over"
          BY DEF First, Idle, Empty, Resumes
        <4>3. First(calls[c])'
          BY <4>1, <4>2 DEF First
        <4> QED BY <3>1, <3>2, <4>1, <4>2, <4>3 DEF Hears
      <3>5. CASE calls' # Over(c)
        <4> DEFINE k == [calls[c] EXCEPT !.at = "withdraw", !.on = i]
        <4>1. calls' = [calls EXCEPT ![c] = k]
          BY <2>2, <3>5 DEF WaitReturns
        <4>2. k.at = "withdraw" /\ k.on = i /\ k.op = calls[c].op /\ k.got = h
          BY CallOf DEF CallRecords
        <4> HIDE DEF k
        <4>3. calls'[c] = k /\ But(calls', calls, c)
          BY <4>1 DEF CInv, But
        <4>4. First(calls[c])'
          BY <3>1, <4>2, <4>3 DEF First, FirstTurns
        <4> QED BY <3>1, <3>2, <3>3, <4>2, <4>3, <4>4 DEF Hears
      <3> QED BY <3>4, <3>5
    <2>3. h \in {Empty, Dropped} => calls' = Over(c) /\ UNCHANGED waited
      BY DEF WaitReturns, WaitTimesOut, DropReceivers
    <2>4. h \notin {Empty, Dropped} => WaitReturns(c)
      BY DEF WaitTimesOut
    <2> QED BY <2>1, <2>2, <2>3, <2>4
  <1>4. Calm
    BY <1>1, <1>2, <1>3, CallsHear, TaskLives DEF Calm
  <1> QED BY <1>1, <1>2, <1>4, CalmPasses

\* A recall is sent of a result that was read.
LEMMA RecallCarries ==
    ASSUME CInv, Posted, FirstTurns, Calm, NEW i \in Ids, Seen(i, 1), inbox' = Append(inbox, Unnotify(i)),
           Ids' = Ids, UNCHANGED <<held, told, owed>>,
           \A j \in Ids : tasks[j].at = "notify" => tasks'[j].at = "notify"
    PROVE  Calm /\ Passes
  <1> SUFFICES ASSUME NEW m, m = Unnotify(i) PROVE Passes
    OBVIOUS
  <1>1. m \in Messages /\ m.kind = "Unnotify" /\ m.child = i
    BY DEF Unnotify, Messages
  <1>2. /\ Len(inbox') = Len(inbox) + 1 /\ Len(inbox) \in Nat /\ inbox'[Len(inbox) + 1] = m
        /\ \A k \in 1..Len(inbox) : inbox'[k] = inbox[k]
    <2>1. inbox \in Seq(Messages)
      BY DEF Posted
    <2> QED BY <1>1, <2>1, Appended
  <1>3. \A j : Noted(j, 1) => Noted(j, 1)'
    BY <1>2 DEF Noted, Mailed
  <1>4. Seen(i, 1)'
    BY SeenStays
  <1>5. ASSUME NEW j \in Ids, NEW k \in 1..Len(inbox'), Taking(k, j)'
        PROVE  (\E l \in 1..Len(inbox) : Taking(l, j)) \/ Seen(j, 1)'
    <2>1. CASE k = Len(inbox) + 1
      BY <1>1, <1>2, <1>4, <1>5, <2>1 DEF Taking
    <2>2. CASE k # Len(inbox) + 1
      BY <1>2, <1>5, <2>2 DEF Taking
    <2> QED BY <2>1, <2>2
  <1> QED BY <1>3, <1>5 DEF Passes, Reaches

\* A notification is sent.
LEMMA NoteCarries ==
    ASSUME CInv, KInv', Posted, FirstTurns, NEW i \in Ids, Tell(i) \/ LastWord(i)
    PROVE  Calm /\ Passes
  <1> SUFFICES ASSUME NEW m, m = Note(i) PROVE Calm /\ Passes
    OBVIOUS
  <1>1. /\ UNCHANGED <<slots, reqs, calls, held, told, owed, waited>>
        /\ inbox' = IF turn.at = "ended" THEN inbox ELSE Append(inbox, m)
        /\ GoTo(i, "publish") \/ (GoTo(i, "ended") /\ tasks[i].at = "lastword")
        /\ UNCHANGED turn
    BY DEF Tell, LastWord
  <1>2. /\ Ids' = Ids /\ But(tasks', tasks, i) /\ tasks'[i].at \in {"publish", "ended"}
        /\ tasks'[i].run = 1 /\ tasks'[i].reply = NoCall
    BY <1>1, Goes DEF FirstTurns, Ids
  <1>3. Calm
    BY <1>1, <1>2, CallsHear, TaskLives DEF Calm
  <1>4. m \in Messages /\ m = [kind |-> "Notify", child |-> i, run |-> 1]
    BY DEF Note, Messages, FirstTurns
  <1>5. inbox \in Seq(Messages)
    BY DEF Posted
  <1>6. CASE turn.at = "ended"
    <2>1. \A j, k : Taking(k, j)' => Taking(k, j)
      BY <1>1, <1>6 DEF Taking
    <2> QED BY <1>1, <1>2, <1>3, <1>6, <2>1 DEF Passes
  <1>7. CASE turn.at # "ended"
    <2>1. /\ Len(inbox') = Len(inbox) + 1 /\ Len(inbox) \in Nat /\ inbox'[Len(inbox) + 1] = m
          /\ \A k \in 1..Len(inbox) : inbox'[k] = inbox[k]
      BY <1>1, <1>4, <1>5, <1>7, Appended
    <2>2. \A j : Noted(j, 1) => Noted(j, 1)'
      BY <1>1, <2>1 DEF Noted, Mailed
    <2>3. Noted(i, 1)'
      <3>1. PICK n : n = Len(inbox) + 1
        OBVIOUS
      <3>2. Mailed(n, i, 1)' /\ n \in 1..Len(inbox')
        BY <1>4, <2>1, <3>1 DEF Mailed
      <3> QED BY <3>2 DEF Noted
    <2>4. ASSUME NEW j \in Ids, NEW k \in 1..Len(inbox'), Taking(k, j)'
          PROVE  \E l \in 1..Len(inbox) : Taking(l, j)
      <3>1. k # Len(inbox) + 1
        BY <1>4, <2>1, <2>4 DEF Taking
      <3> QED BY <2>1, <2>4, <3>1 DEF Taking
    <2>5. \A j \in Ids : tasks[j].at = "notify" => tasks'[j].at = "notify" \/ j = i
      BY <1>2, RegistryOf DEF But
    <2> QED BY <1>1, <1>2, <1>3, <2>2, <2>3, <2>4, <2>5 DEF Passes, Reaches
  <1> QED BY <1>6, <1>7

\* A call takes back the notification of the result it read.
LEMMA WithdrawCarries ==
    ASSUME CInv, KInv', Posted, LossInv, NEW c \in Calls, Withdraw(c)
    PROVE  Calm /\ Passes
  <1> SUFFICES ASSUME NEW i, i = calls[c].on, NEW m, m = Unnotify(i) PROVE Calm /\ Passes
    OBVIOUS
  <1>1. /\ calls[c].at = "withdraw" /\ inbox' = Append(inbox, m) /\ calls' = Over(c)
        /\ UNCHANGED <<slots, tasks, reqs, held, told, owed, waited>> /\ FirstTurns
    BY DEF Withdraw, LossInv
  <1>2. i \in Ids /\ Ids' = Ids
    BY <1>1, CallOf DEF CallFits, Ids
  <1>3. But(calls', calls, c) /\ Hears(c)
    BY <1>1, OverIs, MovesHears DEF But, CInv
  <1>4. Calm
    BY <1>1, <1>2, <1>3, CallsHear, TaskLives DEF Calm
  <1>5. Seen(i, 1)
    BY <1>1, <1>2 DEF LossInv, Backed, Withdrawing
  <1> QED BY <1>1, <1>2, <1>4, <1>5, RecallCarries

\* A child's task takes back the one it sent, its waiter having the result.
LEMMA TakeBackCarries ==
    ASSUME CInv, KInv', Posted, LossInv, NEW i \in Ids, TakeBack(i)
    PROVE  Calm /\ Passes
  <1>1. /\ tasks[i].at = "withdraw" /\ inbox' = Append(inbox, Unnotify(i)) /\ GoTo(i, "park")
        /\ UNCHANGED <<slots, reqs, calls, held, told, owed, waited>> /\ FirstTurns
    BY DEF TakeBack, LossInv
  <1>2. /\ Ids' = Ids /\ But(tasks', tasks, i) /\ tasks'[i].at = "park"
        /\ tasks'[i].run = 1 /\ tasks'[i].reply = NoCall
    BY <1>1, Goes DEF FirstTurns, Ids
  <1>3. Calm
    BY <1>1, <1>2, CallsHear, TaskLives DEF Calm
  <1>4. Seen(i, 1)
    BY <1>1 DEF LossInv, Backed, Withdrawing
  <1>5. \A j \in Ids : tasks[j].at = "notify" => tasks'[j].at = "notify"
    BY <1>1, <1>2, RegistryOf DEF But
  <1> QED BY <1>1, <1>2, <1>3, <1>4, <1>5, RecallCarries

\* A waiter is served by its turn's end.
LEMMA ServedHears ==
    ASSUME CInv, FirstTurns, NEW i \in Ids, NEW w, w = WaiterOf(i), NEW b \in BOOLEAN,
           NEW h, h = Handoff(i, 1, b),
           calls' = calls \/ (w \in Calls /\ calls' = Put(w, h))
    PROVE  /\ \A c \in Calls : Hears(c)
           /\ w \in Calls /\ calls' = Put(w, h) => Seen(i, 1)'
  <1>1. CASE calls' # Put(w, h)
    BY <1>1, CallsHear
  <1>2. CASE w \in Calls /\ calls' = Put(w, h)
    <2>1. calls[w].at = "parked" /\ calls[w].got = Empty
      BY <1>2, WaiterIs, KeptIs
    <2>2. calls'[w] = [calls[w] EXCEPT !.got = h] /\ But(calls', calls, w)
      BY <1>2 DEF Put, CInv, But
    <2>3. h.child = i /\ h.run = 1
      BY DEF Handoff
    <2>4. Hears(w)
      BY <1>2, <2>1, <2>2, <2>3, MovesHears
    <2>5. calls'[w].at = "parked" /\ calls'[w].got = h
      BY <1>2, <2>1, <2>2, CallOf DEF CallRecords
    <2>6. Seen(i, 1)'
      BY <1>2, <2>3, <2>5 DEF Seen, Handed
    <2> QED BY <1>2, <2>2, <2>4, <2>6, CallsHear
  <1>3. CASE w \notin Calls
    BY <1>3, CallsHear
  <1> QED BY <1>1, <1>2, <1>3

\* A turn ends: its result goes to a waiter, or somebody is to be told.
LEMMA FinishCarries ==
    ASSUME CInv, KInv', Posted, FirstTurns, NEW i \in Ids, Finish(i)
    PROVE  Calm /\ Passes
  <1> SUFFICES ASSUME NEW w, w = WaiterOf(i), NEW h, h = Handoff(i, 1, FALSE)
               PROVE  Calm /\ Passes
    OBVIOUS
  <1>1. /\ tasks[i].at = "drive" /\ UNCHANGED <<reqs, inbox, held, told, waited>>
        /\ tasks[i].run = 1 /\ owed' = owed \cup {<<i, 1>>}
        /\ \E s : slots' = [slots EXCEPT ![i] = s]
    BY DEF Finish, FirstTurns
  <1>2. Ids' = Ids
    BY <1>1, SameChildren
  <1>3. \/ w \in Calls /\ calls' = Put(w, h) /\ GoTo(i, "park")
        \/ w \notin Calls /\ calls' = calls /\ GoTo(i, "notify")
    BY <1>1 DEF Finish
  <1>4. \A at : GoTo(i, at) => /\ But(tasks', tasks, i) /\ tasks'[i].at = at
                               /\ tasks'[i].run = 1 /\ tasks'[i].reply = NoCall
    BY Goes DEF FirstTurns
  <1>5. /\ \A c \in Calls : Hears(c)
        /\ tasks'[i].at = "notify" \/ Seen(i, 1)'
    BY <1>3, <1>4, ServedHears
  <1>6. Calm
    BY <1>1, <1>2, <1>3, <1>4, <1>5, TaskLives DEF Calm
  <1>7. \A j \in Ids : tasks[j].at = "notify" => tasks'[j].at = "notify"
    BY <1>1, <1>3, <1>4, RegistryOf DEF But
  <1>8. \A n \in owed' : n \in owed \/ (n[2] = 1 /\ Reaches(n[1])')
    <2>1. Reaches(i)'
      BY <1>5 DEF Reaches
    <2> QED BY <1>1, <2>1
  <1> QED BY <1>1, <1>2, <1>6, <1>7, <1>8, CalmPasses

\* A waiter that came in between is served, and the notification is to be taken back.
LEMMA PublishCarries ==
    ASSUME CInv, KInv', Posted, FirstTurns, NEW i \in Ids, Publish(i)
    PROVE  Calm /\ Passes
  <1> SUFFICES ASSUME NEW w, w = WaiterOf(i), NEW h, h = Handoff(i, 1, TRUE)
               PROVE  Calm /\ Passes
    OBVIOUS
  <1>1. /\ tasks[i].at = "publish" /\ UNCHANGED <<reqs, inbox, held, told, owed, waited>>
        /\ UNCHANGED slots \/ \E s : slots' = [slots EXCEPT ![i] = s]
    BY DEF Publish
  <1>2. Ids' = Ids
    BY <1>1, SameChildren
  <1>3. \/ w \in Calls /\ calls' = Put(w, h) /\ (GoTo(i, "withdraw") \/ GoTo(i, "park"))
        \/ UNCHANGED calls /\ GoTo(i, "park")
    <2>1. slots[i].state = "Finishing" => slots[i].run = 1
      BY ChildOf DEF Fits, FirstTurns
    <2> QED BY <2>1 DEF Publish
  <1>4. \A at : GoTo(i, at) => /\ But(tasks', tasks, i) /\ tasks'[i].at = at
                               /\ tasks'[i].run = 1 /\ tasks'[i].reply = NoCall
    BY Goes DEF FirstTurns
  <1>5. /\ \A c \in Calls : Hears(c)
        /\ tasks'[i].at = "park" \/ (tasks'[i].at = "withdraw" /\ Seen(i, 1)')
    <2>1. CASE UNCHANGED calls /\ GoTo(i, "park")
      BY <1>4, <2>1, CallsHear
    <2>2. CASE w \in Calls /\ calls' = Put(w, h) /\ (GoTo(i, "withdraw") \/ GoTo(i, "park"))
      BY <1>4, <2>2, ServedHears
    <2> QED BY <1>3, <2>1, <2>2
  <1>6. Calm
    <2>1. But(tasks', tasks, i) /\ tasks'[i].run = 1 /\ tasks'[i].reply = NoCall
      BY <1>3, <1>4
    <2> QED BY <1>1, <1>2, <1>5, <2>1, TaskLives DEF Calm
  <1>7. \A j \in Ids : tasks[j].at = "notify" => tasks'[j].at = "notify"
    BY <1>1, <1>3, <1>4, RegistryOf DEF But
  <1> QED BY <1>1, <1>2, <1>6, <1>7, CalmPasses

\* A task ends or panics, or its child is stopped: waiters hear of it, no result goes.
LEMMA StopsCarries ==
    ASSUME CInv, KInv', Posted, FirstTurns, NEW i \in Ids, End(i) \/ Panic(i) \/ StopChild(i)
    PROVE  Calm /\ Passes
  <1>1. UNCHANGED <<inbox, held, told, owed, waited>>
    BY DEF End, Panic, StopChild
  <1>2. Ids' = Ids
    <2>1. CASE StopChild(i)
      BY <2>1, SameChildren DEF StopChild
    <2>2. CASE End(i) \/ Panic(i)
      BY <2>2, SameChildren DEF End, Panic
    <2> QED BY <2>1, <2>2
  <1>3. \A c \in Calls : Hears(c)
    <2>1. CASE End(i) \/ Panic(i)
      <3>1. calls' = Drop(Repliers(i))
        BY <2>1 DEF End, Panic
      <3>2. Repliers(i) \cap Calls = {}
        BY BoundsAssumption DEF Repliers, FirstTurns
      <3> QED BY <3>1, <3>2, CallsHear
    <2>2. CASE StopChild(i)
      <3>1. calls' = Drop({slots[i].waiter})
        BY <2>2 DEF StopChild
      <3> QED BY <3>1, KeptIs, CallsHear
    <2> QED BY <2>1, <2>2
  <1>4. /\ UNCHANGED reqs \/ \E j : reqs' = [reqs EXCEPT ![j] = <<>>]
        /\ UNCHANGED tasks \/ (But(tasks', tasks, i) /\ tasks'[i].run = 1 /\ tasks'[i].reply = NoCall
                                 /\ tasks'[i].at # "withdraw" /\ tasks[i].at # "notify")
    <2>1. CASE End(i)
      <3>1. /\ tasks[i].at = "park" /\ reqs' = [reqs EXCEPT ![i] = <<>>]
            /\ But(tasks', tasks, i) /\ tasks'[i].at = "ended"
            /\ tasks'[i].run = 1 /\ tasks'[i].reply = NoCall
        BY <2>1, Goes DEF End, FirstTurns
      <3> QED BY <3>1
    <2>2. CASE Panic(i)
      <3> DEFINE t == [tasks[i] EXCEPT !.at = "panicked", !.reply = NoCall]
      <3>1. tasks[i].at = "drive" /\ reqs' = [reqs EXCEPT ![i] = <<>>] /\ tasks' = [tasks EXCEPT ![i] = t]
        BY <2>2 DEF Panic
      <3>2. t.at = "panicked" /\ t.run = 1 /\ t.reply = NoCall
        BY ChildOf DEF Tasks, FirstTurns
      <3> HIDE DEF t
      <3>3. But(tasks', tasks, i) /\ tasks'[i] = t
        BY <3>1, Moved
      <3> QED BY <3>1, <3>2, <3>3
    <2>3. CASE StopChild(i)
      BY <2>3 DEF StopChild
    <2> QED BY <2>1, <2>2, <2>3
  <1>5. Calm
    BY <1>1, <1>2, <1>3, <1>4, TaskLives DEF Calm
  <1>6. \A j \in Ids : tasks[j].at = "notify" => tasks'[j].at = "notify"
    BY <1>4, RegistryOf DEF But
  <1> QED BY <1>1, <1>2, <1>5, <1>6, CalmPasses

LEMMA WatchCarries ==
    ASSUME CInv, KInv', Posted, FirstTurns, NEW i \in Ids, Watch(i)
    PROVE  Calm /\ Passes
  <1>1. PICK E \in SUBSET Calls : E = {}
    OBVIOUS
  <1>2. /\ tasks[i].at = "panicked" /\ Abandoned(i, E) /\ GoTo(i, "lastword")
        /\ UNCHANGED <<reqs, inbox, held, told, owed, waited>>
    BY <1>1 DEF Watch, GoTo
  <1> QED BY <1>1, <1>2, AbandonsCarries

\* The parent reads its mailbox: what it takes back of what it holds was read.
LEMMA MailCarries ==
    ASSUME CInv, Posted, LossInv, Mail
    PROVE  Calm /\ Passes
  <1> SUFFICES ASSUME NEW m, m = Head(inbox) PROVE Calm /\ Passes
    OBVIOUS
  <1>1. /\ inbox # <<>> /\ inbox' = Tail(inbox) /\ FirstTurns
        /\ UNCHANGED <<slots, tasks, reqs, calls, owed, waited>>
    BY DEF Mail, LossInv
  <1>2. /\ m \in Messages /\ m = inbox[1] /\ Len(inbox) \in Nat \ {0} /\ Len(inbox') = Len(inbox) - 1
        /\ \A k \in 1..Len(inbox') : inbox'[k] = inbox[k + 1]
    <2>1. inbox \in Seq(Messages)
      BY DEF Posted
    <2> QED BY <1>1, <2>1
  <1>3. Calm
    <2>1. Ids' = Ids
      BY <1>1 DEF Ids
    <2> QED BY <1>1, <2>1, CallsHear, TaskLives DEF Calm
  <1>4. \A i \in Ids : Seen(i, 1) => Reaches(i)'
    BY <1>1, <1>3, SeenStays DEF Reaches
  <1>5. ASSUME NEW i \in Ids, Noted(i, 1) PROVE Reaches(i)'
    <2>1. CASE m.kind = "Unnotify" /\ m.child = i
      <3>1. Taking(1, i) /\ 1 \in 1..Len(inbox)
        BY <1>2, <2>1 DEF Taking
      <3> QED BY <1>4, <3>1 DEF LossInv, Backed
    <2>2. CASE ~(m.kind = "Unnotify" /\ m.child = i)
      <3>1. CASE <<i, 1>> \in held
        <4>1. <<i, 1>> \in held'
          BY <2>2, <3>1 DEF Mail
        <4> QED BY <4>1 DEF Reaches, Noted
      <3>2. ASSUME NEW k \in 1..Len(inbox), Mailed(k, i, 1) PROVE Reaches(i)'
        <4>1. CASE k = 1
          <5>1. m.kind = "Notify" /\ <<m.child, m.run>> = <<i, 1>>
            BY <1>2, <3>2, <4>1 DEF Mailed
          <5>2. <<i, 1>> \in told' \cup held'
            BY <5>1 DEF Mail
          <5> QED BY <5>2 DEF Reaches, Noted
        <4>2. CASE k # 1
          <5>1. PICK l : l = k - 1
            OBVIOUS
          <5>2. l \in 1..Len(inbox') /\ inbox'[l] = inbox[k]
            BY <1>2, <4>2, <5>1
          <5>3. Mailed(l, i, 1)'
            BY <3>2, <5>2 DEF Mailed
          <5> QED BY <5>2, <5>3 DEF Reaches, Noted
        <4> QED BY <4>1, <4>2
      <3> QED BY <1>5, <3>1, <3>2 DEF Noted
    <2> QED BY <2>1, <2>2
  <1>6. \A i \in Ids : tasks[i].at = "notify" \/ <<i, 1>> \in told => Reaches(i)'
    <2>1. told \subseteq told'
      BY <1>2 DEF Mail, Messages
    <2> QED BY <1>1, <2>1 DEF Reaches
  <1>7. ASSUME NEW i \in Ids', NEW k \in 1..Len(inbox'), Taking(k, i)'
        PROVE  i \in Ids /\ \E l \in 1..Len(inbox) : Taking(l, i)
    <2>1. Taking(k + 1, i) /\ k + 1 \in 1..Len(inbox)
      BY <1>2, <1>7 DEF Taking
    <2> QED BY <1>1, <2>1 DEF Ids
  <1> QED BY <1>1, <1>3, <1>5, <1>6, <1>7 DEF Passes

\* What the parent holds the model is told, and nothing else of a result changes.
LEMMA ParentCarries ==
    ASSUME CInv, KInv', Posted, FirstTurns,
           \/ Release \/ Prompt \/ Dispatch \/ Joined \/ TurnEnds \/ SessionEnds \/ Rest \/ UNCHANGED vars,
           Resumes \cap Ops = {}
    PROVE  Calm /\ Passes
  <1>1. /\ UNCHANGED <<tasks, reqs, inbox, waited, owed>> /\ held \cup told \subseteq held' \cup told'
    BY DEF Release, Prompt, Dispatch, Joined, TurnEnds, SessionEnds, Rest, vars
  <1>2. Ids' = Ids
    <2>1. UNCHANGED slots \/ DOMAIN slots' = Ids
      BY DEF Release, Prompt, Dispatch, Joined, TurnEnds, SessionEnds, Rest, vars
    <2> QED BY <2>1, SameChildren
  <1>3. \A c \in Calls : Hears(c)
    <2>1. CASE Dispatch
      <3>1. turn.at = "sampling" /\ \A c \in Calls : calls'[c] \in Chunk
        BY <2>1 DEF Dispatch
      <3> DEFINE Asked(op, i) == [Idle EXCEPT !.op = op, !.on = i, !.at = "due"]
      <3>2. Chunk = {Idle} \cup {Asked(op, i) : op \in Ops, i \in Ids \cup {0}}
        BY DEF Chunk
      <3>3. \A op, i : Asked(op, i).at = "due" /\ Asked(op, i).op = op /\ Asked(op, i).got = Empty
        BY DEF Idle
      <3> HIDE DEF Asked
      <3>4. Idle.op = "none" /\ Empty.child = 0
        BY DEF Idle, Empty
      <3>5. \A k \in Chunk : k.at \in {"over", "due"} /\ k.op \notin Resumes /\ k.got = Empty
        BY <3>2, <3>3, <3>4, IdleFits DEF Resumes
      <3>6. \A c \in Calls : First(calls[c])'
        BY <3>1, <3>4, <3>5 DEF First
      <3>7. \A c \in Calls : calls[c] = Idle
        BY <3>1 DEF CInv, Chunked
      <3> QED BY <3>1, <3>5, <3>6, <3>7, IdleFits DEF Hears
    <2>2. CASE ~Dispatch
      <3>1. UNCHANGED calls
        BY <2>2 DEF Release, Prompt, Joined, TurnEnds, SessionEnds, Rest, vars
      <3> QED BY <3>1, CallsHear
    <2> QED BY <2>1, <2>2
  <1>4. Calm
    BY <1>1, <1>2, <1>3, TaskLives DEF Calm
  <1>5. ASSUME NEW i \in Ids, tasks[i].at = "notify" \/ Noted(i, 1) \/ <<i, 1>> \in told
        PROVE  Reaches(i)'
    <2>1. CASE tasks[i].at = "notify"
      BY <1>1, <2>1 DEF Reaches
    <2>2. CASE <<i, 1>> \in held \cup told
      BY <1>1, <2>2 DEF Reaches, Noted
    <2>3. ASSUME NEW k \in 1..Len(inbox), Mailed(k, i, 1) PROVE Reaches(i)'
      BY <1>1, <2>3 DEF Reaches, Noted, Mailed
    <2> QED BY <1>5, <2>1, <2>2, <2>3 DEF Noted
  <1>6. \A i \in Ids', k \in 1..Len(inbox') : Taking(k, i)' => i \in Ids /\ k \in 1..Len(inbox) /\ Taking(k, i)
    BY <1>1, <1>2 DEF Taking
  <1> QED BY <1>1, <1>4, <1>5, <1>6 DEF Passes

\* Where it begins, and every step.
LEMMA LossHolds ==
    ASSUME MaxInterrupts = 0, Resumes \cap Ops = {}
    PROVE  Spec => [](AllInv /\ LossInv)
  <1>1. Init => LossInv
    <2> SUFFICES ASSUME Init PROVE LossInv
      OBVIOUS
    <2>1. /\ Ids = {} /\ owed = {} /\ ~turn.cancelled
          /\ "interrupts" \in DOMAIN budget /\ budget.interrupts = 0
      BY DEF Init, Ids
    <2>2. \A c \in Calls : First(calls[c])
      BY DEF Init, First, Idle, Empty, Resumes
    <2> QED BY <2>1, <2>2 DEF LossInv, FirstTurns, Backed
  <1>2. AllInv /\ AllInv' /\ LossInv /\ [Next]_vars => LossInv'
    <2> SUFFICES ASSUME AllInv, AllInv', LossInv, [Next]_vars PROVE LossInv'
      OBVIOUS
    <2>1. CInv /\ KInv' /\ Posted /\ FirstTurns
      BY DEF AllInv, CInv, LossInv
    <2>2. Ids \subseteq Ids'
      BY <2>1, MoreIds
    <2>3. /\ ~turn'.cancelled /\ "interrupts" \in DOMAIN budget' /\ budget'.interrupts = 0
          /\ turn.at = "ended" => turn'.at = "ended"
      BY <2>1, Uncut
    <2>4. Calm /\ Passes
      <3>1. ASSUME NEW c \in Calls, CallStep(c) \/ WaitTimesOut(c) PROVE Calm /\ Passes
        <4>1. First(calls[c]) /\ ~turn.cancelled
          BY <2>1 DEF FirstTurns
        <4>2. ~(WaitCancelled(c) \/ Resume(c) \/ ResumeSends(c) \/ ResumeReturns(c) \/ ResumeCancelled(c))
          BY <4>1 DEF WaitCancelled, Resume, ResumeSends, ResumeReturns, ResumeCancelled, First, Resumes
        <4> QED BY <2>1, <3>1, <4>2, SpawnCarries, StartCarries, SpawnFailsCarries, WaitCarries,
                   WaitEndsCarries, WithdrawCarries DEF CallStep
      <3>2. ASSUME NEW i \in Ids, TaskStep(i) \/ Panic(i) \/ StopChild(i) PROVE Calm /\ Passes
        <4>1. ~(Reply(i) \/ TakeRequest(i))
          BY <2>1 DEF FirstTurns, Reply, TakeRequest
        <4> QED BY <2>1, <3>2, <4>1, FinishCarries, NoteCarries, PublishCarries, TakeBackCarries,
                   StopsCarries, WatchCarries DEF TaskStep
      <3>3. CASE Mail
        BY <2>1, <3>3, MailCarries
      <3>4. CASE \/ Release \/ Prompt \/ Dispatch \/ Joined \/ TurnEnds \/ SessionEnds \/ Rest
                 \/ UNCHANGED vars
        BY <2>1, <3>4, ParentCarries
      <3>5. ~Interrupt
        BY <2>1 DEF FirstTurns, Interrupt
      <3> QED BY <3>1, <3>2, <3>3, <3>4, <3>5 DEF Next
    <2> QED BY <2>1, <2>2, <2>3, <2>4, LossKept
  <1> QED BY <1>1, <1>2, AllHolds, PTL DEF Spec

\* The result a background turn ended with has reached a reader or is on its way to one (the other
\* half of D5): `Children::finish` asks for a notification unless a waiter that still listens took
\* the result, and a notification is taken back only for a result that a `wait` has.  Panics and
\* `/agents stop` are allowed; an interrupted `wait` may drop what it was given, and a resumed
\* child's second result takes back the notification of its first (Unnotify goes by the id).
THEOREM NothingIsLost ==
    ASSUME MaxInterrupts = 0, Resumes \cap Ops = {}
    PROVE  Spec => []NothingLost
  <1>1. ASSUME AllInv, LossInv PROVE NothingLost
    <2> SUFFICES ASSUME turn.at # "ended", NEW n \in owed
                 PROVE  \/ n \in waited \cup told \cup held
                        \/ tasks[n[1]].at = "notify" /\ tasks[n[1]].run = n[2]
                        \/ \E k \in 1..Len(inbox) : inbox[k].kind = "Notify" /\ <<inbox[k].child, inbox[k].run>> = n
                        \/ \E c \in Calls : <<calls[c].got.child, calls[c].got.run>> = n
      BY DEF NothingLost
    <2>1. PICK i \in Ids : n = <<i, 1>> /\ Reaches(i)
      BY <1>1 DEF AllInv, Posted, Results, LossInv
    <2>2. tasks[i].run = 1
      BY <1>1 DEF LossInv, FirstTurns
    <2>3. CASE Noted(i, 1)
      BY <2>1, <2>3 DEF Noted, Mailed
    <2>4. CASE Seen(i, 1)
      BY <2>1, <2>4 DEF Seen, Handed
    <2>5. CASE tasks[i].at = "notify" \/ <<i, 1>> \in told
      BY <2>1, <2>2, <2>5
    <2> QED BY <2>1, <2>3, <2>4, <2>5 DEF Reaches
  <1> QED BY <1>1, LossHolds, PTL
=============================================================================

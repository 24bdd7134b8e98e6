---------------------------- MODULE ChildrenProofs ----------------------------
(***************************************************************************)
(* Proofs about Children, for every value of its constants: the registry   *)
(* never counts a child as working that nothing drives, and a sender it    *)
(* keeps is that of a call that waits for it.                              *)
(*                                                                         *)
(* The second rests on that the pieces of a child agree (Fits), and that   *)
(* a sender somebody keeps is that of a call that has received nothing     *)
(* (Kept): so what is put into a oneshot is put there once and is not      *)
(* overwritten.                                                            *)
(***************************************************************************)
EXTENDS Children, FiniteSetTheorems, WellFoundedInduction, TLAPS

-----------------------------------------------------------------------------
(* The inductive invariant.                                                 *)

Senders == Calls \cup {NoCall, Gone}

Slots == [state : {"Running", "Finishing", "Done", "Closed"}, claimed : BOOLEAN,
          run : Nat, waiter : Senders, interrupted : BOOLEAN]
Tasks == [at : {"none", "fg", "drive", "notify", "publish", "withdraw", "park",
                "panicked", "lastword", "ended"}, run : Nat, reply : Senders]

Driven == {"none", "fg", "drive", "notify", "publish", "panicked"}

\* A child that works is driven, and what its task publishes has been finished:
\* without the second part, a publish that finds the slot running would park its driver.
Agrees(s, t) ==
    /\ Working(s) => t.at \in Driven
    /\ t.at \in {"notify", "publish"} => s.state # "Running"

Registry ==
    /\ slots \in Seq(Slots) /\ tasks \in Seq(Tasks) /\ reqs \in Seq(Seq(Senders))
    /\ Len(tasks) = Len(slots) /\ Len(reqs) = Len(slots)
    /\ any \in Senders
KInv == Registry /\ \A i \in Ids : Agrees(slots[i], tasks[i])

-----------------------------------------------------------------------------
(* Updates of one place of a sequence.                                      *)

\* Replacing one element keeps a sequence's type, its length and the others.
LEMMA Update ==
    ASSUME NEW S, NEW q \in Seq(S), NEW i, NEW v, i \in 1..Len(q) => v \in S
    PROVE  /\ [q EXCEPT ![i] = v] \in Seq(S)
           /\ Len([q EXCEPT ![i] = v]) = Len(q)
           /\ \A j \in 1..Len(q) : [q EXCEPT ![i] = v][j] = IF j = i THEN v ELSE q[j]
<1> DEFINE r == [q EXCEPT ![i] = v]
<1>1. /\ Len(q) \in Nat /\ DOMAIN q = 1..Len(q)
      /\ \A j \in 1..Len(q) : q[j] \in S
  OBVIOUS
<1>2. /\ r = [j \in 1..Len(q) |-> r[j]]
      /\ \A j \in 1..Len(q) : r[j] = IF j = i THEN v ELSE q[j]
  BY <1>1, Zenon
<1>3. r \in [1..Len(q) -> S]
  BY <1>1, <1>2
<1> HIDE DEF r
<1>4. r \in Seq(S) /\ Len(r) = Len(q)
  BY <1>1, <1>3
<1> QED
  BY <1>2, <1>4 DEF r

\* Replacing an element by itself changes nothing.
LEMMA Same ==
    ASSUME NEW S, NEW q \in Seq(S), NEW i
    PROVE  [q EXCEPT ![i] = q[i]] = q
<1>1. DOMAIN q = 1..Len(q) /\ q = [j \in DOMAIN q |-> q[j]]
  OBVIOUS
<1> QED
  BY <1>1, Zenon

\* The rest of the registry keeps its type.
RestOK == /\ reqs' \in Seq(Seq(Senders)) /\ Len(reqs') = Len(reqs)
          /\ any' \in Senders

\* A step that touches one child keeps the invariant if that child still agrees.
LEMMA OneChild ==
    ASSUME KInv, NEW STATE i, NEW STATE s, NEW STATE t,
           i \in Ids => s \in Slots /\ t \in Tasks /\ Agrees(s, t),
           slots' = [slots EXCEPT ![i] = s],
           tasks' = [tasks EXCEPT ![i] = t],
           RestOK
    PROVE  KInv'
<1>1. /\ slots \in Seq(Slots) /\ tasks \in Seq(Tasks) /\ Len(tasks) = Len(slots)
      /\ Len(reqs) = Len(slots) /\ Ids = 1..Len(slots)
  BY DEF KInv, Registry, Ids
<1>2. /\ slots' \in Seq(Slots) /\ Len(slots') = Len(slots)
      /\ \A j \in Ids : slots'[j] = IF j = i THEN s ELSE slots[j]
  <2>1. i \in 1..Len(slots) => s \in Slots
    BY <1>1
  <2>2. /\ [slots EXCEPT ![i] = s] \in Seq(Slots)
        /\ Len([slots EXCEPT ![i] = s]) = Len(slots)
        /\ \A j \in 1..Len(slots) : [slots EXCEPT ![i] = s][j] = IF j = i THEN s ELSE slots[j]
    BY <1>1, <2>1, Update, SMT
  <2> QED
    BY <1>1, <2>2
<1>3. /\ tasks' \in Seq(Tasks) /\ Len(tasks') = Len(tasks)
      /\ \A j \in Ids : tasks'[j] = IF j = i THEN t ELSE tasks[j]
  <2>1. i \in 1..Len(tasks) => t \in Tasks
    BY <1>1
  <2>2. /\ [tasks EXCEPT ![i] = t] \in Seq(Tasks)
        /\ Len([tasks EXCEPT ![i] = t]) = Len(tasks)
        /\ \A j \in 1..Len(tasks) : [tasks EXCEPT ![i] = t][j] = IF j = i THEN t ELSE tasks[j]
    BY <1>1, <2>1, Update, SMT
  <2> QED
    BY <1>1, <2>2
<1>4. Ids' = Ids
  BY <1>1, <1>2 DEF Ids
<1>5. \A j \in Ids : Agrees(slots'[j], tasks'[j])
  BY <1>2, <1>3 DEF KInv
<1> QED
  BY <1>1, <1>2, <1>3, <1>4, <1>5 DEF KInv, Registry, RestOK

\* The same when only its slot, or only its task, changes.
LEMMA OneSlot ==
    ASSUME KInv, NEW STATE i, NEW STATE s,
           i \in Ids => s \in Slots /\ Agrees(s, tasks[i]),
           slots' = [slots EXCEPT ![i] = s], UNCHANGED tasks, RestOK
    PROVE  KInv'
<1>1. tasks \in Seq(Tasks) /\ Len(tasks) = Len(slots)
  BY DEF KInv, Registry
<1>2. tasks' = [tasks EXCEPT ![i] = tasks[i]]
  BY <1>1, Same
<1>3. i \in Ids => tasks[i] \in Tasks
  BY <1>1 DEF Ids
<1> QED
  BY <1>2, <1>3, OneChild

LEMMA OneTask ==
    ASSUME KInv, NEW STATE i, NEW STATE t,
           i \in Ids => t \in Tasks /\ Agrees(slots[i], t),
           tasks' = [tasks EXCEPT ![i] = t], UNCHANGED slots, RestOK
    PROVE  KInv'
<1>1. slots \in Seq(Slots)
  BY DEF KInv, Registry
<1>2. slots' = [slots EXCEPT ![i] = slots[i]]
  BY <1>1, Same
<1>3. i \in Ids => slots[i] \in Slots
  BY <1>1 DEF Ids
<1> QED
  BY <1>2, <1>3, OneChild

\* A step that touches every slot keeps the invariant if each child still agrees.
LEMMA EverySlot ==
    ASSUME KInv, RestOK,
           slots' = [j \in Ids |-> slots'[j]], tasks' = [j \in Ids |-> tasks'[j]],
           \A j \in Ids : slots'[j] \in Slots /\ tasks'[j] \in Tasks /\ Agrees(slots'[j], tasks'[j])
    PROVE  KInv'
<1>1. /\ Len(slots) \in Nat /\ Ids = 1..Len(slots) /\ Len(reqs) = Len(slots)
  BY DEF KInv, Registry, Ids
<1>2. slots' \in [1..Len(slots) -> Slots] /\ tasks' \in [1..Len(slots) -> Tasks]
  BY <1>1
<1>3. /\ slots' \in Seq(Slots) /\ Len(slots') = Len(slots)
      /\ tasks' \in Seq(Tasks) /\ Len(tasks') = Len(slots)
  BY <1>1, <1>2
<1>4. Ids' = Ids
  BY <1>1, <1>3 DEF Ids
<1> QED
  BY <1>1, <1>3, <1>4 DEF KInv, Registry, RestOK

\* The waiter a child would serve is a sender, and so is what stays behind.
LEMMA AnyType ==
    ASSUME KInv, NEW STATE i, TakeAny(i)
    PROVE  any' \in Senders
  BY DEF KInv, Registry, TakeAny, Senders

LEMMA SlotType ==
    ASSUME KInv, NEW i \in Ids
    PROVE  /\ slots[i] \in Slots /\ tasks[i] \in Tasks
           /\ Agrees(slots[i], tasks[i])
           /\ Close(slots[i]) \in Slots /\ ~Working(Close(slots[i]))
           /\ Close(slots[i]).state = "Closed"
<1>1. slots[i] \in Slots /\ tasks[i] \in Tasks /\ Agrees(slots[i], tasks[i])
  BY DEF KInv, Registry, Ids
<1> QED
  BY <1>1 DEF Close, Slots, Senders, Working

-----------------------------------------------------------------------------
(* One lemma per kind of step.                                              *)

LEMMA InitK == Init => KInv
<1> SUFFICES ASSUME Init PROVE KInv
  OBVIOUS
<1>1. slots = <<>> /\ tasks = <<>> /\ reqs = <<>> /\ any = NoCall
  BY DEF Init
<1>2. Registry /\ Ids = {}
  BY <1>1 DEF Registry, Senders, Ids
<1> QED
  BY <1>2 DEF KInv

\* A child that is registered runs and has nobody to drive it yet; the one it
\* takes the place of is closed.
LEMMA SpawnK ==
    ASSUME KInv, NEW c \in Calls, Spawn(c)
    PROVE  KInv'
<1> DEFINE new == [state |-> "Running", claimed |-> FALSE, run |-> 0,
                   waiter |-> NoCall, interrupted |-> FALSE]
           task == [at |-> "none", run |-> 1, reply |-> NoCall]
<1>0. /\ slots \in Seq(Slots) /\ tasks \in Seq(Tasks) /\ reqs \in Seq(Seq(Senders))
      /\ Len(tasks) = Len(slots) /\ Len(reqs) = Len(slots) /\ Ids = 1..Len(slots)
      /\ any \in Senders
  BY DEF KInv, Registry, Ids
<1>1. CASE UNCHANGED <<slots, tasks, reqs>> /\ UNCHANGED any
  BY <1>1 DEF KInv, Registry, Ids
<1>2. ASSUME NEW victim,
             slots' = Append([i \in Ids |-> IF i \in victim THEN Close(slots[i]) ELSE slots[i]], new),
             tasks' = Append(tasks, task), reqs' = Append(reqs, <<>>), any' = any
      PROVE  KInv'
  <2> DEFINE old == [i \in Ids |-> IF i \in victim THEN Close(slots[i]) ELSE slots[i]]
  <2>1. /\ old \in Seq(Slots) /\ Len(old) = Len(slots)
        /\ \A i \in Ids : old[i] \in Slots /\ Agrees(old[i], tasks[i])
    <3>1. \A i \in Ids : old[i] \in Slots /\ Agrees(old[i], tasks[i])
      BY SlotType DEF Agrees
    <3>2. old \in [1..Len(slots) -> Slots] /\ Len(slots) \in Nat
      BY <1>0, <3>1
    <3> HIDE DEF old
    <3> QED
      BY <3>1, <3>2
  <2>2. new \in Slots /\ task \in Tasks /\ Agrees(new, task)
    BY DEF Slots, Tasks, Senders, Agrees, Working, Driven
  <2> HIDE DEF old, new, task
  <2>3. slots' = Append(old, new) /\ tasks' = Append(tasks, task)
    BY <1>2 DEF old
  <2>4. /\ slots' \in Seq(Slots) /\ Len(slots') = Len(slots) + 1
        /\ \A i \in Ids : slots'[i] = old[i]
        /\ slots'[Len(slots) + 1] = new
    BY <2>1, <2>2, <2>3, <1>0
  <2>5. /\ tasks' \in Seq(Tasks) /\ Len(tasks') = Len(slots) + 1
        /\ \A i \in Ids : tasks'[i] = tasks[i]
        /\ tasks'[Len(slots) + 1] = task
    BY <2>2, <2>3, <1>0
  <2>6. reqs' \in Seq(Seq(Senders)) /\ Len(reqs') = Len(slots) + 1
    BY <1>0, <1>2
  <2>7. Ids' = Ids \cup {Len(slots) + 1}
    BY <2>4, <1>0 DEF Ids
  <2>8. \A i \in Ids' : Agrees(slots'[i], tasks'[i])
    BY <2>1, <2>2, <2>4, <2>5, <2>7, Zenon
  <2> QED
    BY <1>0, <1>2, <2>4, <2>5, <2>6, <2>8 DEF KInv, Registry
<1>3. ASSUME ~(UNCHANGED <<slots, tasks, reqs>>)
      PROVE  \E victim :
                /\ slots' = Append([i \in Ids |-> IF i \in victim THEN Close(slots[i]) ELSE slots[i]], new)
                /\ tasks' = Append(tasks, task) /\ reqs' = Append(reqs, <<>>) /\ any' = any
  <2> WITNESS IF Full /\ Parked # {} THEN {Oldest(Parked)} ELSE {}
  <2> QED
    BY <1>3, Zenon DEF Spawn
<1>4. UNCHANGED any
  BY Zenon DEF Spawn
<1> QED
  BY <1>1, <1>2, <1>3, <1>4, Zenon

\* A step that changes neither a slot nor a task.
LEMMA QuietK ==
    ASSUME KInv, UNCHANGED <<slots, tasks>>, RestOK
    PROVE  KInv'
  BY DEF KInv, Registry, RestOK, Ids

\* What the registry keeps of the rest when a step leaves it alone.
LEMMA RestSame ==
    ASSUME KInv, UNCHANGED <<reqs, any>>
    PROVE  RestOK
  BY DEF KInv, Registry, RestOK

LEMMA RestTaken ==
    ASSUME KInv, NEW STATE i, TakeAny(i), UNCHANGED reqs
    PROVE  RestOK
  BY AnyType DEF KInv, Registry, RestOK

\* One child's queue of requests is emptied or filled.
LEMMA RestAsked ==
    ASSUME KInv, NEW STATE i, NEW STATE q, q \in Seq(Senders),
           reqs' = [reqs EXCEPT ![i] = q], UNCHANGED any
    PROVE  RestOK
<1> DEFINE Q == Seq(Senders)
<1>1. reqs \in Seq(Q) /\ q \in Q
  BY DEF KInv, Registry
<1> HIDE DEF Q
<1>2. [reqs EXCEPT ![i] = q] \in Seq(Q) /\ Len([reqs EXCEPT ![i] = q]) = Len(reqs)
  BY <1>1, Update, SMT
<1> QED
  BY <1>2 DEF KInv, Registry, RestOK, Q

LEMMA SpawnStartsK ==
    ASSUME KInv, NEW c \in Calls, SpawnStarts(c)
    PROVE  KInv'
<1> DEFINE i == calls[c].on
           t == [tasks[i] EXCEPT !.at = IF calls[c].op = "spawnBg" THEN "drive" ELSE "fg"]
<1>1. tasks' = [tasks EXCEPT ![i] = t] /\ UNCHANGED slots /\ UNCHANGED <<reqs, any>>
  BY DEF SpawnStarts
<1>2. i \in Ids => t \in Tasks /\ Agrees(slots[i], t)
  BY SlotType DEF Tasks, Agrees, Driven
<1>3. RestOK
  BY <1>1, RestSame
<1> HIDE DEF t, i
<1> QED
  BY <1>1, <1>2, <1>3, OneTask

\* Abandoning closes a slot that worked.
LEMMA AbandonedK ==
    ASSUME KInv, NEW STATE i, NEW C, NEW at, at \in {"ended", "lastword"},
           Abandoned(i, C), GoTo(i, at), UNCHANGED reqs
    PROVE  KInv'
<1> DEFINE t == [tasks[i] EXCEPT !.at = at]
           s == [slots[i] EXCEPT !.state = "Closed", !.waiter = NoCall, !.run = tasks[i].run]
<1>1. tasks' = [tasks EXCEPT ![i] = t]
  BY DEF GoTo
<1>2. i \in Ids => t \in Tasks /\ slots[i] \in Slots /\ t.at = at
  BY SlotType DEF Tasks
<1>3. CASE Working(slots[i])
  <2>1. slots' = [slots EXCEPT ![i] = s] /\ TakeAny(i)
    BY <1>3 DEF Abandoned
  <2>2. i \in Ids => s \in Slots /\ s.state = "Closed"
    BY SlotType DEF Slots, Tasks, Senders
  <2>3. i \in Ids => Agrees(s, t)
    BY <1>2, <2>2 DEF Agrees, Working
  <2>4. RestOK
    BY <2>1, RestTaken
  <2> HIDE DEF s, t
  <2> QED
    BY <1>1, <1>2, <2>1, <2>2, <2>3, <2>4, OneChild
<1>4. CASE ~Working(slots[i])
  <2>1. UNCHANGED <<slots, any>>
    BY <1>4 DEF Abandoned
  <2>2. i \in Ids => Agrees(slots[i], t)
    BY <1>2, <1>4 DEF Agrees
  <2>3. RestOK
    BY <2>1, RestSame
  <2> HIDE DEF t
  <2> QED
    BY <1>1, <1>2, <2>1, <2>2, <2>3, OneTask
<1> QED
  BY <1>3, <1>4

\* Settling takes a slot that worked out of `Running`.
LEMMA SettledK ==
    ASSUME KInv, NEW STATE i, NEW STATE t, i \in Ids => t \in Tasks /\ t.at = "park",
           Settled(i), tasks' = [tasks EXCEPT ![i] = t], UNCHANGED <<reqs, any>>
    PROVE  KInv'
<1> DEFINE s == [slots[i] EXCEPT !.state = "Done", !.claimed = TRUE, !.run = tasks[i].run]
<1>0. RestOK
  BY RestSame
<1>1. CASE Working(slots[i])
  <2>1. slots' = [slots EXCEPT ![i] = s]
    BY <1>1 DEF Settled
  <2>2. i \in Ids => s \in Slots /\ s.state = "Done"
    BY SlotType DEF Slots, Tasks
  <2>3. i \in Ids => Agrees(s, t)
    BY <2>2 DEF Agrees, Working
  <2> HIDE DEF s
  <2> QED
    BY <1>0, <2>1, <2>2, <2>3, OneChild
<1>2. CASE ~Working(slots[i])
  <2>1. slots' = slots
    BY <1>2 DEF Settled
  <2>2. i \in Ids => Agrees(slots[i], t)
    BY <1>2 DEF Agrees
  <2> QED
    BY <1>0, <2>1, <2>2, OneTask
<1> QED
  BY <1>1, <1>2

LEMMA SpawnEndsK ==
    ASSUME KInv, NEW c \in Calls, SpawnFails(c) \/ SpawnReturns(c)
    PROVE  KInv'
<1> DEFINE i == calls[c].on
<1>1. CASE SpawnFails(c)
  <2>1. Abandoned(i, {c}) /\ GoTo(i, "ended") /\ UNCHANGED reqs
    BY <1>1 DEF SpawnFails, GoTo
  <2> HIDE DEF i
  <2> QED
    BY <2>1, AbandonedK
<1>2. CASE SpawnReturns(c)
  <2> DEFINE t == [tasks[i] EXCEPT !.at = "park"]
  <2>1. Settled(i) /\ tasks' = [tasks EXCEPT ![i] = t] /\ UNCHANGED <<reqs, any>>
    BY <1>2 DEF SpawnReturns
  <2>2. i \in Ids => t \in Tasks /\ t.at = "park"
    BY SlotType DEF Tasks
  <2> HIDE DEF i, t
  <2> QED
    BY <2>1, <2>2, SettledK
<1> QED
  BY <1>1, <1>2

\* A `wait` touches a slot's claim or its waiter only.
LEMMA WaitK ==
    ASSUME KInv, NEW c \in Calls, Wait(c) \/ WaitAny(c)
    PROVE  KInv'
<1>0. UNCHANGED <<tasks, reqs>>
  BY DEF Wait, WaitAny
<1>a. \A k \in Calls : k \in Senders
  BY DEF Senders
<1>b. any \in Senders
  BY DEF KInv, Registry
<1>1. ASSUME NEW i, TakeDone(c, i)
      PROVE  KInv'
  <2> DEFINE s == [slots[i] EXCEPT !.claimed = TRUE]
  <2>1. slots' = [slots EXCEPT ![i] = s] /\ UNCHANGED any
    BY <1>1 DEF TakeDone
  <2>2. i \in Ids => s \in Slots /\ Agrees(s, tasks[i])
    BY SlotType DEF Slots, Agrees, Working
  <2>3. RestOK
    BY <1>0, <2>1, RestSame
  <2> HIDE DEF s
  <2> QED
    BY <1>0, <2>1, <2>2, <2>3, OneSlot
<1>2. CASE UNCHANGED <<slots, any>>
  <2>1. RestOK
    BY <1>0, <1>2, RestSame
  <2> QED
    BY <1>0, <1>2, <2>1, QuietK
<1>3. CASE UNCHANGED slots /\ any' = c
  <2>1. RestOK
    BY <1>0, <1>3, <1>a DEF KInv, Registry, RestOK
  <2> QED
    BY <1>0, <1>3, <2>1, QuietK
<1>4. ASSUME NEW i, slots' = [slots EXCEPT ![i].waiter = c], UNCHANGED any
      PROVE  KInv'
  <2> DEFINE s == [slots[i] EXCEPT !.waiter = c]
  <2>1. slots' = [slots EXCEPT ![i] = s]
    BY <1>4
  <2>2. i \in Ids => s \in Slots /\ Agrees(s, tasks[i])
    BY SlotType, <1>a DEF Slots, Agrees, Working
  <2>3. RestOK
    BY <1>0, <1>4, RestSame
  <2> HIDE DEF s
  <2> QED
    BY <1>0, <2>1, <2>2, <2>3, OneSlot
<1>5. CASE Wait(c)
  <2>1. PICK i : i = calls[c].on
    OBVIOUS
  <2>2. TakeDone(c, i) \/ (slots' = [slots EXCEPT ![i].waiter = c] /\ UNCHANGED any) \/ Refused(c)
    BY <1>5, <2>1 DEF Wait
  <2> QED
    BY <2>2, <1>1, <1>2, <1>4 DEF Refused
<1>6. CASE WaitAny(c)
  <2>1. PICK i : i = Oldest(Unclaimed)
    OBVIOUS
  <2>2. TakeDone(c, i) \/ (UNCHANGED slots /\ any' = c) \/ Refused(c)
    BY <1>6, <2>1, Zenon DEF WaitAny
  <2> QED
    BY <2>2, <1>1, <1>2, <1>3 DEF Refused
<1> QED
  BY <1>5, <1>6

\* A call that ends leaves dead senders behind.
LEMMA DropK ==
    ASSUME KInv, NEW c \in Calls, DropReceivers(c), UNCHANGED <<tasks, reqs>>
    PROVE  KInv'
<1>1. \A w \in Senders : Dead(w, c) \in Senders
  BY DEF Senders, Dead
<1>2. slots' = [j \in Ids |-> [slots[j] EXCEPT !.waiter = Dead(slots[j].waiter, c)]]
  BY DEF DropReceivers
<1>3. \A j \in Ids : slots'[j] \in Slots /\ slots'[j].state = slots[j].state
  BY <1>1, <1>2, SlotType DEF Slots
<1>4. \A j \in Ids : tasks'[j] \in Tasks /\ Agrees(slots'[j], tasks'[j])
  BY <1>3, SlotType DEF Agrees, Working
<1>5. slots' = [j \in Ids |-> slots'[j]] /\ tasks' = [j \in Ids |-> tasks'[j]]
  BY <1>2 DEF KInv, Registry, Ids
<1>6. RestOK
  BY <1>1 DEF DropReceivers, KInv, Registry, RestOK
<1> QED
  BY <1>3, <1>4, <1>5, <1>6, EverySlot

\* A request joins the queue of a task that still has one.
LEMMA ResumeSendsK ==
    ASSUME KInv, NEW c \in Calls, ResumeSends(c)
    PROVE  KInv'
<1> DEFINE i == calls[c].on
           q == <<IF calls[c].op = "resumeBg" THEN NoCall ELSE c>>
<1>1. UNCHANGED <<slots, tasks, any>>
  BY DEF ResumeSends
<1>2. UNCHANGED reqs \/ reqs' = [reqs EXCEPT ![i] = q]
  BY DEF ResumeSends
<1>3. q \in Seq(Senders)
  BY DEF Senders
<1> HIDE DEF q, i
<1>4. RestOK
  BY <1>1, <1>2, <1>3, RestSame, RestAsked
<1> QED
  BY <1>1, <1>4, QuietK

\* Stopping a child closes its slot, whatever its task is doing.
LEMMA StoppedAgrees ==
    ASSUME KInv, NEW STATE i, Stop(i)
    PROVE  /\ slots' = [j \in Ids |-> slots'[j]]
           /\ \A j \in Ids : slots'[j] \in Slots /\ Agrees(slots'[j], tasks[j])
<1>1. slots \in Seq(Slots) /\ Ids = 1..Len(slots) /\ DOMAIN slots = Ids
  BY DEF KInv, Registry, Ids
<1>2. \A j \in Ids : slots'[j] = slots[j] \/ slots'[j] = Close(slots[j])
  BY <1>1 DEF Stop
<1>3. slots' = [j \in Ids |-> slots'[j]]
  BY <1>1 DEF Stop
<1> QED
  BY <1>2, <1>3, SlotType DEF Agrees

LEMMA StopK ==
    ASSUME KInv, NEW i, Stop(i), UNCHANGED <<tasks, reqs, any>>
    PROVE  KInv'
<1>1. tasks' = [j \in Ids |-> tasks'[j]] /\ \A j \in Ids : tasks'[j] = tasks[j] /\ tasks'[j] \in Tasks
  BY SlotType DEF KInv, Registry, Ids
<1>2. RestOK
  BY RestSame
<1> QED
  BY <1>1, <1>2, StoppedAgrees, EverySlot

LEMMA ResumeCancelledK ==
    ASSUME KInv, NEW c \in Calls, ResumeCancelled(c)
    PROVE  KInv'
<1>0. /\ Ids = 1..Len(slots) /\ reqs \in Seq(Seq(Senders)) /\ Len(reqs) = Len(slots)
      /\ Len(slots) \in Nat /\ any \in Senders
  BY DEF KInv, Registry, Ids
<1>1. \A w \in Senders : Dead(w, c) \in Senders
  BY DEF Senders, Dead
<1>2. PICK i : i = calls[c].on
  OBVIOUS
<1>3. /\ Stop(i)
      /\ tasks' = [j \in Ids |-> [tasks[j] EXCEPT !.reply = Dead(tasks[j].reply, c)]]
      /\ reqs' = [j \in Ids |-> [k \in 1..Len(reqs[j]) |-> Dead(reqs[j][k], c)]]
      /\ any' = any
  BY <1>2 DEF ResumeCancelled
<1>4. \A j \in Ids : tasks'[j] \in Tasks /\ tasks'[j].at = tasks[j].at
  BY <1>1, <1>3, SlotType DEF Tasks
<1>5. \A j \in Ids : slots'[j] \in Slots /\ Agrees(slots'[j], tasks'[j])
  BY <1>3, <1>4, StoppedAgrees DEF Agrees
<1>6. \A j \in Ids : reqs'[j] \in Seq(Senders)
  <2> SUFFICES ASSUME NEW j \in Ids PROVE reqs'[j] \in Seq(Senders)
    OBVIOUS
  <2>1. reqs[j] \in Seq(Senders)
    BY <1>0
  <2>2. Len(reqs[j]) \in Nat /\ \A k \in 1..Len(reqs[j]) : reqs[j][k] \in Senders
    BY <2>1
  <2>3. reqs'[j] \in [1..Len(reqs[j]) -> Senders]
    BY <1>1, <1>3, <2>2
  <2> QED
    BY <2>2, <2>3
<1>7. RestOK
  <2> DEFINE Q == Seq(Senders)
  <2>1. \A j \in Ids : reqs'[j] \in Q
    BY <1>6
  <2> HIDE DEF Q
  <2>2. reqs' \in [1..Len(slots) -> Q]
    BY <1>0, <1>3, <2>1
  <2>n. Len(slots) \in Nat
    BY <1>0
  <2>3. reqs' \in Seq(Q) /\ Len(reqs') = Len(slots)
    BY <2>2, <2>n
  <2> QED
    BY <1>0, <1>3, <2>3 DEF RestOK, Q
<1>8. slots' = [j \in Ids |-> slots'[j]] /\ tasks' = [j \in Ids |-> tasks'[j]]
  BY <1>3, StoppedAgrees
<1> QED
  BY <1>4, <1>5, <1>7, <1>8, EverySlot

\* The steps of a tool call.
LEMMA CallK ==
    ASSUME KInv, NEW c \in Calls, CallStep(c) \/ WaitTimesOut(c)
    PROVE  KInv'
<1>1. CASE WaitReturns(c) \/ Withdraw(c) \/ Resume(c) \/ ResumeReturns(c)
  <2>1. UNCHANGED <<slots, tasks, reqs, any>>
    BY <1>1 DEF WaitReturns, Withdraw, Resume, ResumeReturns
  <2> QED
    BY <2>1, RestSame, QuietK
<1>2. CASE WaitCancelled(c) \/ WaitTimesOut(c)
  BY <1>2, DropK DEF WaitCancelled, WaitTimesOut
<1> QED
  BY <1>1, <1>2, SpawnK, SpawnStartsK, SpawnEndsK, WaitK, ResumeSendsK, ResumeCancelledK
     DEF CallStep

\* A finished turn is handed over, and the task parks, or is about to be told.
LEMMA FinishK ==
    ASSUME KInv, NEW i \in Ids, Finish(i)
    PROVE  KInv'
<1> DEFINE d == [slots[i] EXCEPT !.state = "Done", !.claimed = TRUE,
                                 !.run = tasks[i].run, !.waiter = NoCall]
           f == [slots[i] EXCEPT !.state = "Finishing", !.run = tasks[i].run, !.waiter = NoCall]
           t(at) == [tasks[i] EXCEPT !.at = at]
<1>1. RestOK
  BY RestTaken DEF Finish
<1>2. /\ d \in Slots /\ d.state = "Done" /\ f \in Slots /\ f.state = "Finishing"
      /\ t("park") \in Tasks /\ t("notify") \in Tasks
      /\ t("park").at = "park" /\ t("notify").at = "notify"
  BY SlotType DEF Slots, Tasks, Senders
<1>3. Agrees(d, t("park")) /\ Agrees(f, t("notify"))
  BY <1>2 DEF Agrees, Working, Driven
<1>4. \/ slots' = [slots EXCEPT ![i] = d] /\ tasks' = [tasks EXCEPT ![i] = t("park")]
      \/ slots' = [slots EXCEPT ![i] = f] /\ tasks' = [tasks EXCEPT ![i] = t("notify")]
  BY DEF Finish, GoTo
<1> HIDE DEF d, f, t
<1> QED
  BY <1>1, <1>2, <1>3, <1>4, OneChild

\* A publish leaves a finished child parked, and finds no child running.
LEMMA PublishK ==
    ASSUME KInv, NEW i \in Ids, Publish(i)
    PROVE  KInv'
<1> DEFINE s == [slots[i] EXCEPT !.state = "Done", !.waiter = NoCall,
                                 !.claimed = WaiterOf(i) \in Calls]
           t(at) == [tasks[i] EXCEPT !.at = at]
<1>1. /\ s \in Slots /\ s.state = "Done"
      /\ \A at \in {"park", "withdraw"} : t(at) \in Tasks /\ t(at).at = at
  <2> DEFINE served == WaiterOf(i) \in Calls
             u == [slots[i] EXCEPT !.state = "Done", !.waiter = NoCall, !.claimed = served]
  <2>1. served \in BOOLEAN
    OBVIOUS
  <2>2. u \in Slots /\ u.state = "Done"
    <3> HIDE DEF served
    <3> QED
      BY <2>1, SlotType DEF Slots, Senders
  <2>3. s \in Slots /\ s.state = "Done"
    BY <2>2, Zenon
  <2>4. \A at \in {"park", "withdraw"} : t(at) \in Tasks /\ t(at).at = at
    BY SlotType DEF Tasks
  <2> QED
    BY <2>3, <2>4
<1>2. CASE slots[i].state = "Finishing"
  <2>1. /\ slots' = [slots EXCEPT ![i] = s] /\ TakeAny(i) /\ UNCHANGED reqs
        /\ \E at \in {"park", "withdraw"} : tasks' = [tasks EXCEPT ![i] = t(at)]
    BY <1>2, Zenon DEF Publish, GoTo
  <2>2. \A at \in {"park", "withdraw"} : Agrees(s, t(at))
    BY <1>1 DEF Agrees, Working
  <2>3. RestOK
    BY <2>1, RestTaken
  <2> HIDE DEF s, t
  <2> QED
    BY <1>1, <2>1, <2>2, <2>3, OneChild
<1>3. CASE slots[i].state # "Finishing"
  <2>1. UNCHANGED slots /\ UNCHANGED <<reqs, any>> /\ tasks' = [tasks EXCEPT ![i] = t("park")]
    BY <1>3 DEF Publish, GoTo
  <2>2. ~Working(slots[i])
    BY <1>3, SlotType DEF Publish, Agrees, Working
  <2>3. Agrees(slots[i], t("park"))
    BY <1>1, <2>2 DEF Agrees
  <2>4. RestOK
    BY <2>1, RestSame
  <2> HIDE DEF t
  <2> QED
    BY <1>1, <2>1, <2>3, <2>4, OneTask
<1> QED
  BY <1>2, <1>3

\* A step of the task that leaves the registry as it is.
LEMMA TellK ==
    ASSUME KInv, NEW i \in Ids, Tell(i) \/ TakeBack(i) \/ LastWord(i)
    PROVE  KInv'
<1> DEFINE t(at) == [tasks[i] EXCEPT !.at = at]
<1>1. /\ UNCHANGED slots /\ UNCHANGED <<reqs, any>>
      /\ \/ tasks[i].at = "notify" /\ tasks' = [tasks EXCEPT ![i] = t("publish")]
         \/ tasks[i].at = "withdraw" /\ tasks' = [tasks EXCEPT ![i] = t("park")]
         \/ tasks[i].at = "lastword" /\ tasks' = [tasks EXCEPT ![i] = t("ended")]
  BY DEF Tell, TakeBack, LastWord, GoTo
<1>2. \A at \in {"publish", "park", "ended"} : t(at) \in Tasks /\ t(at).at = at
  BY SlotType DEF Tasks
<1>3. /\ tasks[i].at = "notify" => Agrees(slots[i], t("publish"))
      /\ tasks[i].at = "withdraw" => Agrees(slots[i], t("park"))
      /\ tasks[i].at = "lastword" => Agrees(slots[i], t("ended"))
  BY <1>2, SlotType DEF Agrees, Driven
<1>4. RestOK
  BY <1>1, RestSame
<1> HIDE DEF t
<1> QED
  BY <1>1, <1>2, <1>3, <1>4, OneTask

LEMMA ReplyK ==
    ASSUME KInv, NEW i \in Ids, Reply(i)
    PROVE  KInv'
<1> DEFINE t == [tasks[i] EXCEPT !.at = "park", !.reply = NoCall]
<1>1. Settled(i) /\ tasks' = [tasks EXCEPT ![i] = t] /\ UNCHANGED <<reqs, any>>
  BY DEF Reply
<1>2. t \in Tasks /\ t.at = "park"
  BY SlotType DEF Tasks, Senders
<1> HIDE DEF t
<1> QED
  BY <1>1, <1>2, SettledK

\* A request taken makes a parked child run, and its task drive it.
LEMMA TakeRequestK ==
    ASSUME KInv, NEW i \in Ids, TakeRequest(i)
    PROVE  KInv'
<1> DEFINE t == [at |-> "drive", run |-> tasks[i].run + 1, reply |-> reqs[i][1]]
           s == [slots[i] EXCEPT !.state = "Running", !.run = 0]
<1>1. /\ tasks' = [tasks EXCEPT ![i] = t] /\ reqs' = [reqs EXCEPT ![i] = <<>>]
      /\ slots' = IF slots[i].state = "Done" THEN [slots EXCEPT ![i] = s] ELSE slots
      /\ UNCHANGED any /\ reqs[i] # <<>>
  BY DEF TakeRequest
<1>2. reqs[i] \in Seq(Senders)
  BY DEF KInv, Registry, Ids
<1>3. t \in Tasks /\ t.at = "drive"
  <2>1. reqs[i][1] \in Senders
    BY <1>1, <1>2
  <2> QED
    BY <2>1, SlotType DEF Tasks
<1>4. s \in Slots
  BY SlotType DEF Slots
<1>5. Agrees(s, t) /\ Agrees(slots[i], t)
  BY <1>3 DEF Agrees, Driven
<1>6. RestOK
  <2>1. <<>> \in Seq(Senders)
    OBVIOUS
  <2> QED
    BY <1>1, <2>1, RestAsked
<1> HIDE DEF s, t
<1>7. CASE slots[i].state = "Done"
  BY <1>1, <1>3, <1>4, <1>5, <1>6, <1>7, OneChild
<1>8. CASE slots[i].state # "Done"
  BY <1>1, <1>3, <1>5, <1>6, <1>8, OneTask
<1> QED
  BY <1>7, <1>8

\* A task that ends or panics drops its requests.
LEMMA TaskEndsK ==
    ASSUME KInv, NEW i \in Ids, End(i) \/ Panic(i)
    PROVE  KInv'
<1> DEFINE e == [tasks[i] EXCEPT !.at = "ended"]
           p == [tasks[i] EXCEPT !.at = "panicked", !.reply = NoCall]
<1>1. /\ UNCHANGED slots /\ UNCHANGED any /\ reqs' = [reqs EXCEPT ![i] = <<>>]
      /\ \/ tasks[i].at = "park" /\ tasks' = [tasks EXCEPT ![i] = e]
         \/ tasks[i].at = "drive" /\ tasks' = [tasks EXCEPT ![i] = p]
  BY DEF End, Panic, GoTo
<1>2. e \in Tasks /\ e.at = "ended" /\ p \in Tasks /\ p.at = "panicked"
  BY SlotType DEF Tasks, Senders
<1>3. /\ tasks[i].at = "park" => Agrees(slots[i], e)
      /\ Agrees(slots[i], p)
  BY <1>2, SlotType DEF Agrees, Driven
<1>4. RestOK
  <2>1. <<>> \in Seq(Senders)
    OBVIOUS
  <2> QED
    BY <1>1, <2>1, RestAsked
<1> HIDE DEF e, p
<1> QED
  BY <1>1, <1>2, <1>3, <1>4, OneTask

LEMMA TaskK ==
    ASSUME KInv, NEW i \in Ids, TaskStep(i) \/ Panic(i)
    PROVE  KInv'
<1>1. CASE Watch(i)
  BY <1>1, AbandonedK DEF Watch
<1> QED
  BY <1>1, FinishK, TellK, PublishK, ReplyK, TakeRequestK, TaskEndsK DEF TaskStep

\* The parent's own steps touch the registry only to stop children.
LEMMA ParentK ==
    ASSUME KInv,
           \/ Mail \/ Release \/ Prompt \/ Dispatch \/ Joined \/ Interrupt \/ TurnEnds
           \/ SessionEnds \/ Rest \/ \E i \in Ids : StopChild(i)
    PROVE  KInv'
<1>1. CASE Mail \/ Release \/ Prompt \/ Dispatch \/ Joined \/ Interrupt \/ TurnEnds \/ Rest
  <2>1. UNCHANGED <<slots, tasks, reqs, any>>
    BY <1>1 DEF Mail, Release, Prompt, Dispatch, Joined, Interrupt, TurnEnds, Rest, vars
  <2> QED
    BY <2>1, RestSame, QuietK
<1>2. CASE SessionEnds
  <2>1. /\ slots' = [j \in Ids |-> IF Live(slots[j]) THEN Close(slots[j]) ELSE slots[j]]
        /\ UNCHANGED tasks /\ UNCHANGED <<reqs, any>>
    BY <1>2 DEF SessionEnds
  <2>2. /\ slots' = [j \in Ids |-> slots'[j]] /\ tasks' = [j \in Ids |-> tasks'[j]]
    BY <2>1 DEF KInv, Registry, Ids
  <2>3. \A j \in Ids : slots'[j] \in Slots /\ tasks'[j] \in Tasks /\ Agrees(slots'[j], tasks'[j])
    BY <2>1, SlotType DEF Agrees
  <2> QED
    BY <2>1, <2>2, <2>3, RestSame, EverySlot
<1>3. ASSUME NEW i \in Ids, StopChild(i)
      PROVE  KInv'
  BY <1>3, StopK DEF StopChild
<1> QED
  BY <1>1, <1>2, <1>3

LEMMA KKept == KInv /\ [Next]_vars => KInv'
<1> SUFFICES ASSUME KInv, [Next]_vars PROVE KInv'
  OBVIOUS
<1>1. CASE UNCHANGED vars
  BY <1>1, RestSame, QuietK DEF vars
<1>2. CASE \E c \in Calls : CallStep(c) \/ WaitTimesOut(c)
  BY <1>2, CallK
<1>3. CASE \E i \in Ids : TaskStep(i) \/ Panic(i)
  BY <1>3, TaskK
<1> QED
  BY <1>1, <1>2, <1>3, ParentK DEF Next

-----------------------------------------------------------------------------
\* `running()`, which the goal gate reads, counts only children that something drives or
\* that are about to be delivered: no path out of a turn (a finish, a failed start, a panic,
\* a stop, the session's end) leaves a slot `Running` behind it.
THEOREM NoneForgotten == Spec => []WorkingIsDriven
<1>1. KInv => WorkingIsDriven
  BY DEF KInv, WorkingIsDriven, Agrees, Driven
<1> QED
  BY <1>1, InitK, KKept, PTL DEF Spec

-----------------------------------------------------------------------------
(* The calls, and the senders kept for them. *)

Gots == [child : Nat, run : Nat, notified : BOOLEAN]
Steps == {"over", "due", "permit", "driving", "parked", "withdraw", "send", "reply"}
CallRecords == [op : Ops \cup {"none"}, on : Nat, at : Steps, got : Gots]
Spawns == {"spawnFg", "spawnBg"}

\* A call is about a child that exists, and only one that reads a oneshot has something in it.
CallFits(k) ==
    /\ k \in CallRecords
    /\ k.at \in {"permit", "driving", "withdraw", "send", "reply"} => k.on \in Ids
    /\ k.op \in {"wait", "resumeFg", "resumeBg"} => k.on \in Ids
    /\ k.got # Empty => k.at \in {"parked", "withdraw", "reply"}
    /\ IF k.got.child = 0 THEN k.got \in {Empty, Dropped} ELSE k.got.child \in Ids

\* The slot, the task and the run of a child, as its turn goes by.
Fits(s, t) ==
    /\ t.at \in {"none", "fg", "drive", "panicked"} => s.state \in {"Running", "Closed"}
    /\ t.at \in {"notify", "publish"} => s.state \in {"Finishing", "Closed"}
    /\ t.at \in {"withdraw", "park", "ended"} => s.state \in {"Done", "Closed"}
    /\ t.at = "lastword" => s.state = "Closed"
    /\ s.state \in {"Finishing", "Done"} => s.run = t.run
    /\ s.state = "Closed" => s.waiter = NoCall
    /\ t.reply # NoCall => t.at = "drive"

\* The call waits at its step, with nothing received.
Awaits(c, at) == calls[c].at = at /\ calls[c].got = Empty
KeptBySlots ==
    \A i \in Ids : slots[i].waiter \in Calls =>
        LET w == slots[i].waiter
        IN  Awaits(w, "parked") /\ calls[w].op = "wait" /\ calls[w].on = i
KeptByAny == any \in Calls => Awaits(any, "parked") /\ calls[any].op = "waitAny"
KeptByTasks ==
    \A i \in Ids : tasks[i].reply \in Calls =>
        Awaits(tasks[i].reply, "reply") /\ calls[tasks[i].reply].on = i
KeptByRequests ==
    \A i \in Ids : reqs[i] # <<>> =>
        /\ reqs[i] = <<reqs[i][1]>>
        /\ reqs[i][1] \in Calls =>
              /\ Awaits(reqs[i][1], "reply") /\ calls[reqs[i][1]].on = i
              /\ tasks[i].reply # reqs[i][1]
Kept == KeptBySlots /\ KeptByAny /\ KeptByTasks /\ KeptByRequests

\* A child whose first turn has not begun, or runs in the foreground, is with one call.
Begun ==
    /\ \A c \in Calls : calls[c].at = "permit" => tasks[calls[c].on].at = "none"
    /\ \A c \in Calls : calls[c].at = "driving" => tasks[calls[c].on].at = "fg"
    /\ \A c, d \in Calls :
          calls[c].at \in {"permit", "driving"} /\ calls[d].at \in {"permit", "driving"} =>
              calls[c].on # calls[d].on \/ c = d

\* Between chunks no call is left.
Turns == [at : {"idle", "sampling", "tools", "ended"}, cancelled : BOOLEAN]
Chunked == turn \in Turns /\ (turn.at # "tools" => \A c \in Calls : calls[c] = Idle)

CInv ==
    /\ KInv /\ DOMAIN calls = Calls /\ \A c \in Calls : CallFits(calls[c])
    /\ \A i \in Ids : Fits(slots[i], tasks[i])
    /\ Kept /\ Begun /\ Chunked

\* What is left of the bound on children is not promised twice.
Promised == {c \in Calls : calls[c].at = "due" /\ calls[c].op \in Spawns}
Counted == Len(slots) + Cardinality(Promised) <= MaxIds

Messages == [kind : {"Notify", "Unnotify"}, child : Ids, run : Nat]
Posted == inbox \in Seq(Messages) /\ owed \cup held \cup told \cup waited \subseteq Results

-----------------------------------------------------------------------------
(* What the steps write. *)

\* g is f but for one place.
But(g, f, i) == DOMAIN g = DOMAIN f /\ \A j \in DOMAIN f \ {i} : g[j] = f[j]

LEMMA IdleFits == CallFits(Idle) /\ Idle.at = "over" /\ Idle.got = Empty
  BY DEF CallFits, CallRecords, Idle, Empty, Gots, Steps

\* The types of a child and of a call.
LEMMA ChildOf ==
    ASSUME CInv, NEW i \in Ids
    PROVE  /\ slots[i] \in Slots /\ tasks[i] \in Tasks /\ reqs[i] \in Seq(Senders)
           /\ Fits(slots[i], tasks[i])
  BY SlotType DEF CInv, KInv, Registry, Ids

LEMMA RegistryOf ==
    ASSUME CInv
    PROVE  /\ Len(slots) \in Nat /\ Ids = 1..Len(slots)
           /\ DOMAIN slots = Ids /\ DOMAIN tasks = Ids /\ DOMAIN reqs = Ids /\ any \in Senders
  BY DEF CInv, KInv, Registry, Ids

LEMMA CallOf ==
    ASSUME CInv, NEW c \in Calls
    PROVE  /\ CallFits(calls[c]) /\ calls[c] \in CallRecords /\ c \notin {NoCall, Gone}
           /\ calls[c].at # "over" => turn.at = "tools"
  BY BoundsAssumption, IdleFits DEF CInv, CallFits, Chunked

\* A sender that is still kept is that of a call that has not changed.
LEMMA KeptStays ==
    ASSUME CInv, Ids' = Ids,
           \A i \in Ids : slots'[i].waiter \in Calls =>
               slots'[i].waiter = slots[i].waiter /\ calls'[slots[i].waiter] = calls[slots[i].waiter],
           any' \in Calls => any' = any /\ calls'[any] = calls[any],
           \A i \in Ids : tasks'[i].reply \in Calls =>
               tasks'[i].reply = tasks[i].reply /\ calls'[tasks[i].reply] = calls[tasks[i].reply],
           \A i \in Ids : reqs'[i] # <<>> =>
               /\ reqs'[i] = <<reqs'[i][1]>>
               /\ reqs'[i][1] \in Calls =>
                     /\ reqs'[i] = reqs[i] /\ calls'[reqs[i][1]] = calls[reqs[i][1]]
                     /\ tasks'[i].reply \in Calls => tasks'[i].reply = tasks[i].reply
    PROVE  Kept'
  <1>1. KeptBySlots'
    BY DEF CInv, Kept, KeptBySlots, Awaits
  <1>2. KeptByAny'
    BY DEF CInv, Kept, KeptByAny, Awaits
  <1>3. KeptByTasks'
    BY DEF CInv, Kept, KeptByTasks, Awaits
  <1>4. KeptByRequests'
    <2>1. ASSUME NEW i \in Ids, reqs'[i] # <<>>, NEW w \in Calls, w = reqs'[i][1]
          PROVE  /\ calls'[w].at = "reply" /\ calls'[w].got = Empty /\ calls'[w].on = i
                 /\ tasks'[i].reply # w
      <3>1. /\ reqs'[i] = reqs[i] /\ calls'[w] = calls[w]
            /\ tasks'[i].reply \in Calls => tasks'[i].reply = tasks[i].reply
        BY <2>1
      <3>2. /\ calls[w].at = "reply" /\ calls[w].got = Empty /\ calls[w].on = i /\ tasks[i].reply # w
        BY <2>1, <3>1 DEF CInv, Kept, KeptByRequests, Awaits
      <3> QED BY <3>1, <3>2
    <2> QED BY <2>1 DEF KeptByRequests, Awaits
  <1> QED BY <1>1, <1>2, <1>3, <1>4 DEF Kept

\* The calls that begin a child's first turn are those of before, and so is what they begin.
LEMMA BegunStays ==
    ASSUME CInv,
           \A c \in Calls : calls'[c].at \in {"permit", "driving"} =>
               /\ calls'[c].at = calls[c].at /\ calls'[c].on = calls[c].on
               /\ tasks'[calls[c].on].at = tasks[calls[c].on].at
    PROVE  Begun'
  <1>1. \A c \in Calls : calls[c].at = "permit" => tasks[calls[c].on].at = "none"
    BY DEF CInv, Begun
  <1>2. \A c \in Calls : calls[c].at = "driving" => tasks[calls[c].on].at = "fg"
    BY DEF CInv, Begun
  <1>3. \A c, d \in Calls :
          calls[c].at \in {"permit", "driving"} /\ calls[d].at \in {"permit", "driving"} =>
              calls[c].on # calls[d].on \/ c = d
    BY DEF CInv, Begun
  <1>4. \A c \in Calls : calls'[c].at = "permit" => tasks'[calls'[c].on].at = "none"
    BY <1>1
  <1>5. \A c \in Calls : calls'[c].at = "driving" => tasks'[calls'[c].on].at = "fg"
    BY <1>2
  <1>6. \A c, d \in Calls :
          calls'[c].at \in {"permit", "driving"} /\ calls'[d].at \in {"permit", "driving"} =>
              calls'[c].on # calls'[d].on \/ c = d
    BY <1>3
  <1> QED BY <1>4, <1>5, <1>6 DEF Begun

\* Nothing but a call of its own changes, and nobody keeps a sender for that.
LEMMA OneCall ==
    ASSUME CInv, NEW c \in Calls, But(calls', calls, c), CallFits(calls'[c]),
           UNCHANGED <<slots, any, tasks, reqs, turn>>,
           calls[c].at \notin {"over", "parked", "reply"} \/ calls[c].got # Empty,
           calls'[c].at \notin {"permit", "driving"}
    PROVE  CInv'
  <1>1. DOMAIN calls = Calls /\ KInv' /\ Ids' = Ids
    BY QuietK, RestSame DEF CInv, Ids
  <1>2. calls[c].at # "over"
    BY CallOf, IdleFits DEF CallFits
  <1>3. \A d \in Calls : CallFits(calls[d])'
    BY <1>1 DEF But, CInv, CallFits
  <1>4. Kept'
    <2>1. \A at \in {"parked", "reply"} : ~Awaits(c, at)
      BY DEF Awaits
    <2>2. \A d \in Calls : Awaits(d, "parked") \/ Awaits(d, "reply") => calls'[d] = calls[d]
      BY <1>1, <2>1 DEF But
    <2>3. \A i \in Ids : slots[i].waiter \in Calls => Awaits(slots[i].waiter, "parked")
      BY DEF CInv, Kept, KeptBySlots
    <2>4. any \in Calls => Awaits(any, "parked")
      BY DEF CInv, Kept, KeptByAny
    <2>5. \A i \in Ids : tasks[i].reply \in Calls => Awaits(tasks[i].reply, "reply")
      BY DEF CInv, Kept, KeptByTasks
    <2>6. \A i \in Ids : reqs[i] # <<>> => reqs[i] = <<reqs[i][1]>>
                          /\ (reqs[i][1] \in Calls => Awaits(reqs[i][1], "reply"))
      BY DEF CInv, Kept, KeptByRequests
    <2> QED BY <1>1, <2>2, <2>3, <2>4, <2>5, <2>6, KeptStays
  <1>5. Begun'
    BY <1>1, BegunStays DEF But
  <1>6. Chunked'
    <2>1. turn \in Turns /\ turn.at = "tools"
      BY <1>2, CallOf DEF CInv, Chunked
    <2> QED BY <2>1 DEF Chunked
  <1> QED BY <1>1, <1>3, <1>4, <1>5, <1>6 DEF CInv, But

LEMMA WaitReturnsC ==
    ASSUME CInv, NEW c \in Calls, WaitReturns(c) \/ Withdraw(c) \/ Resume(c) \/ ResumeReturns(c)
    PROVE  CInv'
  <1>1. DOMAIN calls = Calls /\ CallFits(calls[c])
    BY DEF CInv
  <1>2. UNCHANGED <<slots, any, tasks, reqs, turn>>
    BY DEF WaitReturns, Withdraw, Resume, ResumeReturns
  <1>3. \E k : calls' = [calls EXCEPT ![c] = k] /\ CallFits(k) /\ k.at \notin {"permit", "driving"}
    <2>1. CASE calls' = Over(c)
      BY <2>1, IdleFits DEF Over
    <2>2. CASE WaitReturns(c) /\ calls' # Over(c)
      <3> DEFINE k == [calls[c] EXCEPT !.at = "withdraw", !.on = calls[c].got.child]
      <3>1. calls' = [calls EXCEPT ![c] = k] /\ calls[c].got # Empty /\ calls[c].got # Dropped
        BY <1>1, <2>2 DEF WaitReturns
      <3>2. calls[c].got.child # 0 /\ calls[c].at = "parked"
        BY <1>1, <2>2, <3>1 DEF WaitReturns, CallFits
      <3>3. CallFits(k) /\ k.at = "withdraw"
        BY <1>1, <3>2 DEF CallFits, CallRecords, Steps, Gots
      <3> QED BY <3>1, <3>3
    <2>3. CASE Resume(c) /\ calls' # Over(c)
      <3> DEFINE k == [calls[c] EXCEPT !.at = "send"]
      <3>1. calls' = [calls EXCEPT ![c] = k] /\ calls[c].at = "due" /\ calls[c].op \in {"resumeFg", "resumeBg"}
        BY <1>1, <2>3 DEF Resume
      <3>2. CallFits(k) /\ k.at = "send"
        BY <1>1, <3>1 DEF CallFits, CallRecords, Steps
      <3> QED BY <3>1, <3>2
    <2> QED BY <2>1, <2>2, <2>3 DEF Withdraw, ResumeReturns
  <1>4. But(calls', calls, c) /\ CallFits(calls'[c]) /\ calls'[c].at \notin {"permit", "driving"}
    BY <1>1, <1>3 DEF But
  <1>5. calls[c].at \notin {"over", "parked", "reply"} \/ calls[c].got # Empty
    BY DEF WaitReturns, Withdraw, Resume, ResumeReturns
  <1> QED BY <1>2, <1>4, <1>5, OneCall

\* What is put into a oneshot fits the call that waits for it.
LEMMA GotFits ==
    ASSUME NEW k, CallFits(k), k.at \in {"parked", "reply"},
           NEW g, g = Dropped \/ \E i \in Ids, r \in Nat, b \in BOOLEAN : g = Handoff(i, r, b)
    PROVE  LET m == [k EXCEPT !.got = g]
           IN  /\ CallFits(m) /\ m.at = k.at /\ m.on = k.on /\ m.op = k.op /\ m.got = g
               /\ m # Idle
  <1>1. g \in Gots /\ (IF g.child = 0 THEN g \in {Empty, Dropped} ELSE g.child \in Ids)
    <2>1. CASE g = Dropped
      BY <2>1 DEF Dropped, Empty, Gots
    <2>2. CASE \E i \in Ids, r \in Nat, b \in BOOLEAN : g = Handoff(i, r, b)
      BY <2>2 DEF Handoff, Gots, Ids
    <2> QED BY <2>1, <2>2
  <1> QED BY <1>1 DEF CallFits, CallRecords, Idle

\* A call whose sender is dropped.
LEMMA DropFits ==
    ASSUME NEW k, CallFits(k), k.at \in {"parked", "reply"}
    PROVE  LET m == [k EXCEPT !.got = Dropped]
           IN  CallFits(m) /\ m.at = k.at /\ m.on = k.on /\ m.op = k.op
  BY GotFits

\* Some oneshots are filled, of calls that wait.
Fills(C, at) ==
    /\ DOMAIN calls' = Calls
    /\ \A c \in Calls \ C : calls'[c] = calls[c]
    /\ \A c \in C : \E g : /\ calls'[c] = [calls[c] EXCEPT !.got = g]
                           /\ g = Dropped \/ \E i \in Ids, r \in Nat, b \in BOOLEAN : g = Handoff(i, r, b)
    /\ \A c \in C : calls[c].at = at

LEMMA FillsFit ==
    ASSUME CInv, NEW C \in SUBSET Calls, NEW at \in {"parked", "reply"}, Fills(C, at), Ids' = Ids
    PROVE  /\ \A c \in Calls : CallFits(calls[c])'
           /\ \A c \in Calls : /\ calls'[c].at = calls[c].at /\ calls'[c].on = calls[c].on
                               /\ calls'[c].op = calls[c].op
           /\ UNCHANGED turn => Chunked'
  <1>1. \A c \in Calls : CallFits(calls'[c]) /\ calls'[c].at = calls[c].at
                         /\ calls'[c].on = calls[c].on /\ calls'[c].op = calls[c].op
    <2> SUFFICES ASSUME NEW c \in Calls
                 PROVE  CallFits(calls'[c]) /\ calls'[c].at = calls[c].at
                        /\ calls'[c].on = calls[c].on /\ calls'[c].op = calls[c].op
      OBVIOUS
    <2>1. CASE c \notin C
      BY <2>1, CallOf DEF Fills
    <2>2. CASE c \in C
      <3>1. PICK g : /\ calls'[c] = [calls[c] EXCEPT !.got = g]
                     /\ g = Dropped \/ \E i \in Ids, r \in Nat, b \in BOOLEAN : g = Handoff(i, r, b)
        BY <2>2 DEF Fills
      <3>2. CallFits(calls[c]) /\ calls[c].at \in {"parked", "reply"}
        BY <2>2, CallOf DEF Fills
      <3> QED BY <3>1, <3>2, GotFits
    <2> QED BY <2>1, <2>2
  <1>2. UNCHANGED turn => Chunked'
    <2> SUFFICES ASSUME UNCHANGED turn, turn.at # "tools", NEW c \in Calls
                 PROVE  calls'[c] = Idle
      BY DEF Chunked, CInv
    <2>1. calls[c] = Idle /\ c \notin C
      BY IdleFits DEF Fills, CInv, Chunked
    <2> QED BY <2>1 DEF Fills
  <1>3. \A c \in Calls : CallFits(calls[c])'
    BY <1>1 DEF CallFits
  <1> QED BY <1>1, <1>2, <1>3

\* A slot that is closed drops its sender.
LEMMA ClosedFits ==
    ASSUME CInv, NEW i \in Ids
    PROVE  /\ Close(slots[i]).state = "Closed" /\ Close(slots[i]).waiter = NoCall
           /\ Close(slots[i]).run = slots[i].run
           /\ Fits(Close(slots[i]), tasks[i])
  BY ChildOf, SlotType DEF Close, Slots, Fits, CInv

LEMMA StopIs ==
    ASSUME CInv, NEW i \in Ids, Stop(i), NEW C, calls' = Drop({slots[i].waiter}), C = {slots[i].waiter} \cap Calls
    PROVE  /\ But(slots', slots, i) /\ Ids' = Ids /\ slots'[i].waiter = NoCall
           /\ slots'[i] \in {slots[i], Close(slots[i])} /\ slots'[i].state = "Closed"
           /\ Fits(slots'[i], tasks[i]) /\ Fills(C, "parked")
  <1>1. But(slots', slots, i) /\ slots'[i] = IF Live(slots[i]) THEN Close(slots[i]) ELSE slots[i]
    BY RegistryOf DEF Stop, But
  <1>2. Ids' = Ids
    BY <1>1, RegistryOf, StoppedAgrees DEF But, Ids, CInv, Stop, KInv, Registry
  <1>3. slots'[i].waiter = NoCall /\ slots'[i].state = "Closed" /\ Fits(slots'[i], tasks[i])
        /\ slots'[i] \in {slots[i], Close(slots[i])}
    BY <1>1, ClosedFits, ChildOf DEF Live, Fits
  <1>4. Fills(C, "parked")
    <2>1. \A c \in C : calls[c].at = "parked"
      BY DEF CInv, Kept, KeptBySlots, Awaits
    <2>2. \A c \in Calls : calls'[c] = IF c \in C THEN [calls[c] EXCEPT !.got = Dropped] ELSE calls[c]
      BY DEF Drop
    <2>3. DOMAIN calls' = Calls
      BY DEF Drop
    <2> QED BY <2>1, <2>2, <2>3 DEF Fills
  <1> QED BY <1>1, <1>2, <1>3, <1>4

LEMMA StopChildC ==
    ASSUME CInv, KInv', NEW i \in Ids, StopChild(i)
    PROVE  CInv'
  <1> DEFINE C == {slots[i].waiter} \cap Calls
  <1>1. UNCHANGED <<any, tasks, reqs, turn>> /\ Stop(i) /\ calls' = Drop({slots[i].waiter})
    BY DEF StopChild
  <1>2. /\ But(slots', slots, i) /\ Ids' = Ids /\ slots'[i].waiter = NoCall
        /\ Fits(slots'[i], tasks[i]) /\ Fills(C, "parked")
    BY <1>1, StopIs
  <1>3. /\ \A c \in Calls : CallFits(calls[c])'
        /\ \A c \in Calls : calls'[c].at = calls[c].at /\ calls'[c].on = calls[c].on
                               /\ calls'[c].op = calls[c].op
        /\ Chunked'
    BY <1>1, <1>2, FillsFit
  <1>4. \A j \in Ids : Fits(slots'[j], tasks'[j])
    BY <1>1, <1>2, RegistryOf, ChildOf DEF But
  <1>5. Kept'
    <2>1. \A j \in Ids \ {i} : slots'[j] = slots[j]
      BY <1>2, RegistryOf DEF But
    <2>2. \A c \in C : calls[c].at = "parked" /\ calls[c].op = "wait" /\ calls[c].on = i
      BY DEF CInv, Kept, KeptBySlots, Awaits
    <2>3. \A c \in Calls : c \in C \/ calls'[c] = calls[c]
      BY <1>2 DEF Fills
    <2> HIDE DEF C
    <2>4. \A j \in Ids : slots'[j].waiter \in Calls =>
              slots'[j].waiter = slots[j].waiter /\ slots[j].waiter \notin C
      <3>1. \A j \in Ids : slots[j].waiter \in Calls => calls[slots[j].waiter].on = j
        BY DEF CInv, Kept, KeptBySlots
      <3> QED BY <1>2, <2>1, <2>2, <3>1, BoundsAssumption
    <2>5. /\ any \in Calls => any \notin C
          /\ \A j \in Ids : tasks[j].reply \in Calls => tasks[j].reply \notin C
      <3>1. any \in Calls => calls[any].op = "waitAny"
        BY DEF CInv, Kept, KeptByAny
      <3>2. \A j \in Ids : tasks[j].reply \in Calls => calls[tasks[j].reply].at = "reply"
        BY DEF CInv, Kept, KeptByTasks, Awaits
      <3> QED BY <2>2, <3>1, <3>2
    <2>6. \A j \in Ids : reqs[j] # <<>> => reqs[j] = <<reqs[j][1]>>
              /\ (reqs[j][1] \in Calls => reqs[j][1] \notin C)
      BY <2>2 DEF CInv, Kept, KeptByRequests, Awaits
    <2> QED BY <1>1, <1>2, <2>3, <2>4, <2>5, <2>6, KeptStays
  <1>6. Begun'
    BY <1>1, <1>3, BegunStays
  <1> QED BY <1>2, <1>3, <1>4, <1>5, <1>6 DEF CInv, Fills

LEMMA KeptIs ==
    ASSUME CInv
    PROVE  /\ \A i \in Ids : slots[i].waiter \in Calls =>
                 /\ calls[slots[i].waiter].at = "parked" /\ calls[slots[i].waiter].got = Empty
                 /\ calls[slots[i].waiter].op = "wait" /\ calls[slots[i].waiter].on = i
           /\ any \in Calls => /\ calls[any].at = "parked" /\ calls[any].got = Empty
                               /\ calls[any].op = "waitAny"
           /\ \A i \in Ids : tasks[i].reply \in Calls =>
                 /\ calls[tasks[i].reply].at = "reply" /\ calls[tasks[i].reply].got = Empty
                 /\ calls[tasks[i].reply].on = i
           /\ \A i \in Ids : reqs[i] # <<>> =>
                 /\ reqs[i] = <<reqs[i][1]>>
                 /\ reqs[i][1] \in Calls =>
                       /\ calls[reqs[i][1]].at = "reply" /\ calls[reqs[i][1]].got = Empty
                       /\ calls[reqs[i][1]].on = i /\ tasks[i].reply # reqs[i][1]
  BY DEF CInv, Kept, KeptBySlots, KeptByAny, KeptByTasks, KeptByRequests, Awaits

\* The parent's steps leave the registry as it is, but for the end of the session.
LEMMA ParentC ==
    ASSUME CInv, KInv', \/ Mail \/ Release \/ Prompt \/ Joined \/ Interrupt \/ TurnEnds \/ Rest
                        \/ UNCHANGED vars
    PROVE  CInv'
  <1>1. UNCHANGED <<slots, any, tasks, reqs, calls>>
    BY DEF Mail, Release, Prompt, Joined, Interrupt, TurnEnds, Rest, vars
  <1>2. turn' \in Turns /\ (turn'.at = "tools" \/ \A c \in Calls : calls[c] = Idle)
    <2>1. turn \in Turns /\ (turn.at = "tools" \/ \A c \in Calls : calls[c] = Idle)
      BY DEF CInv, Chunked
    <2>2. CASE Mail
      <3>1. turn' = turn \/ (turn.at = "idle" /\ turn' = [turn EXCEPT !.at = "sampling"])
        BY <2>2 DEF Mail
      <3> QED BY <2>1, <3>1 DEF Turns
    <2>3. CASE Interrupt
      BY <2>1, <2>3 DEF Interrupt, Turns
    <2>4. CASE Release \/ Rest \/ UNCHANGED vars
      BY <2>1, <2>4 DEF Release, Rest, vars
    <2>5. CASE Prompt \/ TurnEnds
      <3>1. turn'.at \in {"idle", "sampling"} /\ turn' \in Turns
        <4>1. CASE Prompt
          BY <2>1, <4>1 DEF Prompt, Turns
        <4>2. CASE TurnEnds
          BY <4>2 DEF TurnEnds, Turns
        <4> QED BY <2>5, <4>1, <4>2
      <3>2. turn.at # "tools"
        BY <2>5 DEF Prompt, TurnEnds
      <3> QED BY <2>1, <3>1, <3>2
    <2>6. CASE Joined
      BY <2>1, <2>6 DEF Joined, Turns
    <2> QED BY <2>2, <2>3, <2>4, <2>5, <2>6
  <1>6. Chunked'
    BY <1>1, <1>2 DEF Chunked
  <1>3. Ids' = Ids
    BY <1>1 DEF Ids
  <1>4. Kept' /\ Begun'
    BY <1>1, <1>3 DEF CInv, Kept, KeptBySlots, KeptByAny, KeptByTasks, KeptByRequests, Awaits, Begun
  <1>5. \A c \in Calls : CallFits(calls[c])'
    BY <1>1, <1>3 DEF CInv, CallFits
  <1> QED BY <1>1, <1>3, <1>4, <1>5, <1>6 DEF CInv

LEMMA DispatchC ==
    ASSUME CInv, KInv', Dispatch
    PROVE  CInv'
  <1>1. /\ UNCHANGED <<slots, any, tasks, reqs>>
        /\ turn.at = "sampling" /\ turn' \in Turns /\ turn'.at = "tools"
        /\ calls' \in [Calls -> {k \in Chunk : k = Idle \/ k.on \in Targets(k.op)}]
    <2>1. turn' = [turn EXCEPT !.at = "tools"] /\ turn \in Turns
      BY DEF Dispatch, CInv, Chunked
    <2> QED BY <2>1 DEF Dispatch, Turns
  <1>2. \A c \in Calls : calls[c] = Idle
    BY <1>1 DEF CInv, Chunked
  <1>3. Ids' = Ids
    BY <1>1 DEF Ids
  <1>4. \A c \in Calls : CallFits(calls'[c]) /\ calls'[c].at \in {"over", "due"}
    <2> SUFFICES ASSUME NEW c \in Calls
                 PROVE  CallFits(calls'[c]) /\ calls'[c].at \in {"over", "due"}
      OBVIOUS
    <2> SUFFICES ASSUME calls'[c] # Idle
                 PROVE  CallFits(calls'[c]) /\ calls'[c].at \in {"over", "due"}
      BY IdleFits
    <2>1. calls'[c] \in Chunk /\ calls'[c].on \in Targets(calls'[c].op)
      BY <1>1
    <2> DEFINE Asked(op, i) == [Idle EXCEPT !.op = op, !.on = i, !.at = "due"]
    <2>6. Chunk = {Idle} \cup {Asked(op, i) : op \in Ops, i \in Ids \cup {0}}
      BY DEF Chunk
    <2> HIDE DEF Asked
    <2>7. \E op \in Ops, i \in Ids \cup {0} : calls'[c] = Asked(op, i)
      BY <2>1, <2>6
    <2>2. \E op \in Ops, i \in Ids \cup {0} : calls'[c] = [Idle EXCEPT !.op = op, !.on = i, !.at = "due"]
      BY <2>7 DEF Asked
    <2>3. PICK op \in Ops, i \in Ids \cup {0} : calls'[c] = [Idle EXCEPT !.op = op, !.on = i, !.at = "due"]
      BY <2>2
    <2>4. calls'[c] = [op |-> op, on |-> i, at |-> "due", got |-> Empty]
      BY <2>3 DEF Idle
    <2>5. op \in {"wait", "resumeFg", "resumeBg"} => i \in Ids
      BY <2>1, <2>4 DEF Targets
    <2>8. i \in Nat
      BY DEF Ids
    <2> QED BY <2>4, <2>5, <2>8 DEF CallFits, CallRecords, Steps, Gots, Empty
  <1>5. \A c \in Calls : CallFits(calls[c])'
    BY <1>3, <1>4 DEF CallFits
  <1>6. Begun'
    BY <1>4, BegunStays
  <1>7. Kept'
    BY <1>1, <1>2, <1>3, IdleFits, KeptIs, KeptStays
  <1>8. DOMAIN calls' = Calls
    BY <1>1
  <1>9. Chunked'
    BY <1>1 DEF Chunked
  <1> QED BY <1>1, <1>3, <1>5, <1>6, <1>7, <1>8, <1>9 DEF CInv

LEMMA SessionEndsC ==
    ASSUME CInv, KInv', SessionEnds
    PROVE  CInv'
  <1>1. /\ UNCHANGED <<any, tasks, reqs, calls>>
        /\ turn.at = "idle" /\ turn' \in Turns /\ turn'.at = "ended"
        /\ slots' = [i \in Ids |-> IF Live(slots[i]) THEN Close(slots[i]) ELSE slots[i]]
    <2>1. turn' = [turn EXCEPT !.at = "ended"] /\ turn \in Turns
      BY DEF SessionEnds, CInv, Chunked
    <2> QED BY <2>1 DEF SessionEnds, Turns
  <1>2. \A c \in Calls : calls[c] = Idle
    BY <1>1 DEF CInv, Chunked
  <1>3. Ids' = Ids
    <2>1. DOMAIN slots' = Ids
      BY <1>1
    <2> QED BY <2>1, RegistryOf DEF KInv, Registry, Ids
  <1>4. \A i \in Ids : Fits(slots'[i], tasks'[i]) /\ slots'[i].waiter \in {NoCall, slots[i].waiter}
    BY <1>1, ClosedFits, ChildOf
  <1>5. \A c \in Calls : CallFits(calls[c])'
    BY <1>1, <1>3 DEF CInv, CallFits
  <1>6. Begun' /\ Chunked'
    BY <1>1, <1>2, BegunStays DEF Chunked
  <1>7. Kept'
    BY <1>1, <1>3, <1>4, KeptIs, KeptStays, BoundsAssumption
  <1> QED BY <1>1, <1>3, <1>4, <1>5, <1>6, <1>7 DEF CInv

-----------------------------------------------------------------------------
(* The steps of a child's task. *)

\* One child changes, and oneshots kept for it are filled: what is still kept is as it was.
LEMMA TaskC ==
    ASSUME CInv, KInv', NEW i \in Ids, Ids' = Ids, NEW C \in SUBSET Calls,
           NEW at \in {"parked", "reply"}, Fills(C, at), UNCHANGED turn,
           But(slots', slots, i), But(tasks', tasks, i), But(reqs', reqs, i),
           Fits(slots'[i], tasks'[i]),
           \A c \in C : c \in {slots[i].waiter, any, tasks[i].reply} \/ (reqs[i] # <<>> /\ c = reqs[i][1]),
           slots'[i].waiter \in Calls => slots'[i].waiter = slots[i].waiter /\ slots[i].waiter \notin C,
           any' \in Calls => any' = any /\ any \notin C,
           tasks'[i].reply \in Calls => tasks'[i].reply = tasks[i].reply /\ tasks[i].reply \notin C,
           reqs'[i] # <<>> => reqs'[i] = reqs[i] /\ reqs[i][1] \notin C,
           tasks[i].at \notin {"none", "fg"}
    PROVE  CInv'
  <1>1. /\ \A c \in Calls : CallFits(calls[c])'
        /\ \A c \in Calls : /\ calls'[c].at = calls[c].at /\ calls'[c].on = calls[c].on
                            /\ calls'[c].op = calls[c].op
        /\ Chunked'
    BY FillsFit
  <1>2. \A j \in Ids \ {i} : slots'[j] = slots[j] /\ tasks'[j] = tasks[j] /\ reqs'[j] = reqs[j]
    BY RegistryOf DEF But
  <1>3. \A j \in Ids : Fits(slots'[j], tasks'[j])
    BY <1>2, ChildOf
  <1>4. Begun'
    <2>1. \A c \in Calls : calls[c].at \in {"permit", "driving"} => calls[c].on \in Ids \ {i}
      <3>1. \A c \in Calls : calls[c].at \in {"permit", "driving"} => calls[c].on \in Ids
        BY CallOf DEF CallFits
      <3>2. \A c \in Calls : calls[c].at \in {"permit", "driving"} =>
                tasks[calls[c].on].at \in {"none", "fg"}
        BY DEF CInv, Begun
      <3> QED BY <3>1, <3>2
    <2>2. \A c \in Calls : calls'[c].at \in {"permit", "driving"} =>
               /\ calls'[c].at = calls[c].at /\ calls'[c].on = calls[c].on
               /\ tasks'[calls[c].on].at = tasks[calls[c].on].at
      BY <1>1, <1>2, <2>1
    <2> QED BY <2>2, BegunStays
  <1>5. Kept'
    <2>1. \A c \in Calls : c \in C \/ calls'[c] = calls[c]
      BY DEF Fills
    <2>2. \A c \in C : \/ calls[c].op = "waitAny" /\ calls[c].at = "parked"
                       \/ calls[c].op = "wait" /\ calls[c].at = "parked" /\ calls[c].on = i
                       \/ calls[c].at = "reply" /\ calls[c].on = i
      BY KeptIs
    <2>3. \A j \in Ids : slots'[j].waiter \in Calls =>
              slots'[j].waiter = slots[j].waiter /\ slots[j].waiter \notin C
      BY <1>2, <2>2, KeptIs
    <2>4. \A j \in Ids : tasks'[j].reply \in Calls =>
              tasks'[j].reply = tasks[j].reply /\ tasks[j].reply \notin C
      BY <1>2, <2>2, KeptIs
    <2>5. \A j \in Ids : reqs'[j] # <<>> =>
              reqs'[j] = reqs[j] /\ (reqs[j][1] \in Calls => reqs[j][1] \notin C)
      BY <1>2, <2>2, KeptIs
    <2> QED BY <2>1, <2>3, <2>4, <2>5, KeptIs, KeptStays
  <1>6. DOMAIN calls' = Calls
    BY DEF Fills
  <1> QED BY <1>1, <1>3, <1>4, <1>5, <1>6 DEF CInv

\* One child's task moves on, and nothing else of the registry.
LEMMA Moved ==
    ASSUME CInv, NEW i \in Ids, NEW t, tasks' = [tasks EXCEPT ![i] = t]
    PROVE  But(tasks', tasks, i) /\ tasks'[i] = t
  BY RegistryOf DEF But

LEMMA Goes ==
    ASSUME CInv, NEW i \in Ids, NEW at, GoTo(i, at)
    PROVE  /\ But(tasks', tasks, i) /\ tasks'[i].at = at
           /\ tasks'[i].run = tasks[i].run /\ tasks'[i].reply = tasks[i].reply
  <1>1. But(tasks', tasks, i) /\ tasks'[i] = [tasks[i] EXCEPT !.at = at]
    BY Moved DEF GoTo
  <1> QED BY <1>1, ChildOf DEF Tasks

LEMMA Unfilled ==
    ASSUME CInv, UNCHANGED calls
    PROVE  Fills({}, "parked")
  BY DEF Fills, CInv

LEMMA TellC ==
    ASSUME CInv, KInv', NEW i \in Ids, Tell(i) \/ TakeBack(i) \/ LastWord(i)
    PROVE  CInv'
  <1>1. /\ UNCHANGED <<slots, any, reqs, calls, turn>>
        /\ \/ tasks[i].at = "notify" /\ GoTo(i, "publish")
           \/ tasks[i].at = "withdraw" /\ GoTo(i, "park")
           \/ tasks[i].at = "lastword" /\ GoTo(i, "ended")
    BY DEF Tell, TakeBack, LastWord
  <1>2. /\ But(tasks', tasks, i) /\ Fits(slots[i], tasks'[i]) /\ tasks'[i].reply = tasks[i].reply
        /\ tasks[i].at \notin {"none", "fg"}
    <2>1. Fits(slots[i], tasks[i])
      BY ChildOf
    <2>2. CASE tasks[i].at = "notify" /\ GoTo(i, "publish")
      BY <2>1, <2>2, Goes DEF Fits
    <2>3. CASE tasks[i].at = "withdraw" /\ GoTo(i, "park")
      BY <2>1, <2>3, Goes DEF Fits
    <2>4. CASE tasks[i].at = "lastword" /\ GoTo(i, "ended")
      BY <2>1, <2>4, Goes DEF Fits
    <2> QED BY <1>1, <2>2, <2>3, <2>4
  <1>3. Ids' = Ids /\ Fills({}, "parked")
    BY <1>1, Unfilled DEF Ids
  <1>4. But(slots', slots, i) /\ But(reqs', reqs, i)
    BY <1>1 DEF But
  <1> QED BY <1>1, <1>2, <1>3, <1>4, TaskC

\* The sender that a turn's end serves, if it is that of a call.
LEMMA WaiterIs ==
    ASSUME CInv, NEW i \in Ids, NEW w, w = WaiterOf(i)
    PROVE  /\ w \in Senders /\ w \in {slots[i].waiter, any}
           /\ w \in Calls => calls[w].at = "parked"
           /\ w \in Calls => slots[i].waiter # any
  <1>1. slots[i].waiter \in Senders /\ any \in Senders
    BY ChildOf, RegistryOf DEF Slots
  <1>2. slots[i].waiter \in Calls => slots[i].waiter # any
    BY KeptIs
  <1> QED BY <1>1, <1>2, KeptIs, BoundsAssumption DEF WaiterOf, Senders

\* It is served by its turn's result: one oneshot is filled.
LEMMA Serves ==
    ASSUME CInv, NEW i \in Ids, NEW w, w = WaiterOf(i), NEW r \in Nat, NEW b \in BOOLEAN,
           calls' = IF w \in Calls THEN Put(w, Handoff(i, r, b)) ELSE calls
    PROVE  Fills({w} \cap Calls, "parked")
  <1>1. DOMAIN calls = Calls
    BY DEF CInv
  <1>2. CASE w \in Calls
    <2>1. calls' = [calls EXCEPT ![w].got = Handoff(i, r, b)]
      BY <1>2 DEF Put
    <2>2. /\ DOMAIN calls' = Calls /\ calls'[w] = [calls[w] EXCEPT !.got = Handoff(i, r, b)]
          /\ \A c \in Calls \ {w} : calls'[c] = calls[c]
      BY <1>1, <1>2, <2>1, Zenon
    <2>3. calls[w].at = "parked"
      BY <1>2, WaiterIs
    <2> QED BY <1>2, <2>2, <2>3 DEF Fills
  <1>3. CASE w \notin Calls
    BY <1>1, <1>3 DEF Fills
  <1> QED BY <1>2, <1>3

LEMMA FinishC ==
    ASSUME CInv, KInv', NEW i \in Ids, Finish(i)
    PROVE  CInv'
  <1> DEFINE w == WaiterOf(i)
             s == [slots[i] EXCEPT !.state = "Done", !.claimed = TRUE, !.run = tasks[i].run,
                                   !.waiter = NoCall]
             f == [slots[i] EXCEPT !.state = "Finishing", !.run = tasks[i].run, !.waiter = NoCall]
  <1>1. /\ tasks[i].at = "drive" /\ tasks[i].reply = NoCall /\ TakeAny(i) /\ UNCHANGED <<reqs, turn>>
        /\ calls' = IF w \in Calls THEN Put(w, Handoff(i, tasks[i].run, FALSE)) ELSE calls
        /\ \/ slots' = [slots EXCEPT ![i] = s] /\ GoTo(i, "park")
           \/ slots' = [slots EXCEPT ![i] = f] /\ GoTo(i, "notify")
    BY DEF Finish
  <1>2. /\ s.state = "Done" /\ f.state = "Finishing"
        /\ \A u \in {s, f} : u.run = tasks[i].run /\ u.waiter = NoCall
    BY ChildOf DEF Slots
  <1> HIDE DEF s, f
  <1>3. /\ But(slots', slots, i) /\ slots'[i].waiter = NoCall
        /\ Ids' = Ids /\ But(tasks', tasks, i)
        /\ Fits(slots'[i], tasks'[i]) /\ tasks'[i].reply = NoCall
    <2>1. CASE slots' = [slots EXCEPT ![i] = s] /\ GoTo(i, "park")
      <3>1. But(slots', slots, i) /\ slots'[i] = s
        BY <2>1, RegistryOf DEF But
      <3> QED BY <1>1, <1>2, <2>1, <3>1, Goes, RegistryOf DEF Fits, But, KInv, Registry, Ids
    <2>2. CASE slots' = [slots EXCEPT ![i] = f] /\ GoTo(i, "notify")
      <3>1. But(slots', slots, i) /\ slots'[i] = f
        BY <2>2, RegistryOf DEF But
      <3> QED BY <1>1, <1>2, <2>2, <3>1, Goes, RegistryOf DEF Fits, But, KInv, Registry, Ids
    <2> QED BY <1>1, <2>1, <2>2
  <1>4. Fills({w} \cap Calls, "parked")
    BY <1>1, ChildOf, Serves DEF Tasks
  <1>5. /\ w \in {slots[i].waiter, any} /\ (any' \in Calls => any' = any /\ any # w)
        /\ NoCall \notin Calls
    BY <1>1, WaiterIs, BoundsAssumption DEF TakeAny, WaiterOf
  <1>6. But(reqs', reqs, i)
    BY <1>1 DEF But
  <1>7. reqs[i] # <<>> => reqs[i][1] \notin {w} \cap Calls
    BY WaiterIs, KeptIs
  <1> HIDE DEF w
  <1> QED BY <1>1, <1>3, <1>4, <1>5, <1>6, <1>7, TaskC

\* A child's slot is replaced.
LEMMA Replaced ==
    ASSUME CInv, KInv', NEW i \in Ids, NEW s, slots' = [slots EXCEPT ![i] = s]
    PROVE  But(slots', slots, i) /\ slots'[i] = s /\ Ids' = Ids
  <1>1. But(slots', slots, i) /\ slots'[i] = s
    BY RegistryOf DEF But
  <1>2. DOMAIN slots' = Ids
    BY <1>1, RegistryOf DEF But
  <1> QED BY <1>1, <1>2, RegistryOf DEF KInv, Registry, Ids

LEMMA PublishC ==
    ASSUME CInv, KInv', NEW i \in Ids, Publish(i)
    PROVE  CInv'
  <1>1. tasks[i].at = "publish" /\ UNCHANGED <<reqs, turn>> /\ Fits(slots[i], tasks[i])
    BY ChildOf DEF Publish
  <1>2. But(reqs', reqs, i)
    BY <1>1 DEF But
  <1>3. CASE slots[i].state = "Finishing"
    <2> DEFINE w == WaiterOf(i)
               served == w \in Calls
               s == [slots[i] EXCEPT !.state = "Done", !.waiter = NoCall, !.claimed = served]
               at == IF w \in Calls /\ turn.at # "ended" THEN "withdraw" ELSE "park"
    <2>1. /\ TakeAny(i) /\ slots' = [slots EXCEPT ![i] = s] /\ GoTo(i, at)
          /\ calls' = IF w \in Calls THEN Put(w, Handoff(i, slots[i].run, TRUE)) ELSE calls
      BY <1>3 DEF Publish
    <2>2. at \in {"withdraw", "park"}
      OBVIOUS
    <2> HIDE DEF served, at
    <2>3. s.state = "Done" /\ s.run = slots[i].run /\ s.waiter = NoCall
      BY ChildOf DEF Slots
    <2> HIDE DEF s
    <2>4. /\ But(slots', slots, i) /\ slots'[i].waiter = NoCall /\ Ids' = Ids
          /\ But(tasks', tasks, i) /\ Fits(slots'[i], tasks'[i]) /\ tasks'[i].reply = NoCall
      BY <1>1, <1>3, <2>1, <2>2, <2>3, Replaced, Goes DEF Fits
    <2>5. Fills({w} \cap Calls, "parked")
      BY <2>1, ChildOf, Serves DEF Slots
    <2>6. /\ w \in {slots[i].waiter, any} /\ (any' \in Calls => any' = any /\ any # w)
          /\ NoCall \notin Calls
      BY <2>1, WaiterIs, BoundsAssumption DEF TakeAny, WaiterOf
    <2>7. reqs[i] # <<>> => reqs[i][1] \notin {w} \cap Calls
      BY WaiterIs, KeptIs
    <2> HIDE DEF w
    <2> QED BY <1>1, <1>2, <2>4, <2>5, <2>6, <2>7, TaskC
  <1>4. CASE slots[i].state # "Finishing"
    <2>1. UNCHANGED <<slots, any, calls>> /\ GoTo(i, "park")
      BY <1>4 DEF Publish
    <2>2. But(slots', slots, i) /\ Ids' = Ids /\ Fills({}, "parked")
      BY <2>1, Unfilled DEF But, Ids
    <2>3. /\ But(tasks', tasks, i) /\ Fits(slots'[i], tasks'[i]) /\ tasks'[i].reply = tasks[i].reply
      BY <1>1, <1>4, <2>1, Goes DEF Fits
    <2> QED BY <1>1, <1>2, <2>1, <2>2, <2>3, TaskC
  <1> QED BY <1>3, <1>4

\* Children::settled leaves a child that drives no more.
LEMMA SettledIs ==
    ASSUME CInv, KInv', NEW i \in Ids, Settled(i), tasks[i].at \in {"fg", "drive"}
    PROVE  /\ But(slots', slots, i) /\ Ids' = Ids
           /\ slots'[i].waiter = slots[i].waiter /\ slots'[i].state \in {"Done", "Closed"}
           /\ slots'[i].state = "Done" => slots'[i].run = tasks[i].run
           /\ slots'[i].state = "Closed" => slots'[i].waiter = NoCall
           /\ slots'[i].interrupted = slots[i].interrupted
           /\ Live(slots'[i]) = Live(slots[i])
  <1> DEFINE s == [slots[i] EXCEPT !.state = "Done", !.claimed = TRUE, !.run = tasks[i].run]
  <1>1. Fits(slots[i], tasks[i]) /\ slots[i] \in Slots
    BY ChildOf
  <1>2. /\ s.state = "Done" /\ s.run = tasks[i].run /\ s.waiter = slots[i].waiter
        /\ s.interrupted = slots[i].interrupted
    BY <1>1 DEF Slots
  <1>3. CASE Working(slots[i])
    <2>1. slots' = [slots EXCEPT ![i] = s]
      BY <1>3 DEF Settled
    <2> HIDE DEF s
    <2>2. But(slots', slots, i) /\ slots'[i] = s /\ Ids' = Ids
      BY <2>1, Replaced
    <2> QED BY <1>2, <1>3, <2>2 DEF Live, Working
  <1>4. CASE ~Working(slots[i])
    <2>1. slots' = slots /\ slots[i].state = "Closed"
      BY <1>1, <1>4 DEF Settled, Fits, Working
    <2> QED BY <1>1, <2>1 DEF But, Ids, Fits
  <1> QED BY <1>3, <1>4

\* A oneshot kept for a call that waits for a reply is filled.
LEMMA ReplyC ==
    ASSUME CInv, KInv', NEW i \in Ids, Reply(i)
    PROVE  CInv'
  <1> DEFINE w == tasks[i].reply
             t == [tasks[i] EXCEPT !.at = "park", !.reply = NoCall]
  <1>1. /\ tasks[i].at = "drive" /\ Settled(i) /\ UNCHANGED <<any, reqs, turn>>
        /\ calls' = IF w \in Calls THEN Put(w, Handoff(i, tasks[i].run, FALSE)) ELSE calls
        /\ tasks' = [tasks EXCEPT ![i] = t]
    BY DEF Reply
  <1>2. t.at = "park" /\ t.reply = NoCall /\ t.run = tasks[i].run /\ tasks[i].run \in Nat
    BY ChildOf DEF Tasks
  <1> HIDE DEF t
  <1>3. But(tasks', tasks, i) /\ tasks'[i] = t
    BY <1>1, Moved
  <1>4. /\ But(slots', slots, i) /\ Ids' = Ids /\ slots'[i].waiter = slots[i].waiter
        /\ Fits(slots'[i], tasks'[i])
    BY <1>1, <1>2, <1>3, SettledIs DEF Fits
  <1>5. Fills({w} \cap Calls, "reply")
    <2>1. DOMAIN calls = Calls
      BY DEF CInv
    <2>2. CASE w \in Calls
      <3> DEFINE h == Handoff(i, tasks[i].run, FALSE)
      <3>1. calls' = [calls EXCEPT ![w].got = h]
        BY <1>1, <2>2 DEF Put
      <3> HIDE DEF h
      <3>2. /\ DOMAIN calls' = Calls /\ calls'[w] = [calls[w] EXCEPT !.got = h]
            /\ \A c \in Calls \ {w} : calls'[c] = calls[c]
        BY <2>1, <2>2, <3>1, Zenon
      <3>3. calls[w].at = "reply"
        BY <2>2, KeptIs
      <3>4. \E j \in Ids, r \in Nat, b \in BOOLEAN : h = Handoff(j, r, b)
        BY <1>2 DEF h
      <3> QED BY <2>2, <3>2, <3>3, <3>4 DEF Fills
    <2>3. CASE w \notin Calls
      BY <1>1, <2>1, <2>3 DEF Fills
    <2> QED BY <2>2, <2>3
  <1>6. NoCall \notin Calls /\ But(reqs', reqs, i)
    BY <1>1, BoundsAssumption DEF But
  <1>7. \A c \in {w} \cap Calls : /\ c \notin {slots[i].waiter, any}
                                  /\ reqs[i] # <<>> => reqs[i][1] # c
    BY KeptIs
  <1> QED BY <1>1, <1>2, <1>3, <1>4, <1>5, <1>6, <1>7, TaskC

\* The requests of a child, and whose they are.
LEMMA RepliersAre ==
    ASSUME CInv, NEW i \in Ids
    PROVE  /\ \A c \in Repliers(i) \cap Calls : calls[c].at = "reply"
           /\ \A c \in Repliers(i) : c = tasks[i].reply \/ (reqs[i] # <<>> /\ c = reqs[i][1])
           /\ tasks[i].reply \in Repliers(i) /\ (reqs[i] # <<>> => reqs[i][1] \in Repliers(i))
  <1>1. reqs[i] = <<>> \/ reqs[i] = <<reqs[i][1]>>
    BY KeptIs
  <1>2. Repliers(i) = {tasks[i].reply} \cup (IF reqs[i] = <<>> THEN {} ELSE {reqs[i][1]})
    <2>1. CASE reqs[i] = <<>>
      <3>1. 1..Len(reqs[i]) = {}
        BY <2>1
      <3> QED BY <2>1, <3>1, Zenon DEF Repliers
    <2>2. CASE reqs[i] # <<>>
      <3>4. \A x : Len(<<x>>) = 1
        OBVIOUS
      <3>1. Len(reqs[i]) = 1
        BY <1>1, <2>2, <3>4, Zenon
      <3>2. 1..Len(reqs[i]) = {1}
        BY <3>1
      <3>3. {reqs[i][k] : k \in {1}} = {reqs[i][1]}
        OBVIOUS
      <3> QED BY <2>2, <3>2, <3>3 DEF Repliers
    <2> QED BY <2>1, <2>2
  <1>3. tasks[i].reply \in Calls => calls[tasks[i].reply].at = "reply"
    BY KeptIs
  <1>4. reqs[i] # <<>> /\ reqs[i][1] \in Calls => calls[reqs[i][1]].at = "reply"
    BY KeptIs
  <1> QED BY <1>2, <1>3, <1>4

LEMMA EndC ==
    ASSUME CInv, KInv', NEW i \in Ids, End(i) \/ Panic(i)
    PROVE  CInv'
  <1> DEFINE C == Repliers(i) \cap Calls
             t == [tasks[i] EXCEPT !.at = "panicked", !.reply = NoCall]
  <1>1. /\ UNCHANGED <<slots, any, turn>> /\ calls' = Drop(Repliers(i))
        /\ reqs' = [reqs EXCEPT ![i] = <<>>]
        /\ \/ tasks[i].at = "park" /\ GoTo(i, "ended")
           \/ tasks[i].at = "drive" /\ tasks' = [tasks EXCEPT ![i] = t]
    BY DEF End, Panic
  <1>2. tasks[i] \in Tasks /\ Fits(slots[i], tasks[i]) /\ NoCall \notin Calls
    BY ChildOf, BoundsAssumption
  <1>3. /\ But(tasks', tasks, i) /\ tasks'[i].reply = NoCall /\ Fits(slots[i], tasks'[i])
    <2>1. CASE tasks[i].at = "park" /\ GoTo(i, "ended")
      BY <1>2, <2>1, Goes DEF Fits
    <2>2. CASE tasks[i].at = "drive" /\ tasks' = [tasks EXCEPT ![i] = t]
      <3>1. t.at = "panicked" /\ t.reply = NoCall
        BY <1>2 DEF Tasks
      <3> HIDE DEF t
      <3>2. But(tasks', tasks, i) /\ tasks'[i] = t
        BY <2>2, Moved
      <3> QED BY <1>2, <2>2, <3>1, <3>2 DEF Fits
    <2> QED BY <1>1, <2>1, <2>2
  <1>4. But(slots', slots, i) /\ Ids' = Ids
    BY <1>1 DEF But, Ids
  <1>5. But(reqs', reqs, i) /\ reqs'[i] = <<>>
    BY <1>1, RegistryOf DEF But
  <1>6. Fills(C, "reply")
    <2>1. DOMAIN calls' = Calls
      BY <1>1 DEF Drop
    <2>2. \A c \in Calls : calls'[c] = IF c \in Repliers(i) THEN [calls[c] EXCEPT !.got = Dropped] ELSE calls[c]
      BY <1>1 DEF Drop
    <2>3. \A c \in C : calls[c].at = "reply"
      BY RepliersAre
    <2> HIDE DEF C
    <2>4. \A c \in Calls : c \in C <=> c \in Repliers(i)
      BY DEF C
    <2>5. C \subseteq Calls
      BY DEF C
    <2> QED BY <2>1, <2>2, <2>3, <2>4, <2>5 DEF Fills
  <1>7. /\ \A c \in C : c \in {slots[i].waiter, any, tasks[i].reply} \/ (reqs[i] # <<>> /\ c = reqs[i][1])
        /\ slots[i].waiter \notin C /\ any \notin C
    BY RepliersAre, KeptIs
  <1> HIDE DEF C
  <1>8. C \in SUBSET Calls
    BY DEF C
  <1>9. tasks[i].at \notin {"none", "fg"} /\ tasks'[i].reply \notin Calls
    BY <1>1, <1>2, <1>3
  <1>10. \A c \in C : c \in {slots[i].waiter, any, tasks[i].reply} \/ (reqs[i] # <<>> /\ c = reqs[i][1])
    BY <1>7
  <1> QED BY <1>1, <1>3, <1>4, <1>5, <1>6, <1>7, <1>8, <1>9, <1>10, TaskC

LEMMA TakeRequestC ==
    ASSUME CInv, KInv', NEW i \in Ids, TakeRequest(i)
    PROVE  CInv'
  <1> DEFINE r == reqs[i][1]
             t == [at |-> "drive", run |-> tasks[i].run + 1, reply |-> r]
             s == [slots[i] EXCEPT !.state = "Running", !.run = 0]
  <1>1. /\ tasks[i].at = "park" /\ reqs[i] # <<>> /\ UNCHANGED <<any, calls, turn>>
        /\ tasks' = [tasks EXCEPT ![i] = t] /\ reqs' = [reqs EXCEPT ![i] = <<>>]
        /\ slots' = IF slots[i].state = "Done" THEN [slots EXCEPT ![i] = s] ELSE slots
    BY DEF TakeRequest
  <1>2. slots[i] \in Slots /\ Fits(slots[i], tasks[i])
    BY ChildOf
  <1>3. But(tasks', tasks, i) /\ tasks'[i].at = "drive" /\ tasks'[i].reply = r
    <2> HIDE DEF t
    <2>1. But(tasks', tasks, i) /\ tasks'[i] = t
      BY <1>1, Moved
    <2>2. t.at = "drive" /\ t.reply = r
      BY DEF t
    <2> QED BY <2>1, <2>2
  <1>4. s.state = "Running" /\ s.waiter = slots[i].waiter
    BY <1>2 DEF Slots
  <1> HIDE DEF s, t
  <1>5. /\ But(slots', slots, i) /\ Ids' = Ids /\ slots'[i].waiter = slots[i].waiter
        /\ slots'[i].state \in {"Running", "Closed"}
        /\ slots'[i].state = "Closed" => slots'[i] = slots[i]
    <2>1. CASE slots[i].state = "Done"
      BY <1>1, <1>4, <2>1, Replaced
    <2>2. CASE slots[i].state # "Done"
      <3>1. slots' = slots /\ slots[i].state = "Closed"
        BY <1>1, <1>2, <2>2 DEF Fits
      <3> QED BY <3>1 DEF But, Ids
    <2> QED BY <2>1, <2>2
  <1>6. \A j \in Ids \ {i} : slots'[j] = slots[j] /\ tasks'[j] = tasks[j] /\ reqs'[j] = reqs[j]
    BY <1>1, <1>3, <1>5, RegistryOf DEF But
  <1>7. Fits(slots'[i], tasks'[i])
    BY <1>2, <1>3, <1>5 DEF Fits
  <1>8. \A j \in Ids : Fits(slots'[j], tasks'[j])
    BY <1>6, <1>7, ChildOf
  <1>9. reqs'[i] = <<>>
    BY <1>1, RegistryOf
  <1>10. KeptBySlots' /\ KeptByAny'
    <2>1. \A j \in Ids : slots'[j].waiter = slots[j].waiter
      BY <1>5, <1>6
    <2>2. UNCHANGED <<any, calls>> /\ Ids' = Ids /\ KeptBySlots /\ KeptByAny
      BY <1>1, <1>5 DEF CInv, Kept
    <2>3. KeptBySlots'
      BY <2>1, <2>2 DEF KeptBySlots, Awaits
    <2>4. KeptByAny'
      BY <2>2 DEF KeptByAny, Awaits
    <2> QED BY <2>3, <2>4
  <1>11. KeptByTasks' /\ KeptByRequests'
    <2>1. r \in Calls => calls[r].at = "reply" /\ calls[r].got = Empty /\ calls[r].on = i
      BY <1>1, KeptIs
    <2> HIDE DEF r
    <2>2. KeptByTasks'
      BY <1>1, <1>3, <1>5, <1>6, <2>1, KeptIs DEF KeptByTasks, Awaits
    <2>3. KeptByRequests'
      BY <1>1, <1>5, <1>6, <1>9, KeptIs DEF KeptByRequests, Awaits
    <2> QED BY <2>2, <2>3
  <1>12. Begun'
    <2>1. \A c \in Calls : calls[c].at \in {"permit", "driving"} =>
              calls[c].on \in Ids /\ tasks[calls[c].on].at \in {"none", "fg"}
      BY CallOf DEF CallFits, CInv, Begun
    <2>2. \A c \in Calls : calls'[c].at \in {"permit", "driving"} =>
               /\ calls'[c].at = calls[c].at /\ calls'[c].on = calls[c].on
               /\ tasks'[calls[c].on].at = tasks[calls[c].on].at
      BY <1>1, <1>6, <2>1
    <2> QED BY <2>2, BegunStays
  <1>13. /\ DOMAIN calls' = Calls /\ (\A c \in Calls : CallFits(calls[c])') /\ Chunked'
    <2>1. \A c \in Calls : CallFits(calls[c])'
      BY <1>1, <1>5 DEF CInv, CallFits
    <2> QED BY <1>1, <2>1 DEF CInv, Chunked
  <1> QED BY <1>5, <1>8, <1>10, <1>11, <1>12, <1>13 DEF CInv, Kept

\* A slot nothing drives any more closes, and its waiter gets the error.
Abandons(i, E, C) ==
    /\ But(slots', slots, i) /\ Ids' = Ids
    /\ slots'[i].state = "Closed" /\ slots'[i].waiter = NoCall
    /\ any' \in Calls => any' = any /\ any \notin C
    /\ DOMAIN calls' = Calls /\ \A c \in Calls \ (C \cup E) : calls'[c] = calls[c]
    /\ \A c \in C : calls[c].at = "parked" /\ c \in {slots[i].waiter, any}
                    /\ calls'[c] = [calls[c] EXCEPT !.got = Handoff(i, tasks[i].run, FALSE)]
    /\ \A e \in E : calls'[e] = Idle
    /\ slots'[i].run = tasks[i].run \/ slots' = slots

LEMMA AbandonedIs ==
    ASSUME CInv, KInv', NEW i \in Ids, NEW E \in SUBSET Calls, Abandoned(i, E),
           tasks[i].at \in {"none", "panicked"}, \A e \in E : calls[e].at = "permit",
           NEW w, w = WaiterOf(i), NEW C, C = IF Working(slots[i]) THEN {w} \cap Calls ELSE {}
    PROVE  Abandons(i, E, C)
  <1>1. Fits(slots[i], tasks[i]) /\ slots[i] \in Slots /\ NoCall \notin Calls
    BY ChildOf, BoundsAssumption
  <1>2. CASE Working(slots[i])
    <2> DEFINE s == [slots[i] EXCEPT !.state = "Closed", !.waiter = NoCall, !.run = tasks[i].run]
               h == Handoff(i, tasks[i].run, FALSE)
    <2>1. /\ TakeAny(i) /\ slots' = [slots EXCEPT ![i] = s]
          /\ calls' = [c \in Calls |-> CASE c = w -> [calls[c] EXCEPT !.got = h]
                                         [] c \in E -> Idle
                                         [] OTHER -> calls[c]]
      BY <1>2 DEF Abandoned
    <2>2. s.state = "Closed" /\ s.waiter = NoCall /\ s.run = tasks[i].run
      BY <1>1 DEF Slots
    <2> HIDE DEF s, h
    <2>3. But(slots', slots, i) /\ slots'[i] = s /\ Ids' = Ids
      BY <2>1, Replaced
    <2>4. w \in Calls => calls[w].at = "parked" /\ w \in {slots[i].waiter, any}
      BY WaiterIs
    <2>5. w \notin E
      BY <2>4
    <2>6. /\ DOMAIN calls' = Calls
          /\ \A c \in Calls : calls'[c] = CASE c = w -> [calls[c] EXCEPT !.got = h]
                                            [] c \in E -> Idle
                                            [] OTHER -> calls[c]
      BY <2>1
    <2>7. /\ \A c \in Calls \ (C \cup E) : calls'[c] = calls[c]
          /\ \A c \in C : calls'[c] = [calls[c] EXCEPT !.got = h]
          /\ \A e \in E : calls'[e] = Idle
      <3>1. \A c \in Calls : c \in C <=> c = w
        BY <1>2
      <3>2. ASSUME NEW c \in Calls, c # w, c \notin E PROVE calls'[c] = calls[c]
        BY <2>6, <3>2
      <3>3. ASSUME NEW c \in Calls, c = w PROVE calls'[c] = [calls[c] EXCEPT !.got = h]
        BY <2>5, <2>6, <3>3
      <3>4. ASSUME NEW c \in E PROVE calls'[c] = Idle
        BY <2>5, <2>6, <3>4
      <3>5. C \subseteq Calls
        BY <1>2
      <3> QED BY <3>1, <3>2, <3>3, <3>4, <3>5
    <2>8. any' \in Calls => any' = any /\ any # w
      BY <1>1, <2>1, WaiterIs DEF TakeAny, WaiterOf
    <2> QED BY <1>2, <2>2, <2>3, <2>4, <2>6, <2>7, <2>8 DEF h, Abandons
  <1>3. CASE ~Working(slots[i])
    <2>1. /\ calls' = [c \in Calls |-> IF c \in E THEN Idle ELSE calls[c]] /\ UNCHANGED <<slots, any>>
      BY <1>3 DEF Abandoned
    <2>2. slots[i].state = "Closed" /\ slots[i].waiter = NoCall
      BY <1>1, <1>3 DEF Fits, Working
    <2> QED BY <1>3, <2>1, <2>2 DEF But, Ids, Abandons
  <1> QED BY <1>2, <1>3

LEMMA WatchC ==
    ASSUME CInv, KInv', NEW i \in Ids, Watch(i)
    PROVE  CInv'
  <1> SUFFICES ASSUME NEW w, w = WaiterOf(i),
                      NEW C, C = IF Working(slots[i]) THEN {w} \cap Calls ELSE {}
               PROVE  CInv'
    OBVIOUS
  <1>1. tasks[i].at = "panicked" /\ Abandoned(i, {}) /\ GoTo(i, "lastword") /\ UNCHANGED <<reqs, turn>>
    BY DEF Watch
  <1>2. /\ But(slots', slots, i) /\ Ids' = Ids
        /\ slots'[i].state = "Closed" /\ slots'[i].waiter = NoCall
        /\ any' \in Calls => any' = any /\ any \notin C
        /\ DOMAIN calls' = Calls /\ \A c \in Calls \ C : calls'[c] = calls[c]
        /\ \A c \in C : calls[c].at = "parked" /\ c \in {slots[i].waiter, any}
                        /\ calls'[c] = [calls[c] EXCEPT !.got = Handoff(i, tasks[i].run, FALSE)]
    <2>6. PICK E \in SUBSET Calls : E = {}
      OBVIOUS
    <2>1. E \in SUBSET Calls /\ (\A e \in E : calls[e].at = "permit") /\ Abandoned(i, E)
      BY <1>1, <2>6
    <2>2. Calls \ (C \cup E) = Calls \ C
      BY <2>6
    <2>4. tasks[i].at \in {"none", "panicked"}
      BY <1>1
    <2>5. Abandons(i, E, C)
      BY <2>1, <2>4, AbandonedIs
    <2> QED BY <2>2, <2>5 DEF Abandons
  <1>3. tasks[i].run \in Nat /\ Fits(slots[i], tasks[i]) /\ NoCall \notin Calls
    BY ChildOf, BoundsAssumption DEF Tasks
  <1>4. C \in SUBSET Calls
    OBVIOUS
  <1>5. Fills(C, "parked")
    <2> DEFINE h == Handoff(i, tasks[i].run, FALSE)
    <2>1. \E j \in Ids, r \in Nat, b \in BOOLEAN : h = Handoff(j, r, b)
      BY <1>3
    <2>2. \A c \in C : calls[c].at = "parked" /\ calls'[c] = [calls[c] EXCEPT !.got = h]
      BY <1>2
    <2> HIDE DEF h
    <2>3. \A c \in C : \E g : /\ calls'[c] = [calls[c] EXCEPT !.got = g]
                              /\ g = Dropped \/ \E j \in Ids, r \in Nat, b \in BOOLEAN : g = Handoff(j, r, b)
      BY <2>1, <2>2
    <2>4. DOMAIN calls' = Calls /\ \A c \in Calls \ C : calls'[c] = calls[c]
      BY <1>2
    <2> QED BY <2>2, <2>3, <2>4 DEF Fills
  <1>6. But(tasks', tasks, i) /\ tasks'[i].reply = NoCall /\ Fits(slots'[i], tasks'[i])
    BY <1>1, <1>2, <1>3, Goes DEF Fits
  <1>7. But(reqs', reqs, i) /\ (reqs[i] # <<>> => reqs[i][1] \notin C)
    BY <1>1, <1>2, <1>4, KeptIs DEF But
  <1>8. /\ \A c \in C : c \in {slots[i].waiter, any, tasks[i].reply} \/ (reqs[i] # <<>> /\ c = reqs[i][1])
        /\ slots'[i].waiter \notin Calls /\ tasks'[i].reply \notin Calls
        /\ tasks[i].at \notin {"none", "fg"} /\ reqs' = reqs
    BY <1>1, <1>2, <1>3, <1>6
  <1> QED BY <1>1, <1>2, <1>4, <1>5, <1>6, <1>7, <1>8, TaskC

-----------------------------------------------------------------------------
(* The steps of a call. *)

\* But for call c, some waiters of child i are served, and no other call changes.
Answers(C, i, c) ==
    /\ DOMAIN calls' = Calls /\ \A d \in Calls \ (C \cup {c}) : calls'[d] = calls[d]
    /\ \A d \in C : /\ calls[d].at = "parked" /\ d \in {slots[i].waiter, any}
                    /\ \E g : /\ calls'[d] = [calls[d] EXCEPT !.got = g]
                              /\ \E j \in Ids, r \in Nat, b \in BOOLEAN : g = Handoff(j, r, b)

\* A call that begins a child's first turn moves on, and so does the child.
LEMMA StartC ==
    ASSUME CInv, KInv', NEW c \in Calls, calls[c].at \in {"permit", "driving"},
           NEW i, i = calls[c].on, Ids' = Ids, NEW C \in SUBSET Calls,
           But(slots', slots, i), But(tasks', tasks, i), UNCHANGED <<reqs, turn>>,
           Answers(C, i, c), CallFits(calls'[c]),
           calls'[c].at \notin {"permit", "driving"}
               \/ (calls'[c].at = "driving" /\ calls'[c].on = i /\ tasks'[i].at = "fg"),
           Fits(slots'[i], tasks'[i]), tasks'[i].reply = tasks[i].reply,
           slots'[i].waiter \in Calls => slots'[i].waiter = slots[i].waiter /\ slots[i].waiter \notin C,
           any' \in Calls => any' = any /\ any \notin C
    PROVE  CInv'
  <1>1. i \in Ids /\ turn.at = "tools" /\ turn \in Turns
    BY CallOf, IdleFits DEF CallFits, CInv, Chunked
  <1>2. \A j \in Ids \ {i} : slots'[j] = slots[j] /\ tasks'[j] = tasks[j]
    BY RegistryOf DEF But
  <1>3. \A j \in Ids : Fits(slots'[j], tasks'[j])
    BY <1>2, ChildOf
  <1>4. \A d \in Calls \ {c} : CallFits(calls'[d]) /\ calls'[d].at = calls[d].at /\ calls'[d].on = calls[d].on
    <2> SUFFICES ASSUME NEW d \in Calls \ {c}
                 PROVE  CallFits(calls'[d]) /\ calls'[d].at = calls[d].at /\ calls'[d].on = calls[d].on
      OBVIOUS
    <2>1. CASE d \in C
      <3>1. PICK g : /\ calls'[d] = [calls[d] EXCEPT !.got = g]
                     /\ \E j \in Ids, r \in Nat, b \in BOOLEAN : g = Handoff(j, r, b)
        BY <2>1 DEF Answers
      <3>2. CallFits(calls[d]) /\ calls[d].at \in {"parked", "reply"}
        BY <2>1, CallOf DEF Answers
      <3> QED BY <3>1, <3>2, GotFits
    <2>2. CASE d \notin C
      <3>1. calls'[d] = calls[d] /\ CallFits(calls[d])
        BY <2>2, CallOf DEF Answers
      <3> QED BY <3>1
    <2> QED BY <2>1, <2>2
  <1>5. \A d \in Calls : CallFits(calls[d])'
    <2>1. \A d \in Calls : CallFits(calls'[d])
      BY <1>4
    <2> QED BY <2>1 DEF CallFits
  <1>6. Begun'
    <2>1. \A d \in Calls \ {c} : calls[d].at \in {"permit", "driving"} => calls[d].on \in Ids \ {i}
      <3>1. \A d \in Calls : calls[d].at \in {"permit", "driving"} => calls[d].on \in Ids
        BY CallOf DEF CallFits
      <3> QED BY <3>1 DEF CInv, Begun
    <2>2. \A d \in Calls : calls'[d].at = "permit" => tasks'[calls'[d].on].at = "none"
      BY <1>2, <1>4, <2>1 DEF CInv, Begun
    <2>3. \A d \in Calls : calls'[d].at = "driving" => tasks'[calls'[d].on].at = "fg"
      BY <1>2, <1>4, <2>1 DEF CInv, Begun
    <2>4. \A d, e \in Calls :
              calls'[d].at \in {"permit", "driving"} /\ calls'[e].at \in {"permit", "driving"} =>
                  calls'[d].on # calls'[e].on \/ d = e
      <3> SUFFICES ASSUME NEW d \in Calls, NEW e \in Calls, d # e,
                          calls'[d].at \in {"permit", "driving"}, calls'[e].at \in {"permit", "driving"}
                   PROVE  calls'[d].on # calls'[e].on
        OBVIOUS
      <3>1. CASE d # c /\ e # c
        BY <3>1, <1>4 DEF CInv, Begun
      <3>2. CASE d = c
        BY <3>2, <1>4, <2>1
      <3>3. CASE e = c
        BY <3>3, <1>4, <2>1
      <3> QED BY <3>1, <3>2, <3>3
    <2> QED BY <2>2, <2>3, <2>4 DEF Begun
  <1>7. Kept'
    <2>1. \A d \in Calls : d \in C \/ d = c \/ calls'[d] = calls[d]
      BY DEF Answers
    <2>2. /\ \A j \in Ids : slots[j].waiter # c /\ tasks[j].reply # c
          /\ any # c /\ \A j \in Ids : reqs[j] # <<>> => reqs[j][1] # c
      BY KeptIs
    <2>3. \A d \in C : \/ calls[d].op = "waitAny" /\ calls[d].at = "parked"
                       \/ calls[d].op = "wait" /\ calls[d].at = "parked" /\ calls[d].on = i
      <3> SUFFICES ASSUME NEW d \in C
                   PROVE  \/ calls[d].op = "waitAny" /\ calls[d].at = "parked"
                          \/ calls[d].op = "wait" /\ calls[d].at = "parked" /\ calls[d].on = i
        OBVIOUS
      <3>1. d \in Calls /\ (d = slots[i].waiter \/ d = any)
        BY DEF Answers
      <3>2. CASE d = slots[i].waiter
        BY <1>1, <3>1, <3>2, KeptIs
      <3>3. CASE d = any
        BY <3>1, <3>3, KeptIs
      <3> QED BY <3>1, <3>2, <3>3
    <2>4. \A j \in Ids : slots'[j].waiter \in Calls =>
              slots'[j].waiter = slots[j].waiter /\ slots[j].waiter \notin C
      BY <1>2, <2>3, KeptIs
    <2>5. \A j \in Ids : tasks'[j].reply \in Calls =>
              tasks'[j].reply = tasks[j].reply /\ tasks[j].reply \notin C
      BY <1>2, <2>3, KeptIs
    <2>6. \A j \in Ids : reqs'[j] # <<>> =>
              reqs'[j] = reqs[j] /\ (reqs[j][1] \in Calls => reqs[j][1] \notin C)
      BY <2>3, KeptIs
    <2>7. \A j \in Ids : slots'[j].waiter \in Calls =>
              slots'[j].waiter = slots[j].waiter /\ calls'[slots[j].waiter] = calls[slots[j].waiter]
      BY <2>1, <2>2, <2>4
    <2>8. any' \in Calls => any' = any /\ calls'[any] = calls[any]
      BY <2>1, <2>2
    <2>9. \A j \in Ids : tasks'[j].reply \in Calls =>
              tasks'[j].reply = tasks[j].reply /\ calls'[tasks[j].reply] = calls[tasks[j].reply]
      BY <2>1, <2>2, <2>5
    <2>10. \A j \in Ids : reqs'[j] # <<>> =>
               /\ reqs'[j] = <<reqs'[j][1]>>
               /\ reqs'[j][1] \in Calls =>
                     /\ reqs'[j] = reqs[j] /\ calls'[reqs[j][1]] = calls[reqs[j][1]]
                     /\ tasks'[j].reply \in Calls => tasks'[j].reply = tasks[j].reply
      BY <2>1, <2>2, <2>5, <2>6, KeptIs
    <2> QED BY <2>7, <2>8, <2>9, <2>10, KeptStays
  <1>8. Chunked'
    BY <1>1 DEF Chunked
  <1>9. DOMAIN calls' = Calls
    BY DEF Answers
  <1> QED BY <1>3, <1>5, <1>6, <1>7, <1>8, <1>9 DEF CInv

LEMMA OverIs ==
    ASSUME CInv, NEW c \in Calls, calls' = Over(c)
    PROVE  /\ DOMAIN calls' = Calls /\ calls'[c] = Idle
           /\ \A d \in Calls \ {c} : calls'[d] = calls[d]
  <1>1. DOMAIN calls = Calls
    BY DEF CInv
  <1> QED BY <1>1, Zenon DEF Over

LEMMA SpawnStartsC ==
    ASSUME CInv, KInv', NEW c \in Calls, SpawnStarts(c)
    PROVE  CInv'
  <1> DEFINE k == [calls[c] EXCEPT !.at = "driving"]
  <1> SUFFICES ASSUME NEW i, i = calls[c].on
               PROVE  CInv'
    OBVIOUS
  <1>1. /\ calls[c].at = "permit" /\ UNCHANGED <<slots, any, reqs, turn>>
        /\ \/ GoTo(i, "drive") /\ calls' = Over(c)
           \/ GoTo(i, "fg") /\ calls' = [calls EXCEPT ![c] = k]
    BY DEF SpawnStarts, GoTo
  <1>2. CallFits(calls[c]) /\ i \in Ids /\ tasks[i].at = "none"
    BY <1>1, CallOf DEF CInv, Begun, CallFits
  <1>3. Fits(slots[i], tasks[i])
    BY <1>2, ChildOf
  <1>4. /\ But(tasks', tasks, i) /\ tasks'[i].reply = tasks[i].reply /\ Fits(slots[i], tasks'[i])
    <2>1. \A at \in {"drive", "fg"} : GoTo(i, at) =>
              But(tasks', tasks, i) /\ tasks'[i].reply = tasks[i].reply /\ Fits(slots[i], tasks'[i])
      BY <1>2, <1>3, Goes DEF Fits
    <2> QED BY <1>1, <2>1
  <1>5. /\ DOMAIN calls' = Calls /\ \A d \in Calls \ {c} : calls'[d] = calls[d]
        /\ CallFits(calls'[c])
        /\ calls'[c].at \notin {"permit", "driving"}
               \/ (calls'[c].at = "driving" /\ calls'[c].on = i /\ tasks'[i].at = "fg")
    <2>1. CASE calls' = Over(c)
      BY <2>1, OverIs, IdleFits
    <2>2. CASE GoTo(i, "fg") /\ calls' = [calls EXCEPT ![c] = k]
      <3>1. CallFits(k) /\ k.at = "driving" /\ k.on = i
        BY <1>1, <1>2 DEF CallFits, CallRecords, Steps
      <3> HIDE DEF k
      <3>2. DOMAIN calls' = Calls /\ calls'[c] = k /\ \A d \in Calls \ {c} : calls'[d] = calls[d]
        BY <2>2 DEF CInv
      <3>3. tasks'[i].at = "fg"
        BY <1>2, <2>2, Goes
      <3> QED BY <3>1, <3>2, <3>3
    <2> QED BY <1>1, <2>1, <2>2
  <1>6. Ids' = Ids /\ But(slots', slots, i)
    BY <1>1 DEF Ids, But
  <1>7. PICK C \in SUBSET Calls : C = {}
    OBVIOUS
  <1>8. Answers(C, i, c)
    BY <1>5, <1>7 DEF Answers
  <1>9. calls[c].at \in {"permit", "driving"} /\ any \notin C /\ slots[i].waiter \notin C
    BY <1>1, <1>7
  <1> QED BY <1>1, <1>4, <1>5, <1>6, <1>8, <1>9, StartC

LEMMA SpawnFailsC ==
    ASSUME CInv, KInv', NEW c \in Calls, SpawnFails(c)
    PROVE  CInv'
  <1> SUFFICES ASSUME NEW i, i = calls[c].on, NEW w, w = WaiterOf(i),
                      NEW C, C = IF Working(slots[i]) THEN {w} \cap Calls ELSE {}
               PROVE  CInv'
    OBVIOUS
  <1>1. calls[c].at = "permit" /\ Abandoned(i, {c}) /\ GoTo(i, "ended") /\ UNCHANGED <<reqs, turn>>
    BY DEF SpawnFails, GoTo
  <1>2. i \in Ids /\ tasks[i].at = "none" /\ tasks[i].run \in Nat /\ Fits(slots[i], tasks[i])
    <2>1. i \in Ids /\ tasks[i].at = "none"
      BY <1>1, CallOf DEF CInv, Begun, CallFits
    <2> QED BY <2>1, ChildOf DEF Tasks
  <1>3. Abandons(i, {c}, C)
    <2>1. PICK E \in SUBSET Calls : E = {c}
      OBVIOUS
    <2>2. (\A e \in E : calls[e].at = "permit") /\ Abandoned(i, E)
      BY <1>1, <2>1
    <2>3. Abandons(i, E, C)
      BY <1>2, <2>2, AbandonedIs
    <2> QED BY <2>1, <2>3
  <1>4. /\ But(slots', slots, i) /\ Ids' = Ids
        /\ slots'[i].state = "Closed" /\ slots'[i].waiter = NoCall
        /\ any' \in Calls => any' = any /\ any \notin C
        /\ DOMAIN calls' = Calls /\ \A d \in Calls \ (C \cup {c}) : calls'[d] = calls[d]
        /\ calls'[c] = Idle
    BY <1>3 DEF Abandons
  <1>5. \A d \in C : /\ calls[d].at = "parked" /\ d \in {slots[i].waiter, any}
                     /\ \E g : /\ calls'[d] = [calls[d] EXCEPT !.got = g]
                               /\ \E j \in Ids, r \in Nat, b \in BOOLEAN : g = Handoff(j, r, b)
    <2> DEFINE h == Handoff(i, tasks[i].run, FALSE)
    <2>1. \E j \in Ids, r \in Nat, b \in BOOLEAN : h = Handoff(j, r, b)
      BY <1>2
    <2>2. \A d \in C : /\ calls[d].at = "parked" /\ d \in {slots[i].waiter, any}
                       /\ calls'[d] = [calls[d] EXCEPT !.got = h]
      BY <1>3 DEF Abandons
    <2> HIDE DEF h
    <2> QED BY <2>1, <2>2
  <1>6. But(tasks', tasks, i) /\ tasks'[i].reply = tasks[i].reply /\ Fits(slots'[i], tasks'[i])
    BY <1>1, <1>2, <1>4, Goes DEF Fits
  <1>7. CallFits(calls'[c]) /\ calls'[c].at \notin {"permit", "driving"} /\ NoCall \notin Calls
        /\ C \in SUBSET Calls
    BY <1>4, IdleFits, BoundsAssumption
  <1>8. Answers(C, i, c)
    BY <1>4, <1>5 DEF Answers
  <1>9. calls[c].at \in {"permit", "driving"}
    BY <1>1
  <1> QED BY <1>1, <1>4, <1>6, <1>7, <1>8, <1>9, StartC

LEMMA SpawnReturnsC ==
    ASSUME CInv, KInv', NEW c \in Calls, SpawnReturns(c)
    PROVE  CInv'
  <1> SUFFICES ASSUME NEW i, i = calls[c].on
               PROVE  CInv'
    OBVIOUS
  <1>1. /\ calls[c].at = "driving" /\ Settled(i) /\ GoTo(i, "park") /\ calls' = Over(c)
        /\ UNCHANGED <<any, reqs, turn>>
    BY DEF SpawnReturns, GoTo
  <1>2. i \in Ids /\ tasks[i].at = "fg" /\ Fits(slots[i], tasks[i])
    <2>1. i \in Ids /\ tasks[i].at = "fg"
      BY <1>1, CallOf DEF CInv, Begun, CallFits
    <2> QED BY <2>1, ChildOf
  <1>3. /\ But(slots', slots, i) /\ Ids' = Ids
        /\ slots'[i].waiter = slots[i].waiter /\ slots'[i].state \in {"Done", "Closed"}
        /\ slots'[i].state = "Done" => slots'[i].run = tasks[i].run
        /\ slots'[i].state = "Closed" => slots'[i].waiter = NoCall
    BY <1>1, <1>2, SettledIs
  <1>4. /\ But(tasks', tasks, i) /\ tasks'[i].reply = tasks[i].reply /\ Fits(slots'[i], tasks'[i])
    BY <1>1, <1>2, <1>3, Goes DEF Fits
  <1>5. /\ DOMAIN calls' = Calls /\ \A d \in Calls \ {c} : calls'[d] = calls[d]
        /\ CallFits(calls'[c]) /\ calls'[c].at \notin {"permit", "driving"}
    BY <1>1, OverIs, IdleFits
  <1>7. PICK C \in SUBSET Calls : C = {}
    OBVIOUS
  <1>8. Answers(C, i, c)
    BY <1>5, <1>7 DEF Answers
  <1>9. calls[c].at \in {"permit", "driving"} /\ any \notin C /\ slots[i].waiter \notin C
    BY <1>1, <1>7
  <1> QED BY <1>1, <1>3, <1>4, <1>5, <1>8, <1>9, StartC

\* The receivers of a call that ends are dropped, and its senders are dead.
LEMMA DropC ==
    ASSUME CInv, KInv', NEW c \in Calls, WaitCancelled(c) \/ WaitTimesOut(c)
    PROVE  CInv'
  <1>1. /\ calls[c].at = "parked" /\ UNCHANGED <<tasks, reqs, turn>>
        /\ calls' = Over(c) /\ any' = Dead(any, c)
        /\ slots' = [i \in Ids |-> [slots[i] EXCEPT !.waiter = Dead(@, c)]]
    BY DEF WaitCancelled, WaitTimesOut, DropReceivers
  <1>2. /\ DOMAIN calls' = Calls /\ calls'[c] = Idle
        /\ \A d \in Calls \ {c} : calls'[d] = calls[d]
    BY <1>1, OverIs
  <1>3. Ids' = Ids
    <2>1. DOMAIN slots' = Ids
      BY <1>1
    <2> QED BY <2>1, RegistryOf DEF KInv, Registry, Ids
  <1>4. \A i \in Ids : /\ slots'[i].state = slots[i].state /\ slots'[i].run = slots[i].run
                       /\ slots'[i].waiter = Dead(slots[i].waiter, c)
    <2> SUFFICES ASSUME NEW i \in Ids
                 PROVE  /\ slots'[i].state = slots[i].state /\ slots'[i].run = slots[i].run
                        /\ slots'[i].waiter = Dead(slots[i].waiter, c)
      OBVIOUS
    <2> DEFINE w == Dead(slots[i].waiter, c)
    <2>1. slots'[i] = [slots[i] EXCEPT !.waiter = w]
      BY <1>1
    <2> HIDE DEF w
    <2>2. slots'[i].state = slots[i].state /\ slots'[i].run = slots[i].run /\ slots'[i].waiter = w
      BY <2>1, ChildOf DEF Slots
    <2> QED BY <2>2 DEF w
  <1>5. \A w : Dead(w, c) \in Calls => Dead(w, c) = w /\ w # c
    BY BoundsAssumption DEF Dead
  <1>6. Dead(NoCall, c) = NoCall
    BY BoundsAssumption DEF Dead
  <1>7. \A i \in Ids : Fits(slots'[i], tasks'[i])
    BY <1>1, <1>4, <1>6, ChildOf DEF Fits
  <1>8. \A d \in Calls : CallFits(calls[d])'
    BY <1>2, <1>3, IdleFits, CallOf DEF CallFits
  <1>9. Begun'
    BY <1>1, <1>2, IdleFits, BegunStays
  <1>10. Kept'
    <2>1. /\ \A i \in Ids : tasks[i].reply # c
          /\ \A i \in Ids : reqs[i] # <<>> => reqs[i][1] # c
      BY <1>1, KeptIs
    <2> QED BY <1>1, <1>2, <1>3, <1>4, <1>5, <2>1, KeptIs, KeptStays
  <1>11. Chunked'
    <2>1. turn.at = "tools" /\ turn \in Turns
      BY <1>1, CallOf DEF CInv, Chunked
    <2> QED BY <1>1, <2>1 DEF Chunked
  <1> QED BY <1>2, <1>3, <1>7, <1>8, <1>9, <1>10, <1>11 DEF CInv

\* A `wait` that finds its result takes it.
LEMMA TakeDoneC ==
    ASSUME CInv, KInv', NEW c \in Calls, NEW i \in Ids, calls[c].at = "due",
           TakeDone(c, i), UNCHANGED <<tasks, reqs, turn>>
    PROVE  CInv'
  <1> DEFINE k == [calls[c] EXCEPT !.at = "withdraw", !.on = i]
             s == [slots[i] EXCEPT !.claimed = TRUE]
  <1>1. slots' = [slots EXCEPT ![i] = s] /\ calls' = [calls EXCEPT ![c] = k] /\ UNCHANGED any
    BY DEF TakeDone
  <1>2. s.state = slots[i].state /\ s.run = slots[i].run /\ s.waiter = slots[i].waiter
    BY ChildOf DEF Slots
  <1>3. CallFits(k) /\ k.at = "withdraw"
    <2>1. i \in Nat
      BY DEF Ids
    <2> QED BY <2>1, CallOf DEF CallFits, CallRecords, Steps
  <1> HIDE DEF k, s
  <1>4. But(slots', slots, i) /\ slots'[i] = s /\ Ids' = Ids
    BY <1>1, Replaced
  <1>5. DOMAIN calls' = Calls /\ calls'[c] = k /\ \A d \in Calls \ {c} : calls'[d] = calls[d]
    BY <1>1 DEF CInv
  <1>6. \A j \in Ids : /\ slots'[j].state = slots[j].state /\ slots'[j].run = slots[j].run
                       /\ slots'[j].waiter = slots[j].waiter
    BY <1>2, <1>4, RegistryOf DEF But
  <1>7. \A j \in Ids : Fits(slots'[j], tasks'[j])
    BY <1>6, ChildOf DEF Fits
  <1>8. \A d \in Calls : CallFits(calls[d])'
    BY <1>3, <1>4, <1>5, CallOf DEF CallFits
  <1>9. Begun'
    BY <1>3, <1>5, BegunStays
  <1>10. Kept'
    <2>1. /\ \A j \in Ids : tasks[j].reply # c /\ slots[j].waiter # c
          /\ any # c /\ \A j \in Ids : reqs[j] # <<>> => reqs[j][1] # c
      BY KeptIs
    <2> QED BY <1>1, <1>4, <1>5, <1>6, <2>1, KeptIs, KeptStays
  <1>11. Chunked'
    <2>1. turn.at = "tools" /\ turn \in Turns
      BY CallOf DEF CInv, Chunked
    <2> QED BY <2>1 DEF Chunked
  <1> QED BY <1>4, <1>5, <1>7, <1>8, <1>9, <1>10, <1>11 DEF CInv

\* A `wait` that finds nothing is refused, or leaves its sender.
LEMMA RefusedC ==
    ASSUME CInv, NEW c \in Calls, calls[c].at = "due", Refused(c), UNCHANGED <<tasks, reqs, turn>>
    PROVE  CInv'
  <1>1. But(calls', calls, c) /\ calls'[c] = Idle /\ UNCHANGED <<slots, any, tasks, reqs, turn>>
    BY OverIs DEF Refused, But, CInv
  <1>2. CallFits(calls'[c]) /\ calls'[c].at \notin {"permit", "driving"}
    BY <1>1, IdleFits
  <1> QED BY <1>1, <1>2, OneCall

\* The oldest of some children is one of them.
LEMMA OldestIn ==
    ASSUME CInv, NEW S \in SUBSET Ids, S # {}
    PROVE  Oldest(S) \in S /\ Oldest(S) \in Ids
  <1>1. S \subseteq Nat
    BY RegistryOf
  <1>2. PICK n \in Nat : n \in S
    BY <1>1
  <1>3. IsWellFoundedOn(OpToRel(<, Nat), Nat)
    BY NatLessThanWellFounded
  <1>4. \E i \in S : \A j \in S : ~(<<j, i>> \in OpToRel(<, Nat))
    BY <1>1, <1>2, <1>3, WFMin
  <1>5. \A i \in S : \A j \in S : ~(<<j, i>> \in OpToRel(<, Nat)) => i <= j
    BY <1>1 DEF OpToRel
  <1>6. \E i \in S : \A j \in S : i <= j
    BY <1>4, <1>5
  <1> QED BY <1>6 DEF Oldest

\* A `wait` parks: its sender is kept in the slot, or for whichever child ends first.
LEMMA ParkedC ==
    ASSUME CInv, KInv', NEW c \in Calls, calls[c].at = "due", UNCHANGED <<tasks, reqs, turn>>,
           calls' = [calls EXCEPT ![c].at = "parked"],
           \/ /\ calls[c].op = "wait" /\ UNCHANGED any
              /\ calls[c].on \in Ids => Working(slots[calls[c].on])
              /\ slots' = [slots EXCEPT ![calls[c].on].waiter = c]
           \/ calls[c].op = "waitAny" /\ any' = c /\ UNCHANGED slots
    PROVE  CInv'
  <1> DEFINE k == [calls[c] EXCEPT !.at = "parked"]
  <1>1. CallFits(k) /\ k.at = "parked" /\ k.op = calls[c].op /\ k.on = calls[c].on /\ k.got = Empty
    BY CallOf DEF CallFits, CallRecords, Steps
  <1>2. calls' = [calls EXCEPT ![c] = k]
    OBVIOUS
  <1> HIDE DEF k
  <1>3. DOMAIN calls' = Calls /\ calls'[c] = k /\ \A d \in Calls \ {c} : calls'[d] = calls[d]
    BY <1>2 DEF CInv
  <1>4. /\ Ids' = Ids
        /\ \A i \in Ids : /\ slots'[i].state = slots[i].state /\ slots'[i].run = slots[i].run
                          /\ \/ slots'[i].waiter = slots[i].waiter
                             \/ /\ slots'[i].waiter = c /\ calls[c].op = "wait"
                                /\ calls[c].on = i /\ Working(slots[i])
    <2>1. CASE calls[c].op = "wait"
      <3> SUFFICES ASSUME NEW n, n = calls[c].on
                   PROVE  /\ Ids' = Ids
                          /\ \A i \in Ids : /\ slots'[i].state = slots[i].state /\ slots'[i].run = slots[i].run
                                            /\ \/ slots'[i].waiter = slots[i].waiter
                                               \/ slots'[i].waiter = c /\ n = i /\ Working(slots[i])
        BY <2>1
      <3> DEFINE s == [slots[n] EXCEPT !.waiter = c]
      <3>1. n \in Ids /\ Working(slots[n])
        BY <2>1, CallOf DEF CallFits
      <3>2. s.state = slots[n].state /\ s.run = slots[n].run /\ s.waiter = c
        BY <3>1, ChildOf DEF Slots
      <3>3. slots' = [slots EXCEPT ![n] = s]
        BY <2>1
      <3> HIDE DEF s
      <3>4. But(slots', slots, n) /\ slots'[n] = s /\ Ids' = Ids
        BY <3>1, <3>3, Replaced
      <3> QED BY <3>1, <3>2, <3>4, RegistryOf DEF But
    <2>2. CASE calls[c].op # "wait"
      <3>1. UNCHANGED slots
        BY <2>2
      <3> QED BY <3>1 DEF Ids
    <2> QED BY <2>1, <2>2
  <1>5. \A i \in Ids : Fits(slots'[i], tasks'[i])
    BY <1>4, ChildOf DEF Fits, Working
  <1>6. \A d \in Calls : CallFits(calls[d])'
    BY <1>1, <1>3, <1>4, CallOf DEF CallFits
  <1>7. Begun'
    BY <1>1, <1>3, BegunStays
  <1>8. KeptBySlots'
    <2> SUFFICES ASSUME NEW i \in Ids, NEW w \in Calls, w = slots'[i].waiter
                 PROVE  /\ calls'[w].at = "parked" /\ calls'[w].got = Empty
                        /\ calls'[w].op = "wait" /\ calls'[w].on = i
      BY <1>4 DEF KeptBySlots, Awaits
    <2>1. CASE w = slots[i].waiter
      <3>1. w # c
        BY <2>1, KeptIs
      <3>2. calls'[w] = calls[w]
        BY <1>3, <3>1
      <3> QED BY <2>1, <3>2, KeptIs
    <2>2. CASE w # slots[i].waiter
      <3>1. w = c /\ calls[c].op = "wait" /\ calls[c].on = i
        BY <1>4, <2>2
      <3> QED BY <1>1, <1>3, <3>1
    <2> QED BY <2>1, <2>2
  <1>9. KeptByAny'
    <2>1. CASE any' = any
      <3>1. any # c
        BY KeptIs
      <3> QED BY <1>3, <2>1, <3>1, KeptIs DEF KeptByAny, Awaits
    <2>2. CASE any' = c /\ calls[c].op = "waitAny"
      BY <1>1, <1>3, <2>2 DEF KeptByAny, Awaits
    <2> QED BY <2>1, <2>2
  <1>10. KeptByTasks' /\ KeptByRequests'
    <2>1. /\ \A j \in Ids : tasks[j].reply # c
          /\ \A j \in Ids : reqs[j] # <<>> => reqs[j][1] # c
      BY KeptIs
    <2>2. KeptByTasks'
      BY <1>3, <1>4, <2>1, KeptIs DEF KeptByTasks, Awaits
    <2>3. KeptByRequests'
      BY <1>3, <1>4, <2>1, KeptIs DEF KeptByRequests, Awaits
    <2> QED BY <2>2, <2>3
  <1>11. Chunked'
    <2>1. turn.at = "tools" /\ turn \in Turns
      BY CallOf DEF CInv, Chunked
    <2> QED BY <2>1 DEF Chunked
  <1> QED BY <1>3, <1>4, <1>5, <1>6, <1>7, <1>8, <1>9, <1>10, <1>11 DEF CInv, Kept

LEMMA WaitC ==
    ASSUME CInv, KInv', NEW c \in Calls, Wait(c) \/ WaitAny(c)
    PROVE  CInv'
  <1>1. calls[c].at = "due" /\ UNCHANGED <<tasks, reqs, turn>>
    BY DEF Wait, WaitAny
  <1>2. CASE Wait(c)
    <2>1. calls[c].op = "wait" /\ calls[c].on \in Ids
      BY <1>2, CallOf DEF Wait, CallFits
    <2>2. \/ TakeDone(c, calls[c].on)
          \/ /\ UNCHANGED any /\ Working(slots[calls[c].on])
             /\ slots' = [slots EXCEPT ![calls[c].on].waiter = c]
             /\ calls' = [calls EXCEPT ![c].at = "parked"]
          \/ Refused(c)
      BY <1>2 DEF Wait
    <2> QED BY <1>1, <2>1, <2>2, TakeDoneC, RefusedC, ParkedC
  <1>3. CASE WaitAny(c)
    <2>1. \/ Unclaimed # {} /\ TakeDone(c, Oldest(Unclaimed))
          \/ /\ any' = c /\ UNCHANGED slots
             /\ calls' = [calls EXCEPT ![c].at = "parked"]
          \/ Refused(c)
      BY <1>3 DEF WaitAny
    <2>2. Unclaimed # {} => Oldest(Unclaimed) \in Ids
      BY OldestIn DEF Unclaimed, Parked
    <2>3. calls[c].op = "waitAny"
      BY <1>3 DEF WaitAny
    <2> QED BY <1>1, <2>1, <2>2, <2>3, TakeDoneC, RefusedC, ParkedC
  <1> QED BY <1>2, <1>3

\* A call of which nobody keeps a sender ends or goes on, in a registry that stays.
LEMMA ResumeSendsC ==
    ASSUME CInv, KInv', NEW c \in Calls, ResumeSends(c)
    PROVE  CInv'
  <1> SUFFICES ASSUME NEW i, i = calls[c].on
               PROVE  CInv'
    OBVIOUS
  <1>1. /\ calls[c].at = "send" /\ UNCHANGED <<slots, any, tasks, turn>>
        /\ i \in Ids /\ calls[c].got = Empty /\ CallFits(calls[c])
    BY CallOf DEF ResumeSends, CallFits
  <1>2. CASE tasks[i].at \in {"panicked", "lastword", "ended"}
    <2>1. calls' = Over(c) /\ UNCHANGED reqs
      BY <1>2 DEF ResumeSends
    <2>2. But(calls', calls, c) /\ CallFits(calls'[c]) /\ calls'[c].at \notin {"permit", "driving"}
      BY <2>1, OverIs, IdleFits DEF But, CInv
    <2> QED BY <1>1, <2>1, <2>2, OneCall
  <1>3. CASE tasks[i].at \notin {"panicked", "lastword", "ended"}
    <2> DEFINE k == [calls[c] EXCEPT !.at = "reply"]
    <2>1. \E x \in {NoCall, c} : /\ reqs' = [reqs EXCEPT ![i] = <<x>>]
                                 /\ x = NoCall => calls' = Over(c)
                                 /\ x = c => calls' = [calls EXCEPT ![c] = k]
      BY <1>3, BoundsAssumption DEF ResumeSends
    <2>2. PICK x \in {NoCall, c} : /\ reqs' = [reqs EXCEPT ![i] = <<x>>]
                                   /\ x = NoCall => calls' = Over(c)
                                   /\ x = c => calls' = [calls EXCEPT ![c] = k]
      BY <2>1
    <2>3. CallFits(k) /\ k.at = "reply" /\ k.on = i /\ k.got = Empty
      BY <1>1 DEF CallFits, CallRecords, Steps
    <2> HIDE DEF k
    <2>4. /\ DOMAIN calls' = Calls /\ \A d \in Calls \ {c} : calls'[d] = calls[d]
          /\ calls'[c] = IF x = c THEN k ELSE Idle
      <3>1. CASE x = NoCall
        BY <2>2, <3>1, OverIs, BoundsAssumption
      <3>2. CASE x = c
        BY <2>2, <3>2 DEF CInv
      <3> QED BY <3>1, <3>2
    <2>5. CallFits(calls'[c]) /\ calls'[c].at \notin {"permit", "driving"}
      BY <2>3, <2>4, IdleFits
    <2>6. reqs'[i] = <<x>> /\ \A j \in Ids \ {i} : reqs'[j] = reqs[j]
      BY <1>1, <2>2, RegistryOf
    <2>7. Ids' = Ids
      BY <1>1 DEF Ids
    <2>8. \A d \in Calls : CallFits(calls[d])'
      BY <2>4, <2>5, <2>7, CallOf DEF CallFits
    <2>9. Begun'
      BY <1>1, <2>4, <2>5, BegunStays
    <2>10. /\ \A j \in Ids : slots[j].waiter # c /\ tasks[j].reply # c
           /\ any # c /\ \A j \in Ids : reqs[j] # <<>> => reqs[j][1] # c
      BY <1>1, KeptIs
    <2>11. KeptBySlots' /\ KeptByAny' /\ KeptByTasks'
      <3>1. KeptBySlots'
        BY <1>1, <2>4, <2>7, <2>10, KeptIs DEF KeptBySlots, Awaits
      <3>2. KeptByAny'
        BY <1>1, <2>4, <2>10, KeptIs DEF KeptByAny, Awaits
      <3>3. KeptByTasks'
        BY <1>1, <2>4, <2>7, <2>10, KeptIs DEF KeptByTasks, Awaits
      <3> QED BY <3>1, <3>2, <3>3
    <2>12. KeptByRequests'
      <3> SUFFICES ASSUME NEW j \in Ids, reqs'[j] # <<>>
                   PROVE  /\ reqs'[j] = <<reqs'[j][1]>>
                          /\ reqs'[j][1] \in Calls =>
                                /\ calls'[reqs'[j][1]].at = "reply" /\ calls'[reqs'[j][1]].got = Empty
                                /\ calls'[reqs'[j][1]].on = j /\ tasks'[j].reply # reqs'[j][1]
        BY <2>7 DEF KeptByRequests, Awaits
      <3>1. CASE j = i
        <4>1. <<x>>[1] = x
          OBVIOUS
        <4>2. reqs'[j] = <<x>> /\ reqs'[j][1] = x
          BY <2>6, <3>1, <4>1
        <4> QED BY <1>1, <2>3, <2>4, <2>10, <3>1, <4>2, BoundsAssumption
      <3>2. CASE j # i
        <4>1. reqs'[j] = reqs[j] /\ reqs[j][1] # c
          BY <2>6, <2>10, <3>2
        <4> QED BY <1>1, <2>4, <4>1, KeptIs
      <3> QED BY <3>1, <3>2
    <2>13. Chunked'
      <3>1. turn.at = "tools" /\ turn \in Turns
        BY <1>1, CallOf DEF CInv, Chunked
      <3> QED BY <1>1, <3>1 DEF Chunked
    <2>14. \A j \in Ids : Fits(slots'[j], tasks'[j])
      BY <1>1, ChildOf
    <2> QED BY <2>4, <2>7, <2>8, <2>9, <2>11, <2>12, <2>13, <2>14 DEF CInv, Kept
  <1> QED BY <1>2, <1>3

\* A cancelled `resume` stops the child; what was kept for it is dead.
LEMMA ResumeCancelledC ==
    ASSUME CInv, KInv', NEW c \in Calls, ResumeCancelled(c)
    PROVE  CInv'
  <1> SUFFICES ASSUME NEW i, i = calls[c].on, NEW C, C = {slots[i].waiter} \cap Calls
               PROVE  CInv'
    OBVIOUS
  <1>1. /\ calls[c].at = "reply" /\ Stop(i) /\ UNCHANGED <<any, turn>>
        /\ calls' = [Drop({slots[i].waiter}) EXCEPT ![c] = Idle]
        /\ tasks' = [j \in Ids |-> [tasks[j] EXCEPT !.reply = Dead(@, c)]]
        /\ reqs' = [j \in Ids |-> [n \in 1..Len(reqs[j]) |-> Dead(reqs[j][n], c)]]
    BY DEF ResumeCancelled
  <1>2. i \in Ids /\ NoCall \notin Calls /\ Gone \notin Calls
    BY <1>1, CallOf, BoundsAssumption DEF CallFits
  <1>3. \A d \in C : d \in Calls /\ calls[d].at = "parked" /\ calls[d].op = "wait" /\ calls[d].on = i
    BY <1>2, KeptIs
  <1>4. /\ DOMAIN calls' = Calls /\ calls'[c] = Idle
        /\ \A d \in Calls \ {c} : calls'[d] = IF d \in C THEN [calls[d] EXCEPT !.got = Dropped] ELSE calls[d]
    <2>1. /\ DOMAIN Drop({slots[i].waiter}) = Calls
          /\ \A d \in Calls : Drop({slots[i].waiter})[d] =
                 IF d \in C THEN [calls[d] EXCEPT !.got = Dropped] ELSE calls[d]
      BY DEF Drop
    <2> DEFINE f == Drop({slots[i].waiter})
    <2>2. calls' = [f EXCEPT ![c] = Idle] /\ DOMAIN f = Calls
      BY <1>1, <2>1
    <2> HIDE DEF f
    <2>3. DOMAIN calls' = Calls /\ calls'[c] = Idle /\ \A d \in Calls \ {c} : calls'[d] = f[d]
      BY <2>2
    <2> QED BY <2>1, <2>3 DEF f
  <1>5. /\ But(slots', slots, i) /\ slots'[i].waiter = NoCall /\ slots'[i].state = "Closed"
    <2>1. But(slots', slots, i) /\ slots'[i] = IF Live(slots[i]) THEN Close(slots[i]) ELSE slots[i]
      BY <1>1, <1>2, RegistryOf DEF Stop, But
    <2> QED BY <1>2, <2>1, ClosedFits, ChildOf DEF Live, Fits
  <1>6. Ids' = Ids
    <2>1. DOMAIN slots' = Ids
      BY <1>5, RegistryOf DEF But
    <2> QED BY <2>1, RegistryOf DEF KInv, Registry, Ids
  <1>7. \A w : Dead(w, c) \in Calls => Dead(w, c) = w /\ w # c
    BY <1>2 DEF Dead
  <1>8. \A w : Dead(w, c) # NoCall => w # NoCall
    BY <1>2 DEF Dead
  <1>9. \A j \in Ids : /\ tasks'[j].at = tasks[j].at /\ tasks'[j].run = tasks[j].run
                       /\ tasks'[j].reply = Dead(tasks[j].reply, c)
    <2> SUFFICES ASSUME NEW j \in Ids
                 PROVE  /\ tasks'[j].at = tasks[j].at /\ tasks'[j].run = tasks[j].run
                        /\ tasks'[j].reply = Dead(tasks[j].reply, c)
      OBVIOUS
    <2> DEFINE w == Dead(tasks[j].reply, c)
    <2>1. tasks'[j] = [tasks[j] EXCEPT !.reply = w]
      BY <1>1
    <2> HIDE DEF w
    <2>2. tasks'[j].at = tasks[j].at /\ tasks'[j].run = tasks[j].run /\ tasks'[j].reply = w
      BY <2>1, ChildOf DEF Tasks
    <2> QED BY <2>2 DEF w
  <1>10. \A j \in Ids : reqs'[j] # <<>> =>
            /\ reqs[j] # <<>> /\ reqs'[j] = <<reqs'[j][1]>> /\ reqs'[j][1] = Dead(reqs[j][1], c)
    <2> SUFFICES ASSUME NEW j \in Ids, reqs'[j] # <<>>
                 PROVE  /\ reqs[j] # <<>> /\ reqs'[j] = <<reqs'[j][1]>>
                        /\ reqs'[j][1] = Dead(reqs[j][1], c)
      OBVIOUS
    <2>1. reqs'[j] = [n \in 1..Len(reqs[j]) |-> Dead(reqs[j][n], c)]
      BY <1>1
    <2>2. CASE reqs[j] = <<>>
      <3>1. 1..Len(reqs[j]) = {}
        BY <2>2
      <3>2. reqs'[j] = <<>>
        BY <2>1, <3>1
      <3> QED BY <3>2
    <2>3. CASE reqs[j] # <<>>
      <3>1. reqs[j] = <<reqs[j][1]>>
        BY <2>3, KeptIs
      <3>2. \A x : Len(<<x>>) = 1
        OBVIOUS
      <3>3. Len(reqs[j]) = 1
        BY <3>1, <3>2, Zenon
      <3> DEFINE w == Dead(reqs[j][1], c)
      <3>4. reqs'[j] = [n \in 1..1 |-> Dead(reqs[j][n], c)]
        BY <2>1, <3>3
      <3>5. [n \in 1..1 |-> Dead(reqs[j][n], c)] = [n \in 1..1 |-> w]
        OBVIOUS
      <3> HIDE DEF w
      <3>6. [n \in 1..1 |-> w] = <<w>> /\ <<w>>[1] = w
        OBVIOUS
      <3>7. reqs'[j] = <<w>> /\ reqs'[j][1] = w
        BY <3>4, <3>5, <3>6
      <3> QED BY <2>3, <3>7 DEF w
    <2> QED BY <2>2, <2>3
  <1>11. \A j \in Ids \ {i} : slots'[j] = slots[j]
    BY <1>5, RegistryOf DEF But
  <1>12. \A j \in Ids : Fits(slots'[j], tasks'[j])
    <2>1. \A j \in Ids : \/ slots'[j] = slots[j]
                         \/ slots'[j].state = "Closed" /\ slots'[j].waiter = NoCall
      BY <1>5, <1>11
    <2>2. \A j \in Ids : Fits(slots[j], tasks[j])
      BY ChildOf
    <2> QED BY <1>8, <1>9, <2>1, <2>2 DEF Fits
  <1>13. \A d \in Calls \ {c} : CallFits(calls'[d]) /\ calls'[d].at = calls[d].at /\ calls'[d].on = calls[d].on
    <2> SUFFICES ASSUME NEW d \in Calls \ {c}
                 PROVE  CallFits(calls'[d]) /\ calls'[d].at = calls[d].at /\ calls'[d].on = calls[d].on
      OBVIOUS
    <2>1. CASE d \in C
      <3>1. CallFits(calls[d]) /\ calls[d].at \in {"parked", "reply"}
        BY <1>3, <2>1, CallOf
      <3>2. calls'[d] = [calls[d] EXCEPT !.got = Dropped]
        BY <1>4, <2>1
      <3> QED BY <3>1, <3>2, GotFits
    <2>2. CASE d \notin C
      BY <1>4, <2>2, CallOf
    <2> QED BY <2>1, <2>2
  <1>14. \A d \in Calls : CallFits(calls[d])'
    <2>1. \A d \in Calls : CallFits(calls'[d])
      BY <1>4, <1>13, IdleFits
    <2> QED BY <1>6, <2>1 DEF CallFits
  <1>15. Begun'
    <2>1. \A d \in Calls : calls'[d].at \in {"permit", "driving"} => d # c
      BY <1>4, IdleFits
    <2>2. \A d \in Calls : calls[d].at \in {"permit", "driving"} => calls[d].on \in Ids
      BY CallOf DEF CallFits
    <2> QED BY <1>9, <1>13, <2>1, <2>2, BegunStays
  <1>16. Kept'
    <2>1. \A d \in Calls : d \in C \/ d = c \/ calls'[d] = calls[d]
      BY <1>4
    <2>2. /\ \A j \in Ids : slots[j].waiter # c
          /\ any # c
      BY <1>1, KeptIs
    <2>3. \A j \in Ids : slots'[j].waiter \in Calls =>
              slots'[j].waiter = slots[j].waiter /\ slots[j].waiter \notin C
      BY <1>2, <1>3, <1>5, <1>11, KeptIs
    <2>4. \A j \in Ids : tasks'[j].reply \in Calls =>
              tasks'[j].reply = tasks[j].reply /\ tasks[j].reply \notin C \cup {c}
      BY <1>3, <1>7, <1>9, KeptIs
    <2>5. \A j \in Ids : reqs'[j] # <<>> =>
              /\ reqs'[j] = <<reqs'[j][1]>>
              /\ reqs'[j][1] \in Calls => reqs'[j] = reqs[j] /\ reqs[j][1] \notin C \cup {c}
      <3> SUFFICES ASSUME NEW j \in Ids, reqs'[j] # <<>>, reqs'[j][1] \in Calls
                   PROVE  reqs'[j] = reqs[j] /\ reqs[j][1] \notin C \cup {c}
        BY <1>10
      <3>1. reqs[j] # <<>> /\ reqs'[j] = <<reqs'[j][1]>> /\ reqs'[j][1] = reqs[j][1] /\ reqs[j][1] # c
        BY <1>7, <1>10
      <3>2. reqs[j] = <<reqs[j][1]>> /\ calls[reqs[j][1]].at = "reply"
        BY <3>1, KeptIs
      <3>3. reqs'[j] = reqs[j]
        BY <3>1, <3>2, Zenon
      <3>4. reqs[j][1] \notin C
        BY <1>3, <3>2
      <3> QED BY <3>1, <3>3, <3>4
    <2>6. any \notin C
      BY <1>3, KeptIs
    <2> QED BY <1>1, <1>6, <2>1, <2>2, <2>3, <2>4, <2>5, <2>6, KeptStays
  <1>17. Chunked'
    <2>1. turn.at = "tools" /\ turn \in Turns
      BY <1>1, CallOf DEF CInv, Chunked
    <2> QED BY <1>1, <2>1 DEF Chunked
  <1> QED BY <1>4, <1>6, <1>12, <1>14, <1>15, <1>16, <1>17 DEF CInv

\* One element more at the end of a sequence.
LEMMA Appended ==
    ASSUME NEW S, NEW q \in Seq(S), NEW x \in S
    PROVE  /\ Len(Append(q, x)) = Len(q) + 1 /\ Append(q, x)[Len(q) + 1] = x
           /\ \A i \in 1..Len(q) : Append(q, x)[i] = q[i]
  OBVIOUS

\* A child is registered; the oldest parked one may have to close for it.
Registers(V, n, c) ==
    /\ Len(slots') = n /\ Ids' = Ids \cup {n}
    /\ \A i \in Ids : /\ slots'[i] = IF i \in V THEN Close(slots[i]) ELSE slots[i]
                      /\ tasks'[i] = tasks[i] /\ reqs'[i] = reqs[i]
    /\ slots'[n] = [state |-> "Running", claimed |-> FALSE, run |-> 0,
                    waiter |-> NoCall, interrupted |-> FALSE]
    /\ tasks'[n] = [at |-> "none", run |-> 1, reply |-> NoCall]
    /\ reqs'[n] = <<>>
    /\ calls' = [Drop({slots[i].waiter : i \in V}) EXCEPT ![c].at = "permit", ![c].on = n]
    /\ V = IF Full THEN {Oldest(Parked)} ELSE {}

LEMMA SpawnIs ==
    ASSUME CInv, KInv', NEW c \in Calls, Spawn(c), calls' # Over(c), NEW n, n = Len(slots) + 1
    PROVE  \E V \in SUBSET Parked : Registers(V, n, c)
  <1> DEFINE V == IF Full /\ Parked # {} THEN {Oldest(Parked)} ELSE {}
             new == [state |-> "Running", claimed |-> FALSE, run |-> 0,
                     waiter |-> NoCall, interrupted |-> FALSE]
             task == [at |-> "none", run |-> 1, reply |-> NoCall]
             q == [i \in Ids |-> IF i \in V THEN Close(slots[i]) ELSE slots[i]]
  <1>1. /\ ~(Full /\ Parked = {})
        /\ slots' = Append(q, new) /\ tasks' = Append(tasks, task) /\ reqs' = Append(reqs, <<>>)
        /\ calls' = [Drop({slots[i].waiter : i \in V}) EXCEPT ![c].at = "permit", ![c].on = n]
    BY DEF Spawn
  <1>2. Parked \subseteq Ids /\ V \in SUBSET Parked /\ V = IF Full THEN {Oldest(Parked)} ELSE {}
    <2>1. Parked \subseteq Ids
      BY DEF Parked
    <2> QED BY <1>1, <2>1, OldestIn
  <1>3. q \in Seq(Slots) /\ Len(q) = Len(slots) /\ \A i \in Ids : q[i] = IF i \in V THEN Close(slots[i]) ELSE slots[i]
    <2>1. \A i \in Ids : q[i] \in Slots
      BY SlotType DEF CInv
    <2>2. q \in [1..Len(slots) -> Slots] /\ Len(slots) \in Nat
      BY <2>1, RegistryOf
    <2> HIDE DEF q
    <2>3. q \in Seq(Slots) /\ Len(q) = Len(slots)
      BY <2>2
    <2> QED BY <2>3 DEF q
  <1>9. new \in Slots /\ task \in Tasks
    BY DEF Slots, Tasks, Senders
  <1> HIDE DEF V, new, task, q
  <1>4. /\ tasks \in Seq(Tasks) /\ reqs \in Seq(Seq(Senders))
        /\ Len(tasks) = Len(slots) /\ Len(reqs) = Len(slots) /\ Ids = 1..Len(slots)
    BY RegistryOf DEF CInv, KInv, Registry
  <1>5. /\ Len(slots') = n /\ slots'[n] = new /\ \A i \in Ids : slots'[i] = q[i]
    BY <1>1, <1>3, <1>4, <1>9
  <1>6. /\ Len(tasks') = n /\ tasks'[n] = task /\ \A i \in Ids : tasks'[i] = tasks[i]
    <2>1. /\ Len(Append(tasks, task)) = Len(tasks) + 1 /\ Append(tasks, task)[Len(tasks) + 1] = task
          /\ \A i \in 1..Len(tasks) : Append(tasks, task)[i] = tasks[i]
      BY <1>4, <1>9, Appended
    <2> QED BY <1>1, <1>4, <2>1
  <1>7. /\ Len(reqs') = n /\ reqs'[n] = <<>> /\ \A i \in Ids : reqs'[i] = reqs[i]
    BY <1>1, <1>4
  <1>8. Ids' = Ids \cup {n}
    BY <1>4, <1>5, RegistryOf DEF Ids
  <1> QED BY <1>1, <1>2, <1>3, <1>5, <1>6, <1>7, <1>8 DEF new, task, Registers

LEMMA SpawnRefused ==
    ASSUME CInv, NEW c \in Calls, Spawn(c), calls' = Over(c)
    PROVE  UNCHANGED <<slots, tasks, reqs>>
  <1>1. calls'[c] = Idle
    BY OverIs
  <1>2. CASE Full /\ Parked = {}
    BY <1>2 DEF Spawn
  <1>3. CASE ~(Full /\ Parked = {})
    <2>1. PICK V, n : calls' = [Drop({slots[i].waiter : i \in V}) EXCEPT ![c].at = "permit", ![c].on = n]
      BY <1>3 DEF Spawn
    <2> DEFINE f == Drop({slots[i].waiter : i \in V})
    <2>2. c \in DOMAIN f /\ "at" \in DOMAIN f[c]
      BY CallOf DEF Drop, CallRecords
    <2>3. calls' = [f EXCEPT ![c] = [f[c] EXCEPT !.at = "permit", !.on = n]]
      BY <2>1
    <2> HIDE DEF f
    <2>4. calls'[c].at = "permit"
      BY <2>2, <2>3
    <2> QED BY <1>1, <2>4, IdleFits
  <1> QED BY <1>2, <1>3

LEMMA SpawnC ==
    ASSUME CInv, KInv', NEW c \in Calls, Spawn(c)
    PROVE  CInv'
  <1>1. calls[c].at = "due" /\ calls[c].op \in Spawns /\ UNCHANGED <<any, turn>> /\ CallFits(calls[c])
    BY CallOf DEF Spawn, Spawns
  <1>2. CASE calls' = Over(c)
    <2>1. UNCHANGED <<slots, tasks, reqs>>
      BY <1>2, SpawnRefused
    <2>2. But(calls', calls, c) /\ CallFits(calls'[c]) /\ calls'[c].at \notin {"permit", "driving"}
      BY <1>2, OverIs, IdleFits DEF But, CInv
    <2> QED BY <1>1, <2>1, <2>2, OneCall
  <1>3. CASE calls' # Over(c)
    <2> SUFFICES ASSUME NEW n, n = Len(slots) + 1
                 PROVE  CInv'
      OBVIOUS
    <2>1. PICK V \in SUBSET Parked : Registers(V, n, c)
      BY <1>3, SpawnIs
    <2> SUFFICES ASSUME NEW C, C = {slots[i].waiter : i \in V} \cap Calls
                 PROVE  CInv'
      OBVIOUS
    <2>2. /\ Ids' = Ids \cup {n} /\ n \notin Ids /\ n \in Nat
          /\ \A i \in Ids : /\ slots'[i] = IF i \in V THEN Close(slots[i]) ELSE slots[i]
                            /\ tasks'[i] = tasks[i] /\ reqs'[i] = reqs[i]
          /\ slots'[n].state = "Running" /\ slots'[n].waiter = NoCall
          /\ tasks'[n].at = "none" /\ tasks'[n].reply = NoCall
          /\ reqs'[n] = <<>>
      BY <2>1, RegistryOf DEF Registers
    <2>3. \A i \in V : i \in Ids
      BY DEF Parked
    <2>4. \A d \in C : /\ d \in Calls /\ calls[d].at = "parked" /\ calls[d].op = "wait"
                       /\ calls[d].on \in V
      <3> SUFFICES ASSUME NEW i \in V, slots[i].waiter \in Calls
                   PROVE  /\ calls[slots[i].waiter].at = "parked" /\ calls[slots[i].waiter].op = "wait"
                          /\ calls[slots[i].waiter].on = i
        OBVIOUS
      <3> QED BY <2>3, KeptIs
    <2> DEFINE k == [calls[c] EXCEPT !.at = "permit", !.on = n]
    <2>5. /\ DOMAIN calls' = Calls /\ calls'[c] = k
          /\ \A d \in Calls \ {c} : calls'[d] = IF d \in C THEN [calls[d] EXCEPT !.got = Dropped] ELSE calls[d]
      <3> DEFINE f == Drop({slots[i].waiter : i \in V})
      <3>1. /\ DOMAIN f = Calls
            /\ \A d \in Calls : f[d] = IF d \in C THEN [calls[d] EXCEPT !.got = Dropped] ELSE calls[d]
        BY DEF Drop
      <3>2. calls' = [f EXCEPT ![c] = [f[c] EXCEPT !.at = "permit", !.on = n]]
        BY <2>1 DEF Registers
      <3>3. c \notin C
        BY <1>1, <2>4
      <3>4. f[c] = calls[c]
        BY <3>1, <3>3
      <3> HIDE DEF f
      <3>5. calls' = [f EXCEPT ![c] = k]
        BY <3>2, <3>4
      <3> HIDE DEF k
      <3> QED BY <3>1, <3>5
    <2>6. k \in CallRecords /\ k.at = "permit" /\ k.on = n /\ k.got = Empty /\ k.op \in Spawns
      BY <1>1, <2>2 DEF CallFits, CallRecords, Steps
    <2> HIDE DEF k
    <2>7. \A d \in Calls \ {c} : CallFits(calls'[d]) /\ calls'[d].at = calls[d].at /\ calls'[d].on = calls[d].on
      <3> SUFFICES ASSUME NEW d \in Calls \ {c}
                   PROVE  CallFits(calls'[d]) /\ calls'[d].at = calls[d].at /\ calls'[d].on = calls[d].on
        OBVIOUS
      <3>1. CASE d \in C
        <4>1. CallFits(calls[d]) /\ calls[d].at \in {"parked", "reply"}
          BY <2>4, <3>1, CallOf
        <4>2. calls'[d] = [calls[d] EXCEPT !.got = Dropped]
          BY <2>5, <3>1
        <4> QED BY <4>1, <4>2, DropFits
      <3>2. CASE d \notin C
        BY <2>5, <3>2, CallOf
      <3> QED BY <3>1, <3>2
    <2>8. \A d \in Calls : CallFits(calls[d])'
      <3> SUFFICES ASSUME NEW d \in Calls
                   PROVE  CallFits(calls[d])'
        OBVIOUS
      <3>1. CASE d = c
        <4>1. /\ calls'[d] \in CallRecords /\ calls'[d].at = "permit" /\ calls'[d].on \in Ids'
              /\ calls'[d].got = Empty /\ calls'[d].got.child = 0 /\ calls'[d].op \in Spawns
          BY <2>2, <2>5, <2>6, <3>1 DEF Empty
        <4> QED BY <4>1 DEF CallFits, Spawns
      <3>2. CASE d # c
        BY <2>2, <2>7, <3>2 DEF CallFits
      <3> QED BY <3>1, <3>2
    <2>9. \A i \in Ids' : Fits(slots'[i], tasks'[i])
      <3>1. \A i \in Ids : Fits(slots'[i], tasks'[i])
        BY <2>2, ClosedFits, ChildOf
      <3>2. Fits(slots'[n], tasks'[n])
        BY <2>2 DEF Fits
      <3> QED BY <2>2, <3>1, <3>2
    <2>10. Begun'
      <3>1. \A d \in Calls : calls[d].at \in {"permit", "driving"} => calls[d].on \in Ids
        BY CallOf DEF CallFits
      <3>2. \A d \in Calls : calls'[d].at = "permit" => tasks'[calls'[d].on].at = "none"
        BY <2>2, <2>5, <2>6, <2>7, <3>1 DEF CInv, Begun
      <3>3. \A d \in Calls : calls'[d].at = "driving" => tasks'[calls'[d].on].at = "fg"
        BY <2>2, <2>5, <2>6, <2>7, <3>1 DEF CInv, Begun
      <3>4. \A d, e \in Calls :
                calls'[d].at \in {"permit", "driving"} /\ calls'[e].at \in {"permit", "driving"} =>
                    calls'[d].on # calls'[e].on \/ d = e
        <4> SUFFICES ASSUME NEW d \in Calls, NEW e \in Calls, d # e,
                            calls'[d].at \in {"permit", "driving"}, calls'[e].at \in {"permit", "driving"}
                     PROVE  calls'[d].on # calls'[e].on
          OBVIOUS
        <4>1. CASE d # c /\ e # c
          BY <4>1, <2>7 DEF CInv, Begun
        <4>2. CASE d = c
          BY <4>2, <2>2, <2>5, <2>6, <2>7, <3>1
        <4>3. CASE e = c
          BY <4>3, <2>2, <2>5, <2>6, <2>7, <3>1
        <4> QED BY <4>1, <4>2, <4>3
      <3> QED BY <3>2, <3>3, <3>4 DEF Begun
    <2>11. \A d \in Calls : d \in C \/ d = c \/ calls'[d] = calls[d]
      BY <2>5
    <2>12. /\ \A i \in Ids : slots[i].waiter # c /\ tasks[i].reply # c
           /\ any # c /\ \A i \in Ids : reqs[i] # <<>> => reqs[i][1] # c
      BY <1>1, KeptIs
    <2>13. KeptBySlots' /\ KeptByAny'
      <3>1. ASSUME NEW i \in Ids', slots'[i].waiter \in Calls
            PROVE  /\ slots'[i].waiter = slots[i].waiter /\ i \in Ids
                   /\ slots[i].waiter \notin C
        <4>1. i \in Ids /\ i \notin V
          BY <2>2, <3>1, ClosedFits, BoundsAssumption
        <4> QED BY <2>2, <2>4, <3>1, <4>1, KeptIs
      <3>2. KeptBySlots'
        BY <2>11, <2>12, <3>1, KeptIs DEF KeptBySlots, Awaits
      <3>3. any \notin C
        BY <2>4, KeptIs
      <3>4. KeptByAny'
        BY <1>1, <2>11, <2>12, <3>3, KeptIs DEF KeptByAny, Awaits
      <3> QED BY <3>2, <3>4
    <2>14. KeptByTasks' /\ KeptByRequests'
      <3>1. ASSUME NEW i \in Ids', tasks'[i].reply \in Calls
            PROVE  tasks'[i].reply = tasks[i].reply /\ i \in Ids /\ tasks[i].reply \notin C
        BY <2>2, <2>4, <3>1, KeptIs, BoundsAssumption
      <3>2. KeptByTasks'
        BY <2>11, <2>12, <3>1, KeptIs DEF KeptByTasks, Awaits
      <3>3. ASSUME NEW i \in Ids', reqs'[i] # <<>>
            PROVE  /\ i \in Ids /\ reqs'[i] = reqs[i] /\ tasks'[i] = tasks[i]
                   /\ reqs[i][1] \in Calls => reqs[i][1] \notin C
        BY <2>2, <2>4, <3>3, KeptIs
      <3>4. KeptByRequests'
        BY <2>11, <2>12, <3>3, KeptIs DEF KeptByRequests, Awaits
      <3> QED BY <3>2, <3>4
    <2>15. Chunked'
      <3>1. turn.at = "tools" /\ turn \in Turns
        BY <1>1, CallOf DEF CInv, Chunked
      <3> QED BY <1>1, <3>1 DEF Chunked
    <2> QED BY <2>5, <2>8, <2>9, <2>10, <2>13, <2>14, <2>15 DEF CInv, Kept
  <1> QED BY <1>2, <1>3

LEMMA InitC == Init => CInv
  <1> SUFFICES ASSUME Init PROVE CInv
    OBVIOUS
  <1>1. KInv
    BY InitK
  <1>2. Ids = {} /\ any = NoCall /\ turn.at = "idle" /\ turn \in Turns
    BY DEF Init, Ids, Turns
  <1>3. DOMAIN calls = Calls /\ \A c \in Calls : calls[c] = Idle
    BY DEF Init
  <1>4. Kept /\ Begun
    BY <1>2, <1>3, IdleFits, BoundsAssumption
       DEF Kept, KeptBySlots, KeptByAny, KeptByTasks, KeptByRequests, Begun
  <1> QED BY <1>1, <1>2, <1>3, <1>4, IdleFits DEF CInv, Chunked

LEMMA CallC ==
    ASSUME CInv, KInv', NEW c \in Calls, CallStep(c) \/ WaitTimesOut(c)
    PROVE  CInv'
  BY SpawnC, SpawnStartsC, SpawnFailsC, SpawnReturnsC, WaitC, WaitReturnsC, DropC,
     ResumeSendsC, ResumeCancelledC DEF CallStep

LEMMA TaskStepC ==
    ASSUME CInv, KInv', NEW i \in Ids, TaskStep(i) \/ Panic(i)
    PROVE  CInv'
  BY FinishC, TellC, PublishC, ReplyC, TakeRequestC, EndC, WatchC DEF TaskStep

LEMMA CKept == CInv /\ [Next]_vars => CInv'
  <1> SUFFICES ASSUME CInv, [Next]_vars PROVE CInv'
    OBVIOUS
  <1>1. KInv'
    BY KKept DEF CInv
  <1>2. CASE \E c \in Calls : CallStep(c) \/ WaitTimesOut(c)
    BY <1>1, <1>2, CallC
  <1>3. CASE \E i \in Ids : TaskStep(i) \/ Panic(i) \/ StopChild(i)
    BY <1>1, <1>3, TaskStepC, StopChildC
  <1>4. CASE \/ Mail \/ Release \/ Prompt \/ Dispatch \/ Joined \/ Interrupt \/ TurnEnds \/ SessionEnds
             \/ Rest \/ UNCHANGED vars
    BY <1>1, <1>4, ParentC, DispatchC, SessionEndsC
  <1> QED BY <1>2, <1>3, <1>4 DEF Next

-----------------------------------------------------------------------------
(* The bound on children. *)

\* No call comes to be due but with its chunk.
NoneDue ==
    \A c \in Calls : calls'[c].at = "due" => calls[c].at = "due" /\ calls'[c].op = calls[c].op

LEMMA OverDue ==
    ASSUME CInv, NEW c \in Calls, calls' = Over(c)
    PROVE  NoneDue
  BY OverIs, IdleFits DEF NoneDue

\* A call moves on to a step that is not its first.
LEMMA MoveDue ==
    ASSUME CInv, NEW c \in Calls, NEW k, calls' = [calls EXCEPT ![c] = k], k.at # "due"
    PROVE  NoneDue
  <1>1. calls'[c] = k /\ \A d \in Calls \ {c} : calls'[d] = calls[d]
    BY DEF CInv
  <1> QED BY <1>1 DEF NoneDue

LEMMA GotDue ==
    ASSUME CInv, \A c \in Calls : \E g : calls'[c] \in {calls[c], Idle, [calls[c] EXCEPT !.got = g]}
    PROVE  NoneDue
  <1> SUFFICES ASSUME NEW c \in Calls
               PROVE  calls'[c].at = "due" => calls[c].at = "due" /\ calls'[c].op = calls[c].op
    BY DEF NoneDue
  <1>1. PICK g : calls'[c] \in {calls[c], Idle, [calls[c] EXCEPT !.got = g]}
    OBVIOUS
  <1>2. LET m == [calls[c] EXCEPT !.got = g] IN m.at = calls[c].at /\ m.op = calls[c].op
    BY CallOf DEF CallRecords
  <1> QED BY <1>1, <1>2, IdleFits

LEMMA PutDue ==
    ASSUME CInv, NEW w, NEW h, calls' = Put(w, h) \/ UNCHANGED calls
    PROVE  NoneDue
  <1>1. \A c \in Calls : calls'[c] \in {calls[c], [calls[c] EXCEPT !.got = h]}
    BY DEF Put, CInv
  <1> QED BY <1>1, GotDue

LEMMA DropDue ==
    ASSUME CInv, NEW S, calls' = Drop(S)
    PROVE  NoneDue
  <1>1. \A c \in Calls : calls'[c] \in {calls[c], [calls[c] EXCEPT !.got = Dropped]}
    BY DEF Drop
  <1> QED BY <1>1, GotDue

LEMMA AbandonedDue ==
    ASSUME CInv, NEW i, NEW E, Abandoned(i, E)
    PROVE  NoneDue
  <1> DEFINE h == Handoff(i, tasks[i].run, FALSE)
  <1>1. \A c \in Calls : calls'[c] \in {calls[c], Idle, [calls[c] EXCEPT !.got = h]}
    <2> SUFFICES ASSUME NEW c \in Calls
                 PROVE  calls'[c] \in {calls[c], Idle, [calls[c] EXCEPT !.got = h]}
      OBVIOUS
    <2>1. CASE Working(slots[i])
      <3>1. calls' = [d \in Calls |-> CASE d = WaiterOf(i) -> [calls[d] EXCEPT !.got = h]
                                        [] d \in E -> Idle
                                        [] OTHER -> calls[d]]
        BY <2>1 DEF Abandoned
      <3> HIDE DEF h
      <3>2. calls'[c] = CASE c = WaiterOf(i) -> [calls[c] EXCEPT !.got = h]
                          [] c \in E -> Idle
                          [] OTHER -> calls[c]
        BY <3>1
      <3> QED BY <3>2
    <2>2. CASE ~Working(slots[i])
      BY <2>2 DEF Abandoned
    <2> QED BY <2>1, <2>2
  <1> QED BY <1>1, GotDue

\* A registered child is one more, and its call is due no longer.
LEMMA SpawnDue ==
    ASSUME CInv, KInv', NEW c \in Calls, Spawn(c), calls' # Over(c)
    PROVE  /\ Len(slots') = Len(slots) + 1 /\ NoneDue /\ calls'[c].at # "due"
           /\ c \in Promised
  <1> SUFFICES ASSUME NEW n, n = Len(slots) + 1
               PROVE  /\ Len(slots') = n /\ NoneDue /\ calls'[c].at # "due"
                      /\ c \in Promised
    OBVIOUS
  <1>1. PICK V \in SUBSET Parked : Registers(V, n, c)
    BY SpawnIs
  <1>2. Len(slots') = n
    BY <1>1 DEF Registers
  <1> DEFINE f == Drop({slots[i].waiter : i \in V})
  <1>3. calls' = [f EXCEPT ![c] = [f[c] EXCEPT !.at = "permit", !.on = n]]
    BY <1>1 DEF Registers
  <1>4. DOMAIN f = Calls /\ \A d \in Calls : f[d] \in {calls[d], [calls[d] EXCEPT !.got = Dropped]}
    BY DEF Drop
  <1>5. "at" \in DOMAIN f[c]
    BY CallOf, <1>4 DEF CallRecords
  <1> HIDE DEF f
  <1>6. calls'[c].at = "permit" /\ \A d \in Calls \ {c} : calls'[d] = f[d]
    BY <1>3, <1>4, <1>5
  <1>7. \A d \in Calls : f[d].at = calls[d].at /\ f[d].op = calls[d].op
    <2> SUFFICES ASSUME NEW d \in Calls PROVE f[d].at = calls[d].at /\ f[d].op = calls[d].op
      OBVIOUS
    <2> QED BY <1>4, CallOf DEF CallRecords
  <1>8. NoneDue
    BY <1>6, <1>7 DEF NoneDue
  <1>9. c \in Promised
    BY DEF Spawn, Promised, Spawns
  <1> QED BY <1>2, <1>6, <1>8, <1>9

\* The calls of a chunk become due when it is dispatched.
LEMMA CallDue ==
    ASSUME CInv, KInv', NEW c \in Calls, CallStep(c) \/ WaitTimesOut(c)
    PROVE  NoneDue
  <1>1. CASE calls' = Over(c)
    BY <1>1, OverDue
  <1>2. CASE Spawn(c) /\ calls' # Over(c)
    BY <1>2, SpawnDue
  <1>3. CASE SpawnFails(c)
    BY <1>3, AbandonedDue DEF SpawnFails
  <1>4. CASE ResumeCancelled(c)
    <2> SUFFICES ASSUME NEW S, calls' = [Drop(S) EXCEPT ![c] = Idle] PROVE NoneDue
      BY <1>4 DEF ResumeCancelled
    <2>1. \A d \in Calls : calls'[d] \in {calls[d], Idle, [calls[d] EXCEPT !.got = Dropped]}
      BY DEF Drop
    <2> QED BY <2>1, GotDue
  <1>5. CASE /\ calls' # Over(c)
             /\ \/ SpawnStarts(c) \/ Wait(c) \/ WaitAny(c) \/ WaitReturns(c) \/ Resume(c) \/ ResumeSends(c)
    <2>1. \E v \in {"driving", "withdraw", "parked", "send", "reply"} : \E j :
              \/ calls' = [calls EXCEPT ![c].at = v] \/ calls' = [calls EXCEPT ![c].at = v, ![c].on = j]
      BY <1>5 DEF SpawnStarts, Wait, WaitAny, TakeDone, Refused, WaitReturns, Resume, ResumeSends
    <2>5. PICK v \in {"driving", "withdraw", "parked", "send", "reply"} : \E j :
              \/ calls' = [calls EXCEPT ![c].at = v] \/ calls' = [calls EXCEPT ![c].at = v, ![c].on = j]
      BY <2>1
    <2>2. PICK j : \/ calls' = [calls EXCEPT ![c].at = v]
                   \/ calls' = [calls EXCEPT ![c].at = v, ![c].on = j]
      BY <2>5
    <2> DEFINE k == [calls[c] EXCEPT !.at = v]
               m == [calls[c] EXCEPT !.at = v, !.on = j]
    <2>3. k.at # "due" /\ m.at # "due"
      BY CallOf DEF CallRecords
    <2>4. calls' = [calls EXCEPT ![c] = k] \/ calls' = [calls EXCEPT ![c] = m]
      BY <2>2
    <2> HIDE DEF k, m
    <2> QED BY <2>3, <2>4, MoveDue
  <1>6. CASE WaitCancelled(c) \/ WaitTimesOut(c) \/ SpawnReturns(c) \/ Withdraw(c) \/ ResumeReturns(c)
    <2>1. calls' = Over(c)
      BY <1>6 DEF WaitCancelled, WaitTimesOut, DropReceivers, SpawnReturns, Withdraw, ResumeReturns
    <2> QED BY <2>1, OverDue
  <1> QED BY <1>1, <1>2, <1>3, <1>4, <1>5, <1>6 DEF CallStep

LEMMA TaskDue ==
    ASSUME CInv, KInv', NEW i \in Ids, TaskStep(i) \/ Panic(i) \/ StopChild(i)
    PROVE  NoneDue
  <1>1. CASE Finish(i) \/ Publish(i) \/ Reply(i)
    <2>1. UNCHANGED calls \/ \E w, h : calls' = Put(w, h)
      BY <1>1 DEF Finish, Publish, Reply
    <2> QED BY <2>1, PutDue
  <1>2. CASE Tell(i) \/ TakeBack(i) \/ TakeRequest(i) \/ LastWord(i)
    <2>1. UNCHANGED calls
      BY <1>2 DEF Tell, TakeBack, TakeRequest, LastWord
    <2> QED BY <2>1, PutDue
  <1>3. CASE End(i) \/ Panic(i) \/ StopChild(i)
    <2>1. \E S : calls' = Drop(S)
      BY <1>3 DEF End, Panic, StopChild
    <2> QED BY <2>1, DropDue
  <1>4. CASE Watch(i)
    BY <1>4, AbandonedDue DEF Watch
  <1> QED BY <1>1, <1>2, <1>3, <1>4 DEF TaskStep

\* The number of children changes with a `spawn` that registers one.
LEMMA SameChildren ==
    ASSUME CInv, KInv', NEW i, NEW C,
           \/ UNCHANGED slots \/ (\E s : slots' = [slots EXCEPT ![i] = s]) \/ Settled(i)
           \/ Abandoned(i, C) \/ Stop(i) \/ DOMAIN slots' = Ids
    PROVE  Ids' = Ids /\ Len(slots') = Len(slots)
  <1>1. DOMAIN slots' = DOMAIN slots
    <2>1. CASE UNCHANGED slots
      BY <2>1
    <2>2. CASE \E s : slots' = [slots EXCEPT ![i] = s]
      BY <2>2
    <2>3. CASE Settled(i)
      BY <2>3 DEF Settled
    <2>4. CASE Abandoned(i, C)
      BY <2>4 DEF Abandoned
    <2>5. CASE Stop(i)
      BY <2>5 DEF Stop
    <2>6. CASE DOMAIN slots' = Ids
      BY <2>6, RegistryOf
    <2> QED BY <2>1, <2>2, <2>3, <2>4, <2>5, <2>6
  <1> QED BY <1>1, RegistryOf DEF KInv, Registry, Ids

LEMMA ChildrenStay ==
    ASSUME CInv, KInv', [Next]_vars
    PROVE  \/ Ids' = Ids /\ Len(slots') = Len(slots)
           \/ \E c \in Calls : Spawn(c) /\ calls' # Over(c)
  <1>1. ASSUME NEW c \in Calls, CallStep(c) \/ WaitTimesOut(c)
        PROVE  \/ Ids' = Ids /\ Len(slots') = Len(slots)
               \/ Spawn(c) /\ calls' # Over(c)
    <2>1. CASE Spawn(c) /\ calls' = Over(c)
      BY <2>1, SpawnRefused, SameChildren
    <2>2. CASE SpawnFails(c)
      BY <2>2, SameChildren DEF SpawnFails
    <2>3. CASE SpawnReturns(c)
      BY <2>3, SameChildren DEF SpawnReturns
    <2>4. CASE Wait(c)
      <3>1. UNCHANGED slots \/ \E i : \E s : slots' = [slots EXCEPT ![i] = s]
        BY <2>4 DEF Wait, TakeDone, Refused
      <3> QED BY <3>1, SameChildren
    <2>5. CASE WaitAny(c)
      <3>1. UNCHANGED slots \/ \E i : \E s : slots' = [slots EXCEPT ![i] = s]
        BY <2>5 DEF WaitAny, TakeDone, Refused
      <3> QED BY <3>1, SameChildren
    <2>6. CASE WaitCancelled(c) \/ WaitTimesOut(c)
      <3>1. DOMAIN slots' = Ids
        BY <2>6 DEF WaitCancelled, WaitTimesOut, DropReceivers
      <3> QED BY <3>1, SameChildren
    <2>7. CASE ResumeCancelled(c)
      BY <2>7, SameChildren DEF ResumeCancelled
    <2>8. CASE \/ SpawnStarts(c) \/ WaitReturns(c) \/ Withdraw(c)
               \/ Resume(c) \/ ResumeSends(c) \/ ResumeReturns(c)
      <3>1. UNCHANGED slots
        BY <2>8 DEF SpawnStarts, WaitReturns, Withdraw, Resume, ResumeSends, ResumeReturns
      <3> QED BY <3>1, SameChildren
    <2> QED BY <1>1, <2>1, <2>2, <2>3, <2>4, <2>5, <2>6, <2>7, <2>8 DEF CallStep
  <1>2. ASSUME NEW i \in Ids, TaskStep(i) \/ Panic(i) \/ StopChild(i)
        PROVE  Ids' = Ids /\ Len(slots') = Len(slots)
    <2>1. CASE Finish(i) \/ Publish(i) \/ TakeRequest(i)
      <3>1. UNCHANGED slots \/ \E s : slots' = [slots EXCEPT ![i] = s]
        BY <2>1 DEF Finish, Publish, TakeRequest
      <3> QED BY <3>1, SameChildren
    <2>2. CASE Reply(i)
      BY <2>2, SameChildren DEF Reply
    <2>3. CASE Watch(i)
      BY <2>3, SameChildren DEF Watch
    <2>4. CASE StopChild(i)
      BY <2>4, SameChildren DEF StopChild
    <2>5. CASE Tell(i) \/ TakeBack(i) \/ End(i) \/ LastWord(i) \/ Panic(i)
      <3>1. UNCHANGED slots
        BY <2>5 DEF Tell, TakeBack, End, LastWord, Panic
      <3> QED BY <3>1, SameChildren
    <2> QED BY <1>2, <2>1, <2>2, <2>3, <2>4, <2>5 DEF TaskStep
  <1>3. CASE SessionEnds
    <2>1. DOMAIN slots' = Ids
      BY <1>3 DEF SessionEnds
    <2> QED BY <2>1, SameChildren
  <1>4. CASE \/ Mail \/ Release \/ Prompt \/ Dispatch \/ Joined \/ Interrupt \/ TurnEnds
             \/ Rest \/ UNCHANGED vars
    <2>1. UNCHANGED slots
      BY <1>4 DEF Mail, Release, Prompt, Dispatch, Joined, Interrupt, TurnEnds, Rest, vars
    <2> QED BY <2>1, SameChildren
  <1> QED BY <1>1, <1>2, <1>3, <1>4 DEF Next

\* The children there are and the ones a chunk may still register.
LEMMA CountedKept == CInv /\ KInv' /\ Counted /\ [Next]_vars => Counted'
  <1> SUFFICES ASSUME CInv, KInv', Counted, [Next]_vars PROVE Counted'
    OBVIOUS
  <1>1. IsFiniteSet(Promised) /\ Cardinality(Promised) \in Nat /\ Promised \subseteq Calls
    BY BoundsAssumption, FS_Subset, FS_CardinalityType DEF Promised
  <1>2. MaxIds \in Nat /\ Len(slots) \in Nat
    BY BoundsAssumption, RegistryOf
  <1>3. CASE Dispatch
    <2>1. PICK chunk \in [Calls -> {k \in Chunk : k = Idle \/ k.on \in Targets(k.op)}] :
              /\ Len(slots) + Cardinality({c \in Calls : chunk[c].op \in {"spawnFg", "spawnBg"}}) <= MaxIds
              /\ calls' = chunk
      BY <1>3 DEF Dispatch
    <2> DEFINE S == {c \in Calls : chunk[c].op \in {"spawnFg", "spawnBg"}}
    <2>2. IsFiniteSet(S) /\ Cardinality(S) \in Nat
      BY BoundsAssumption, FS_Subset, FS_CardinalityType
    <2>3. Promised' \subseteq S
      BY <2>1 DEF Promised, Spawns
    <2> HIDE DEF S
    <2>4. Cardinality(Promised') <= Cardinality(S) /\ Cardinality(Promised') \in Nat
      BY <2>2, <2>3, FS_Subset, FS_CardinalityType
    <2>5. Len(slots') = Len(slots)
      BY <1>3 DEF Dispatch
    <2> QED BY <1>2, <2>1, <2>2, <2>4, <2>5 DEF Counted, S
  <1>4. CASE \E c \in Calls : Spawn(c) /\ calls' # Over(c)
    <2>1. PICK c \in Calls : Spawn(c) /\ calls' # Over(c)
      BY <1>4
    <2>2. Len(slots') = Len(slots) + 1 /\ NoneDue /\ calls'[c].at # "due" /\ c \in Promised
      BY <2>1, SpawnDue
    <2>3. Promised' \subseteq Promised \ {c}
      BY <2>2 DEF NoneDue, Promised
    <2>4. IsFiniteSet(Promised \ {c}) /\ Cardinality(Promised \ {c}) = Cardinality(Promised) - 1
      BY <1>1, <2>2, FS_RemoveElement
    <2>5. Cardinality(Promised') <= Cardinality(Promised) - 1 /\ Cardinality(Promised') \in Nat
      BY <2>3, <2>4, FS_Subset, FS_CardinalityType
    <2> QED BY <1>1, <1>2, <2>2, <2>5 DEF Counted
  <1>5. CASE ~Dispatch /\ ~(\E c \in Calls : Spawn(c) /\ calls' # Over(c))
    <2>1. Len(slots') = Len(slots)
      BY <1>5, ChildrenStay
    <2>2. NoneDue
      <3>1. CASE \E c \in Calls : CallStep(c) \/ WaitTimesOut(c)
        BY <3>1, CallDue
      <3>2. CASE \E i \in Ids : TaskStep(i) \/ Panic(i) \/ StopChild(i)
        BY <3>2, TaskDue
      <3>3. CASE \/ Mail \/ Release \/ Prompt \/ Joined \/ Interrupt \/ TurnEnds \/ SessionEnds
                 \/ Rest \/ UNCHANGED vars
        <4>1. UNCHANGED calls
          BY <3>3 DEF Mail, Release, Prompt, Joined, Interrupt, TurnEnds, SessionEnds, Rest, vars
        <4> QED BY <4>1, PutDue
      <3> QED BY <1>5, <3>1, <3>2, <3>3 DEF Next
    <2>3. Promised' \subseteq Promised
      BY <2>2 DEF NoneDue, Promised
    <2>4. Cardinality(Promised') <= Cardinality(Promised) /\ Cardinality(Promised') \in Nat
      BY <1>1, <2>3, FS_Subset, FS_CardinalityType
    <2> QED BY <1>1, <1>2, <2>1, <2>4 DEF Counted
  <1> QED BY <1>3, <1>4, <1>5

-----------------------------------------------------------------------------
(* The results and the messages about them. *)

\* There are no fewer children, and a message stays one.
LEMMA MoreIds ==
    ASSUME CInv, KInv', [Next]_vars
    PROVE  /\ Ids \subseteq Ids' /\ Messages \subseteq Messages' /\ Results \subseteq Results'
           /\ \A q \in Seq(Messages) : q \in Seq(Messages')
  <1>1. Ids \subseteq Ids'
    <2>1. CASE \E c \in Calls : Spawn(c) /\ calls' # Over(c)
      <3>1. Len(slots') = Len(slots) + 1
        BY <2>1, SpawnDue
      <3> QED BY <3>1, RegistryOf DEF Ids
    <2> QED BY <2>1, ChildrenStay
  <1>2. Messages \subseteq Messages'
    BY <1>1 DEF Messages
  <1>3. Results \subseteq Results'
    BY <1>1 DEF Results
  <1> QED BY <1>1, <1>2, <1>3

\* What each step adds to the mailbox and to the results.
Posts ==
    /\ \/ UNCHANGED inbox
       \/ inbox # <<>> /\ inbox' = Tail(inbox)
       \/ \E m \in Messages : inbox' = Append(inbox, m)
    /\ (owed' \cup held' \cup told' \cup waited') \ (owed \cup held \cup told \cup waited) \subseteq Results

LEMMA TakeDonePosts ==
    ASSUME CInv, NEW c, NEW i \in Ids, TakeDone(c, i), UNCHANGED <<inbox, owed, held, told>>
    PROVE  Posts
  <1>1. <<i, slots[i].run>> \in Results /\ waited' = waited \cup {<<i, slots[i].run>>}
    BY ChildOf DEF Slots, Results, TakeDone
  <1> QED BY <1>1 DEF Posts

LEMMA CallPosts ==
    ASSUME CInv, NEW c \in Calls, CallStep(c) \/ WaitTimesOut(c)
    PROVE  Posts
  <1>1. CASE Wait(c)
    <2>1. calls[c].on \in Ids
      BY <1>1, CallOf DEF Wait, CallFits
    <2>2. /\ UNCHANGED <<inbox, owed, held, told>>
          /\ TakeDone(c, calls[c].on) \/ UNCHANGED waited
      BY <1>1 DEF Wait, Refused
    <2>3. CASE UNCHANGED waited
      BY <2>2, <2>3 DEF Posts
    <2> QED BY <2>1, <2>2, <2>3, TakeDonePosts
  <1>2. CASE WaitAny(c)
    <2>1. Unclaimed # {} => Oldest(Unclaimed) \in Ids
      BY OldestIn DEF Unclaimed, Parked
    <2>2. /\ UNCHANGED <<inbox, owed, held, told>>
          /\ (Unclaimed # {} /\ TakeDone(c, Oldest(Unclaimed))) \/ UNCHANGED waited
      BY <1>2 DEF WaitAny, Refused
    <2>3. CASE UNCHANGED waited
      BY <2>2, <2>3 DEF Posts
    <2> QED BY <2>1, <2>2, <2>3, TakeDonePosts
  <1>3. CASE WaitReturns(c)
    <2> DEFINE h == calls[c].got
    <2>1. /\ UNCHANGED <<inbox, owed, held, told>> /\ h # Empty
          /\ waited' = IF h = Dropped THEN waited ELSE waited \cup {<<h.child, h.run>>}
      BY <1>3 DEF WaitReturns
    <2>2. h # Dropped => <<h.child, h.run>> \in Results
      BY <2>1, CallOf DEF CallFits, CallRecords, Gots, Results
    <2> HIDE DEF h
    <2> QED BY <2>1, <2>2 DEF Posts
  <1>4. CASE Withdraw(c)
    <2>1. calls[c].on \in Ids
      BY <1>4, CallOf DEF Withdraw, CallFits
    <2>2. Unnotify(calls[c].on) \in Messages
      BY <2>1 DEF Unnotify, Messages
    <2>3. inbox' = Append(inbox, Unnotify(calls[c].on)) /\ UNCHANGED <<owed, held, told, waited>>
      BY <1>4 DEF Withdraw
    <2> QED BY <2>2, <2>3 DEF Posts
  <1>5. CASE \/ Spawn(c) \/ SpawnStarts(c) \/ SpawnFails(c) \/ SpawnReturns(c) \/ WaitCancelled(c)
             \/ Resume(c) \/ ResumeSends(c) \/ ResumeReturns(c) \/ ResumeCancelled(c) \/ WaitTimesOut(c)
    <2>1. UNCHANGED <<inbox, owed, held, told, waited>>
      BY <1>5 DEF Spawn, SpawnStarts, SpawnFails, SpawnReturns, WaitCancelled, Resume, ResumeSends,
                  ResumeReturns, ResumeCancelled, WaitTimesOut
    <2> QED BY <2>1 DEF Posts
  <1> QED BY <1>1, <1>2, <1>3, <1>4, <1>5 DEF CallStep

LEMMA TaskPosts ==
    ASSUME CInv, NEW i \in Ids, TaskStep(i) \/ Panic(i) \/ StopChild(i)
    PROVE  Posts
  <1>1. tasks[i].run \in Nat
    BY ChildOf DEF Tasks
  <1>2. Note(i) \in Messages /\ Unnotify(i) \in Messages /\ <<i, tasks[i].run>> \in Results
    BY <1>1 DEF Note, Unnotify, Messages, Results
  <1>3. CASE Finish(i)
    <2>1. owed' = owed \cup {<<i, tasks[i].run>>} /\ UNCHANGED <<inbox, held, told, waited>>
      BY <1>3 DEF Finish
    <2> QED BY <1>2, <2>1 DEF Posts
  <1>4. CASE Tell(i) \/ LastWord(i)
    <2>1. UNCHANGED inbox \/ inbox' = Append(inbox, Note(i))
      BY <1>4 DEF Tell, LastWord
    <2>2. UNCHANGED <<owed, held, told, waited>>
      BY <1>4 DEF Tell, LastWord
    <2> QED BY <1>2, <2>1, <2>2 DEF Posts
  <1>5. CASE TakeBack(i)
    <2>1. inbox' = Append(inbox, Unnotify(i)) /\ UNCHANGED <<owed, held, told, waited>>
      BY <1>5 DEF TakeBack
    <2> QED BY <1>2, <2>1 DEF Posts
  <1>6. CASE Publish(i) \/ Reply(i) \/ TakeRequest(i) \/ End(i) \/ Watch(i) \/ Panic(i) \/ StopChild(i)
    <2>1. UNCHANGED <<inbox, owed, held, told, waited>>
      BY <1>6 DEF Publish, Reply, TakeRequest, End, Watch, Panic, StopChild
    <2> QED BY <2>1 DEF Posts
  <1> QED BY <1>3, <1>4, <1>5, <1>6 DEF TaskStep

LEMMA ParentPosts ==
    ASSUME Posted, \/ Mail \/ Release \/ Prompt \/ Dispatch \/ Joined \/ Interrupt \/ TurnEnds
                   \/ SessionEnds \/ Rest \/ UNCHANGED vars
    PROVE  Posts
  <1>1. CASE Mail
    <2> DEFINE m == Head(inbox)
    <2>1. inbox # <<>> /\ inbox' = Tail(inbox) /\ UNCHANGED <<owed, waited>>
      BY <1>1 DEF Mail
    <2>2. m \in Messages
      BY <2>1 DEF Posted
    <2>3. <<m.child, m.run>> \in Results
      BY <2>2 DEF Messages, Results
    <2>4. /\ held' \subseteq held \cup {<<m.child, m.run>>}
          /\ told' \subseteq told \cup {<<m.child, m.run>>}
      BY <1>1 DEF Mail
    <2> HIDE DEF m
    <2> QED BY <2>1, <2>3, <2>4 DEF Posts
  <1>2. CASE Release \/ TurnEnds
    <2>1. told' = told \cup held /\ held' = {} /\ UNCHANGED <<inbox, owed, waited>>
      BY <1>2 DEF Release, TurnEnds
    <2> QED BY <2>1 DEF Posts
  <1>3. CASE Prompt \/ Dispatch \/ Joined \/ Interrupt \/ SessionEnds \/ Rest \/ UNCHANGED vars
    <2>1. UNCHANGED <<inbox, owed, held, told, waited>>
      BY <1>3 DEF Prompt, Dispatch, Joined, Interrupt, SessionEnds, Rest, vars
    <2> QED BY <2>1 DEF Posts
  <1> QED BY <1>1, <1>2, <1>3

LEMMA PostedKept == CInv /\ KInv' /\ Posted /\ [Next]_vars => Posted'
  <1> SUFFICES ASSUME CInv, KInv', Posted, [Next]_vars PROVE Posted'
    OBVIOUS
  <1>1. Posts
    BY CallPosts, TaskPosts, ParentPosts DEF Next
  <1>2. inbox' \in Seq(Messages)
    <2>1. inbox \in Seq(Messages)
      BY DEF Posted
    <2>2. CASE UNCHANGED inbox
      BY <2>1, <2>2
    <2>3. CASE inbox # <<>> /\ inbox' = Tail(inbox)
      BY <2>1, <2>3
    <2>4. CASE \E m \in Messages : inbox' = Append(inbox, m)
      BY <2>1, <2>4
    <2> QED BY <1>1, <2>2, <2>3, <2>4 DEF Posts
  <1>3. inbox' \in Seq(Messages')
    BY <1>2, MoreIds
  <1>4. owed' \cup held' \cup told' \cup waited' \subseteq Results
    BY <1>1 DEF Posts, Posted
  <1>5. Results \subseteq Results'
    BY MoreIds
  <1> QED BY <1>3, <1>4, <1>5 DEF Posted

-----------------------------------------------------------------------------
(* What is kept of all of it. *)

\* What is kept of every call, child, message and result.
AllInv == CInv /\ Counted /\ Posted

LEMMA AllHolds == Spec => []AllInv
  <1>1. Init => AllInv
    <2> SUFFICES ASSUME Init PROVE Counted /\ Posted
      BY InitC DEF AllInv
    <2>1. \A c \in Calls : calls[c] = Idle
      BY DEF Init
    <2>2. Promised = {}
      BY <2>1, IdleFits DEF Promised
    <2>3. Counted
      BY <2>2, FS_EmptySet, BoundsAssumption DEF Init, Counted
    <2>4. Posted
      BY DEF Init, Posted
    <2> QED BY <2>3, <2>4
  <1>2. AllInv /\ [Next]_vars => AllInv'
    <2> SUFFICES ASSUME AllInv, [Next]_vars PROVE AllInv'
      OBVIOUS
    <2>1. CInv' /\ KInv'
      BY CKept DEF AllInv, CInv
    <2> QED BY <2>1, CountedKept, PostedKept DEF AllInv
  <1> QED BY <1>1, <1>2, PTL DEF Spec

\* The registry is well formed, and a sender it keeps (a slot's waiter, the one waiter for any
\* child) is that of a call that still waits for it and has received nothing: no result is
\* put where nobody reads it, or over another (`Waiter`, `Children::finish`).
THEOREM SendersAlive == Spec => []TypeOK
  <1>1. AllInv => TypeOK
    <2> SUFFICES ASSUME AllInv PROVE TypeOK
      OBVIOUS
    <2>1. CInv /\ Counted /\ Posted
      BY DEF AllInv
    <2>2. ASSUME NEW i \in Ids
          PROVE  /\ slots[i].state \in {"Running", "Finishing", "Done", "Closed"}
                 /\ slots[i].waiter \in Calls => calls[slots[i].waiter].at = "parked"
                                                 /\ calls[slots[i].waiter].got = Empty
                 /\ tasks[i].at \in {"none", "fg", "drive", "notify", "publish", "withdraw", "park",
                                     "panicked", "lastword", "ended"}
                 /\ Len(reqs[i]) <= 1
      <3>1. slots[i] \in Slots /\ tasks[i] \in Tasks
        BY <2>1, ChildOf
      <3>2. Len(reqs[i]) <= 1
        <4>1. reqs[i] = <<>> \/ reqs[i] = <<reqs[i][1]>>
          BY <2>1, KeptIs
        <4>2. \A x : Len(<<x>>) = 1
          OBVIOUS
        <4>3. CASE reqs[i] = <<>>
          BY <4>3
        <4>4. CASE reqs[i] = <<reqs[i][1]>>
          <5>1. Len(reqs[i]) = 1
            BY <4>2, <4>4, Zenon
          <5> QED BY <5>1
        <4> QED BY <4>1, <4>3, <4>4
      <3> QED BY <2>1, <3>1, <3>2, KeptIs DEF Slots, Tasks
    <2>3. any \in Calls => calls[any].at = "parked" /\ calls[any].got = Empty
      BY <2>1, KeptIs
    <2>4. Len(tasks) = Len(slots) /\ Len(reqs) = Len(slots)
      BY <2>1 DEF CInv, KInv, Registry
    <2>5. Len(slots) <= MaxIds
      <3>1. IsFiniteSet(Promised)
        BY BoundsAssumption, FS_Subset DEF Promised
      <3>2. Cardinality(Promised) \in Nat
        BY <3>1, FS_CardinalityType
      <3> QED BY <2>1, <3>2, RegistryOf, BoundsAssumption DEF Counted
    <2>6. owed \cup held \cup told \cup waited \subseteq Results
      BY <2>1 DEF Posted
    <2> QED BY <2>2, <2>3, <2>4, <2>5, <2>6 DEF TypeOK
  <1> QED BY <1>1, AllHolds, PTL
=============================================================================

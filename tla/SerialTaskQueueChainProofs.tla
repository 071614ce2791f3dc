--------------------- MODULE SerialTaskQueueChainProofs ---------------------
(***************************************************************************)
(* Proofs about SerialTaskQueueChain for any queues, chains and tasks:     *)
(* pauses are owned, actions exclude each other, and pushAndWait() waits.  *)
(***************************************************************************)
EXTENDS SerialTaskQueueChain, FiniteSetTheorems, WellFoundedInduction, TLAPS

(* The queue a pushed task has reached. *)
Here(t) == Path[t][level[t]]

(* A functor that has not yet handed its task on, or run it. *)
Live(q, t) == current[q] = t /\ at[q] \in {"start", "paused", "action"}

(* A functor in m_tasks belongs to a task that has reached this queue, is  *)
(* there once, and is not the current functor as well.                     *)
Reached(q, i) ==
    LET t == pending[q][i]
    IN  /\ level[t] > 0 /\ t \notin done /\ q = Here(t)
        /\ ~Live(q, t)
        /\ \A j \in 1..Len(pending[q]) : pending[q][j] = t => i = j
PendingReached == \A q \in Queues : \A i \in 1..Len(pending[q]) : Reached(q, i)

(* Where a queue's functor may stand, given how far its task has come. *)
CurrentReached ==
    \A q \in Queues : \A t \in Tasks :
        /\ Live(q, t) => level[t] > 0 /\ t \notin done /\ q = Here(t)
        /\ In(q, t, "paused") => q # Last(t)
        /\ In(q, t, "action") => q = Last(t)
        /\ In(q, t, "releasing") => q = Last(t) /\ t \in done /\ level[t] > 0

Levels == \A t \in Tasks : /\ level[t] <= Len(Path[t])

(* The references pushAndWait() has left. *)
References ==
    \A t \in Tasks :
        /\ waiter[t] = "none" => refs[t] = 0
        /\ waiter[t] = "pushed" => refs[t] = IF t \in done THEN 2 ELSE 3
        /\ waiter[t] = "waiting" => refs[t] = IF t \in done THEN 1 ELSE 2
        /\ waiter[t] = "returned" => refs[t] = 1 /\ t \in done
        /\ waiter[t] # "none" => level[t] > 0 \/ t \in done

Places == TypeOK /\ Levels /\ PendingReached /\ CurrentReached /\ References

(* Only finitely many tasks are in the chains at any time. *)
FinitelyMany == IsFiniteSet({t \in Tasks : level[t] > 0})

(* Unless a functor slipped into a paused queue, one task at most holds a  *)
(* queue paused, and none while the queue's functor needs it.              *)
OnePauser ==
    \A q \in Queues : \A t, u \in Tasks : q \in Paused(t) /\ q \in Paused(u) => t = u
NoPauseBeside ==
    \A q \in Queues : \A t \in Tasks :
        current[q] # NoTask /\ at[q] \in {"start", "action", "releasing"} => q \notin Paused(t)
Uncrossed == ~late => OnePauser /\ NoPauseBeside

IInv == Places /\ FinitelyMany /\ PausesOwned /\ Uncrossed

-----------------------------------------------------------------------------
(* What a chain's path is made of. *)
LEMMA PathFacts ==
  ASSUME NEW t \in Tasks
  PROVE  /\ Path[t] \in Seq(Queues) /\ Len(Path[t]) \in Nat /\ Len(Path[t]) > 0
         /\ \A i \in 1..Len(Path[t]) : Path[t][i] \in Queues
         /\ \A i, j \in 1..Len(Path[t]) : Path[t][i] = Path[t][j] => i = j
         /\ Last(t) \in Queues /\ Path[t] \in Chains /\ t # NoTask
  BY PathAssumption, NoTaskAssumption DEF Last, Chains

(* push() and pickNextTask() on the sequence of pending functors. *)
LEMMA AppendFacts ==
  ASSUME NEW s \in Seq(Tasks), NEW t \in Tasks
  PROVE  /\ Append(s, t) \in Seq(Tasks) /\ Len(s) \in Nat
         /\ Len(Append(s, t)) = Len(s) + 1
         /\ Append(s, t)[Len(s) + 1] = t
         /\ \A i \in 1..Len(s) : Append(s, t)[i] = s[i] /\ s[i] \in Tasks
  OBVIOUS

(* What pop leaves of a nonempty sequence of functors.                     *)
LEMMA TailFacts ==
  ASSUME NEW s \in Seq(Tasks), s # <<>>
  PROVE  /\ Head(s) = s[1] /\ s[1] \in Tasks /\ Tail(s) \in Seq(Tasks)
         /\ Len(s) \in Nat /\ Len(s) > 0 /\ Len(Tail(s)) = Len(s) - 1
         /\ \A i \in 1..Len(Tail(s)) : Tail(s)[i] = s[i + 1] /\ s[i + 1] \in Tasks
  OBVIOUS

(* A queue a task holds paused is one of its chain's, and the task has not *)
(* released everything. *)
LEMMA PausedFacts ==
  ASSUME Places, NEW t \in Tasks, NEW q \in Queues
  PROVE  q \in Paused(t) <=>
            \/ \E i \in 1..(level[t] - 1) : q = Path[t][i]
            \/ In(q, t, "paused")
  BY DEF Paused

(* A task that holds a pause has entered its chain.                        *)
LEMMA PausedBelow ==
  ASSUME Places, NEW t \in Tasks, NEW q \in Queues, q \in Paused(t)
  PROVE  level[t] > 0
<1> USE PausedFacts DEF Places, TypeOK
<1>1. CASE In(q, t, "paused")
  BY <1>1 DEF CurrentReached, Live, In
<1>2. ASSUME NEW i \in 1..(level[t] - 1) PROVE level[t] > 0
  BY <1>2
<1> QED BY <1>1, <1>2

-----------------------------------------------------------------------------
(* Places is kept by a functor that enters a queue: at the front of its    *)
(* chain, and in the next queue of it.                                     *)
LEMMA ArrivePending ==
  ASSUME Places, NEW t \in Tasks, NEW k \in 1..Len(Path[t]),
         PushTo(Path[t][k], t), level' = [level EXCEPT ![t] = k], t \notin done,
         done' = done, level[t] = k - 1,
         \A q \in Queues : Live(q, t)' => FALSE,
         \A q \in Queues : \A u \in Tasks : u # t => (Live(q, u)' <=> Live(q, u)),
         \A q \in Queues : \A i \in 1..Len(pending[q]) : pending[q][i] # t
  PROVE  PendingReached'
<1> DEFINE p == Path[t][k]
<1>1. /\ p \in Queues /\ pending \in [Queues -> Seq(Tasks)]
      /\ level \in [Tasks -> Nat]
  BY PathFacts DEF Places, TypeOK, QueuesTypeOK
<1>2. /\ pending[p] \in Seq(Tasks)
      /\ pending' = [pending EXCEPT ![p] = Append(pending[p], t)]
  BY <1>1 DEF PushTo
<1>3. SUFFICES ASSUME NEW q \in Queues, NEW i \in 1..Len(pending'[q])
               PROVE  Reached(q, i)'
  BY DEF PendingReached
<1> USE DEF Reached
<1>4. \A u \in Tasks : u # t => level'[u] = level[u]
  BY <1>1
<1>5. level'[t] = k /\ k > 0
  BY <1>1
<1>6. CASE q # p
  <2>1. pending'[q] = pending[q] /\ pending[q] \in Seq(Tasks)
    BY <1>1, <1>2, <1>6
  <2>2. pending[q][i] \in Tasks /\ pending[q][i] # t
    BY <2>1, <1>3
  <2> QED BY <2>1, <2>2, <1>4, <1>3 DEF Places, PendingReached, Here
<1>7. CASE q = p
  <2>1. pending'[q] = Append(pending[p], t)
    BY <1>1, <1>2, <1>7
  <2>2. CASE i = Len(pending[p]) + 1
    <3>1. pending'[q][i] = t
      BY <2>1, <2>2, <1>2, AppendFacts
    <3>2. \A j \in 1..Len(pending'[q]) : pending'[q][j] = t => i = j
      BY <2>1, <2>2, <1>2, <1>7, AppendFacts
    <3> QED BY <3>1, <3>2, <1>5, <1>7 DEF Here
  <2>3. CASE i # Len(pending[p]) + 1
    <3>1. i \in 1..Len(pending[p]) /\ pending'[q][i] = pending[p][i] /\ pending[p][i] \in Tasks
      <4>1. i \in 1..Len(Append(pending[p], t))
        BY <2>1, <1>3
      <4>2. /\ Len(pending[p]) \in Nat /\ Len(Append(pending[p], t)) = Len(pending[p]) + 1
            /\ \A j \in 1..Len(pending[p]) : Append(pending[p], t)[j] = pending[p][j]
        BY <1>2, AppendFacts
      <4>3. i \in 1..Len(pending[p])
        BY <2>3, <4>1, <4>2
      <4>4. pending[p][i] \in Tasks
        BY <1>2, <4>3
      <4> QED BY <2>1, <4>2, <4>3, <4>4
    <3>2. pending[p][i] # t
      BY <3>1, <1>1
    <3>3. \A j \in 1..Len(pending'[q]) : pending'[q][j] = pending[p][i] => i = j
      <4> SUFFICES ASSUME NEW j \in 1..Len(pending'[q]), pending'[q][j] = pending[p][i]
                   PROVE  i = j
        OBVIOUS
      <4>1. CASE j = Len(pending[p]) + 1
        BY <4>1, <3>2, <2>1, <1>2, AppendFacts
      <4>2. CASE j # Len(pending[p]) + 1
        <5>1. j \in 1..Len(pending[p]) /\ pending[p][j] = pending[p][i]
          BY <4>2, <2>1, <1>2, AppendFacts
        <5> QED BY <5>1, <3>1, <1>1 DEF Places, PendingReached
      <4> QED BY <4>1, <4>2
    <3>4. Reached(q, i)
      BY <3>1, <1>7 DEF Places, PendingReached
    <3>5. PICK u \in Tasks : u = pending[p][i] /\ u = pending'[q][i]
      BY <3>1
    <3>6. level[u] > 0 /\ u \notin done /\ q = Path[u][level[u]] /\ ~Live(q, u)
      BY <3>4, <3>5, <1>7 DEF Here
    <3>7. level'[u] = level[u] /\ (Live(q, u)' <=> Live(q, u))
      BY <3>2, <3>5, <1>4
    <3>8. Here(u)' = Path[u][level[u]]
      BY <3>7 DEF Here
    <3> QED BY <3>3, <3>5, <3>6, <3>7, <3>8
  <2> QED BY <2>2, <2>3
<1> QED BY <1>6, <1>7

(* The tasks in m_tasks are not the one whose functor a step is about.     *)
LEMMA NotPending ==
  ASSUME Places, NEW t \in Tasks,
         \/ level[t] = 0 \/ t \in done
         \/ \E q \in Queues : Live(q, t)
  PROVE  \A q \in Queues : \A i \in 1..Len(pending[q]) : pending[q][i] # t
<1> SUFFICES ASSUME NEW q \in Queues, NEW i \in 1..Len(pending[q]), pending[q][i] = t
             PROVE  FALSE
  OBVIOUS
<1>1. level[t] > 0 /\ t \notin done /\ q = Here(t) /\ ~Live(q, t)
  BY DEF Places, PendingReached, Reached
<1>2. level[t] # 0
  BY <1>1
<1>3. PICK p \in Queues : Live(p, t)
  BY <1>1, <1>2
<1> QED BY <1>1, <1>3 DEF Places, CurrentReached

(* A step that leaves m_tasks alone keeps PendingReached, if it changes    *)
(* nothing about the tasks in it.                                          *)
LEMMA PendingSame ==
  ASSUME Places, pending' = pending,
         \A q \in Queues : \A i \in 1..Len(pending[q]) :
             /\ level'[pending[q][i]] = level[pending[q][i]]
             /\ pending[q][i] \in done' => pending[q][i] \in done,
         \A q \in Queues : \A u \in Tasks : Live(q, u)' => Live(q, u)
  PROVE  PendingReached'
<1> SUFFICES ASSUME NEW q \in Queues, NEW i \in 1..Len(pending'[q])
             PROVE  Reached(q, i)'
  BY DEF PendingReached
<1>1. i \in 1..Len(pending[q]) /\ Reached(q, i) /\ pending[q][i] \in Tasks
  BY DEF Places, PendingReached, TypeOK, QueuesTypeOK
<1> QED BY <1>1 DEF Reached, Here

(* pickNextTask() gives the front functor to a queue that had none.        *)
LEMMA TakePending ==
  ASSUME Places, NEW q \in Queues, Take(q), at' = [at EXCEPT ![q] = "start"],
         level' = level, done' = done
  PROVE  PendingReached'
<1> USE DEF Reached, Here
<1> SUFFICES ASSUME NEW p \in Queues, NEW i \in 1..Len(pending'[p])
             PROVE  Reached(p, i)'
  BY DEF PendingReached
<1>1. /\ pending \in [Queues -> Seq(Tasks)] /\ current \in [Queues -> Tasks \cup {NoTask}]
      /\ at \in [Queues -> At]
  BY DEF Places, TypeOK, QueuesTypeOK
<1>2. /\ pending[q] \in Seq(Tasks) /\ pending[q] # <<>>
      /\ pending' = [pending EXCEPT ![q] = Tail(pending[q])]
      /\ current' = [current EXCEPT ![q] = Head(pending[q])]
  BY <1>1 DEF Take
<1>3. CASE p # q
  <2>1. pending'[p] = pending[p] /\ \A u \in Tasks : Live(p, u)' <=> Live(p, u)
    BY <1>1, <1>2, <1>3 DEF Live
  <2>2. Reached(p, i) /\ pending[p][i] \in Tasks
    BY <2>1, <1>1 DEF Places, PendingReached
  <2> QED BY <2>1, <2>2
<1>4. CASE p = q
  <2>1. /\ pending'[q] = Tail(pending[q]) /\ current'[q] = pending[q][1]
        /\ Len(pending[q]) \in Nat /\ Len(pending[q]) > 0
        /\ Len(Tail(pending[q])) = Len(pending[q]) - 1
        /\ \A j \in 1..Len(Tail(pending[q])) :
              Tail(pending[q])[j] = pending[q][j + 1] /\ pending[q][j + 1] \in Tasks
    BY <1>1, <1>2, TailFacts
  <2>2. i + 1 \in 1..Len(pending[q]) /\ pending'[q][i] = pending[q][i + 1]
    <3>1. i \in 1..(Len(pending[q]) - 1)
      BY <2>1, <1>4
    <3> QED BY <3>1, <2>1
  <2>3. PICK u \in Tasks : u = pending'[q][i] /\ u = pending[q][i + 1]
    BY <2>1, <2>2, <1>4
  <2>4. /\ level[u] > 0 /\ u \notin done /\ q = Path[u][level[u]]
        /\ \A j \in 1..Len(pending[q]) : pending[q][j] = u => i + 1 = j
    BY <2>2, <2>3 DEF Places, PendingReached
  <2>5. u # pending[q][1]
    <3>1. 1 \in 1..Len(pending[q]) /\ i + 1 # 1
      BY <2>1, <2>2
    <3> QED BY <2>4, <3>1
  <2>6. ~Live(q, u)'
    BY <2>1, <2>5 DEF Live
  <2>7. \A j \in 1..Len(pending'[q]) : pending'[q][j] = u => i = j
    <3> SUFFICES ASSUME NEW j \in 1..Len(pending'[q]), pending'[q][j] = u PROVE i = j
      OBVIOUS
    <3>1. j + 1 \in 1..Len(pending[q]) /\ pending[q][j + 1] = u
      BY <2>1
    <3>2. j + 1 = i + 1
      BY <3>1, <2>4
    <3> QED BY <3>2, <1>4
  <2> QED BY <2>3, <2>4, <2>6, <2>7, <1>4
<1> QED BY <1>3, <1>4

(* What a pick does: it takes the front functor, or nothing a functor sees *)
(* has changed. *)
Taken(q) == /\ Take(q) /\ at' = [at EXCEPT ![q] = "start"]
            /\ late' = (late \/ pauseCount[q] > 0)
            /\ current[q] = NoTask /\ current'[q] \in Tasks
            /\ current'[q] = pending[q][1] /\ 1 \in 1..Len(pending[q])
            /\ \A p \in Queues : p # q => current'[p] = current[p]

(* pickNextTask() takes the front functor of an unpaused queue, late if    *)
(* the queue was paused after the count was read, or takes none.           *)
LEMMA PickCases ==
  ASSUME Places, NEW q \in Queues, PickTask(q)
  PROVE  /\ \/ Taken(q)
            \/ UNCHANGED <<pending, current, at, late>>
         /\ UNCHANGED <<pauseCount, level, outstanding, refs, waiter, done>>
         /\ QueuesTypeOK' /\ at' \in [Queues -> At]
<1> USE DEF Places, TypeOK, QueuesTypeOK
<1>1. UNCHANGED <<level, outstanding, refs, waiter, done>>
  BY DEF PickTask
<1>2. CASE Take(q)
  <2>1. /\ pending[q] \in Seq(Tasks) /\ pending[q] # <<>>
        /\ pending' = [pending EXCEPT ![q] = Tail(pending[q])]
        /\ current' = [current EXCEPT ![q] = Head(pending[q])]
        /\ current[q] = NoTask
    BY <1>2 DEF Take
  <2>2. Head(pending[q]) = pending[q][1] /\ pending[q][1] \in Tasks /\ Tail(pending[q]) \in Seq(Tasks)
        /\ 1 \in 1..Len(pending[q])
    BY <2>1, TailFacts
  <2>3. current'[q] # current[q]
    BY <2>1, <2>2, NoTaskAssumption
  <2>4. at' = [at EXCEPT ![q] = "start"] /\ late' = (late \/ pauseCount[q] > 0)
    BY <2>3 DEF PickTask
  <2>5. QueuesTypeOK'
    BY <1>2, <2>1, <2>2 DEF Take, TakeOne
  <2>6. at' \in [Queues -> At]
    BY <2>4 DEF At
  <2>7. pauseCount' = pauseCount
    BY <1>2 DEF Take
  <2> QED BY <1>1, <1>2, <2>1, <2>2, <2>4, <2>5, <2>6, <2>7 DEF Taken
<1>3. CASE ReadPause(q) \/ GiveUp(q) \/ Miss(q)
  <2>1. UNCHANGED <<pending, current, pauseCount>>
    BY <1>3 DEF ReadPause, GiveUp, Miss
  <2>2. UNCHANGED <<at, late>>
    BY <2>1 DEF PickTask
  <2>3. CASE ReadPause(q)
    <3>1. asked' \in [Queues -> Nat] /\ passed' \in [Queues -> Nat] /\ missed' = missed
      BY <2>3 DEF ReadPause, TakeOne, AddOne
    <3> QED BY <1>1, <2>1, <2>2, <3>1
  <2>4. CASE GiveUp(q) \/ Miss(q)
    <3>1. asked' \in [Queues -> Nat] /\ passed' \in [Queues -> Nat]
      <4>1. asked' = asked /\ passed[q] > 0 /\ passed' = [passed EXCEPT ![q] = passed[q] - 1]
        BY <2>4 DEF GiveUp, Miss, TakeOne
      <4> QED BY <4>1
    <3>2. missed' = missed \/ missed' = [missed EXCEPT ![q] = TRUE]
      BY <2>4 DEF GiveUp, Miss
    <3>3. missed' \in [Queues -> BOOLEAN]
      BY <3>2
    <3> QED BY <1>1, <2>1, <2>2, <3>1, <3>3
  <2> QED BY <1>3, <2>3, <2>4
<1> QED BY <1>2, <1>3 DEF PickTask, Pick

(* A task in the chain is counted in m_outstandingTasks. *)
LEMMA CountedOutstanding ==
  ASSUME Places, FinitelyMany, PausesOwned, NEW t \in Tasks, level[t] > 0
  PROVE  outstanding[Path[t]] \in Nat \ {0}
<1> DEFINE mine == {u \in Tasks : Path[u] = Path[t] /\ level[u] > 0}
<1>1. IsFiniteSet(mine)
  <2>1. mine \in SUBSET {u \in Tasks : level[u] > 0}
    OBVIOUS
  <2> QED BY <2>1, FS_Subset DEF FinitelyMany
<1>2. mine # {}
  OBVIOUS
<1>3. Cardinality(mine) \in Nat /\ Cardinality(mine) # 0
  BY <1>1, <1>2, FS_CardinalityType, FS_EmptySet
<1> QED BY <1>3, PathFacts DEF PausesOwned

-----------------------------------------------------------------------------
(* Places is kept by every step. *)
LEMMA EnterPlaces ==
  ASSUME Places, NEW t \in Tasks, New(t), Enter(t), UNCHANGED <<at, done, late>>,
         \/ UNCHANGED <<refs, waiter>> /\ t \notin Synchronous
         \/ refs' = [refs EXCEPT ![t] = 3] /\ waiter' = [waiter EXCEPT ![t] = "pushed"]
  PROVE  Places'
<1> USE DEF Enter, New
<1>0. /\ 1 \in 1..Len(Path[t]) /\ 1 <= Len(Path[t])
      /\ Path[t][1] \in Queues /\ Path[t] \in Chains
  BY PathFacts
<1>1. /\ level' = [level EXCEPT ![t] = 1] /\ level[t] = 0 /\ t \notin done
      /\ PushTo(Path[t][1], t) /\ current' = current
  BY DEF PushTo
<1>2. TypeOK'
  <2> USE DEF Places, TypeOK, QueuesTypeOK
  <2>1. pending' \in [Queues -> Seq(Tasks)] /\ asked' \in [Queues -> Nat]
    <3>1. Append(pending[Path[t][1]], t) \in Seq(Tasks)
      BY <1>0, AppendFacts
    <3>2. /\ pending' = [pending EXCEPT ![Path[t][1]] = Append(pending[Path[t][1]], t)]
          /\ asked' = [asked EXCEPT ![Path[t][1]] = asked[Path[t][1]] + 1]
      BY <1>0 DEF PushTo, AddOne
    <3>3. pending' \in [Queues -> Seq(Tasks)]
      BY <3>1, <3>2
    <3>4. asked' \in [Queues -> Nat]
      <4>1. asked[Path[t][1]] \in Nat /\ asked \in [Queues -> Nat]
        BY <1>0
      <4>2. asked[Path[t][1]] + 1 \in Nat
        BY <4>1
      <4> QED BY <3>2, <4>1, <4>2
    <3> QED BY <3>3, <3>4
  <2>2. UNCHANGED <<current, pauseCount, passed, missed, at, done, late>>
    BY <1>1 DEF PushTo
  <2>3. level' \in [Tasks -> Nat] /\ outstanding' \in [Chains -> Nat]
    BY <1>0
  <2>4. refs' \in [Tasks -> 0..3] /\ waiter' \in [Tasks -> Waiters]
    <3>1. "pushed" \in Waiters /\ 3 \in 0..3
      BY DEF Waiters
    <3>2. CASE UNCHANGED <<refs, waiter>>
      BY <3>2
    <3>3. CASE refs' = [refs EXCEPT ![t] = 3] /\ waiter' = [waiter EXCEPT ![t] = "pushed"]
      BY <3>1, <3>3
    <3> QED BY <3>2, <3>3
  <2> QED BY <2>1, <2>2, <2>3, <2>4
<1>3. Levels'
  BY <1>0, <1>1 DEF Places, Levels, TypeOK
<1>4. PendingReached'
  <2>1. \A q \in Queues : ~Live(q, t)'
    BY <1>1 DEF Places, CurrentReached, Live
  <2>2. \A q \in Queues : \A u \in Tasks : u # t => (Live(q, u)' <=> Live(q, u))
    BY <1>1 DEF Live
  <2>3. \A q \in Queues : \A i \in 1..Len(pending[q]) : pending[q][i] # t
    BY <1>1, NotPending
  <2>4. 1 \in 1..Len(Path[t]) /\ level[t] = 1 - 1 /\ done' = done
    BY <1>0, <1>1
  <2> HIDE DEF Enter, New
  <2> QED BY <1>1, <2>1, <2>2, <2>3, <2>4, ArrivePending
<1>5. CurrentReached'
  BY <1>1 DEF Places, CurrentReached, TypeOK, Live, In, Here
<1>6. References'
  BY <1>1 DEF Places, References, TypeOK
<1> QED BY <1>2, <1>3, <1>4, <1>5, <1>6 DEF Places

(* The thread in pushAndWait() moves no functor.                           *)
LEMMA WaiterPlaces ==
  ASSUME Places, NEW t \in Tasks, Waiter(t)
  PROVE  Places'
<1> USE DEF Waiter, GiveBackReference, WaitForAll, Places
<1>1. UNCHANGED <<pending, current, pauseCount, asked, passed, missed, at, level, outstanding, done, late>>
  BY DEF queues
<1>2. TypeOK'
  <2>1. refs' \in [Tasks -> 0..3]
    <3>1. waiter[t] = "pushed" => refs[t] - 1 \in 0..3
      BY DEF References
    <3> QED BY <3>1 DEF TypeOK
  <2>2. waiter' \in [Tasks -> Waiters]
    BY DEF TypeOK, Waiters
  <2> QED BY <1>1, <2>1, <2>2 DEF TypeOK, QueuesTypeOK
<1>3. Levels' /\ CurrentReached'
  BY <1>1 DEF Levels, CurrentReached, Live, In, Here
<1>4. PendingReached'
  BY <1>1, PendingSame DEF Live
<1>5. References'
  BY <1>1 DEF References, TypeOK
<1> QED BY <1>2, <1>3, <1>4, <1>5

(* pickNextTask() moves the front functor into its queue, where it has     *)
(* reached the level of the queue.                                         *)
LEMMA PickPlaces ==
  ASSUME Places, NEW q \in Queues, PickTask(q)
  PROVE  Places'
<1>1. UNCHANGED <<level, outstanding, refs, waiter, done>>
  BY PickCases
<1>2. TypeOK'
  <2>1. late' \in BOOLEAN
    <3>1. late \in BOOLEAN
      BY DEF Places, TypeOK
    <3>2. CASE Taken(q)
      BY <3>2, Zenon DEF Taken
    <3>3. CASE UNCHANGED late
      BY <3>1, <3>3
    <3> QED BY <3>2, <3>3, PickCases
  <2> QED BY <1>1, <2>1, PickCases DEF Places, TypeOK
<1>3. Levels' /\ References'
  BY <1>1 DEF Levels, References, Places
<1>4. CASE Taken(q)
  <2>1. PendingReached'
    BY <1>1, <1>4, TakePending DEF Taken
  <2>2. CurrentReached'
    <3>1. PICK u \in Tasks : u = current'[q] /\ u = pending[q][1] /\ 1 \in 1..Len(pending[q])
      BY <1>4 DEF Taken
    <3>2. level[u] > 0 /\ u \notin done /\ q = Here(u)
      BY <3>1 DEF Places, PendingReached, Reached
    <3>3. \A p \in Queues : p # q => current'[p] = current[p] /\ at'[p] = at[p]
      BY <1>4 DEF Taken, Places, TypeOK
    <3>4. at'[q] = "start"
      BY <1>4 DEF Taken, Places, TypeOK
    <3> SUFFICES ASSUME NEW p \in Queues, NEW v \in Tasks
                 PROVE  /\ Live(p, v)' => level[v] > 0 /\ v \notin done /\ p = Here(v)
                        /\ In(p, v, "paused")' => p # Last(v)
                        /\ In(p, v, "action")' => p = Last(v)
                        /\ In(p, v, "releasing")' => p = Last(v) /\ v \in done /\ level[v] > 0
      BY <1>1 DEF CurrentReached, Here, Last
    <3>5. CASE p = q
      BY <3>1, <3>2, <3>4, <3>5 DEF Live, In
    <3>6. CASE p # q
      BY <3>3, <3>6 DEF Places, CurrentReached, Live, In
    <3> QED BY <3>5, <3>6
  <2> QED BY <1>2, <1>3, <2>1, <2>2 DEF Places
<1>5. CASE UNCHANGED <<pending, current, at>>
  <2>1. PendingReached' /\ CurrentReached'
    BY <1>1, <1>5, PendingSame DEF Live, Places, CurrentReached, In, Here
  <2> QED BY <1>2, <1>3, <2>1 DEF Places
<1> QED BY <1>4, <1>5, PickCases

(* A step inside a functor, or its end, moves no other functor. *)
LEMMA FunctorMoves ==
  ASSUME Places, NEW q \in Queues, NEW t \in Tasks, current[q] = t, current' = current,
         NEW place \in At, at' = [at EXCEPT ![q] = place]
  PROVE  /\ at' \in [Queues -> At] /\ at'[q] = place
         /\ \A p \in Queues : p # q => at'[p] = at[p]
         /\ \A p \in Queues, u \in Tasks : u # t => (Live(p, u)' <=> Live(p, u))
         /\ \A p \in Queues : p # q => (Live(p, t)' <=> Live(p, t))
         /\ Live(q, t)' <=> place \in {"start", "paused", "action"}
  BY DEF Places, TypeOK, Live

(* A functor that pauses its queue, or begins the action, stays where it   *)
(* is.                                                                     *)
LEMMA PauseOrActionPlaces ==
  ASSUME Places, NEW q \in Queues, NEW t \in Tasks, PassDownPause(q, t) \/ BeginAction(q, t)
  PROVE  Places'
<1>1. PICK place \in {"paused", "action"} :
        /\ In(q, t, "start") /\ at' = [at EXCEPT ![q] = place]
        /\ place = "paused" => q # Last(t)
        /\ place = "action" => q = Last(t)
        /\ UNCHANGED <<pending, current, asked, passed, missed, level, outstanding, refs, waiter, done, late>>
        /\ pauseCount' \in [Queues -> Nat]
  <2>1. CASE PassDownPause(q, t)
    <3>1. pauseCount' \in [Queues -> Nat]
      BY <2>1 DEF PassDownPause, PauseQueue, AddOne, Places, TypeOK, QueuesTypeOK
    <3> QED BY <2>1, <3>1 DEF PassDownPause, PauseQueue
  <2>2. CASE BeginAction(q, t)
    BY <2>2 DEF BeginAction, queues, Places, TypeOK, QueuesTypeOK
  <2> QED BY <2>1, <2>2
<1>2. /\ at' \in [Queues -> At] /\ at'[q] = place
      /\ \A p \in Queues : p # q => at'[p] = at[p]
      /\ \A p \in Queues, u \in Tasks : Live(p, u)' <=> Live(p, u)
  <2>1. place \in At /\ current[q] = t /\ current' = current /\ Live(q, t)
    BY <1>1 DEF At, In, Live
  <2> QED BY <1>1, <2>1, FunctorMoves
<1>3. TypeOK' /\ Levels' /\ References'
  BY <1>1, <1>2 DEF Places, TypeOK, QueuesTypeOK, Levels, References
<1>4. PendingReached'
  BY <1>1, <1>2, PendingSame
<1>5. CurrentReached'
  BY <1>1, <1>2 DEF Places, CurrentReached, Live, In, Here
<1> QED BY <1>3, <1>4, <1>5 DEF Places

(* passDownChain() enters the next queue of the chain, where no functor of *)
(* the task is.                                                            *)
LEMMA PassDownPushPlaces ==
  ASSUME Places, NEW q \in Queues, NEW t \in Tasks, PassDownPush(q, t)
  PROVE  Places'
<1> DEFINE k == level[t] + 1
<1>1. /\ In(q, t, "paused") /\ Live(q, t) /\ current[q] = t /\ current' = current
      /\ at' = [at EXCEPT ![q] = "ended"] /\ "ended" \in At
      /\ PushTo(Path[t][k], t) /\ level' = [level EXCEPT ![t] = k]
      /\ UNCHANGED <<pauseCount, passed, missed, outstanding, refs, waiter, done, late>>
  BY DEF PassDownPush, PushTo, In, Live, At
<1>2. /\ q = Path[t][level[t]] /\ q # Last(t) /\ t \notin done
      /\ level[t] \in Nat /\ level[t] > 0 /\ level[t] <= Len(Path[t])
  BY <1>1 DEF Places, CurrentReached, Here, TypeOK, Levels
<1>3. k \in 1..Len(Path[t]) /\ k <= Len(Path[t]) /\ level[t] = k - 1
  BY <1>2, PathFacts DEF Last
<1>4. Path[t][k] \in Queues
  BY <1>3, PathFacts
<1>5. /\ at' \in [Queues -> At] /\ at'[q] = "ended"
      /\ \A p \in Queues : p # q => at'[p] = at[p]
      /\ \A p \in Queues, u \in Tasks : u # t => (Live(p, u)' <=> Live(p, u))
      /\ \A p \in Queues : ~Live(p, t)'
  <2>1. \A p \in Queues : p # q => ~Live(p, t)
    BY <1>2 DEF Places, CurrentReached, Here
  <2> QED BY <1>1, <2>1, FunctorMoves
<1>6. TypeOK'
  <2>1. Append(pending[Path[t][k]], t) \in Seq(Tasks)
    BY <1>4, AppendFacts DEF Places, TypeOK, QueuesTypeOK
  <2>2. pending' \in [Queues -> Seq(Tasks)] /\ asked' \in [Queues -> Nat]
    <3> HIDE DEF k
    <3>1. pending \in [Queues -> Seq(Tasks)] /\ asked \in [Queues -> Nat]
      BY DEF Places, TypeOK, QueuesTypeOK
    <3> QED BY <1>1, <1>4, <2>1, <3>1 DEF PushTo, AddOne
  <2>3. level' \in [Tasks -> Nat]
    BY <1>1, <1>2 DEF Places, TypeOK
  <2> QED BY <1>1, <1>5, <2>2, <2>3 DEF Places, TypeOK, QueuesTypeOK
<1>7. Levels'
  BY <1>1, <1>3 DEF Places, Levels, TypeOK
<1>8. PendingReached'
  <2>1. \A p \in Queues : \A i \in 1..Len(pending[p]) : pending[p][i] # t
    BY <1>1, NotPending
  <2> HIDE DEF k
  <2> QED BY <1>1, <1>2, <1>3, <1>5, <2>1, ArrivePending
<1>9. CurrentReached'
  BY <1>1, <1>2, <1>5 DEF Places, CurrentReached, Live, In, Here, TypeOK
<1>10. References'
  BY <1>1, <1>2 DEF Places, References, TypeOK
<1> QED BY <1>6, <1>7, <1>8, <1>9, <1>10 DEF Places

(* The end of the action gives up a reference and moves no functor.        *)
LEMMA EndActionPlaces ==
  ASSUME Places, NEW q \in Queues, NEW t \in Tasks, EndAction(q, t)
  PROVE  Places'
<1>1. /\ In(q, t, "action") /\ Live(q, t) /\ current[q] = t /\ current' = current
      /\ at' = [at EXCEPT ![q] = "releasing"] /\ "releasing" \in At /\ done' = done \cup {t}
      /\ UNCHANGED <<pending, pauseCount, asked, passed, missed, level, outstanding, waiter, late>>
      /\ refs' = IF waiter[t] = "none" THEN refs ELSE [refs EXCEPT ![t] = @ - 1]
  BY DEF EndAction, queues, In, Live, At
<1>2. q = Here(t) /\ q = Last(t) /\ t \notin done /\ level[t] > 0
  BY <1>1 DEF Places, CurrentReached
<1>3. /\ at' \in [Queues -> At] /\ at'[q] = "releasing"
      /\ \A p \in Queues : p # q => at'[p] = at[p]
      /\ \A p \in Queues, u \in Tasks : u # t => (Live(p, u)' <=> Live(p, u))
      /\ \A p \in Queues : ~Live(p, t)'
  <2>1. \A p \in Queues : p # q => ~Live(p, t)
    BY <1>2 DEF Places, CurrentReached
  <2> QED BY <1>1, <2>1, FunctorMoves
<1>4. refs' \in [Tasks -> 0..3] /\ References'
  <2>1. waiter[t] \in Waiters /\ refs[t] \in 0..3
    BY DEF Places, TypeOK
  <2>2. /\ waiter[t] = "none" => refs'[t] = 0
        /\ waiter[t] = "pushed" => refs'[t] = 2
        /\ waiter[t] = "waiting" => refs'[t] = 1
        /\ waiter[t] # "returned"
    BY <1>1, <1>2 DEF Places, TypeOK, References
  <2>3. refs' \in [Tasks -> 0..3]
    BY <1>1, <1>2, <2>1 DEF Places, TypeOK, References, Waiters
  <2>4. \A u \in Tasks : u # t => refs'[u] = refs[u] /\ (u \in done' <=> u \in done)
    BY <1>1 DEF Places, TypeOK
  <2> QED BY <1>1, <2>2, <2>3, <2>4 DEF Places, References
<1>5. TypeOK'
  BY <1>1, <1>3, <1>4 DEF Places, TypeOK, QueuesTypeOK
<1>6. Levels'
  BY <1>1 DEF Places, Levels
<1>7. PendingReached'
  <2>1. \A p \in Queues : \A i \in 1..Len(pending[p]) : pending[p][i] # t
    BY <1>1, NotPending
  <2>2. \A p \in Queues : \A u \in Tasks : Live(p, u)' => Live(p, u)
    BY <1>3
  <2> QED BY <1>1, <2>1, <2>2, PendingSame
<1>8. CurrentReached'
  BY <1>1, <1>2, <1>3 DEF Places, CurrentReached, Live, In, Here, Last
<1> QED BY <1>4, <1>5, <1>6, <1>7, <1>8 DEF Places

(* The sentry ends the task, which then has no functor left but the one    *)
(* that ends.                                                              *)
LEMMA ReleasePlaces ==
  ASSUME Places, FinitelyMany, PausesOwned, NEW q \in Queues, NEW t \in Tasks, Release(q, t)
  PROVE  Places'
<1>1. /\ In(q, t, "releasing") /\ current[q] = t /\ current' = current
      /\ UNCHANGED <<pending, passed, missed, refs, waiter, done, late>>
  BY DEF Release, ResumeQueue, queues, In
<1>2. q = Last(t) /\ t \in done /\ level[t] > 0 /\ level[t] \in Nat
  BY <1>1 DEF Places, CurrentReached, TypeOK
<1>3. PICK k \in Nat, place \in {"releasing", "ended"} :
         /\ level' = [level EXCEPT ![t] = k] /\ k < level[t]
         /\ place = "releasing" => k > 0
         /\ at' = [at EXCEPT ![q] = place]
  <2>1. CASE level[t] > 1
    <3>1. level' = [level EXCEPT ![t] = level[t] - 1] /\ at' = at
      BY <2>1, <1>2 DEF Release
    <3>2. at' = [at EXCEPT ![q] = "releasing"]
      BY <3>1, <1>1 DEF In, Places, TypeOK
    <3>3. level[t] - 1 \in Nat /\ level[t] - 1 < level[t] /\ level[t] - 1 > 0
      BY <2>1, <1>2
    <3> QED BY <3>1, <3>2, <3>3
  <2>2. CASE ~(level[t] > 1)
    BY <2>2, <1>2 DEF Release
  <2> QED BY <2>1, <2>2
<1>4. /\ at' \in [Queues -> At] /\ at'[q] = place
      /\ \A p \in Queues : p # q => at'[p] = at[p]
      /\ \A p \in Queues, u \in Tasks : Live(p, u)' <=> Live(p, u)
  <2>1. place \in At /\ ~Live(q, t)
    BY <1>1 DEF At, In, Live
  <2> QED BY <1>1, <1>3, <2>1, FunctorMoves
<1>5. TypeOK'
  <2>1. pauseCount' \in [Queues -> Nat] /\ asked' \in [Queues -> Nat]
        /\ outstanding' \in [Chains -> Nat]
    <3>1. CASE level[t] > 1
      <4>1. level[t] - 1 \in 1..Len(Path[t])
        BY <1>2, <3>1, PathFacts DEF Places, Levels
      <4>2. PICK p \in Queues : ResumeQueue(p)
        BY <3>1, <4>1, PathFacts DEF Release
      <4>3. pauseCount' \in [Queues -> Nat] /\ asked' \in [Queues -> Nat]
        <5>1. pauseCount \in [Queues -> Nat] /\ asked \in [Queues -> Nat]
          BY DEF Places, TypeOK, QueuesTypeOK
        <5>2. pauseCount[p] - 1 \in Nat
          BY <4>2, <5>1 DEF ResumeQueue
        <5>3. /\ pauseCount' = [pauseCount EXCEPT ![p] = pauseCount[p] - 1]
              /\ asked' = IF pauseCount[p] = 1 THEN [asked EXCEPT ![p] = asked[p] + 1] ELSE asked
          BY <4>2, <5>1 DEF ResumeQueue, TakeOne, AddOne
        <5> QED BY <5>1, <5>2, <5>3
      <4> QED BY <3>1, <4>3 DEF Release, Places, TypeOK
    <3>2. CASE ~(level[t] > 1)
      <4>1. outstanding[Path[t]] - 1 \in Nat
        BY <1>2, CountedOutstanding
      <4> QED BY <3>2, <4>1 DEF Release, queues, Places, TypeOK, QueuesTypeOK
    <3> QED BY <3>1, <3>2
  <2> QED BY <1>1, <1>3, <1>4, <2>1 DEF Places, TypeOK, QueuesTypeOK
<1>6. Levels' /\ References'
  BY <1>1, <1>2, <1>3 DEF Places, Levels, References, TypeOK
<1>7. PendingReached'
  <2>1. \A p \in Queues : \A i \in 1..Len(pending[p]) : pending[p][i] # t
    BY <1>2, NotPending
  <2>2. \A p \in Queues : \A i \in 1..Len(pending[p]) : level'[pending[p][i]] = level[pending[p][i]]
    BY <2>1, <1>3 DEF Places, TypeOK, QueuesTypeOK
  <2> QED BY <1>1, <1>4, <2>2, PendingSame
<1>8. CurrentReached'
  <2>1. \A u \in Tasks : u # t => level'[u] = level[u]
    BY <1>3 DEF Places, TypeOK
  <2> QED BY <1>1, <1>2, <1>3, <1>4, <2>1 DEF Places, CurrentReached, Live, In, Here, Last, TypeOK
<1> QED BY <1>5, <1>6, <1>7, <1>8 DEF Places

(* A queue whose functor has ended is free for the next one.               *)
LEMMA EndFunctorPlaces ==
  ASSUME Places, NEW q \in Queues, EndFunctor(q)
  PROVE  Places'
<1>1. /\ at[q] = "ended" /\ current' = [current EXCEPT ![q] = NoTask]
      /\ asked' = [asked EXCEPT ![q] = @ + 1]
      /\ UNCHANGED <<pending, pauseCount, passed, missed, at, level, outstanding, refs, waiter, done, late>>
  BY DEF EndFunctor, EndTask, AddOne, chainVars
<1>2. \A p \in Queues, u \in Tasks : /\ Live(p, u)' => Live(p, u)
                                     /\ current'[p] = u => current[p] = u
  BY <1>1, NoTaskAssumption DEF Live, Places, TypeOK, QueuesTypeOK
<1>3. TypeOK' /\ Levels' /\ References'
  BY <1>1 DEF Places, TypeOK, QueuesTypeOK, Levels, References
<1>4. PendingReached'
  BY <1>1, <1>2, PendingSame
<1>5. CurrentReached'
  BY <1>1, <1>2 DEF Places, CurrentReached, Live, In, Here
<1> QED BY <1>3, <1>4, <1>5 DEF Places

(* Places holds before anything is pushed, ...                             *)
LEMMA PlacesInit == Init => Places
<1> SUFFICES ASSUME Init PROVE Places
  OBVIOUS
<1> USE DEF Init, QueuesInit
<1>1. TypeOK
  <2>1. QueuesTypeOK
    BY DEF QueuesTypeOK
  <2>2. "start" \in At /\ "none" \in Waiters /\ 0 \in 0..3
    BY DEF At, Waiters
  <2> QED BY <2>1, <2>2 DEF TypeOK
<1>2. Levels /\ References
  BY PathFacts DEF Levels, References
<1>3. PendingReached
  BY DEF PendingReached
<1>4. CurrentReached
  BY PathFacts DEF CurrentReached, Live, In
<1> QED BY <1>1, <1>2, <1>3, <1>4 DEF Places

(* ... and is kept by every step.                                          *)
LEMMA PlacesNext == Places /\ FinitelyMany /\ PausesOwned /\ [Next]_vars => Places'
<1> SUFFICES ASSUME Places, FinitelyMany, PausesOwned, [Next]_vars PROVE Places'
  OBVIOUS
<1>1. CASE UNCHANGED vars
  <2>1. UNCHANGED <<pending, current, pauseCount, asked, passed, missed,
                    at, level, outstanding, refs, waiter, done, late>>
    BY <1>1 DEF vars, queues, chainVars
  <2> QED BY <2>1 DEF Places, TypeOK, QueuesTypeOK, Levels, PendingReached, Reached,
                      CurrentReached, References, Live, In, Here
<1>2. ASSUME NEW t \in Tasks, Client(t) PROVE Places'
  BY <1>2, EnterPlaces DEF Client, Push, PushAndWait
<1>3. ASSUME NEW q \in Queues, Scheduler(q) PROVE Places'
  BY <1>3, PickPlaces, EndFunctorPlaces, PauseOrActionPlaces, PassDownPushPlaces,
     EndActionPlaces, ReleasePlaces DEF Scheduler, Functor
<1> QED BY <1>1, <1>2, <1>3, WaiterPlaces DEF Next

-----------------------------------------------------------------------------
(* The tasks that hold a queue paused, and the ones a chain has not yet    *)
(* released. *)
Holders(q) == {t \in Tasks : q \in Paused(t)}
InChain == {t \in Tasks : level[t] > 0}
Working(c) == {t \in Tasks : Path[t] = c /\ level[t] > 0}

(* What is counted is finite: the tasks that hold a pause and those at     *)
(* work in a chain.                                                        *)
LEMMA FiniteSubsets ==
  ASSUME Places, FinitelyMany
  PROVE  /\ \A q \in Queues : IsFiniteSet(Holders(q)) /\ Cardinality(Holders(q)) \in Nat
         /\ \A c \in Chains : IsFiniteSet(Working(c)) /\ Cardinality(Working(c)) \in Nat
<1>1. \A q \in Queues : Holders(q) \in SUBSET InChain
  BY PausedBelow DEF Holders, InChain
<1>2. \A c \in Chains : Working(c) \in SUBSET InChain
  BY DEF Working, InChain
<1> QED BY <1>1, <1>2, FS_Subset, FS_CardinalityType DEF FinitelyMany, InChain

(* How many tasks are at work, after a step that changes the level of one. *)
LEMMA LevelStep ==
  ASSUME Places, FinitelyMany, NEW t \in Tasks,
         \A u \in Tasks : u # t => (level'[u] > 0 <=> level[u] > 0)
  PROVE  /\ FinitelyMany'
         /\ \A c \in Chains : c # Path[t] => Working(c)' = Working(c)
         /\ ~(level[t] > 0) /\ level'[t] > 0 =>
               Cardinality(Working(Path[t])') = Cardinality(Working(Path[t])) + 1
         /\ level[t] > 0 /\ ~(level'[t] > 0) =>
               Cardinality(Working(Path[t])') = Cardinality(Working(Path[t])) - 1
         /\ (level[t] > 0 <=> level'[t] > 0) => \A c \in Chains : Working(c)' = Working(c)
<1> DEFINE W == Working(Path[t])
<1>1. IsFiniteSet(InChain) /\ IsFiniteSet(W)
  BY FiniteSubsets, PathFacts DEF FinitelyMany, InChain
<1>2. CASE ~(level[t] > 0) /\ level'[t] > 0
  <2>1. /\ InChain' = InChain \cup {t} /\ W' = W \cup {t} /\ t \notin W
        /\ \A c \in Chains : c # Path[t] => Working(c)' = Working(c)
    BY <1>2 DEF InChain, Working
  <2> HIDE DEF W
  <2>2. IsFiniteSet(InChain') /\ Cardinality(W') = Cardinality(W) + 1
    BY <1>1, <2>1, FS_AddElement
  <2> QED BY <1>2, <2>1, <2>2 DEF FinitelyMany, InChain, W
<1>3. CASE level[t] > 0 /\ ~(level'[t] > 0)
  <2>1. /\ InChain' = InChain \ {t} /\ W' = W \ {t} /\ t \in W
        /\ \A c \in Chains : c # Path[t] => Working(c)' = Working(c)
    BY <1>3 DEF InChain, Working
  <2> HIDE DEF W
  <2>2. IsFiniteSet(InChain') /\ Cardinality(W') = Cardinality(W) - 1
    BY <1>1, <2>1, FS_RemoveElement
  <2> QED BY <1>3, <2>1, <2>2 DEF FinitelyMany, InChain, W
<1>4. CASE level[t] > 0 <=> level'[t] > 0
  <2>1. InChain' = InChain /\ \A c \in Chains : Working(c)' = Working(c)
    BY <1>4 DEF InChain, Working
  <2> QED BY <1>4, <2>1 DEF FinitelyMany, InChain
<1> QED BY <1>2, <1>3, <1>4

(* A step that pauses nothing and resumes nothing keeps the pauses owned.  *)
LEMMA OwnedSame ==
  ASSUME FinitelyMany, PausesOwned, TypeOK', pauseCount' = pauseCount,
         level' = level, outstanding' = outstanding,
         \A q \in Queues, u \in Tasks : In(q, u, "paused")' <=> In(q, u, "paused")
  PROVE  /\ FinitelyMany' /\ PausesOwned'
         /\ \A u \in Tasks : Paused(u)' = Paused(u)
<1>1. FinitelyMany'
  BY DEF FinitelyMany
<1>2. \A u \in Tasks : Paused(u)' = Paused(u)
  BY DEF Paused
<1>3. \A q \in Queues : {t \in Tasks : q \in Paused(t)}' = {t \in Tasks : q \in Paused(t)}
  BY <1>2
<1> QED BY <1>1, <1>2, <1>3 DEF PausesOwned

(* pauseCount and Holders go together. *)
LEMMA PauseCounts ==
  ASSUME PausesOwned, NEW q \in Queues
  PROVE  pauseCount[q] = Cardinality(Holders(q)) /\ pauseCount[q] \in Nat
  BY DEF PausesOwned, Holders, TypeOK, QueuesTypeOK

(* passDownChain() pauses its own queue ... *)
LEMMA PassDownPauseOwned ==
  ASSUME Places, FinitelyMany, PausesOwned, NEW q \in Queues, NEW t \in Tasks,
         PassDownPause(q, t), TypeOK'
  PROVE  /\ FinitelyMany' /\ PausesOwned'
         /\ \A p \in Queues, u \in Tasks :
               p \in Paused(u)' <=> (p \in Paused(u) \/ (p = q /\ u = t))
<1>1. /\ In(q, t, "start") /\ current[q] = t /\ current' = current
      /\ at' = [at EXCEPT ![q] = "paused"] /\ at \in [Queues -> At]
      /\ pauseCount' = [pauseCount EXCEPT ![q] = pauseCount[q] + 1]
      /\ UNCHANGED <<level, outstanding>>
  BY DEF PassDownPause, PauseQueue, AddOne, In, Places, TypeOK
<1>2. /\ q = Path[t][level[t]] /\ level[t] \in Nat /\ level[t] > 0 /\ level[t] <= Len(Path[t])
  BY <1>1 DEF Places, CurrentReached, Live, Here, In, TypeOK, Levels
<1>3. \A p \in Queues, u \in Tasks :
         In(p, u, "paused")' <=> (In(p, u, "paused") \/ (p = q /\ u = t))
  BY <1>1 DEF In
<1>4. \A p \in Queues, u \in Tasks :
         p \in Paused(u)' <=> (p \in Paused(u) \/ (p = q /\ u = t))
  BY <1>1, <1>3 DEF Paused
<1>5. q \notin Paused(t)
  <2>1. ~In(q, t, "paused")
    BY <1>1 DEF In
  <2>2. \A i \in 1..(level[t] - 1) : q # Path[t][i]
    BY <1>2, PathFacts
  <2> QED BY <2>1, <2>2 DEF Paused
<1>6. Holders(q)' = Holders(q) \cup {t} /\ t \notin Holders(q)
  BY <1>4, <1>5 DEF Holders
<1>7. \A p \in Queues : p # q => Holders(p)' = Holders(p)
  BY <1>4 DEF Holders
<1>8. \A p \in Queues : pauseCount'[p] = Cardinality(Holders(p)')
  <2> SUFFICES ASSUME NEW p \in Queues PROVE pauseCount'[p] = Cardinality(Holders(p)')
    OBVIOUS
  <2>1. pauseCount \in [Queues -> Nat]
    BY DEF Places, TypeOK, QueuesTypeOK
  <2>2. CASE p = q
    <3>1. Cardinality(Holders(q)') = Cardinality(Holders(q)) + 1
      BY <1>6, FiniteSubsets, FS_AddElement
    <3> QED BY <1>1, <2>1, <2>2, <3>1, PauseCounts
  <2>3. CASE p # q
    BY <1>1, <1>7, <2>1, <2>3, PauseCounts
  <2> QED BY <2>2, <2>3
<1>9. FinitelyMany' /\ \A c \in Chains : outstanding'[c] = Cardinality(Working(c)')
  BY <1>1 DEF FinitelyMany, PausesOwned, Working
<1> QED BY <1>4, <1>8, <1>9 DEF PausesOwned, Holders, Working

(* ... and the sentry resumes the queues before the last one entered.      *)
LEMMA ReleaseOwned ==
  ASSUME Places, FinitelyMany, PausesOwned, NEW q \in Queues, NEW t \in Tasks,
         Release(q, t), TypeOK'
  PROVE  /\ FinitelyMany' /\ PausesOwned'
         /\ \A p \in Queues, u \in Tasks : p \in Paused(u)' => p \in Paused(u)
<1>1. /\ In(q, t, "releasing") /\ current[q] = t /\ current' = current
      /\ level[t] \in Nat /\ level[t] > 0 /\ level[t] <= Len(Path[t])
  BY DEF Release, ResumeQueue, queues, In, Places, CurrentReached, TypeOK, Levels
<1>2. \A p \in Queues : ~In(p, t, "paused")
  <2>1. t \in done
    BY <1>1 DEF Places, CurrentReached
  <2> QED BY <2>1 DEF Places, CurrentReached, Live, In
<1>3. \A p \in Queues, u \in Tasks : In(p, u, "paused")' <=> In(p, u, "paused")
  BY <1>1 DEF Release, In, Places, TypeOK
<1>4. CASE level[t] > 1
  <2>1. PICK k \in Nat : k = level[t] - 1
    BY <1>1, <1>4
  <2>2. k \in 1..Len(Path[t]) /\ k > 0
    BY <1>1, <1>4, <2>1, PathFacts
  <2>3. PICK r \in Queues : r = Path[t][k]
    BY <2>2, PathFacts
  <2>4. /\ level' = [level EXCEPT ![t] = k] /\ ResumeQueue(r) /\ outstanding' = outstanding
    BY <1>4, <2>1, <2>3 DEF Release
  <2>5. \A p \in Queues, u \in Tasks :
           p \in Paused(u)' <=> (p \in Paused(u) /\ ~(p = r /\ u = t))
    <3> SUFFICES ASSUME NEW p \in Queues, NEW u \in Tasks
                 PROVE  p \in Paused(u)' <=> (p \in Paused(u) /\ ~(p = r /\ u = t))
      OBVIOUS
    <3>1. CASE u # t
      <4>1. level'[u] = level[u]
        BY <2>4, <3>1 DEF Places, TypeOK
      <4> QED BY <3>1, <4>1, <1>3 DEF Paused
    <3>2. CASE u = t
      <4>1. level'[t] = k
        BY <2>4 DEF Places, TypeOK
      <4>2. p \in Paused(t)' <=> \E i \in 1..(k - 1) : p = Path[t][i]
        BY <4>1, <1>2, <1>3 DEF Paused
      <4>3. p \in Paused(t) <=> \E i \in 1..k : p = Path[t][i]
        BY <1>2, <2>1 DEF Paused
      <4>4. \A i \in 1..k : (Path[t][i] = r <=> i = k)
        BY <2>2, <2>3, PathFacts
      <4>5. \A i \in 1..k : i # k => i \in 1..(k - 1)
        BY <2>2
      <4>6. \A i \in 1..(k - 1) : i \in 1..k /\ i # k
        BY <2>2
      <4> QED BY <3>2, <4>2, <4>3, <4>4, <4>5, <4>6
    <3> QED BY <3>1, <3>2
  <2>6. t \in Holders(r)
    <3>1. k \in 1..(level[t] - 1)
      BY <2>1, <2>2
    <3> QED BY <2>3, <3>1 DEF Holders, Paused
  <2>7. Holders(r)' = Holders(r) \ {t} /\ \A p \in Queues : p # r => Holders(p)' = Holders(p)
    BY <2>5 DEF Holders
  <2>8. \A p \in Queues : pauseCount'[p] = Cardinality(Holders(p)')
    <3> SUFFICES ASSUME NEW p \in Queues PROVE pauseCount'[p] = Cardinality(Holders(p)')
      OBVIOUS
    <3>1. pauseCount \in [Queues -> Nat] /\ pauseCount' = [pauseCount EXCEPT ![r] = pauseCount[r] - 1]
      BY <2>4 DEF Places, TypeOK, QueuesTypeOK, ResumeQueue, TakeOne
    <3>2. CASE p = r
      <4>1. Cardinality(Holders(r)') = Cardinality(Holders(r)) - 1
        BY <2>6, <2>7, FiniteSubsets, FS_RemoveElement
      <4> QED BY <3>1, <3>2, <4>1, PauseCounts
    <3>3. CASE p # r
      BY <2>7, <3>1, <3>3, PauseCounts
    <3> QED BY <3>2, <3>3
  <2>9. FinitelyMany' /\ \A c \in Chains : Working(c)' = Working(c)
    <3>1. (level[t] > 0 <=> level'[t] > 0) /\ \A u \in Tasks : u # t => level'[u] = level[u]
      BY <1>1, <2>2, <2>4 DEF Places, TypeOK
    <3> QED BY <3>1, LevelStep
  <2> QED BY <2>4, <2>5, <2>8, <2>9 DEF PausesOwned, Holders, Working
<1>5. CASE ~(level[t] > 1)
  <2>1. /\ level' = [level EXCEPT ![t] = 0] /\ pauseCount' = pauseCount /\ level[t] = 1
        /\ outstanding' = [outstanding EXCEPT ![Path[t]] = @ - 1]
    BY <1>1, <1>5 DEF Release, queues
  <2>2. \A u \in Tasks : Paused(u)' = Paused(u)
    <3> SUFFICES ASSUME NEW u \in Tasks PROVE Paused(u)' = Paused(u)
      OBVIOUS
    <3>1. CASE u # t
      <4>1. level'[u] = level[u]
        BY <2>1, <3>1 DEF Places, TypeOK
      <4> QED BY <4>1, <1>3 DEF Paused
    <3>2. CASE u = t
      <4>1. level'[t] = 0
        BY <2>1 DEF Places, TypeOK
      <4>2. 1..(level'[t] - 1) = {} /\ 1..(level[t] - 1) = {}
        BY <2>1, <4>1
      <4> QED BY <3>2, <4>2, <1>3 DEF Paused
    <3> QED BY <3>1, <3>2
  <2>3. \A p \in Queues : pauseCount'[p] = Cardinality(Holders(p)')
    <3>1. \A p \in Queues : Holders(p)' = Holders(p)
      BY <2>2 DEF Holders
    <3> QED BY <2>1, <3>1, PauseCounts
  <2>4. /\ \A u \in Tasks : u # t => level'[u] = level[u]
        /\ level[t] > 0 /\ ~(level'[t] > 0)
    BY <2>1 DEF Places, TypeOK
  <2>5. /\ FinitelyMany'
        /\ Cardinality(Working(Path[t])') = Cardinality(Working(Path[t])) - 1
        /\ \A c \in Chains : c # Path[t] => Working(c)' = Working(c)
    BY <2>4, LevelStep
  <2>6. \A c \in Chains : outstanding'[c] = Cardinality(Working(c)')
    <3>1. \A c \in Chains : outstanding[c] = Cardinality(Working(c))
      BY DEF PausesOwned, Working
    <3> QED BY <2>1, <2>5, <3>1, PathFacts DEF Places, TypeOK
  <2> QED BY <2>2, <2>3, <2>5, <2>6 DEF PausesOwned, Holders, Working
<1> QED BY <1>4, <1>5

(* A pushed task is counted, and has paused nothing yet. *)
LEMMA EnterOwned ==
  ASSUME Places, FinitelyMany, PausesOwned, NEW t \in Tasks, New(t), Enter(t),
         UNCHANGED <<at, done, late>>, TypeOK'
  PROVE  /\ FinitelyMany' /\ PausesOwned'
         /\ \A u \in Tasks : Paused(u)' = Paused(u)
<1>1. /\ level' = [level EXCEPT ![t] = 1] /\ level[t] = 0
      /\ outstanding' = [outstanding EXCEPT ![Path[t]] = @ + 1]
      /\ UNCHANGED <<current, at, pauseCount>>
  BY DEF New, Enter, PushTo
<1>2. level'[t] = 1 /\ \A u \in Tasks : u # t => level'[u] = level[u]
  BY <1>1 DEF Places, TypeOK
<1>3. \A u \in Tasks : Paused(u)' = Paused(u)
  <2>1. \A p \in Queues, u \in Tasks : In(p, u, "paused")' <=> In(p, u, "paused")
    BY <1>1 DEF In
  <2>2. 1..(level'[t] - 1) = {} /\ 1..(level[t] - 1) = {}
    BY <1>1, <1>2
  <2> QED BY <1>2, <2>1, <2>2 DEF Paused
<1>4. \A p \in Queues : pauseCount'[p] = Cardinality(Holders(p)')
  BY <1>1, <1>3, PauseCounts DEF Holders
<1>5. /\ FinitelyMany'
      /\ Cardinality(Working(Path[t])') = Cardinality(Working(Path[t])) + 1
      /\ \A c \in Chains : c # Path[t] => Working(c)' = Working(c)
  BY <1>1, <1>2, LevelStep
<1>6. \A c \in Chains : outstanding'[c] = Cardinality(Working(c)')
  <2>1. \A c \in Chains : outstanding[c] = Cardinality(Working(c))
    BY DEF PausesOwned, Working
  <2> QED BY <1>1, <1>5, <2>1, PathFacts DEF Places, TypeOK
<1> QED BY <1>3, <1>4, <1>5, <1>6 DEF PausesOwned, Holders, Working

(* The queue paused last joins those before the one the task enters. *)
LEMMA PassDownPushOwned ==
  ASSUME Places, FinitelyMany, PausesOwned, NEW q \in Queues, NEW t \in Tasks,
         PassDownPush(q, t), TypeOK'
  PROVE  /\ FinitelyMany' /\ PausesOwned'
         /\ \A p \in Queues, u \in Tasks : p \in Paused(u)' <=> p \in Paused(u)
<1>1. /\ In(q, t, "paused") /\ current[q] = t /\ current' = current
      /\ at' = [at EXCEPT ![q] = "ended"]
      /\ level' = [level EXCEPT ![t] = level[t] + 1]
      /\ UNCHANGED <<pauseCount, outstanding>>
  BY DEF PassDownPush, PushTo, In
<1>2. q = Path[t][level[t]] /\ level[t] \in Nat /\ level[t] > 0 /\ level[t] <= Len(Path[t])
  BY <1>1 DEF Places, CurrentReached, Live, Here, In, TypeOK, Levels
<1>3. level'[t] = level[t] + 1 /\ \A u \in Tasks : u # t => level'[u] = level[u]
  BY <1>1 DEF Places, TypeOK
<1>4. \A p \in Queues, u \in Tasks :
         In(p, u, "paused")' <=> (In(p, u, "paused") /\ ~(p = q /\ u = t))
  BY <1>1 DEF In, Places, TypeOK
<1>5. \A p \in Queues, u \in Tasks : p \in Paused(u)' <=> p \in Paused(u)
  <2> SUFFICES ASSUME NEW p \in Queues, NEW u \in Tasks
               PROVE  p \in Paused(u)' <=> p \in Paused(u)
    OBVIOUS
  <2>1. CASE u # t
    BY <1>3, <1>4, <2>1 DEF Paused
  <2>2. CASE u = t
    <3>1. 1..(level'[t] - 1) = 1..(level[t] - 1) \cup {level[t]}
      BY <1>2, <1>3
    <3>2. p \in Paused(t)' <=> \/ \E i \in 1..(level[t] - 1) : p = Path[t][i]
                               \/ p = q
                               \/ In(p, t, "paused") /\ p # q
      BY <1>2, <1>4, <3>1 DEF Paused
    <3>3. p \in Paused(t) <=> \/ \E i \in 1..(level[t] - 1) : p = Path[t][i]
                              \/ In(p, t, "paused")
      BY DEF Paused
    <3> QED BY <1>1, <2>2, <3>2, <3>3
  <2> QED BY <2>1, <2>2
<1>6. \A p \in Queues : Holders(p)' = Holders(p)
  BY <1>5 DEF Holders
<1>7. FinitelyMany' /\ \A c \in Chains : Working(c)' = Working(c)
  <2>1. level[t] > 0 <=> level'[t] > 0
    BY <1>2, <1>3
  <2> QED BY <1>3, <2>1, LevelStep
<1>8. /\ \A p \in Queues : pauseCount'[p] = Cardinality(Holders(p)')
      /\ \A c \in Chains : outstanding'[c] = Cardinality(Working(c)')
  BY <1>1, <1>6, <1>7, PauseCounts DEF PausesOwned, Working
<1> QED BY <1>5, <1>7, <1>8 DEF PausesOwned, Holders, Working

-----------------------------------------------------------------------------
(* Unless a functor has slipped into a paused queue, whoever pauses a      *)
(* queue has it to itself. First, the steps after which no queue is paused *)
(* that was not before, and no functor has started.                        *)
LEMMA UncrossedSame ==
  ASSUME Uncrossed, late' = late,
         \A q \in Queues, u \in Tasks : q \in Paused(u)' => q \in Paused(u),
         \A q \in Queues : current'[q] # NoTask /\ at'[q] \in {"start", "action", "releasing"}
                           => current[q] # NoTask /\ at[q] \in {"start", "action", "releasing"}
  PROVE  Uncrossed'
  BY DEF Uncrossed, OnePauser, NoPauseBeside

(* A queue is paused by the functor that runs in it, so that by nobody     *)
(* else.                                                                   *)
LEMMA PassDownPauseUncrossed ==
  ASSUME Places, Uncrossed, NEW q \in Queues, NEW t \in Tasks, PassDownPause(q, t),
         \A p \in Queues, u \in Tasks :
               p \in Paused(u)' <=> (p \in Paused(u) \/ (p = q /\ u = t))
  PROVE  Uncrossed'
<1>1. /\ current[q] = t /\ at[q] = "start" /\ current' = current /\ t # NoTask
      /\ at' = [at EXCEPT ![q] = "paused"] /\ at \in [Queues -> At] /\ late' = late
  BY PathFacts DEF PassDownPause, PauseQueue, In, Places, TypeOK
<1>2. ~late => \A u \in Tasks : q \notin Paused(u)
  BY <1>1 DEF Uncrossed, NoPauseBeside
<1> QED BY <1>1, <1>2 DEF Uncrossed, OnePauser, NoPauseBeside

(* A functor taken from an unpaused queue finds no other there, unless it  *)
(* comes late.                                                             *)
LEMMA PickUncrossed ==
  ASSUME Places, FinitelyMany, PausesOwned, Uncrossed, NEW q \in Queues, PickTask(q),
         \A u \in Tasks : Paused(u)' = Paused(u)
  PROVE  Uncrossed'
<1>1. CASE Taken(q)
  <2>1. at \in [Queues -> At] /\ late \in BOOLEAN
    BY DEF Places, TypeOK
  <2>2. ~late' => ~late /\ ~(pauseCount[q] > 0)
    BY <1>1, Zenon DEF Taken
  <2>3. ~late' => Holders(q) = {}
    BY <2>2, PauseCounts, FiniteSubsets, FS_EmptySet
  <2>4. ~late' => \A u \in Tasks : q \notin Paused(u)
    BY <2>3 DEF Holders
  <2>5. \A p \in Queues : p # q => current'[p] = current[p] /\ at'[p] = at[p]
    BY <1>1, <2>1 DEF Taken
  <2> QED BY <2>2, <2>4, <2>5 DEF Uncrossed, OnePauser, NoPauseBeside
<1>2. CASE UNCHANGED <<pending, current, at, late>>
  BY <1>2, UncrossedSame
<1> QED BY <1>1, <1>2, PickCases

-----------------------------------------------------------------------------
(* The inductive invariant holds at first, ...                             *)
LEMMA IInvInit == Init => IInv
<1> SUFFICES ASSUME Init PROVE IInv
  OBVIOUS
<1>1. Places
  BY PlacesInit
<1>2. InChain = {} /\ \A q \in Queues, t \in Tasks : q \notin Paused(t)
  BY PathFacts DEF Init, QueuesInit, InChain, Paused, In
<1>3. FinitelyMany
  BY <1>2, FS_EmptySet DEF FinitelyMany, InChain
<1>4. /\ \A q \in Queues : Holders(q) = {} /\ pauseCount[q] = 0
      /\ \A c \in Chains : Working(c) = {} /\ outstanding[c] = 0
  BY <1>2 DEF Holders, Working, InChain, Init, QueuesInit
<1>5. PausesOwned
  BY <1>1, <1>4, FS_EmptySet DEF PausesOwned, Places, Holders, Working
<1>6. Uncrossed
  BY <1>2 DEF Uncrossed, OnePauser, NoPauseBeside
<1> QED BY <1>1, <1>3, <1>5, <1>6 DEF IInv

(* ... is kept by every step, ...                                          *)
LEMMA IInvNext == IInv /\ [Next]_vars => IInv'
<1> SUFFICES ASSUME IInv, [Next]_vars PROVE IInv'
  OBVIOUS
<1>1. /\ Places /\ FinitelyMany /\ PausesOwned /\ Uncrossed
      /\ Places' /\ TypeOK'
  BY PlacesNext DEF IInv, Places
<1> SUFFICES FinitelyMany' /\ PausesOwned' /\ Uncrossed'
  BY <1>1 DEF IInv
<1>2. CASE UNCHANGED vars
  <2>1. UNCHANGED <<current, pauseCount, at, level, outstanding, late>>
    BY <1>2 DEF vars, queues, chainVars
  <2>2. /\ FinitelyMany' /\ PausesOwned' /\ \A u \in Tasks : Paused(u)' = Paused(u)
    BY <1>1, <2>1, OwnedSame DEF In
  <2> QED BY <1>1, <2>1, <2>2, UncrossedSame
<1>3. ASSUME NEW t \in Tasks, Client(t)
      PROVE  FinitelyMany' /\ PausesOwned' /\ Uncrossed'
  <2>1. New(t) /\ Enter(t) /\ UNCHANGED <<at, done, late, current>>
    BY <1>3 DEF Client, Push, PushAndWait, Enter, PushTo
  <2>2. /\ FinitelyMany' /\ PausesOwned' /\ \A u \in Tasks : Paused(u)' = Paused(u)
    BY <1>1, <2>1, EnterOwned
  <2> QED BY <1>1, <2>1, <2>2, UncrossedSame
<1>4. ASSUME NEW t \in Tasks, Waiter(t)
      PROVE  FinitelyMany' /\ PausesOwned' /\ Uncrossed'
  <2>1. UNCHANGED <<current, pauseCount, at, level, outstanding, late>>
    BY <1>4 DEF Waiter, GiveBackReference, WaitForAll, queues
  <2>2. /\ FinitelyMany' /\ PausesOwned' /\ \A u \in Tasks : Paused(u)' = Paused(u)
    BY <1>1, <2>1, OwnedSame DEF In
  <2> QED BY <1>1, <2>1, <2>2, UncrossedSame
<1>5. ASSUME NEW q \in Queues, PickTask(q)
      PROVE  FinitelyMany' /\ PausesOwned' /\ Uncrossed'
  <2>1. UNCHANGED <<pauseCount, level, outstanding>>
    BY <1>1, <1>5, PickCases
  <2>2. \A p \in Queues, u \in Tasks : In(p, u, "paused")' <=> In(p, u, "paused")
    <3>1. CASE Taken(q)
      BY <1>1, <3>1, NoTaskAssumption DEF Taken, In, Places, TypeOK
    <3>2. CASE UNCHANGED <<pending, current, at, late>>
      BY <3>2 DEF In
    <3> QED BY <1>1, <1>5, <3>1, <3>2, PickCases
  <2>3. /\ FinitelyMany' /\ PausesOwned' /\ \A u \in Tasks : Paused(u)' = Paused(u)
    BY <1>1, <2>1, <2>2, OwnedSame
  <2> QED BY <1>1, <1>5, <2>3, PickUncrossed
<1>6. ASSUME NEW q \in Queues, EndFunctor(q)
      PROVE  FinitelyMany' /\ PausesOwned' /\ Uncrossed'
  <2>1. /\ UNCHANGED <<pauseCount, at, level, outstanding, late>> /\ at[q] = "ended"
        /\ current' = [current EXCEPT ![q] = NoTask] /\ current \in [Queues -> Tasks \cup {NoTask}]
    BY <1>1, <1>6 DEF EndFunctor, EndTask, chainVars, Places, TypeOK, QueuesTypeOK
  <2>2. \A p \in Queues, u \in Tasks : In(p, u, "paused")' <=> In(p, u, "paused")
    BY <2>1 DEF In
  <2>3. /\ FinitelyMany' /\ PausesOwned' /\ \A u \in Tasks : Paused(u)' = Paused(u)
    BY <1>1, <2>1, <2>2, OwnedSame
  <2>4. \A p \in Queues : current'[p] # NoTask => current[p] # NoTask
    BY <2>1
  <2> QED BY <1>1, <2>1, <2>3, <2>4, UncrossedSame
<1>7. ASSUME NEW q \in Queues, NEW t \in Tasks, Functor(q, t)
      PROVE  FinitelyMany' /\ PausesOwned' /\ Uncrossed'
  <2>1. CASE PassDownPause(q, t)
    BY <1>1, <2>1, PassDownPauseOwned, PassDownPauseUncrossed
  <2>2. CASE PassDownPush(q, t)
    <3>1. /\ at' = [at EXCEPT ![q] = "ended"] /\ at \in [Queues -> At]
          /\ current' = current /\ late' = late
      BY <1>1, <2>2 DEF PassDownPush, PushTo, Places, TypeOK
    <3> QED BY <1>1, <2>2, <3>1, PassDownPushOwned, UncrossedSame
  <2>3. CASE BeginAction(q, t) \/ EndAction(q, t)
    <3>1. /\ UNCHANGED <<current, pauseCount, level, outstanding, late>>
          /\ current[q] # NoTask /\ at[q] \in {"start", "action"} /\ at \in [Queues -> At]
          /\ at' = [at EXCEPT ![q] = "action"] \/ at' = [at EXCEPT ![q] = "releasing"]
      BY <1>1, <2>3, PathFacts DEF BeginAction, EndAction, queues, In, Places, TypeOK
    <3>2. \A p \in Queues, u \in Tasks : In(p, u, "paused")' <=> In(p, u, "paused")
      BY <3>1 DEF In
    <3>3. /\ FinitelyMany' /\ PausesOwned' /\ \A u \in Tasks : Paused(u)' = Paused(u)
      BY <1>1, <3>1, <3>2, OwnedSame
    <3>4. \A p \in Queues : current'[p] # NoTask /\ at'[p] \in {"start", "action", "releasing"}
                           => current[p] # NoTask /\ at[p] \in {"start", "action", "releasing"}
      BY <3>1
    <3> QED BY <1>1, <3>1, <3>3, <3>4, UncrossedSame
  <2>4. CASE Release(q, t)
    <3>1. current' = current /\ late' = late /\ current[q] # NoTask /\ at[q] = "releasing"
          /\ \A p \in Queues : p # q => at'[p] = at[p]
      BY <1>1, <2>4, PathFacts DEF Release, ResumeQueue, queues, In, Places, TypeOK
    <3> QED BY <1>1, <2>4, <3>1, ReleaseOwned, UncrossedSame
  <2> QED BY <1>7, <2>1, <2>2, <2>3, <2>4 DEF Functor
<1> QED BY <1>2, <1>3, <1>4, <1>5, <1>6, <1>7 DEF Next, Scheduler

(* ... and holds always.                                                   *)
LEMMA IInvAlways == Spec => []IInv
  BY IInvInit, IInvNext, PTL DEF Spec

(* Whatever the queues, the chains and the tasks: a queue is paused exactly *)
(* as often as there are chains that hold it, and m_outstandingTasks counts *)
(* the tasks that still hold something.                                    *)
THEOREM PausesAlwaysOwned == Spec => []PausesOwned
<1>1. IInv => PausesOwned
  BY DEF IInv
<1> QED BY <1>1, IInvAlways, PTL

(* pushAndWait() returns after its action for every schedule: the wait     *)
(* task's last reference is its creator's.                                 *)
THEOREM WaitAlwaysOutlastsAction == Spec => []WaitOutlastsAction
<1>1. IInv => WaitOutlastsAction
  BY DEF IInv, Places, References, WaitOutlastsAction
<1> QED BY <1>1, IInvAlways, PTL

(* Two actions that need a common resource overlap in no schedule, as long *)
(* as no pick has read a pause count before the pause and taken a functor  *)
(* after it; this for chains of any length over any queues, consistently   *)
(* ordered or not.                                                         *)
THEOREM ActionsExcludeEachOther == Spec => []ExclusiveUnlessLate
<1>1. ASSUME IInv, ~late, NEW t \in Tasks, NEW u \in Tasks, Acting(t), Acting(u),
             NEW i \in 1..Len(Path[t]), NEW j \in 1..Len(Path[u]), Path[t][i] = Path[u][j]
      PROVE  t = u
  <2> DEFINE p == Path[t][i]
  <2>1. Places /\ OnePauser /\ NoPauseBeside
    BY <1>1 DEF IInv, Uncrossed
  <2>2. ASSUME NEW v \in Tasks, Acting(v), NEW k \in 1..Len(Path[v])
        PROVE  /\ Path[v][k] \in Queues
               /\ k = Len(Path[v]) => /\ current[Path[v][k]] = v
                                      /\ \A w \in Tasks : Path[v][k] \notin Paused(w)
               /\ k # Len(Path[v]) => Path[v][k] \in Paused(v)
    <3>1. Path[v][k] \in Queues /\ Last(v) \in Queues /\ v # NoTask /\ Len(Path[v]) \in Nat /\ Len(Path[v]) > 0
      BY PathFacts
    <3>2. level[v] = Len(Path[v])
      <4>1. Last(v) = Here(v) /\ level[v] > 0 /\ level[v] <= Len(Path[v]) /\ level[v] \in Nat
        BY <2>1, <2>2, <3>1 DEF Acting, Places, CurrentReached, Live, In, Levels, TypeOK
      <4>2. level[v] \in 1..Len(Path[v]) /\ Len(Path[v]) \in 1..Len(Path[v])
        BY <4>1, <3>1
      <4> QED BY <4>1, <4>2, PathFacts DEF Here, Last
    <3>3. CASE k = Len(Path[v])
      BY <2>1, <2>2, <3>1, <3>3 DEF Acting, In, Last, NoPauseBeside
    <3>4. CASE k # Len(Path[v])
      <4>1. k \in 1..(level[v] - 1)
        BY <3>1, <3>2, <3>4
      <4> QED BY <3>1, <3>4, <4>1 DEF Paused
    <3> QED BY <3>1, <3>3, <3>4
  <2>3. CASE i = Len(Path[t]) /\ j = Len(Path[u])
    BY <1>1, <2>2, <2>3
  <2>4. CASE i # Len(Path[t]) \/ j # Len(Path[u])
    <3>1. p \in Paused(t) /\ p \in Paused(u)
      BY <1>1, <2>2, <2>4
    <3> QED BY <1>1, <2>1, <2>2, <3>1 DEF OnePauser
  <2> QED BY <2>3, <2>4
<1>2. IInv => ExclusiveUnlessLate
  BY <1>1 DEF ExclusiveUnlessLate, ResourceExclusive, Shares
<1> QED BY <1>2, IInvAlways, PTL
-----------------------------------------------------------------------------
(* A task that has entered its chain waits in the queue it has reached, is *)
(* the functor of that queue, or releases what it holds.                   *)
Waits(t) == \E i \in 1..Len(pending[Here(t)]) : pending[Here(t)][i] = t
OnTheWay == \A t \in Tasks :
    level[t] > 0 => Waits(t) \/ Live(Here(t), t) \/ In(Last(t), t, "releasing")

(* A free, open queue in which functors wait has a pick on its way, unless *)
(* a second clear has left one behind.                                     *)
Awake == \A q \in Queues :
    pending[q] # <<>> /\ current[q] = NoTask /\ pauseCount[q] = 0 /\ ~missed[q]
        => asked[q] + passed[q] > 0

(* Nothing goes on by itself: no functor is at work, no pick is under way, *)
(* and every pushAndWait() that could return has.                          *)
AtRest == /\ \A q \in Queues : current[q] = NoTask /\ asked[q] = 0 /\ passed[q] = 0
          /\ \A t \in Tasks : /\ waiter[t] # "pushed"
                              /\ ~(waiter[t] = "waiting" /\ refs[t] = 1)

(* All chains take their queues in one order.                              *)
InOneOrder == \E rank \in [Queues -> Nat] : \A t \in Tasks :
    \A i, j \in 1..Len(Path[t]) : i < j => rank[Path[t][i]] < rank[Path[t][j]]

(* What is left behind when nothing goes on any more: nothing, unless a    *)
(* functor is stranded in an open queue and blocks the chains before it.   *)
NothingHeld ==
    AtRest => \/ \E q \in Queues : Stranded(q)
              \/ /\ \A q \in Queues : pending[q] = <<>> /\ pauseCount[q] = 0
                 /\ \A c \in Chains : outstanding[c] = 0
                 /\ \A t \in Tasks : level[t] = 0 /\ waiter[t] \in {"none", "returned"}

(* Whatever is done to a queue, a functor that could run has a pick.       *)
LEMMA AwakeStep ==
  ASSUME QueuesTypeOK, Awake, NEW q \in Queues,
         \/ \E t \in Tasks : PushTo(q, t)
         \/ PauseQueue(q) \/ ResumeQueue(q) \/ EndTask(q) \/ Pick(q)
  PROVE  Awake'
<1> USE DEF QueuesTypeOK, Awake, AddOne, TakeOne
<1>1. CASE \E t \in Tasks : PushTo(q, t)
  <2>1. asked' = [asked EXCEPT ![q] = asked[q] + 1] /\ UNCHANGED <<current, pauseCount, passed, missed>>
        /\ \A p \in Queues : p # q => pending'[p] = pending[p]
    BY <1>1 DEF PushTo
  <2> QED BY <2>1
<1>2. CASE PauseQueue(q)
  BY <1>2 DEF PauseQueue
<1>3. CASE ResumeQueue(q)
  BY <1>3 DEF ResumeQueue
<1>4. CASE EndTask(q)
  BY <1>4 DEF EndTask
<1>5. CASE ReadPause(q)
  BY <1>5 DEF ReadPause
<1>6. CASE Take(q)
  <2>1. current'[q] = Head(pending[q]) /\ Head(pending[q]) \in Tasks
        /\ UNCHANGED <<pauseCount, asked, missed>> /\ passed' = [passed EXCEPT ![q] = passed[q] - 1]
        /\ \A p \in Queues : p # q => pending'[p] = pending[p] /\ current'[p] = current[p]
    BY <1>6, TailFacts DEF Take
  <2> QED BY <2>1, NoTaskAssumption
<1>7. CASE GiveUp(q)
  BY <1>7 DEF GiveUp
<1>8. CASE Miss(q)
  BY <1>8 DEF Miss
<1> QED BY <1>1, <1>2, <1>3, <1>4, <1>5, <1>6, <1>7, <1>8 DEF Pick

(* The chains do nothing else to their queues.                             *)
LEMMA AwakeNext ==
  ASSUME Places, Awake, [Next]_vars
  PROVE  Awake'
<1> USE DEF Places, TypeOK
<1>1. CASE UNCHANGED queues
  BY <1>1 DEF Awake, queues
<1>2. ASSUME NEW t \in Tasks, Client(t) PROVE Awake'
  <2>1. PushTo(Path[t][1], t) /\ Path[t][1] \in Queues
    BY <1>2, PathFacts DEF Client, Push, PushAndWait, Enter
  <2> QED BY <2>1, AwakeStep
<1>3. ASSUME NEW t \in Tasks, Waiter(t) PROVE Awake'
  BY <1>1, <1>3 DEF Waiter, GiveBackReference, WaitForAll
<1>4. ASSUME NEW q \in Queues, PickTask(q) PROVE Awake'
  BY <1>4, AwakeStep DEF PickTask
<1>5. ASSUME NEW q \in Queues, EndFunctor(q) PROVE Awake'
  BY <1>5, AwakeStep DEF EndFunctor
<1>6. ASSUME NEW q \in Queues, NEW t \in Tasks, Functor(q, t) PROVE Awake'
  <2>1. CASE PassDownPause(q, t)
    BY <2>1, AwakeStep DEF PassDownPause
  <2>2. CASE PassDownPush(q, t)
    <3>1. PICK k \in Nat : k = level[t] + 1
      OBVIOUS
    <3>2. k \in 1..Len(Path[t])
      <4>1. q = Here(t) /\ q # Last(t) /\ level[t] > 0 /\ level[t] <= Len(Path[t])
        BY <2>2 DEF PassDownPush, CurrentReached, Live, In, Levels
      <4> QED BY <3>1, <4>1, PathFacts DEF Here, Last
    <3>3. PushTo(Path[t][k], t) /\ Path[t][k] \in Queues
      BY <2>2, <3>1, <3>2, PathFacts DEF PassDownPush
    <3> QED BY <3>3, AwakeStep
  <2>3. CASE BeginAction(q, t) \/ EndAction(q, t)
    BY <1>1, <2>3 DEF BeginAction, EndAction
  <2>4. CASE Release(q, t)
    <3>1. CASE level[t] > 1
      <4>1. PICK k \in Nat : k = level[t] - 1
        BY <3>1
      <4>2. k \in 1..Len(Path[t])
        BY <3>1, <4>1, PathFacts DEF Levels
      <4>3. ResumeQueue(Path[t][k]) /\ Path[t][k] \in Queues
        BY <2>4, <3>1, <4>1, <4>2, PathFacts DEF Release
      <4> QED BY <4>3, AwakeStep
    <3>2. CASE ~(level[t] > 1)
      BY <1>1, <2>4, <3>2 DEF Release
    <3> QED BY <3>1, <3>2
  <2> QED BY <1>6, <2>1, <2>2, <2>3, <2>4 DEF Functor
<1> QED BY <1>1, <1>2, <1>3, <1>4, <1>5, <1>6 DEF Next, Scheduler, vars

(* A task in its chain is at one of its queues.                            *)
LEMMA HereIsQueue ==
  ASSUME Places, NEW u \in Tasks, level[u] > 0
  PROVE  Here(u) \in Queues
<1>1. level[u] \in 1..Len(Path[u])
  BY PathFacts DEF Places, TypeOK, Levels
<1> QED BY <1>1, PathFacts DEF Here

(* A task that is pushed to a queue of its chain waits there.              *)
LEMMA WayArrives ==
  ASSUME Places, OnTheWay, NEW t \in Tasks, NEW k \in 1..Len(Path[t]),
         PushTo(Path[t][k], t), level' = [level EXCEPT ![t] = k],
         \A p \in Queues, u \in Tasks : u # t =>
            (Live(p, u) => Live(p, u)') /\ (In(p, u, "releasing") => In(p, u, "releasing")')
  PROVE  OnTheWay'
<1> USE DEF Places, TypeOK, QueuesTypeOK
<1>1. PICK q \in Queues : q = Path[t][k]
  BY PathFacts
<1>2. /\ pending' = [pending EXCEPT ![q] = Append(pending[q], t)] /\ pending[q] \in Seq(Tasks)
      /\ k \in Nat /\ k > 0 /\ level'[t] = k
      /\ \A u \in Tasks : u # t => level'[u] = level[u]
  <2>1. pending' = [pending EXCEPT ![q] = Append(pending[q], t)] /\ pending[q] \in Seq(Tasks)
    BY <1>1 DEF PushTo
  <2>2. k \in Nat /\ k > 0
    <3> HIDE DEF Places, TypeOK, QueuesTypeOK
    <3>1. Len(Path[t]) \in Nat
      BY PathFacts
    <3> QED BY <3>1
  <2>3. level'[t] = k /\ \A u \in Tasks : u # t => level'[u] = level[u]
    OBVIOUS
  <2> QED BY <2>1, <2>2, <2>3
<1>3. \A p \in Queues : \A i \in 1..Len(pending[p]) :
          i \in 1..Len(pending'[p]) /\ pending'[p][i] = pending[p][i]
  <2> SUFFICES ASSUME NEW p \in Queues, NEW i \in 1..Len(pending[p])
               PROVE  i \in 1..Len(pending'[p]) /\ pending'[p][i] = pending[p][i]
    OBVIOUS
  <2>1. CASE p = q
    <3>1. pending'[p] = Append(pending[p], t)
      BY <1>2, <2>1
    <3>2. /\ Len(pending[p]) \in Nat /\ Len(pending'[p]) = Len(pending[p]) + 1
          /\ pending'[p][i] = pending[p][i]
      BY <1>2, <2>1, <3>1, AppendFacts
    <3> QED BY <3>2
  <2>2. CASE p # q
    <3>1. pending'[p] = pending[p]
      BY <1>2, <2>2
    <3> QED BY <3>1
  <2> QED BY <2>1, <2>2
<1>4. pending'[q][Len(pending[q]) + 1] = t /\ Len(pending[q]) + 1 \in 1..Len(pending'[q])
  BY <1>2, AppendFacts
<1> SUFFICES ASSUME NEW u \in Tasks, level'[u] > 0
             PROVE  Waits(u)' \/ Live(Here(u), u)' \/ In(Last(u), u, "releasing")'
  BY DEF OnTheWay
<1>5. CASE u = t
  BY <1>1, <1>2, <1>4, <1>5 DEF Waits, Here
<1>6. CASE u # t
  <2>1. level'[u] = level[u] /\ Here(u)' = Here(u)
    BY <1>2, <1>6 DEF Here
  <2>2. PICK p \in Queues : p = Here(u)
    BY <2>1, HereIsQueue
  <2>3. CASE Waits(u)
    <3>1. PICK i \in 1..Len(pending[p]) : pending[p][i] = u
      BY <2>2, <2>3 DEF Waits
    <3> QED BY <1>3, <2>1, <2>2, <3>1 DEF Waits
  <2>4. CASE Live(Here(u), u)
    <3>1. Live(p, u)'
      BY <1>6, <2>2, <2>4
    <3> QED BY <2>1, <2>2, <3>1 DEF Live
  <2>5. CASE In(Last(u), u, "releasing")
    <3>1. PICK r \in Queues : r = Last(u)
      BY PathFacts
    <3>2. In(r, u, "releasing")'
      BY <1>6, <2>5, <3>1
    <3> QED BY <3>1, <3>2 DEF In, Last
  <2> QED BY <2>1, <2>3, <2>4, <2>5 DEF OnTheWay
<1> QED BY <1>5, <1>6

(* A functor that goes on keeps its task on the way.                       *)
LEMMA WaySame ==
  ASSUME Places, OnTheWay, UNCHANGED <<pending, level>>,
         \A p \in Queues, u \in Tasks :
            /\ Live(p, u) => Live(p, u)' \/ In(Last(u), u, "releasing")'
            /\ In(p, u, "releasing") => In(p, u, "releasing")'
  PROVE  OnTheWay'
<1> USE DEF Places, TypeOK, QueuesTypeOK
<1> SUFFICES ASSUME NEW u \in Tasks, level'[u] > 0
             PROVE  Waits(u)' \/ Live(Here(u), u)' \/ In(Last(u), u, "releasing")'
  BY DEF OnTheWay
<1>1. Here(u)' = Here(u) /\ (Waits(u) => Waits(u)')
  BY DEF Here, Waits
<1>2. PICK p \in Queues : p = Here(u)
  BY HereIsQueue
<1>3. PICK r \in Queues : r = Last(u)
  BY PathFacts
<1>4. CASE Live(Here(u), u)
  <2>1. Live(p, u)' \/ In(Last(u), u, "releasing")'
    BY <1>2, <1>4
  <2> QED BY <1>1, <1>2, <2>1 DEF Live
<1>5. CASE In(Last(u), u, "releasing")
  <2>1. In(r, u, "releasing")'
    BY <1>3, <1>5
  <2> QED BY <1>3, <2>1 DEF In, Last
<1> QED BY <1>1, <1>4, <1>5 DEF OnTheWay

(* A task that waited in the queue is its functor now.                     *)
LEMMA WayTaken ==
  ASSUME Places, OnTheWay, NEW q \in Queues, Taken(q), level' = level
  PROVE  OnTheWay'
<1> USE DEF Places, TypeOK, QueuesTypeOK
<1>1. /\ pending[q] \in Seq(Tasks) /\ pending[q] # <<>> /\ pending' = [pending EXCEPT ![q] = Tail(pending[q])]
      /\ current[q] = NoTask /\ current'[q] = pending[q][1] /\ 1 \in 1..Len(pending[q])
      /\ at' = [at EXCEPT ![q] = "start"]
      /\ \A p \in Queues : p # q => current'[p] = current[p]
  BY DEF Taken, Take
<1>2. ASSUME NEW i \in 1..Len(pending[q]), i # 1
      PROVE  i - 1 \in 1..Len(pending'[q]) /\ pending'[q][i - 1] = pending[q][i]
  <2>1. pending'[q] = Tail(pending[q]) /\ Len(Tail(pending[q])) = Len(pending[q]) - 1 /\ Len(pending[q]) \in Nat
    BY <1>1, TailFacts
  <2>2. PICK j \in Nat : j = i - 1
    BY <1>2
  <2>3. j \in 1..Len(Tail(pending[q])) /\ j + 1 = i
    BY <1>2, <2>1, <2>2
  <2> QED BY <1>1, <2>1, <2>2, <2>3, TailFacts
<1> SUFFICES ASSUME NEW u \in Tasks, level'[u] > 0
             PROVE  Waits(u)' \/ Live(Here(u), u)' \/ In(Last(u), u, "releasing")'
  BY DEF OnTheWay
<1>3. Here(u)' = Here(u) /\ u # NoTask
  BY NoTaskAssumption DEF Here
<1>4. PICK p \in Queues : p = Here(u)
  BY HereIsQueue
<1>5. PICK r \in Queues : r = Last(u)
  BY PathFacts
<1>6. CASE Waits(u)
  <2>1. PICK i \in 1..Len(pending[p]) : pending[p][i] = u
    BY <1>4, <1>6 DEF Waits
  <2>2. CASE p = q /\ i = 1
    <3>1. current'[p] = u /\ at'[p] = "start"
      BY <1>1, <2>1, <2>2
    <3> QED BY <1>3, <1>4, <3>1 DEF Live
  <2>3. CASE p = q /\ i # 1
    <3>1. PICK j \in 1..Len(pending'[p]) : pending'[p][j] = u
      BY <1>2, <2>1, <2>3
    <3> QED BY <1>3, <1>4, <3>1 DEF Waits
  <2>4. CASE p # q
    <3>1. pending'[p] = pending[p]
      BY <1>1, <2>4
    <3> QED BY <1>3, <1>4, <2>1, <3>1 DEF Waits
  <2> QED BY <2>2, <2>3, <2>4
<1>7. CASE Live(Here(u), u)
  <2>1. p # q
    BY <1>1, <1>3, <1>4, <1>7 DEF Live
  <2>2. current'[p] = current[p] /\ at'[p] = at[p]
    BY <1>1, <2>1
  <2> QED BY <1>3, <1>4, <1>7, <2>2 DEF Live
<1>8. CASE In(Last(u), u, "releasing")
  <2>1. r # q
    BY <1>1, <1>3, <1>5, <1>8 DEF In
  <2>2. current'[r] = current[r] /\ at'[r] = at[r]
    BY <1>1, <2>1
  <2> QED BY <1>5, <1>8, <2>2 DEF In, Last
<1> QED BY <1>6, <1>7, <1>8 DEF OnTheWay

(* A task that releases its queues does so until none is left.             *)
LEMMA WayReleases ==
  ASSUME Places, OnTheWay, NEW q \in Queues, NEW t \in Tasks, Release(q, t)
  PROVE  OnTheWay'
<1> USE DEF Places, TypeOK, QueuesTypeOK
<1>1. /\ current[q] = t /\ at[q] = "releasing" /\ q = Last(t) /\ UNCHANGED <<pending, current>>
      /\ \A u \in Tasks : u # t => level'[u] = level[u]
      /\ \A p \in Queues : p # q => at'[p] = at[p]
  BY DEF Release, In, ResumeQueue, queues, CurrentReached
<1>2. level'[t] > 0 => at' = at
  BY DEF Release
<1> SUFFICES ASSUME NEW u \in Tasks, level'[u] > 0
             PROVE  Waits(u)' \/ Live(Here(u), u)' \/ In(Last(u), u, "releasing")'
  BY DEF OnTheWay
<1>3. CASE u = t
  BY <1>1, <1>2, <1>3 DEF In, Last
<1>4. CASE u # t
  <2>1. level'[u] = level[u] /\ Here(u)' = Here(u)
    BY <1>1, <1>4 DEF Here
  <2>2. PICK p \in Queues : p = Here(u)
    BY <2>1, HereIsQueue
  <2>3. PICK r \in Queues : r = Last(u)
    BY PathFacts
  <2>4. CASE Waits(u)
    BY <1>1, <2>1, <2>4 DEF Waits
  <2>5. CASE Live(Here(u), u)
    <3>1. at'[p] = at[p]
      BY <1>1, <1>4, <2>2, <2>5 DEF Live
    <3> QED BY <1>1, <2>1, <2>2, <2>5, <3>1 DEF Live
  <2>6. CASE In(Last(u), u, "releasing")
    <3>1. at'[r] = at[r]
      BY <1>1, <1>4, <2>3, <2>6 DEF In
    <3> QED BY <1>1, <2>3, <2>6, <3>1 DEF In, Last
  <2> QED BY <2>1, <2>4, <2>5, <2>6 DEF OnTheWay
<1> QED BY <1>3, <1>4

(* No step loses a task on its way through the chain.                      *)
LEMMA OnTheWayNext ==
  ASSUME Places, OnTheWay, [Next]_vars
  PROVE  OnTheWay'
<1> USE DEF Places, TypeOK, QueuesTypeOK
<1>1. CASE UNCHANGED <<pending, current, at, level>>
  BY <1>1, WaySame DEF Live, In
<1>2. ASSUME NEW t \in Tasks, Client(t) PROVE OnTheWay'
  <2>1. /\ PushTo(Path[t][1], t) /\ 1 \in 1..Len(Path[t])
        /\ level' = [level EXCEPT ![t] = 1] /\ UNCHANGED <<current, at>>
    <3>1. 1 \in 1..Len(Path[t])
      BY PathFacts
    <3>2. Enter(t) /\ at' = at
      BY <1>2 DEF Client, Push, PushAndWait
    <3> QED BY <3>1, <3>2 DEF Enter, PushTo
  <2> QED BY <2>1, WayArrives DEF Live, In
<1>3. ASSUME NEW t \in Tasks, Waiter(t) PROVE OnTheWay'
  BY <1>1, <1>3 DEF Waiter, GiveBackReference, WaitForAll, queues
<1>4. ASSUME NEW q \in Queues, PickTask(q) PROVE OnTheWay'
  <2>1. level' = level
    BY <1>4 DEF PickTask
  <2> QED BY <1>1, <1>4, <2>1, PickCases, WayTaken
<1>5. ASSUME NEW q \in Queues, EndFunctor(q) PROVE OnTheWay'
  <2>1. /\ UNCHANGED <<pending, level, at>> /\ at[q] = "ended"
        /\ \A p \in Queues : p # q => current'[p] = current[p]
    BY <1>5 DEF EndFunctor, EndTask, chainVars
  <2> QED BY <2>1, WaySame DEF Live, In
<1>6. ASSUME NEW q \in Queues, NEW t \in Tasks, Functor(q, t) PROVE OnTheWay'
  <2>1. CASE PassDownPause(q, t) \/ BeginAction(q, t)
    <3>1. /\ UNCHANGED <<pending, level, current>> /\ at[q] = "start" /\ at'[q] \in {"paused", "action"}
          /\ \A p \in Queues : p # q => at'[p] = at[p]
      BY <2>1 DEF PassDownPause, BeginAction, PauseQueue, queues, In
    <3> QED BY <3>1, WaySame DEF Live, In
  <2>2. CASE EndAction(q, t)
    <3>1. /\ UNCHANGED <<pending, level, current>> /\ at[q] = "action" /\ at'[q] = "releasing"
          /\ current[q] = t /\ q = Last(t)
          /\ \A p \in Queues : p # q => at'[p] = at[p]
      BY <2>2 DEF EndAction, queues, In, CurrentReached
    <3>2. In(Last(t), t, "releasing")'
      BY <3>1 DEF In, Last
    <3>3. \A p \in Queues, u \in Tasks : Live(p, u) => Live(p, u)' \/ In(Last(u), u, "releasing")'
      <4> SUFFICES ASSUME NEW p \in Queues, NEW u \in Tasks, Live(p, u), ~Live(p, u)'
                   PROVE  In(Last(u), u, "releasing")'
        OBVIOUS
      <4>1. p = q /\ u = t
        BY <3>1 DEF Live
      <4> QED BY <3>2, <4>1
    <3>4. \A p \in Queues, u \in Tasks : In(p, u, "releasing") => In(p, u, "releasing")'
      BY <3>1 DEF In
    <3> QED BY <3>1, <3>3, <3>4, WaySame
  <2>3. CASE PassDownPush(q, t)
    <3>1. PICK k \in Nat : k = level[t] + 1
      OBVIOUS
    <3>2. k \in 1..Len(Path[t])
      <4>1. q = Here(t) /\ q # Last(t) /\ level[t] > 0 /\ level[t] <= Len(Path[t])
        BY <2>3 DEF PassDownPush, CurrentReached, Live, In, Levels
      <4>2. level[t] # Len(Path[t])
        BY <4>1 DEF Here, Last
      <4>3. Len(Path[t]) \in Nat
        BY PathFacts
      <4> QED BY <3>1, <4>1, <4>2, <4>3
    <3>3. /\ PushTo(Path[t][k], t) /\ level' = [level EXCEPT ![t] = k]
          /\ current' = current /\ current[q] = t
          /\ \A p \in Queues : p # q => at'[p] = at[p]
      BY <2>3, <3>1 DEF PassDownPush, PushTo, In
    <3>4. \A p \in Queues, u \in Tasks : u # t =>
              (Live(p, u) => Live(p, u)') /\ (In(p, u, "releasing") => In(p, u, "releasing")')
      BY <3>3 DEF Live, In
    <3> QED BY <3>2, <3>3, <3>4, WayArrives
  <2>4. CASE Release(q, t)
    BY <2>4, WayReleases
  <2> QED BY <1>6, <2>1, <2>2, <2>3, <2>4 DEF Functor
<1> QED BY <1>1, <1>2, <1>3, <1>4, <1>5, <1>6 DEF Next, Scheduler, vars, queues, chainVars

(* Of any sets of elements of a finite set some are minimal.               *)
LEMMA MinimalSet ==
    ASSUME NEW S, IsFiniteSet(S), NEW F \in SUBSET SUBSET S, F # {}
    PROVE  \E A \in F : \A B \in F : B \subseteq A => B = A
<1>1. IsWellFoundedOn(StrictSubsetOrdering(S), SUBSET S)
  BY FS_StrictSubsetOrderingWellFounded, FS_FiniteSubsetsOfFinite
<1>2. \E A \in F : \A B \in F : <<B, A>> \notin StrictSubsetOrdering(S)
  BY <1>1, WFMin
<1> QED BY <1>2 DEF StrictSubsetOrdering

(* One of finitely many things has the highest rank.                       *)
LEMMA HighestRank ==
  ASSUME NEW T, IsFiniteSet(T), T # {}, NEW rank, \A t \in T : rank[t] \in Nat
  PROVE  \E t \in T : \A u \in T : rank[u] <= rank[t]
<1>1. PICK above : above = [t \in T |-> {u \in T : rank[u] > rank[t]}]
  OBVIOUS
<1>2. PICK F : F = {above[t] : t \in T}
  OBVIOUS
<1>3. F \in SUBSET SUBSET T /\ F # {}
  BY <1>1, <1>2
<1>4. \E A \in F : \A B \in F : B \subseteq A => B = A
  BY <1>3, MinimalSet
<1>5. PICK A \in F : \A B \in F : B \subseteq A => B = A
  BY <1>4
<1>6. PICK t \in T : A = above[t]
  BY <1>2
<1>7. ASSUME NEW u \in T, rank[u] > rank[t] PROVE FALSE
  <2>1. above[u] \subseteq A /\ u \in A /\ u \notin above[u]
    BY <1>1, <1>6, <1>7
  <2>2. above[u] \in F
    BY <1>2
  <2> QED BY <1>5, <2>1, <2>2
<1> QED BY <1>7

(* At rest a task waits only for a queue that another one has passed.      *)
LEMMA HeldWhileWaiting ==
  ASSUME IInv, OnTheWay, Awake, AtRest, ~\E q \in Queues : Stranded(q), NEW t \in Tasks, level[t] > 0
  PROVE  \E u \in Tasks : level[u] > 1 /\ \E i \in 1..(level[u] - 1) : Here(t) = Path[u][i]
<1> USE DEF AtRest
<1>1. Places /\ FinitelyMany /\ PausesOwned
  BY DEF IInv
<1>2. PICK q \in Queues : q = Here(t)
  BY <1>1, HereIsQueue
<1>3. t # NoTask /\ Last(t) \in Queues
  BY PathFacts
<1>4. Waits(t)
  BY <1>2, <1>3 DEF OnTheWay, Live, In
<1>5. pending[q] # <<>>
  BY <1>2, <1>4 DEF Waits
<1>6. pauseCount[q] # 0
  BY <1>5 DEF Awake, Stranded
<1>7. PICK H : H = {u \in Tasks : q \in Paused(u)}
  OBVIOUS
<1>8. pauseCount[q] = Cardinality(H)
  BY <1>1, <1>7 DEF PausesOwned
<1>9. H # {}
  BY <1>6, <1>8, FS_EmptySet
<1>10. PICK u \in Tasks : q \in Paused(u)
  BY <1>7, <1>9
<1>11. ~In(q, u, "paused")
  BY NoTaskAssumption DEF In
<1>12. PICK i \in 1..(level[u] - 1) : q = Path[u][i]
  BY <1>10, <1>11 DEF Paused
<1>13. level[u] > 1
  BY <1>1 DEF Places, TypeOK
<1> QED BY <1>2, <1>12, <1>13

(* The task that has come furthest in the order waits for nobody.          *)
LEMMA AllReleased ==
  ASSUME IInv, OnTheWay, Awake, AtRest, ~\E q \in Queues : Stranded(q), InOneOrder
  PROVE  \A t \in Tasks : level[t] = 0
<1>1. Places /\ FinitelyMany
  BY DEF IInv
<1>2. level \in [Tasks -> Nat]
  BY <1>1 DEF Places, TypeOK
<1> SUFFICES ASSUME InChain # {} PROVE FALSE
  BY <1>2 DEF InChain
<1>3. PICK rank \in [Queues -> Nat] : \A t \in Tasks :
          \A i, j \in 1..Len(Path[t]) : i < j => rank[Path[t][i]] < rank[Path[t][j]]
  BY DEF InOneOrder
<1>4. PICK r : r = [t \in InChain |-> rank[Here(t)]]
  OBVIOUS
<1>5. \A t \in InChain : r[t] = rank[Here(t)] /\ r[t] \in Nat
  BY <1>1, <1>3, <1>4, HereIsQueue DEF InChain
<1>6. IsFiniteSet(InChain)
  BY <1>1 DEF FinitelyMany, InChain
<1>7. PICK t \in InChain : \A u \in InChain : r[u] <= r[t]
  BY <1>5, <1>6, HighestRank
<1>8. t \in Tasks /\ level[t] > 0
  BY DEF InChain
<1>9. PICK u \in Tasks : level[u] > 1 /\ \E i \in 1..(level[u] - 1) : Here(t) = Path[u][i]
  BY <1>8, HeldWhileWaiting
<1>10. PICK i \in 1..(level[u] - 1) : Here(t) = Path[u][i]
  BY <1>9
<1>11. i \in 1..Len(Path[u]) /\ level[u] \in 1..Len(Path[u]) /\ i < level[u]
  BY <1>1, <1>2, <1>9, PathFacts DEF Places, Levels
<1>12. rank[Here(t)] < rank[Here(u)]
  BY <1>3, <1>10, <1>11 DEF Here
<1>13. u \in InChain /\ r[u] = rank[Here(u)] /\ r[t] = rank[Here(t)]
  BY <1>2, <1>5, <1>9 DEF InChain
<1> QED BY <1>5, <1>7, <1>12, <1>13

(* With no task in a chain nothing is queued, paused or outstanding.       *)
LEMMA AtRestNothingHeld ==
  ASSUME IInv, OnTheWay, Awake, InOneOrder
  PROVE  NothingHeld
<1> SUFFICES ASSUME AtRest, ~\E q \in Queues : Stranded(q)
             PROVE  /\ \A q \in Queues : pending[q] = <<>> /\ pauseCount[q] = 0
                    /\ \A c \in Chains : outstanding[c] = 0
                    /\ \A t \in Tasks : level[t] = 0 /\ waiter[t] \in {"none", "returned"}
  BY DEF NothingHeld
<1>1. Places /\ PausesOwned /\ TypeOK
  BY DEF IInv, Places
<1>2. \A t \in Tasks : level[t] = 0
  BY AllReleased
<1>3. \A q \in Queues : pending[q] = <<>>
  <2> SUFFICES ASSUME NEW q \in Queues, pending[q] # <<>> PROVE FALSE
    OBVIOUS
  <2>1. pending[q] \in Seq(Tasks)
    BY <1>1 DEF TypeOK, QueuesTypeOK
  <2>2. 1 \in 1..Len(pending[q]) /\ pending[q][1] \in Tasks
    BY <2>1, TailFacts
  <2>3. level[pending[q][1]] > 0
    BY <1>1, <2>2 DEF Places, PendingReached, Reached
  <2> QED BY <1>2, <2>2, <2>3
<1>4. \A q \in Queues : pauseCount[q] = 0
  <2> SUFFICES ASSUME NEW q \in Queues PROVE pauseCount[q] = 0
    OBVIOUS
  <2>1. \A u \in Tasks : q \notin Paused(u)
    BY <1>1, <1>2, PausedBelow
  <2>2. {u \in Tasks : q \in Paused(u)} = {}
    BY <2>1
  <2> QED BY <1>1, <2>2, FS_EmptySet DEF PausesOwned
<1>5. \A c \in Chains : outstanding[c] = 0
  <2> SUFFICES ASSUME NEW c \in Chains PROVE outstanding[c] = 0
    OBVIOUS
  <2>1. {u \in Tasks : Path[u] = c /\ level[u] > 0} = {}
    BY <1>2
  <2> QED BY <1>1, <2>1, FS_EmptySet DEF PausesOwned
<1>6. \A t \in Tasks : waiter[t] \in {"none", "returned"}
  <2> SUFFICES ASSUME NEW t \in Tasks, waiter[t] \notin {"none", "returned"} PROVE FALSE
    OBVIOUS
  <2>1. waiter[t] = "waiting"
    BY <1>1 DEF AtRest, TypeOK, Waiters
  <2>2. t \in done /\ refs[t] = 1
    BY <1>1, <1>2, <2>1 DEF Places, References
  <2> QED BY <2>1, <2>2 DEF AtRest
<1> QED BY <1>2, <1>3, <1>4, <1>5, <1>6

(* No task is in a chain at first.                                         *)
LEMMA WayInit == Init => OnTheWay /\ Awake
  BY DEF Init, QueuesInit, OnTheWay, Awake

(* The safety half of ActionRunsAndReleases: if all chains take the queues *)
(* in one order, as createAcquirer() arranges, there is no circle of       *)
(* chains that wait for each other, for any number of queues, chains and   *)
(* tasks: when nothing goes on any more, every action that was pushed has  *)
(* run, every queue is open and every pushAndWait() has returned, unless   *)
(* a second clear has left a functor behind in an open queue.              *)
THEOREM NothingHeldAtRest == InOneOrder => (Spec => []NothingHeld)
<1> SUFFICES ASSUME InOneOrder PROVE Spec => []NothingHeld
  OBVIOUS
<1>1. IInv /\ OnTheWay /\ Awake => NothingHeld
  BY AtRestNothingHeld
<1>2. IInv /\ OnTheWay /\ Awake /\ [Next]_vars => OnTheWay' /\ Awake'
  BY OnTheWayNext, AwakeNext DEF IInv
<1> QED BY <1>1, <1>2, WayInit, IInvAlways, PTL DEF Spec
=============================================================================

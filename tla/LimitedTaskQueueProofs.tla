----------------------- MODULE LimitedTaskQueueProofs -----------------------
(***************************************************************************)
(* Proofs about LimitedTaskQueue for any limit and any tasks: an action    *)
(* runs once, in the order of the pushes, within the limit, and before     *)
(* pushAndWait() returns.                                                  *)
(***************************************************************************)
EXTENDS LimitedTaskQueue, FiniteSetTheorems, WellFoundedInduction, TLAPS

Lies(q, t) == \E i \in 1..Len(pending[q]) : pending[q][i] = t
Resumes(q, t) == q \in home[t] /\ resumers[t] > 0
Acts(q, t) == current[q] = t /\ at[q] = "action"
Uses(q, t) == Resumes(q, t) \/ Acts(q, t)

(* The flag, the history of runs and the place of the action agree.        *)
Flags ==
    \A t \in Tasks :
        /\ setToRun[t] => ran[t] = 1 /\ \E q \in Queues : home[t] = {q}
        /\ ~setToRun[t] => ran[t] = 0 /\ home[t] = {} /\ resumers[t] = 0
        /\ resumers[t] > 0 => Kind[t] = "pause"
        /\ waiter[t] # "none" => Kind[t] = "wait"
        /\ waiter[t] = "returned" => setToRun[t] /\ \A q \in Queues : ~Acts(q, t)
        /\ t \notin begun => ~setToRun[t] /\ toPush[t] = <<>>

(* Only what has been pushed is in a queue, and only a copy that has won   *)
(* the flag acts. *)
Copies ==
    /\ \A q \in Queues : current[q] = NoTask => at[q] = "start"
    /\ \A q \in Queues, t \in Tasks :
        /\ Lies(q, t) \/ current[q] = t => t \in begun
        /\ Acts(q, t) => setToRun[t] /\ home[t] = {q}

(* Until its action runs, a task has a copy in every queue the loop of     *)
(* push() has passed. *)
EveryQueue ==
    \A t \in begun : \A q \in Queues :
        ~setToRun[t] => \/ current[q] = t \/ Lies(q, t)
                        \/ \E k \in 1..Len(toPush[t]) : toPush[t][k] = q

(* In every queue, a task that is to be first has its copy in front. *)
InFront(q, u, t) ==
    /\ current[q] # t
    /\ \/ current[q] = u
       \/ \E i \in 1..Len(pending[q]) :
             /\ pending[q][i] = u
             /\ \A j \in 1..Len(pending[q]) : pending[q][j] = t => i < j
Order == \A t \in Tasks : \A u \in before[t] :
            /\ u \in begun /\ ~setToRun[u] /\ u # t
            /\ \A q \in Queues : InFront(q, u, t)

(* While no copy has slipped into a paused queue, a queue is used by one   *)
(* task at most, and paused for it. *)
OneUser ==
    \A q \in Queues :
        /\ \A t, u \in Tasks : Uses(q, t) /\ Uses(q, u) => t = u
        /\ \A t \in Tasks : Resumes(q, t) => pauseCount[q] = resumers[t]
        /\ (\A t \in Tasks : ~Resumes(q, t)) => pauseCount[q] = 0
        /\ current[q] # NoTask /\ at[q] = "start" => pauseCount[q] = 0

Basics == TypeOK /\ Flags /\ Copies
IInv == Basics /\ EveryQueue /\ Order /\ NoOvertaking /\ (~late => OneUser)

-----------------------------------------------------------------------------
(* The loops of push() go over all queues. *)
LEMMA AllQueuesFacts ==
  /\ AllQueues \in Seq(Queues) /\ AllQueues # <<>>
  /\ \A q \in Queues : \E k \in 1..Len(AllQueues) : AllQueues[k] = q
<1>1. IsFiniteSet(Queues) /\ Cardinality(Queues) \in Nat
      /\ ExistsBijection(1..Cardinality(Queues), Queues) /\ Cardinality(Queues) # 0
  BY LimitAssumption, FS_CardinalityType, FS_EmptySet
<1>2. PICK f \in Bijection(1..Cardinality(Queues), Queues) : TRUE
  BY <1>1 DEF ExistsBijection
<1>3. f \in [1..Cardinality(Queues) -> Queues] /\ IsInjective(f)
  BY <1>2 DEF Bijection, Injection, IsInjective
<1>4. /\ AllQueues \in [1..Cardinality(Queues) -> Queues]
      /\ IsInjective(AllQueues)
  BY <1>3 DEF AllQueues, SetToSeq
<1>5. AllQueues \in Seq(Queues) /\ AllQueues # <<>> /\ Len(AllQueues) = Cardinality(Queues)
  BY <1>1, <1>4
<1>6. \A q \in Queues : \E k \in 1..Len(AllQueues) : AllQueues[k] = q
  <2>1. AllQueues \in Injection(1..Cardinality(Queues), Queues)
    BY <1>4 DEF Injection, IsInjective
  <2>2. IsFiniteSet(1..Cardinality(Queues)) /\ Cardinality(1..Cardinality(Queues)) = Cardinality(Queues)
    BY <1>1, FS_Interval
  <2>3. AllQueues \in Surjection(1..Cardinality(Queues), Queues)
    BY <1>1, <2>1, <2>2, FS_Injection
  <2> QED BY <1>5, <2>3 DEF Surjection
<1> QED BY <1>5, <1>6

(* A functor at the end of a queue, and one taken from its front. *)
LEMMA AppendFacts ==
  ASSUME NEW S, NEW s \in Seq(S), NEW e \in S
  PROVE  /\ Append(s, e) \in Seq(S) /\ Len(s) \in Nat
         /\ Len(Append(s, e)) = Len(s) + 1
         /\ Append(s, e)[Len(s) + 1] = e
         /\ \A i \in 1..Len(s) : Append(s, e)[i] = s[i] /\ s[i] \in S
  OBVIOUS

(* What pop leaves of a nonempty sequence of functors.                     *)
LEMMA TailFacts ==
  ASSUME NEW S, NEW s \in Seq(S), s # <<>>
  PROVE  /\ Head(s) = s[1] /\ s[1] \in S /\ Tail(s) \in Seq(S)
         /\ Len(s) \in Nat /\ Len(s) > 0 /\ Len(Tail(s)) = Len(s) - 1
         /\ \A i \in 1..Len(Tail(s)) : Tail(s)[i] = s[i + 1] /\ s[i + 1] \in S
  OBVIOUS

(* push() puts the functor behind those of the queue: it overtakes none.   *)
LEMMA PushLies ==
  ASSUME QueuesTypeOK, NEW q \in Queues, NEW v \in Tasks, PushTo(q, v)
  PROVE  /\ QueuesTypeOK' /\ UNCHANGED <<current, pauseCount>>
         /\ \A p \in Queues, t \in Tasks : Lies(p, t)' <=> (Lies(p, t) \/ (p = q /\ t = v))
         /\ \A p \in Queues, u \in Tasks, t \in Tasks : InFront(p, u, t) => InFront(p, u, t)'
<1> USE DEF QueuesTypeOK, PushTo, AddOne
<1>1. /\ pending[q] \in Seq(Tasks) /\ pending \in [Queues -> Seq(Tasks)]
      /\ pending' = [pending EXCEPT ![q] = Append(pending[q], v)]
      /\ UNCHANGED <<current, pauseCount, passed, missed>>
  OBVIOUS
<1> DEFINE s == pending[q]
<1>2. /\ Append(s, v) \in Seq(Tasks) /\ Len(s) \in Nat
      /\ Len(Append(s, v)) = Len(s) + 1
      /\ Append(s, v)[Len(s) + 1] = v
      /\ \A i \in 1..Len(s) : Append(s, v)[i] = s[i] /\ s[i] \in Tasks
  BY <1>1, AppendFacts
<1>3. QueuesTypeOK'
  <2>1. asked' \in [Queues -> Nat]
    OBVIOUS
  <2>2. pending' \in [Queues -> Seq(Tasks)]
    BY <1>1, <1>2
  <2> QED BY <1>1, <2>1, <2>2
<1>4. /\ pending'[q] = Append(s, v) /\ \A p \in Queues : p # q => pending'[p] = pending[p]
      /\ Len(s) + 1 \in 1..(Len(s) + 1)
      /\ \A i \in 1..Len(s) : i \in 1..(Len(s) + 1) /\ i < Len(s) + 1
      /\ \A i \in 1..(Len(s) + 1) : i = Len(s) + 1 \/ i \in 1..Len(s)
  BY <1>1, <1>2
<1>5. \A p \in Queues, t \in Tasks : Lies(p, t)' <=> (Lies(p, t) \/ (p = q /\ t = v))
  <2> HIDE DEF PushTo, QueuesTypeOK
  <2> SUFFICES ASSUME NEW p \in Queues, NEW t \in Tasks
               PROVE  Lies(p, t)' <=> (Lies(p, t) \/ (p = q /\ t = v))
    OBVIOUS
  <2>1. CASE p # q
    BY <1>4, <2>1 DEF Lies
  <2>2. CASE p = q
    BY <1>2, <1>4, <2>2 DEF Lies
  <2> QED BY <2>1, <2>2
<1>6. ASSUME NEW p \in Queues, NEW u \in Tasks, NEW t \in Tasks, InFront(p, u, t)
      PROVE  InFront(p, u, t)'
  <2> HIDE DEF PushTo, QueuesTypeOK
  <2>1. CASE p # q
    BY <1>1, <1>4, <1>6, <2>1 DEF InFront
  <2>2. CASE p = q
    <3>1. CASE current[q] = u
      BY <1>1, <1>6, <2>2, <3>1 DEF InFront
    <3>2. CASE current[q] # u
      <4>1. PICK i \in 1..Len(s) : s[i] = u /\ \A j \in 1..Len(s) : s[j] = t => i < j
        BY <1>6, <2>2, <3>2 DEF InFront
      <4>2. i \in 1..(Len(s) + 1) /\ Append(s, v)[i] = u
        BY <1>2, <1>4, <4>1
      <4>3. \A j \in 1..(Len(s) + 1) : Append(s, v)[j] = t => i < j
        BY <1>2, <1>4, <4>1
      <4> QED BY <1>1, <1>2, <1>4, <1>6, <2>2, <4>2, <4>3 DEF InFront
    <3> QED BY <3>1, <3>2
  <2> QED BY <2>1, <2>2
<1> QED BY <1>1, <1>3, <1>5, <1>6

(* A pick either takes the front functor into a free queue, or changes     *)
(* nothing a functor could see. *)
Taken(q, h) ==
    /\ current[q] = NoTask /\ current' = [current EXCEPT ![q] = h] /\ Lies(q, h)
    /\ late' = (late \/ pauseCount[q] > 0)
    /\ \A p \in Queues, t \in Tasks : /\ Lies(p, t) => Lies(p, t)' \/ (p = q /\ t = h)
                                      /\ Lies(p, t)' => Lies(p, t)
    /\ \A p \in Queues, u \in Tasks, t \in Tasks : InFront(p, u, t) /\ u # t => InFront(p, u, t)'

(* pickNextTask() takes the front functor of an unpaused queue, late if    *)
(* the queue was paused after the count was read, or takes none.           *)
LEMMA PickCases ==
  ASSUME QueuesTypeOK, late \in BOOLEAN, NEW q \in Queues, PickCopy(q)
  PROVE  /\ QueuesTypeOK' /\ late' \in BOOLEAN
         /\ UNCHANGED <<pauseCount, clientVars, copyVars, resumers, waiter>>
         /\ UNCHANGED <<pending, current, late>> \/ \E h \in Tasks : Taken(q, h)
<1> USE DEF QueuesTypeOK
<1>1. /\ UNCHANGED <<clientVars, copyVars, resumers, waiter>>
      /\ late' = (late \/ (current'[q] # current[q] /\ pauseCount[q] > 0))
  BY DEF PickCopy
<1>2. late' \in BOOLEAN
  BY <1>1, Zenon
<1>3. CASE ReadPause(q) \/ GiveUp(q) \/ Miss(q)
  <2>1. UNCHANGED <<pending, current, pauseCount>>
    BY <1>3 DEF ReadPause, GiveUp, Miss
  <2>2. late' = late
    BY <1>1, <2>1, Zenon
  <2>3. asked' \in [Queues -> Nat] /\ passed' \in [Queues -> Nat]
    <3>1. CASE ReadPause(q)
      BY <3>1 DEF ReadPause, TakeOne, AddOne
    <3>2. CASE GiveUp(q) \/ Miss(q)
      <4>1. asked' = asked /\ passed[q] > 0 /\ passed' = [passed EXCEPT ![q] = passed[q] - 1]
        BY <3>2 DEF GiveUp, Miss, TakeOne
      <4> QED BY <4>1
    <3> QED BY <1>3, <3>1, <3>2
  <2>4. missed' \in [Queues -> BOOLEAN]
    <3>1. missed' = missed \/ missed' = [missed EXCEPT ![q] = TRUE]
      BY <1>3 DEF ReadPause, GiveUp, Miss
    <3> QED BY <3>1
  <2> QED BY <1>1, <1>2, <2>1, <2>2, <2>3, <2>4
<1>4. CASE Take(q)
  <2>1. /\ pending \in [Queues -> Seq(Tasks)] /\ pending[q] \in Seq(Tasks) /\ pending[q] # <<>>
        /\ pending' = [pending EXCEPT ![q] = Tail(pending[q])]
        /\ current' = [current EXCEPT ![q] = Head(pending[q])]
        /\ current[q] = NoTask /\ UNCHANGED <<pauseCount, asked, missed>>
        /\ passed' = [passed EXCEPT ![q] = @ - 1] /\ passed[q] > 0
    BY <1>4 DEF Take, TakeOne
  <2> DEFINE s == pending[q]
  <2>2. /\ Head(s) = s[1] /\ s[1] \in Tasks /\ Tail(s) \in Seq(Tasks)
        /\ Len(s) \in Nat /\ Len(s) > 0 /\ Len(Tail(s)) = Len(s) - 1
        /\ \A i \in 1..Len(Tail(s)) : Tail(s)[i] = s[i + 1] /\ s[i + 1] \in Tasks
    BY <2>1, TailFacts
  <2>3. QueuesTypeOK'
    <3>1. pending' \in [Queues -> Seq(Tasks)] /\ current' \in [Queues -> Tasks \cup {NoTask}]
      BY <2>1, <2>2
    <3>2. passed' \in [Queues -> Nat]
      BY <2>1
    <3> QED BY <2>1, <3>1, <3>2
  <2>4. PICK h \in Tasks : h = s[1] /\ h = Head(s)
    BY <2>2
  <2>5. current'[q] = h /\ h # NoTask /\ current' = [current EXCEPT ![q] = h]
    BY <2>1, <2>4, LimitAssumption
  <2>6. late' = (late \/ pauseCount[q] > 0)
    <3>1. current'[q] # current[q]
      BY <2>1, <2>5
    <3> QED BY <1>1, <3>1, Zenon
  <2>7. /\ pending'[q] = Tail(s) /\ \A p \in Queues : p # q => pending'[p] = pending[p]
        /\ \A p \in Queues : p # q => current'[p] = current[p]
        /\ \A i \in 1..Len(s) : i = 1 \/ i - 1 \in 1..(Len(s) - 1)
        /\ \A i \in 1..(Len(s) - 1) : i + 1 \in 1..Len(s)
        /\ 1 \in 1..Len(s)
    BY <2>1, <2>2
  <2>8. \A i \in 1..(Len(s) - 1) : Tail(s)[i] = s[i + 1]
    BY <2>2
  <2>9. \A i \in 1..Len(s) : i # 1 => Tail(s)[i - 1] = s[i]
    BY <2>2
  <2> HIDE DEF QueuesTypeOK
  <2>10. ASSUME NEW p \in Queues, NEW t \in Tasks
         PROVE  /\ Lies(p, t) => Lies(p, t)' \/ (p = q /\ t = h)
                /\ Lies(p, t)' => Lies(p, t)
    <3>1. CASE p # q
      BY <2>7, <3>1 DEF Lies
    <3>2. CASE p = q
      <4>1. ASSUME NEW i \in 1..Len(s), s[i] = t, t # h PROVE Lies(q, t)'
        <5>1. i # 1 /\ i - 1 \in 1..(Len(s) - 1) /\ Tail(s)[i - 1] = t
          BY <2>4, <2>7, <2>9, <4>1
        <5>2. \E j \in 1..Len(pending'[q]) : pending'[q][j] = t
          BY <2>2, <2>7, <5>1
        <5> QED BY <5>2 DEF Lies
      <4>2. ASSUME NEW i \in 1..(Len(s) - 1), Tail(s)[i] = t PROVE Lies(q, t)
        <5>1. i + 1 \in 1..Len(s) /\ s[i + 1] = t
          BY <2>7, <2>8, <4>2
        <5> QED BY <5>1 DEF Lies
      <4>3. Lies(q, t)' <=> \E i \in 1..(Len(s) - 1) : Tail(s)[i] = t
        BY <2>2, <2>7 DEF Lies
      <4>4. Lies(q, t) <=> \E i \in 1..Len(s) : s[i] = t
        BY DEF Lies
      <4> QED BY <3>2, <4>1, <4>2, <4>3, <4>4
    <3> QED BY <3>1, <3>2
  <2>11. ASSUME NEW p \in Queues, NEW u \in Tasks, NEW t \in Tasks, InFront(p, u, t), u # t
         PROVE  InFront(p, u, t)'
    <3>1. CASE p # q
      BY <2>7, <2>11, <3>1 DEF InFront
    <3>2. CASE p = q
      <4>1. u # NoTask
        BY LimitAssumption
      <4>2. PICK i \in 1..Len(s) : s[i] = u /\ \A j \in 1..Len(s) : s[j] = t => i < j
        BY <2>1, <2>11, <3>2, <4>1 DEF InFront
      <4>3. h # t
        BY <2>2, <2>4, <2>7, <2>11, <4>2
      <4>4. CASE i = 1
        <5>1. current'[q] = u /\ current'[q] # t
          BY <2>4, <2>5, <2>11, <4>2, <4>4
        <5> QED BY <3>2, <5>1 DEF InFront
      <4>5. CASE i # 1
        <5>1. i - 1 \in 1..(Len(s) - 1) /\ Tail(s)[i - 1] = u
          BY <2>7, <2>9, <4>2, <4>5
        <5>2. \A j \in 1..(Len(s) - 1) : Tail(s)[j] = t => i - 1 < j
          <6> SUFFICES ASSUME NEW j \in 1..(Len(s) - 1), Tail(s)[j] = t PROVE i - 1 < j
            OBVIOUS
          <6>1. j + 1 \in 1..Len(s) /\ s[j + 1] = t
            BY <2>7, <2>8
          <6>2. i < j + 1
            BY <4>2, <6>1
          <6> QED BY <2>2, <6>2
        <5>3. current'[q] # t
          BY <2>5, <4>3
        <5>4. /\ current'[q] # t
              /\ \E k \in 1..Len(pending'[q]) :
                    /\ pending'[q][k] = u
                    /\ \A j \in 1..Len(pending'[q]) : pending'[q][j] = t => k < j
          BY <2>2, <2>7, <5>1, <5>2, <5>3
        <5> QED BY <3>2, <5>4 DEF InFront
      <4> QED BY <4>4, <4>5
    <3> QED BY <3>1, <3>2
  <2>12. Lies(q, h)
    BY <2>4, <2>7 DEF Lies
  <2>13. Taken(q, h)
    BY <2>1, <2>5, <2>6, <2>10, <2>11, <2>12 DEF Taken
  <2> QED BY <1>1, <1>2, <2>1, <2>3, <2>13
<1> QED BY <1>3, <1>4 DEF PickCopy, Pick

(* A copy that ends frees its queue, and moves no other copy. *)
LEMMA EndLies ==
  ASSUME QueuesTypeOK, NEW q \in Queues, EndTask(q)
  PROVE  /\ QueuesTypeOK' /\ UNCHANGED <<pending, pauseCount, passed, missed>>
         /\ current[q] # NoTask /\ current' = [current EXCEPT ![q] = NoTask]
         /\ \A p \in Queues, t \in Tasks : Lies(p, t)' <=> Lies(p, t)
         /\ \A p \in Queues, u \in Tasks, t \in Tasks :
               InFront(p, u, t) /\ (p = q => current[q] # u) => InFront(p, u, t)'
<1>1. /\ UNCHANGED <<pending, pauseCount, passed, missed>>
      /\ current[q] # NoTask /\ current' = [current EXCEPT ![q] = NoTask]
      /\ asked' = [asked EXCEPT ![q] = asked[q] + 1]
  BY DEF EndTask, AddOne
<1>2. QueuesTypeOK'
  BY <1>1 DEF QueuesTypeOK
<1>3. \A p \in Queues, t \in Tasks : Lies(p, t)' <=> Lies(p, t)
  BY <1>1 DEF Lies
<1>4. ASSUME NEW p \in Queues, NEW u \in Tasks, NEW t \in Tasks,
             InFront(p, u, t), p = q => current[q] # u
      PROVE  InFront(p, u, t)'
  <2>1. current'[p] = IF p = q THEN NoTask ELSE current[p]
    BY <1>1 DEF QueuesTypeOK
  <2>2. current'[p] # t /\ (current[p] = u => current'[p] = u)
    BY <1>4, <2>1, LimitAssumption DEF InFront
  <2> QED BY <1>1, <1>4, <2>2 DEF InFront
<1> QED BY <1>1, <1>2, <1>3, <1>4

(* pause() and resume() leave m_tasks and the current functor alone. *)
LEMMA PauseTypes ==
  ASSUME QueuesTypeOK, NEW q \in Queues, PauseQueue(q)
  PROVE  /\ QueuesTypeOK' /\ UNCHANGED <<pending, current>>
         /\ pauseCount' = [pauseCount EXCEPT ![q] = pauseCount[q] + 1]
  BY DEF QueuesTypeOK, PauseQueue, AddOne

(* ... and resume() takes back one of the pauses that are there.           *)
LEMMA ResumeTypes ==
  ASSUME QueuesTypeOK, NEW q \in Queues, ResumeQueue(q)
  PROVE  /\ QueuesTypeOK' /\ UNCHANGED <<pending, current>>
         /\ pauseCount[q] > 0 /\ pauseCount' = [pauseCount EXCEPT ![q] = pauseCount[q] - 1]
<1>1. /\ pauseCount[q] > 0 /\ pauseCount' = [pauseCount EXCEPT ![q] = pauseCount[q] - 1]
      /\ UNCHANGED <<pending, current, passed, missed>>
      /\ asked' = IF pauseCount[q] = 1 THEN [asked EXCEPT ![q] = asked[q] + 1] ELSE asked
  BY DEF ResumeQueue, TakeOne, AddOne
<1>2. pauseCount' \in [Queues -> Nat]
  BY <1>1 DEF QueuesTypeOK
<1>3. asked' \in [Queues -> Nat]
  BY <1>1 DEF QueuesTypeOK
<1> QED BY <1>1, <1>2, <1>3 DEF QueuesTypeOK

(* A copy lies where it lay if no queue changes.                           *)
LEMMA StillLies ==
  ASSUME UNCHANGED <<pending, current>>
  PROVE  /\ \A p \in Queues, t \in Tasks : Lies(p, t)' <=> Lies(p, t)
         /\ \A p \in Queues, u \in Tasks, t \in Tasks : InFront(p, u, t)' <=> InFront(p, u, t)
  BY DEF Lies, InFront

-----------------------------------------------------------------------------
(* What the steps of a copy do, spelled out for the proofs: the winner     *)
(* runs the action, ...                                                    *)
LEMMA RunActionFacts ==
  ASSUME Basics, NEW q \in Queues, NEW t \in Tasks, RunAction(q, t)
  PROVE  /\ QueuesTypeOK' /\ UNCHANGED <<pending, current, toPush, begun, waiter, late>>
         /\ current[q] = t /\ t # NoTask /\ at[q] = "start" /\ ~setToRun[t]
         /\ setToRun' = [setToRun EXCEPT ![t] = TRUE]
         /\ ran' = [ran EXCEPT ![t] = 1]
         /\ home' = [home EXCEPT ![t] = {q}]
         /\ at' = [at EXCEPT ![q] = "action"]
         /\ before' = [u \in Tasks |-> before[u] \ {t}]
         /\ \/ /\ Kind[t] = "pause" /\ pauseCount' = [pauseCount EXCEPT ![q] = pauseCount[q] + 1]
               /\ resumers' = [resumers EXCEPT ![t] = 1]
            \/ UNCHANGED <<pauseCount, resumers>>
<1>1. ran[t] + 1 = 1
  BY DEF Basics, Flags, RunAction
<1>2. /\ current[q] = t /\ t # NoTask /\ at[q] = "start" /\ ~setToRun[t]
      /\ UNCHANGED <<toPush, begun, waiter, late>>
      /\ setToRun' = [setToRun EXCEPT ![t] = TRUE]
      /\ ran' = [ran EXCEPT ![t] = 1]
      /\ home' = [home EXCEPT ![t] = {q}]
      /\ at' = [at EXCEPT ![q] = "action"]
      /\ before' = [u \in Tasks |-> before[u] \ {t}]
  BY <1>1, LimitAssumption DEF RunAction, Start, Win
<1>3. QueuesTypeOK
  BY DEF Basics, TypeOK
<1>4. CASE Kind[t] = "pause"
  BY <1>2, <1>3, <1>4, PauseTypes DEF RunAction
<1>5. CASE Kind[t] # "pause"
  <2>1. UNCHANGED queues /\ UNCHANGED resumers
    BY <1>5 DEF RunAction
  <2> QED BY <1>2, <1>3, <2>1 DEF queues, QueuesTypeOK
<1> QED BY <1>4, <1>5

(* ... and a Resumer is copied or dropped for the queue the action ran in. *)
LEMMA ResumerFacts ==
  ASSUME Basics, NEW t \in Tasks, CopyResumer(t) \/ DropResumer(t)
  PROVE  \E q \in Queues :
           /\ home[t] = {q} /\ resumers[t] > 0 /\ setToRun[t]
           /\ QueuesTypeOK'
           /\ UNCHANGED <<pending, current, clientVars, copyVars, waiter, late>>
           /\ \E d \in {1, -1} : /\ resumers' = [resumers EXCEPT ![t] = resumers[t] + d]
                                 /\ pauseCount' = [pauseCount EXCEPT ![q] = pauseCount[q] + d]
                                 /\ pauseCount[q] + d \in Nat
<1>1. resumers[t] > 0 /\ resumers[t] \in Nat /\ QueuesTypeOK
  BY DEF CopyResumer, DropResumer, MayCopy, Basics, TypeOK
<1>2. setToRun[t]
  BY <1>1 DEF Basics, Flags
<1>3. PICK q \in Queues : home[t] = {q}
  BY <1>2 DEF Basics, Flags
<1>4. pauseCount[q] \in Nat
  BY <1>1 DEF QueuesTypeOK
<1>5. CASE CopyResumer(t)
  <2>1. PauseQueue(q) /\ UNCHANGED <<clientVars, copyVars, waiter, late>>
        /\ resumers' = [resumers EXCEPT ![t] = resumers[t] + 1]
    BY <1>3, <1>5 DEF CopyResumer
  <2> QED BY <1>1, <1>2, <1>3, <1>4, <2>1, PauseTypes
<1>6. CASE DropResumer(t)
  <2>1. ResumeQueue(q) /\ UNCHANGED <<clientVars, copyVars, waiter, late>>
        /\ resumers' = [resumers EXCEPT ![t] = resumers[t] - 1]
    BY <1>3, <1>6 DEF DropResumer
  <2>2. /\ QueuesTypeOK' /\ UNCHANGED <<pending, current>> /\ pauseCount[q] > 0
        /\ pauseCount' = [pauseCount EXCEPT ![q] = pauseCount[q] - 1]
    BY <1>1, <2>1, ResumeTypes
  <2>3. pauseCount[q] + (-1) \in Nat /\ pauseCount[q] + (-1) = pauseCount[q] - 1
        /\ resumers[t] + (-1) = resumers[t] - 1
    BY <1>1, <1>4, <2>2
  <2> QED BY <1>1, <1>2, <1>3, <2>1, <2>2, <2>3
<1> QED BY <1>5, <1>6

-----------------------------------------------------------------------------
(* Basics is kept by every step. *)
LEMMA PushBasics ==
  ASSUME Basics, NEW t \in Tasks, BeginPush(t) \/ PushCopy(t)
  PROVE  Basics'
<1>1. PICK q \in Queues : PushTo(q, t)
  <2>1. CASE BeginPush(t)
    BY <2>1, AllQueuesFacts, TailFacts DEF BeginPush
  <2>2. CASE PushCopy(t)
    <3>1. toPush[t] \in Seq(Queues) /\ toPush[t] # <<>>
      BY <2>2 DEF PushCopy, Basics, TypeOK
    <3> QED BY <2>2, <3>1, TailFacts DEF PushCopy
  <2> QED BY <2>1, <2>2
<1>2. /\ QueuesTypeOK' /\ UNCHANGED <<current, pauseCount>>
      /\ \A p \in Queues, u \in Tasks : Lies(p, u)' <=> (Lies(p, u) \/ (p = q /\ u = t))
  BY <1>1, PushLies DEF Basics, TypeOK
<1>3. /\ UNCHANGED <<setToRun, at, home, ran, resumers, late>>
      /\ begun \subseteq begun' /\ t \in begun' /\ begun' \subseteq Tasks
      /\ waiter' \in [Tasks -> {"none", "pushing", "returned"}]
      /\ \A u \in Tasks : waiter'[u] = waiter[u] \/ (waiter'[u] = "pushing" /\ Kind[u] = "wait")
  <2>1. CASE BeginPush(t)
    BY <2>1 DEF BeginPush, copyVars, Basics, TypeOK
  <2>2. CASE PushCopy(t)
    <3>1. t \in begun
      <4>1. toPush[t] # <<>>
        BY <2>2 DEF PushCopy
      <4> QED BY <4>1 DEF Basics, Flags
    <3> QED BY <2>2, <3>1 DEF PushCopy, copyVars, Basics, TypeOK
  <2> QED BY <2>1, <2>2
<1>4. /\ toPush' \in [Tasks -> Seq(Queues)] /\ before' \in [Tasks -> SUBSET Tasks]
      /\ \A u \in Tasks : u # t => toPush'[u] = toPush[u]
  <2>1. CASE BeginPush(t)
    <3>1. Tail(AllQueues) \in Seq(Queues)
      BY AllQueuesFacts, TailFacts
    <3>2. {u \in begun : toPush[u] = <<>> /\ ~setToRun[u]} \in SUBSET Tasks
      BY DEF Basics, TypeOK
    <3> QED BY <2>1, <3>1, <3>2 DEF BeginPush, Basics, TypeOK
  <2>2. CASE PushCopy(t)
    <3>1. toPush[t] \in Seq(Queues) /\ toPush[t] # <<>>
      BY <2>2 DEF PushCopy, Basics, TypeOK
    <3>2. Tail(toPush[t]) \in Seq(Queues)
      BY <3>1, TailFacts
    <3> QED BY <2>2, <3>2 DEF PushCopy, Basics, TypeOK
  <2> QED BY <2>1, <2>2
<1>5. TypeOK'
  BY <1>2, <1>3, <1>4 DEF Basics, TypeOK
<1>6. Flags'
  BY <1>2, <1>3, <1>4 DEF Basics, Flags, Acts
<1>7. Copies'
  BY <1>2, <1>3 DEF Basics, Copies, Acts
<1> QED BY <1>5, <1>6, <1>7 DEF Basics

(* pushAndWait() returns when the reference of its task is gone.           *)
LEMMA WaitBasics ==
  ASSUME Basics, NEW t \in Tasks, WaitForAll(t)
  PROVE  Basics'
<1>1. /\ waiter[t] = "pushing" /\ ran[t] > 0 /\ t \notin Acting
      /\ waiter' = [waiter EXCEPT ![t] = "returned"]
      /\ UNCHANGED <<pending, current, pauseCount, asked, passed, missed, toPush, begun, before,
                     setToRun, at, home, ran, resumers, late>>
  BY DEF WaitForAll, MayReturn, queues, clientVars, copyVars
<1>2. TypeOK' /\ Copies'
  <2>1. TypeOK'
    BY <1>1 DEF Basics, TypeOK, QueuesTypeOK
  <2>2. Copies'
    BY <1>1 DEF Basics, Copies, Lies, Acts
  <2> QED BY <2>1, <2>2
<1>3. Flags'
  <2>1. setToRun[t] /\ \A q \in Queues : ~Acts(q, t)
    BY <1>1 DEF Basics, Flags, TypeOK, Acting, Acts
  <2> QED BY <1>1, <2>1 DEF Basics, Flags, TypeOK, Acts
<1> QED BY <1>2, <1>3 DEF Basics

(* pickNextTask() moves a copy, or does nothing.                           *)
LEMMA PickBasics ==
  ASSUME Basics, NEW q \in Queues, PickCopy(q)
  PROVE  Basics'
<1>1. /\ QueuesTypeOK' /\ late' \in BOOLEAN
      /\ UNCHANGED <<toPush, begun, before, setToRun, at, home, ran, resumers, waiter>>
      /\ UNCHANGED <<pending, current, late>> \/ \E h \in Tasks : Taken(q, h)
  BY PickCases DEF Basics, TypeOK, clientVars, copyVars
<1>2. TypeOK'
  BY <1>1 DEF Basics, TypeOK
<1>3. CASE UNCHANGED <<pending, current, late>>
  BY <1>1, <1>2, <1>3 DEF Basics, Flags, Copies, Lies, Acts
<1>4. ASSUME NEW h \in Tasks, Taken(q, h) PROVE Basics'
  <2>1. /\ at[q] = "start" /\ h \in begun
        /\ \A p \in Queues : current'[p] = IF p = q THEN h ELSE current[p]
    BY <1>4 DEF Taken, Basics, Copies, TypeOK, QueuesTypeOK
  <2>2. \A p \in Queues, t \in Tasks : Acts(p, t)' <=> Acts(p, t)
    BY <1>1, <1>4, <2>1, LimitAssumption DEF Acts, Taken
  <2>3. Flags'
    BY <1>1, <2>2 DEF Basics, Flags
  <2>4. Copies'
    BY <1>1, <1>4, <2>1, <2>2, LimitAssumption DEF Basics, Copies, Taken
  <2> QED BY <1>2, <2>3, <2>4 DEF Basics
<1> QED BY <1>1, <1>3, <1>4

(* The copy that wins the flag pauses no queue twice: Basics holds after   *)
(* it.                                                                     *)
LEMMA RunBasics ==
  ASSUME Basics, NEW q \in Queues, NEW t \in Tasks, RunAction(q, t)
  PROVE  Basics'
<1>1. /\ QueuesTypeOK' /\ UNCHANGED <<pending, current, toPush, begun, waiter, late>>
      /\ current[q] = t /\ t # NoTask /\ at[q] = "start" /\ ~setToRun[t]
      /\ setToRun' = [setToRun EXCEPT ![t] = TRUE]
      /\ ran' = [ran EXCEPT ![t] = 1]
      /\ home' = [home EXCEPT ![t] = {q}]
      /\ at' = [at EXCEPT ![q] = "action"]
      /\ before' = [u \in Tasks |-> before[u] \ {t}]
      /\ \/ Kind[t] = "pause" /\ resumers' = [resumers EXCEPT ![t] = 1]
         \/ UNCHANGED resumers
  BY RunActionFacts
<1>2. TypeOK'
  <2>1. before' \in [Tasks -> SUBSET Tasks]
    BY <1>1 DEF Basics, TypeOK
  <2>2. setToRun' \in [Tasks -> BOOLEAN] /\ home' \in [Tasks -> SUBSET Queues]
    BY <1>1 DEF Basics, TypeOK
  <2>3. at' \in [Queues -> At]
    BY <1>1 DEF Basics, TypeOK, At
  <2>4. ran' \in [Tasks -> Nat] /\ resumers' \in [Tasks -> Nat]
    <3>1. ran \in [Tasks -> Nat] /\ resumers \in [Tasks -> Nat] /\ 1 \in Nat
      BY DEF Basics, TypeOK
    <3> QED BY <1>1, <3>1
  <2> QED BY <1>1, <2>1, <2>2, <2>3, <2>4 DEF Basics, TypeOK
<1>3. /\ \A p \in Queues, u \in Tasks : Acts(p, u)' <=> (Acts(p, u) \/ (p = q /\ u = t))
      /\ \A p \in Queues, u \in Tasks : Lies(p, u)' <=> Lies(p, u)
  BY <1>1 DEF Acts, Lies, Basics, TypeOK
<1>4. /\ setToRun'[t] /\ ran'[t] = 1 /\ home'[t] = {q} /\ t \in begun
      /\ resumers'[t] > 0 => Kind[t] = "pause"
      /\ \A u \in Tasks : u # t => /\ setToRun'[u] = setToRun[u] /\ ran'[u] = ran[u]
                                   /\ home'[u] = home[u] /\ resumers'[u] = resumers[u]
  BY <1>1 DEF Basics, TypeOK, Flags, Copies
<1>5. Flags'
  <2>1. waiter[t] # "returned"
    BY <1>1 DEF Basics, Flags
  <2> QED BY <1>1, <1>3, <1>4, <2>1 DEF Basics, Flags
<1>6. Copies'
  <2>1. \A p \in Queues : ~Acts(p, t)
    BY <1>1 DEF Basics, Copies
  <2>2. \A p \in Queues : p # q => at'[p] = at[p]
    BY <1>1 DEF Basics, TypeOK
  <2> QED BY <1>1, <1>3, <1>4, <2>1, <2>2 DEF Basics, Copies
<1> QED BY <1>2, <1>5, <1>6 DEF Basics

(* The end of a copy that comes too late, and of the one that has run. *)
LEMMA EndFacts ==
  ASSUME Basics, NEW q \in Queues, EndAction(q) \/ \E t \in Tasks : SkipAction(q, t)
  PROVE  /\ EndTask(q) /\ at' = [at EXCEPT ![q] = "start"]
         /\ UNCHANGED <<toPush, begun, before, setToRun, home, ran, resumers, waiter, late>>
         /\ current[q] \in Tasks /\ setToRun[current[q]]
<1>1. CASE EndAction(q)
  <2>1. at[q] = "action" /\ EndTask(q) /\ at' = [at EXCEPT ![q] = "start"]
        /\ UNCHANGED <<toPush, begun, before, setToRun, home, ran, resumers, waiter, late>>
    BY <1>1 DEF EndAction, clientVars
  <2>2. current[q] \in Tasks
    BY <2>1 DEF EndTask, Basics, TypeOK, QueuesTypeOK
  <2> QED BY <2>1, <2>2 DEF Basics, Copies, Acts
<1>2. ASSUME NEW t \in Tasks, SkipAction(q, t)
      PROVE  /\ EndTask(q) /\ at' = [at EXCEPT ![q] = "start"]
             /\ UNCHANGED <<toPush, begun, before, setToRun, home, ran, resumers, waiter, late>>
             /\ current[q] \in Tasks /\ setToRun[current[q]]
  BY <1>2 DEF SkipAction, Start, copyVars, Basics, TypeOK
<1> QED BY <1>1, <1>2

(* The end of a copy, late or not, keeps Basics.                           *)
LEMMA EndBasics ==
  ASSUME Basics, NEW q \in Queues, EndAction(q) \/ \E t \in Tasks : SkipAction(q, t)
  PROVE  Basics'
<1>1. /\ at' = [at EXCEPT ![q] = "start"]
      /\ UNCHANGED <<toPush, begun, before, setToRun, home, ran, resumers, waiter, late>>
      /\ QueuesTypeOK' /\ current' = [current EXCEPT ![q] = NoTask]
      /\ \A p \in Queues, t \in Tasks : Lies(p, t)' <=> Lies(p, t)
  BY EndFacts, EndLies DEF Basics, TypeOK
<1>2. TypeOK'
  BY <1>1 DEF Basics, TypeOK, At
<1>3. \A p \in Queues : /\ at'[p] = IF p = q THEN "start" ELSE at[p]
                        /\ current'[p] = IF p = q THEN NoTask ELSE current[p]
  BY <1>1 DEF Basics, TypeOK, QueuesTypeOK
<1>4. \A p \in Queues, t \in Tasks : Acts(p, t)' => Acts(p, t)
  BY <1>3 DEF Acts
<1>5. Flags'
  BY <1>1, <1>4 DEF Basics, Flags
<1>6. Copies'
  BY <1>1, <1>3, <1>4, LimitAssumption DEF Basics, Copies
<1> QED BY <1>2, <1>5, <1>6 DEF Basics

(* So does a step of the shared Resumer.                                   *)
LEMMA ResumerBasics ==
  ASSUME Basics, NEW t \in Tasks, CopyResumer(t) \/ DropResumer(t)
  PROVE  Basics'
<1>1. PICK q \in Queues, d \in {1, -1} :
           /\ home[t] = {q} /\ resumers[t] > 0 /\ setToRun[t]
           /\ QueuesTypeOK'
           /\ UNCHANGED <<pending, current, toPush, begun, before, setToRun, at, home, ran, waiter, late>>
           /\ resumers' = [resumers EXCEPT ![t] = resumers[t] + d]
  BY ResumerFacts DEF clientVars, copyVars
<1>2. resumers' \in [Tasks -> Nat]
  BY <1>1 DEF Basics, TypeOK
<1>3. TypeOK'
  BY <1>1, <1>2 DEF Basics, TypeOK
<1>4. \A u \in Tasks : u # t => resumers'[u] = resumers[u]
  BY <1>1 DEF Basics, TypeOK
<1>5. Flags' /\ Copies'
  BY <1>1, <1>4 DEF Basics, Flags, Copies, Lies, Acts
<1> QED BY <1>3, <1>5 DEF Basics

(* Basics is kept by every step, ...                                       *)
LEMMA BasicsNext == Basics /\ [Next]_vars => Basics'
<1> SUFFICES ASSUME Basics, [Next]_vars PROVE Basics'
  OBVIOUS
<1>1. CASE UNCHANGED vars
  BY <1>1 DEF vars, queues, clientVars, copyVars, Basics, TypeOK, QueuesTypeOK, Flags, Copies, Lies, Acts
<1> QED BY <1>1, PushBasics, WaitBasics, PickBasics, RunBasics, EndBasics, ResumerBasics
        DEF Next, Client, Pushing, Running

(* ... and holds when nothing has been pushed.                             *)
LEMMA BasicsInit == Init => Basics
<1> SUFFICES ASSUME Init PROVE Basics
  OBVIOUS
<1> USE DEF Init, QueuesInit
<1>1. QueuesTypeOK
  BY DEF QueuesTypeOK
<1>2. TypeOK
  <2>1. "start" \in At /\ "none" \in {"none", "pushing", "returned"}
    BY DEF At
  <2>2. /\ toPush \in [Tasks -> Seq(Queues)] /\ before \in [Tasks -> SUBSET Tasks]
        /\ home \in [Tasks -> SUBSET Queues] /\ setToRun \in [Tasks -> BOOLEAN]
    OBVIOUS
  <2>3. /\ resumers \in [Tasks -> Nat] /\ ran \in [Tasks -> Nat]
        /\ begun \subseteq Tasks /\ late \in BOOLEAN
    OBVIOUS
  <2> QED BY <1>1, <2>1, <2>2, <2>3 DEF TypeOK
<1>3. Flags
  BY DEF Flags
<1>4. Copies
  BY LimitAssumption DEF Copies, Lies, Acts
<1> QED BY <1>2, <1>3, <1>4 DEF Basics

-----------------------------------------------------------------------------
(* push() leaves a copy behind in every queue it has passed, and the copy  *)
(* stays there until the action has run. *)
LEMMA TailKeeps ==
  ASSUME NEW S, NEW s \in Seq(S), s # <<>>, NEW k \in 1..Len(s)
  PROVE  s[k] = Head(s) \/ \E j \in 1..Len(Tail(s)) : Tail(s)[j] = s[k]
<1>1. CASE k = 1
  BY <1>1
<1>2. CASE k # 1
  <2>1. k - 1 \in 1..Len(Tail(s)) /\ Tail(s)[k - 1] = s[k]
    BY <1>2
  <2> QED BY <2>1
<1> QED BY <1>1, <1>2

(* Every step keeps a copy in each queue that push() has passed.           *)
LEMMA EveryQueueNext == Basics /\ EveryQueue /\ [Next]_vars => EveryQueue'
<1> SUFFICES ASSUME Basics, EveryQueue, [Next]_vars PROVE EveryQueue'
  OBVIOUS
<1> DEFINE ToPush(t, q) == \E k \in 1..Len(toPush[t]) : toPush[t][k] = q
<1> SUFFICES ASSUME NEW t \in begun', NEW q \in Queues, ~setToRun'[t]
             PROVE  current'[q] = t \/ Lies(q, t)' \/ ToPush(t, q)'
  BY DEF EveryQueue
<1> QueuesTypeOK
  BY DEF Basics, TypeOK
<1>1. CASE UNCHANGED vars
  BY <1>1 DEF vars, queues, clientVars, copyVars, EveryQueue, Lies
<1>2. ASSUME NEW u \in Tasks, BeginPush(u)
      PROVE  current'[q] = t \/ Lies(q, t)' \/ ToPush(t, q)'
  <2>1. /\ AllQueues \in Seq(Queues) /\ AllQueues # <<>> /\ Head(AllQueues) \in Queues
        /\ \E k \in 1..Len(AllQueues) : AllQueues[k] = q
    BY AllQueuesFacts, TailFacts
  <2>2. /\ begun' = begun \cup {u} /\ toPush' = [toPush EXCEPT ![u] = Tail(AllQueues)]
        /\ UNCHANGED setToRun /\ PushTo(Head(AllQueues), u)
    BY <1>2 DEF BeginPush, copyVars
  <2>3. /\ current' = current
        /\ \A p \in Queues, v \in Tasks : Lies(p, v)' <=> (Lies(p, v) \/ (p = Head(AllQueues) /\ v = u))
    BY <2>1, <2>2, PushLies
  <2>4. t \in Tasks /\ toPush'[t] = IF t = u THEN Tail(AllQueues) ELSE toPush[t]
    BY <2>2 DEF Basics, TypeOK
  <2>5. CASE t = u
    BY <2>1, <2>3, <2>4, <2>5, TailKeeps
  <2>6. CASE t # u
    BY <2>2, <2>3, <2>4, <2>6 DEF EveryQueue
  <2> QED BY <2>5, <2>6
<1>3. ASSUME NEW u \in Tasks, PushCopy(u)
      PROVE  current'[q] = t \/ Lies(q, t)' \/ ToPush(t, q)'
  <2>1. /\ toPush[u] \in Seq(Queues) /\ toPush[u] # <<>>
        /\ begun' = begun /\ toPush' = [toPush EXCEPT ![u] = Tail(toPush[u])]
        /\ UNCHANGED setToRun /\ PushTo(Head(toPush[u]), u)
    BY <1>3 DEF PushCopy, copyVars, Basics, TypeOK
  <2>2. Head(toPush[u]) \in Queues
    BY <2>1, TailFacts
  <2>3. /\ current' = current
        /\ \A p \in Queues, v \in Tasks : Lies(p, v)' <=> (Lies(p, v) \/ (p = Head(toPush[u]) /\ v = u))
    BY <2>1, <2>2, PushLies
  <2>4. t \in Tasks /\ toPush'[t] = IF t = u THEN Tail(toPush[u]) ELSE toPush[t]
    BY <2>1 DEF Basics, TypeOK
  <2>5. current[q] = t \/ Lies(q, t) \/ ToPush(t, q)
    BY <2>1 DEF EveryQueue
  <2>6. CASE t = u
    <3>1. ToPush(t, q) => q = Head(toPush[u]) \/ ToPush(t, q)'
      <4> SUFFICES ASSUME NEW k \in 1..Len(toPush[t]), toPush[t][k] = q
                   PROVE  q = Head(toPush[u]) \/ ToPush(t, q)'
        OBVIOUS
      <4>1. q = Head(toPush[u]) \/ \E j \in 1..Len(Tail(toPush[u])) : Tail(toPush[u])[j] = q
        BY <2>1, <2>6, TailKeeps
      <4> QED BY <2>4, <2>6, <4>1
    <3> QED BY <2>3, <2>4, <2>5, <2>6, <3>1
  <2>7. CASE t # u
    BY <2>3, <2>4, <2>5, <2>7
  <2> QED BY <2>6, <2>7
<1>4. ASSUME NEW u \in Tasks, WaitForAll(u) \/ CopyResumer(u) \/ DropResumer(u)
      PROVE  current'[q] = t \/ Lies(q, t)' \/ ToPush(t, q)'
  <2>1. UNCHANGED <<pending, current, begun, toPush, setToRun>>
    <3>1. CASE WaitForAll(u)
      BY <3>1 DEF WaitForAll, queues, clientVars, copyVars
    <3>2. CASE CopyResumer(u) \/ DropResumer(u)
      BY <3>2, ResumerFacts DEF clientVars, copyVars
    <3> QED BY <1>4, <3>1, <3>2
  <2> QED BY <2>1 DEF EveryQueue, Lies
<1>5. ASSUME NEW p \in Queues, PickCopy(p)
      PROVE  current'[q] = t \/ Lies(q, t)' \/ ToPush(t, q)'
  <2>1. UNCHANGED <<begun, toPush, setToRun>>
    BY <1>5, PickCases DEF Basics, TypeOK, clientVars, copyVars
  <2>2. t \in Tasks /\ (current[q] = t \/ Lies(q, t) \/ ToPush(t, q))
    BY <2>1 DEF EveryQueue, Basics, TypeOK
  <2>3. CASE UNCHANGED <<pending, current>>
    BY <2>1, <2>2, <2>3 DEF Lies
  <2>4. ASSUME NEW h \in Tasks, Taken(p, h)
        PROVE  current'[q] = t \/ Lies(q, t)' \/ ToPush(t, q)'
    <3>1. current'[q] = IF q = p THEN h ELSE current[q]
      BY <2>4 DEF Taken, QueuesTypeOK
    <3>2. Lies(q, t) => Lies(q, t)' \/ (q = p /\ t = h)
      BY <2>2, <2>4 DEF Taken
    <3>3. current[q] = t => q # p
      BY <2>2, <2>4, LimitAssumption DEF Taken
    <3> QED BY <2>1, <2>2, <3>1, <3>2, <3>3
  <2> QED BY <1>5, <2>3, <2>4, PickCases DEF Basics, TypeOK
<1>6. ASSUME NEW p \in Queues, NEW u \in Tasks, RunAction(p, u)
      PROVE  current'[q] = t \/ Lies(q, t)' \/ ToPush(t, q)'
  <2>1. UNCHANGED <<pending, current, begun, toPush>>
    BY <1>6, RunActionFacts
  <2>2. ~setToRun[t] /\ t \in begun
    <3>1. setToRun' = [setToRun EXCEPT ![u] = TRUE]
      BY <1>6, RunActionFacts
    <3> QED BY <2>1, <3>1 DEF Basics, TypeOK
  <2> QED BY <2>1, <2>2 DEF EveryQueue, Lies
<1>7. ASSUME NEW p \in Queues, EndAction(p) \/ \E u \in Tasks : SkipAction(p, u)
      PROVE  current'[q] = t \/ Lies(q, t)' \/ ToPush(t, q)'
  <2>1. /\ EndTask(p) /\ UNCHANGED <<begun, toPush, setToRun>>
        /\ current[p] \in Tasks /\ setToRun[current[p]]
    BY <1>7, EndFacts
  <2>2. /\ current' = [current EXCEPT ![p] = NoTask]
        /\ \A v \in Tasks : Lies(q, v)' <=> Lies(q, v)
    BY <2>1, EndLies
  <2>3. t \in Tasks /\ (current[q] = t \/ Lies(q, t) \/ ToPush(t, q))
    BY <2>1 DEF EveryQueue, Basics, TypeOK
  <2>4. current[q] = t => q # p
    BY <2>1
  <2> QED BY <2>1, <2>2, <2>3, <2>4 DEF QueuesTypeOK
<1> QED BY <1>1, <1>2, <1>3, <1>4, <1>5, <1>6, <1>7 DEF Next, Client, Pushing, Running

-----------------------------------------------------------------------------
(* The copies of a task that was pushed before stay in front. *)
LEMMA OrderNext ==
  Basics /\ EveryQueue /\ Order /\ NoOvertaking /\ [Next]_vars => Order' /\ NoOvertaking'
<1> SUFFICES ASSUME Basics, EveryQueue, Order, NoOvertaking, [Next]_vars
             PROVE  Order' /\ NoOvertaking'
  OBVIOUS
<1> QueuesTypeOK
  BY DEF Basics, TypeOK
<1>a. /\ begun \subseteq Tasks /\ \A t \in Tasks : before[t] \subseteq Tasks
  BY DEF Basics, TypeOK
<1>1. CASE UNCHANGED <<pending, current, begun, before, setToRun>>
  BY <1>1, StillLies, <1>a DEF Order, NoOvertaking
<1>2. ASSUME NEW t \in Tasks, BeginPush(t)
      PROVE  Order' /\ NoOvertaking'
  <2>1. Head(AllQueues) \in Queues
    BY AllQueuesFacts, TailFacts
  <2>2. /\ t \notin begun /\ begun' = begun \cup {t} /\ UNCHANGED setToRun
        /\ before' = [before EXCEPT ![t] = {u \in begun : toPush[u] = <<>> /\ ~setToRun[u]}]
        /\ PushTo(Head(AllQueues), t)
    BY <1>2 DEF BeginPush, copyVars
  <2>3. \A p \in Queues, u \in Tasks, v \in Tasks : InFront(p, u, v) => InFront(p, u, v)'
    BY <2>1, <2>2, PushLies
  <2>4. ASSUME NEW u \in begun, toPush[u] = <<>>, ~setToRun[u], NEW p \in Queues
        PROVE  InFront(p, u, t)
    <3>1. current[p] = u \/ Lies(p, u)
      BY <2>4 DEF EveryQueue
    <3>2. current[p] # t /\ ~Lies(p, t)
      BY <2>2 DEF Basics, Copies
    <3> QED BY <3>1, <3>2 DEF InFront, Lies
  <2>5. Order'
    BY <1>a, <2>2, <2>3, <2>4 DEF Order, Basics, TypeOK
  <2>6. NoOvertaking'
    <3>1. ~setToRun[t]
      BY <2>2 DEF Basics, Flags
    <3> QED BY <2>2, <3>1 DEF NoOvertaking, Basics, TypeOK
  <2> QED BY <2>5, <2>6
<1>3. ASSUME NEW t \in Tasks, PushCopy(t)
      PROVE  Order' /\ NoOvertaking'
  <2>1. /\ toPush[t] \in Seq(Queues) /\ toPush[t] # <<>>
        /\ UNCHANGED <<begun, before, setToRun>> /\ PushTo(Head(toPush[t]), t)
    BY <1>3 DEF PushCopy, copyVars, Basics, TypeOK
  <2>2. Head(toPush[t]) \in Queues
    BY <2>1, TailFacts
  <2>3. \A p \in Queues, u \in Tasks, v \in Tasks : InFront(p, u, v) => InFront(p, u, v)'
    BY <2>1, <2>2, PushLies
  <2> QED BY <1>a, <2>1, <2>3 DEF Order, NoOvertaking
<1>4. ASSUME NEW t \in Tasks, WaitForAll(t) \/ CopyResumer(t) \/ DropResumer(t)
      PROVE  UNCHANGED <<pending, current, begun, before, setToRun>>
  <2>1. CASE WaitForAll(t)
    BY <2>1 DEF WaitForAll, queues, clientVars, copyVars
  <2>2. CASE CopyResumer(t) \/ DropResumer(t)
    BY <2>2, ResumerFacts DEF clientVars, copyVars
  <2> QED BY <1>4, <2>1, <2>2
<1>5. ASSUME NEW q \in Queues, PickCopy(q)
      PROVE  Order' /\ NoOvertaking'
  <2>1. UNCHANGED <<begun, before, setToRun>>
    BY <1>5, PickCases DEF Basics, TypeOK, clientVars, copyVars
  <2>2. CASE UNCHANGED <<pending, current>>
    BY <1>1, <2>1, <2>2
  <2>3. ASSUME NEW h \in Tasks, Taken(q, h) PROVE Order'
    BY <1>a, <2>1, <2>3 DEF Order, Taken
  <2>4. NoOvertaking'
    BY <2>1 DEF NoOvertaking
  <2> QED BY <1>5, <2>2, <2>3, <2>4, PickCases DEF Basics, TypeOK
<1>6. ASSUME NEW q \in Queues, NEW t \in Tasks, RunAction(q, t)
      PROVE  Order' /\ NoOvertaking'
  <2>1. /\ UNCHANGED <<pending, current, begun>> /\ current[q] = t
        /\ setToRun' = [setToRun EXCEPT ![t] = TRUE]
        /\ before' = [u \in Tasks |-> before[u] \ {t}]
    BY <1>6, RunActionFacts
  <2>2. before[t] = {}
    BY <2>1 DEF Order, InFront
  <2>3. \A u \in Tasks : u # t => setToRun'[u] = setToRun[u]
    BY <2>1 DEF Basics, TypeOK
  <2>4. Order'
    BY <1>a, <2>1, <2>3, StillLies DEF Order
  <2>5. NoOvertaking'
    BY <2>1, <2>2, <2>3 DEF NoOvertaking
  <2> QED BY <2>4, <2>5
<1>7. ASSUME NEW q \in Queues, EndAction(q) \/ \E t \in Tasks : SkipAction(q, t)
      PROVE  Order' /\ NoOvertaking'
  <2>1. /\ EndTask(q) /\ UNCHANGED <<begun, before, setToRun>> /\ setToRun[current[q]]
    BY <1>7, EndFacts
  <2>2. \A p \in Queues, u \in Tasks, v \in Tasks :
           InFront(p, u, v) /\ ~setToRun[u] => InFront(p, u, v)'
    BY <2>1, EndLies
  <2> QED BY <1>a, <2>1, <2>2 DEF Order, NoOvertaking
<1>8. CASE UNCHANGED vars
  BY <1>1, <1>8 DEF vars, queues, clientVars, copyVars
<1> QED BY <1>1, <1>2, <1>3, <1>4, <1>5, <1>6, <1>7, <1>8 DEF Next, Client, Pushing, Running

-----------------------------------------------------------------------------
(* Two steps after which OneUser holds because nobody uses a queue that    *)
(* did not before: no pause is added or taken back, ...                    *)
LEMMA OneUserSame ==
  ASSUME OneUser, UNCHANGED <<pauseCount, home, resumers>>,
         \A q \in Queues, t \in Tasks : Acts(q, t)' => Acts(q, t),
         \A q \in Queues : current'[q] # NoTask /\ at'[q] = "start"
                           => pauseCount[q] = 0
  PROVE  OneUser'
<1>1. \A q \in Queues, t \in Tasks : /\ Resumes(q, t)' <=> Resumes(q, t)
                                     /\ Uses(q, t)' => Uses(q, t)
  BY DEF Resumes, Uses
<1> QED BY <1>1 DEF OneUser

(* ... the winner runs in a queue that was not paused, ... *)
LEMMA OneUserRun ==
  ASSUME Basics, OneUser, NEW q \in Queues, NEW t \in Tasks, RunAction(q, t)
  PROVE  OneUser'
<1>1. /\ UNCHANGED current
      /\ current[q] = t /\ t # NoTask /\ at[q] = "start" /\ ~setToRun[t]
      /\ home' = [home EXCEPT ![t] = {q}]
      /\ at' = [at EXCEPT ![q] = "action"]
      /\ \/ /\ pauseCount' = [pauseCount EXCEPT ![q] = pauseCount[q] + 1]
            /\ resumers' = [resumers EXCEPT ![t] = 1]
         \/ UNCHANGED <<pauseCount, resumers>>
  BY RunActionFacts
<1>2. /\ home \in [Tasks -> SUBSET Queues] /\ resumers \in [Tasks -> Nat]
      /\ at \in [Queues -> At] /\ pauseCount \in [Queues -> Nat]
  BY DEF Basics, TypeOK, QueuesTypeOK
<1>3. resumers[t] = 0 /\ home[t] = {} /\ pauseCount[q] = 0
  BY <1>1 DEF Basics, Flags, OneUser
<1>4. \A u \in Tasks : ~Uses(q, u)
  <2>1. \A u \in Tasks : ~Acts(q, u)
    BY <1>1 DEF Acts
  <2>2. \A u \in Tasks : ~Resumes(q, u)
    BY <1>2, <1>3 DEF OneUser, Resumes
  <2> QED BY <2>1, <2>2 DEF Uses
<1>5. /\ \A p \in Queues, u \in Tasks : p # q \/ u # t => (Resumes(p, u)' <=> Resumes(p, u))
      /\ \A p \in Queues, u \in Tasks : Acts(p, u)' <=> (Acts(p, u) \/ (p = q /\ u = t))
      /\ ~Resumes(q, t)
  <2>1. /\ home'[t] = {q} /\ \A u \in Tasks : u # t => home'[u] = home[u] /\ resumers'[u] = resumers[u]
    BY <1>1, <1>2
  <2>2. at'[q] = "action" /\ \A p \in Queues : p # q => at'[p] = at[p]
    BY <1>1, <1>2
  <2>3. \A p \in Queues : p # q => (Resumes(p, t)' <=> Resumes(p, t))
    BY <1>3, <2>1 DEF Resumes
  <2>4. \A p \in Queues, u \in Tasks : u # t => (Resumes(p, u)' <=> Resumes(p, u))
    BY <2>1 DEF Resumes
  <2>5. \A p \in Queues, u \in Tasks : Acts(p, u)' <=> (Acts(p, u) \/ (p = q /\ u = t))
    BY <1>1, <2>2 DEF Acts
  <2> QED BY <1>3, <2>3, <2>4, <2>5 DEF Resumes
<1>6. \A p \in Queues, u \in Tasks : Uses(p, u)' => Uses(p, u) \/ (p = q /\ u = t)
  BY <1>5 DEF Uses
<1>7. \A p \in Queues : p # q => pauseCount'[p] = pauseCount[p]
                                 /\ \A u \in Tasks : Resumes(p, u) => resumers'[u] = resumers[u]
  <2>1. \A p \in Queues : ~Resumes(p, t)
    BY <1>3 DEF Resumes
  <2> QED BY <1>1, <1>2, <2>1
<1>8. \/ pauseCount'[q] = 1 /\ resumers'[t] = 1
      \/ pauseCount'[q] = 0 /\ resumers'[t] = 0
  BY <1>1, <1>2, <1>3
<1>9. Resumes(q, t)' <=> resumers'[t] > 0
  BY <1>1, <1>2 DEF Resumes
<1>10. at'[q] # "start" /\ \A p \in Queues : p # q => at'[p] = at[p]
  BY <1>1, <1>2
<1> SUFFICES ASSUME NEW p \in Queues
             PROVE  /\ \A u, v \in Tasks : Uses(p, u)' /\ Uses(p, v)' => u = v
                    /\ \A u \in Tasks : Resumes(p, u)' => pauseCount'[p] = resumers'[u]
                    /\ (\A u \in Tasks : ~Resumes(p, u)') => pauseCount'[p] = 0
                    /\ current'[p] # NoTask /\ at'[p] = "start" => pauseCount'[p] = 0
  BY DEF OneUser
<1>11. CASE p # q
  BY <1>1, <1>5, <1>6, <1>7, <1>10, <1>11 DEF OneUser
<1>12. CASE p = q
  <2>1. \A u \in Tasks : Resumes(q, u)' => u = t
    BY <1>4, <1>5 DEF Uses
  <2> QED BY <1>4, <1>6, <1>8, <1>9, <1>10, <1>12, <2>1
<1> QED BY <1>11, <1>12

(* ... and a Resumer is copied or dropped by the one task it belongs to.   *)
LEMMA OneUserResumer ==
  ASSUME Basics, OneUser, NEW t \in Tasks, CopyResumer(t) \/ DropResumer(t)
  PROVE  OneUser'
<1>1. PICK q \in Queues, d \in {1, -1} :
           /\ home[t] = {q} /\ resumers[t] > 0
           /\ UNCHANGED <<current, at, home>>
           /\ resumers' = [resumers EXCEPT ![t] = resumers[t] + d]
           /\ pauseCount' = [pauseCount EXCEPT ![q] = pauseCount[q] + d]
  BY ResumerFacts DEF copyVars
<1>2. /\ resumers \in [Tasks -> Nat] /\ pauseCount \in [Queues -> Nat]
  BY DEF Basics, TypeOK, QueuesTypeOK
<1>3. /\ resumers'[t] = resumers[t] + d /\ pauseCount'[q] = pauseCount[q] + d
      /\ \A u \in Tasks : u # t => resumers'[u] = resumers[u]
      /\ \A p \in Queues : p # q => pauseCount'[p] = pauseCount[p]
  BY <1>1, <1>2
<1>4. Resumes(q, t) /\ pauseCount[q] = resumers[t]
  BY <1>1 DEF Resumes, OneUser
<1>5. \A u \in Tasks : Uses(q, u) => u = t
  BY <1>4 DEF OneUser, Uses
<1>6. /\ \A p \in Queues, u \in Tasks : Acts(p, u)' <=> Acts(p, u)
      /\ \A p \in Queues, u \in Tasks : u # t => (Resumes(p, u)' <=> Resumes(p, u))
      /\ \A p \in Queues : p # q => ~Resumes(p, t)' /\ ~Resumes(p, t)
      /\ Resumes(q, t)' <=> resumers'[t] > 0
  BY <1>1, <1>3 DEF Acts, Resumes
<1>7. \A p \in Queues, u \in Tasks : Uses(p, u)' => Uses(p, u)
  BY <1>4, <1>6 DEF Uses
<1>8. pauseCount[q] # 0
  BY <1>1, <1>2, <1>4
<1> SUFFICES ASSUME NEW p \in Queues
             PROVE  /\ \A u, v \in Tasks : Uses(p, u)' /\ Uses(p, v)' => u = v
                    /\ \A u \in Tasks : Resumes(p, u)' => pauseCount'[p] = resumers'[u]
                    /\ (\A u \in Tasks : ~Resumes(p, u)') => pauseCount'[p] = 0
                    /\ current'[p] # NoTask /\ at'[p] = "start" => pauseCount'[p] = 0
  BY DEF OneUser
<1>9. CASE p # q
  BY <1>1, <1>3, <1>6, <1>7, <1>9 DEF OneUser
<1>10. CASE p = q
  <2>1. \A u \in Tasks : Resumes(q, u)' => u = t
    BY <1>5, <1>6 DEF Uses
  <2>2. resumers'[t] > 0 \/ resumers'[t] = 0
    BY <1>1, <1>2, <1>3
  <2>3. ~(current[q] # NoTask /\ at[q] = "start")
    BY <1>8 DEF OneUser
  <2> QED BY <1>1, <1>3, <1>4, <1>5, <1>6, <1>7, <1>10, <2>1, <2>2, <2>3
<1> QED BY <1>9, <1>10

(* Every step leaves a queue to one user, as long as no functor came late. *)
LEMMA OneUserNext == Basics /\ (~late => OneUser) /\ [Next]_vars => (~late => OneUser)'
<1> SUFFICES ASSUME Basics, ~late => OneUser, [Next]_vars, ~late' PROVE OneUser'
  OBVIOUS
<1> QueuesTypeOK /\ late \in BOOLEAN
  BY DEF Basics, TypeOK
<1>1. CASE UNCHANGED <<current, pauseCount, home, resumers, at, late>>
  BY <1>1, OneUserSame DEF OneUser, Acts
<1>2. ASSUME NEW t \in Tasks, BeginPush(t) \/ PushCopy(t)
      PROVE  OneUser'
  <2>1. UNCHANGED <<current, pauseCount>>
    BY <1>2 DEF BeginPush, PushCopy, PushTo
  <2>2. UNCHANGED <<home, resumers, at, late>>
    BY <1>2 DEF BeginPush, PushCopy, copyVars
  <2> QED BY <1>1, <2>1, <2>2
<1>3. ASSUME NEW t \in Tasks, WaitForAll(t)
      PROVE  OneUser'
  BY <1>1, <1>3 DEF WaitForAll, queues, copyVars
<1>4. ASSUME NEW t \in Tasks, CopyResumer(t) \/ DropResumer(t)
      PROVE  OneUser'
  <2>1. ~late
    BY <1>4 DEF CopyResumer, DropResumer
  <2> QED BY <1>4, <2>1, OneUserResumer
<1>5. ASSUME NEW q \in Queues, PickCopy(q)
      PROVE  OneUser'
  <2>1. UNCHANGED <<pauseCount, home, at, resumers>>
    BY <1>5, PickCases DEF copyVars
  <2>2. CASE UNCHANGED <<current, late>>
    BY <1>1, <2>1, <2>2
  <2>3. ASSUME NEW h \in Tasks, Taken(q, h) PROVE OneUser'
    <3>1. ~late /\ ~(pauseCount[q] > 0)
      BY <2>3, Zenon DEF Taken
    <3>2. pauseCount[q] = 0
      BY <3>1 DEF QueuesTypeOK
    <3>3. \A p \in Queues : current'[p] = IF p = q THEN h ELSE current[p]
      BY <2>3 DEF Taken, QueuesTypeOK
    <3>4. at[q] = "start"
      BY <2>3 DEF Taken, Basics, Copies
    <3>5. \A p \in Queues, t \in Tasks : Acts(p, t)' => Acts(p, t)
      BY <2>1, <3>3, <3>4 DEF Acts
    <3>6. \A p \in Queues : current'[p] # NoTask /\ at'[p] = "start" => pauseCount[p] = 0
      BY <2>1, <3>1, <3>2, <3>3 DEF OneUser
    <3> QED BY <2>1, <3>1, <3>5, <3>6, OneUserSame
  <2> QED BY <1>5, <2>2, <2>3, PickCases
<1>6. ASSUME NEW q \in Queues, NEW t \in Tasks, RunAction(q, t)
      PROVE  OneUser'
  <2>1. ~late
    BY <1>6, RunActionFacts
  <2> QED BY <1>6, <2>1, OneUserRun
<1>7. ASSUME NEW q \in Queues, EndAction(q) \/ \E t \in Tasks : SkipAction(q, t)
      PROVE  OneUser'
  <2>1. EndTask(q) /\ at' = [at EXCEPT ![q] = "start"] /\ UNCHANGED <<home, resumers, late>>
    BY <1>7, EndFacts
  <2>2. UNCHANGED pauseCount /\ current' = [current EXCEPT ![q] = NoTask]
    BY <2>1, EndLies
  <2>3. \A p \in Queues : /\ current'[p] = IF p = q THEN NoTask ELSE current[p]
                          /\ at'[p] = IF p = q THEN "start" ELSE at[p]
    BY <2>1, <2>2 DEF QueuesTypeOK, Basics, TypeOK
  <2>4. \A p \in Queues, t \in Tasks : Acts(p, t)' => Acts(p, t)
    BY <2>3 DEF Acts
  <2>5. \A p \in Queues : current'[p] # NoTask /\ at'[p] = "start" => pauseCount[p] = 0
    BY <2>1, <2>3 DEF OneUser
  <2> QED BY <2>1, <2>2, <2>4, <2>5, OneUserSame
<1>8. CASE UNCHANGED vars
  BY <1>1, <1>8 DEF vars, queues, copyVars
<1> QED BY <1>2, <1>3, <1>4, <1>5, <1>6, <1>7, <1>8 DEF Next, Client, Pushing, Running

-----------------------------------------------------------------------------
(* The inductive invariant holds at first, ...                             *)
LEMMA IInvInit == Init => IInv
<1> SUFFICES ASSUME Init PROVE IInv
  OBVIOUS
<1>1. Basics
  BY BasicsInit
<1>2. EveryQueue /\ Order /\ NoOvertaking
  BY DEF Init, EveryQueue, Order, NoOvertaking
<1>3. OneUser
  BY DEF Init, QueuesInit, OneUser, Uses, Resumes, Acts
<1> QED BY <1>1, <1>2, <1>3 DEF IInv

(* ... and always.                                                         *)
LEMMA IInvAlways == Spec => []IInv
<1>1. IInv /\ [Next]_vars => IInv'
  BY BasicsNext, EveryQueueNext, OrderNext, OneUserNext DEF IInv
<1> QED BY <1>1, IInvInit, PTL DEF Spec

(* Whatever the limit, the action of a task runs in one copy only and once. *)
THEOREM ActionAlwaysOnce == Spec => []ActionOnce
<1>1. ASSUME IInv, NEW t \in Tasks PROVE ran[t] <= 1 /\ Cardinality(home[t]) <= 1
  <2>1. CASE setToRun[t]
    <3>1. PICK q \in Queues : home[t] = {q}
      BY <1>1, <2>1 DEF IInv, Basics, Flags
    <3>2. ran[t] = 1
      BY <1>1, <2>1 DEF IInv, Basics, Flags
    <3>3. Cardinality({q}) = 1
      BY FS_Singleton
    <3> QED BY <3>1, <3>2, <3>3
  <2>2. CASE ~setToRun[t]
    <3>1. ran[t] = 0 /\ home[t] = {}
      BY <1>1, <2>2 DEF IInv, Basics, Flags
    <3>2. Cardinality({}) = 0
      BY FS_EmptySet
    <3> QED BY <3>1, <3>2
  <2> QED BY <2>1, <2>2
<1>2. IInv => ActionOnce
  BY <1>1 DEF ActionOnce
<1> QED BY <1>2, IInvAlways, PTL

(* pushAndWait() returns after its action, and no copy acts afterwards.    *)
THEOREM WaitAlwaysOutlastsAction == Spec => []WaitOutlastsAction
<1>1. ASSUME IInv, NEW t \in Tasks, waiter[t] = "returned"
      PROVE  ran[t] = 1 /\ t \notin Active
  <2>1. /\ setToRun[t] /\ ran[t] = 1 /\ Kind[t] = "wait" /\ \A q \in Queues : ~Acts(q, t)
    BY <1>1 DEF IInv, Basics, Flags
  <2>2. ~(resumers[t] > 0)
    BY <1>1, <2>1 DEF IInv, Basics, Flags
  <2> QED BY <2>1, <2>2 DEF Active, Acting, Acts
<1>2. IInv => WaitOutlastsAction
  BY <1>1 DEF WaitOutlastsAction
<1> QED BY <1>2, IInvAlways, PTL

(* However many queues drain the tasks, and however the loops of several   *)
(* pushes overlap, a task does not overtake one that was pushed before.    *)
THEOREM NeverOvertakes == Spec => []NoOvertaking
<1>1. IInv => NoOvertaking
  BY DEF IInv
<1> QED BY <1>1, IInvAlways, PTL

(* Running actions and unresumed ones together respect the limit, for      *)
(* every limit and every number of Resumers, unless a copy has slipped     *)
(* into a paused queue: each of them has a queue to itself.                *)
THEOREM LimitHoldsUnlessLate == Spec => []LimitUnlessLate
<1>1. ASSUME IInv, ~late PROVE LimitRespected
  <2>1. Basics /\ OneUser
    BY <1>1 DEF IInv
  <2>2. \A t \in Active : t \in Tasks /\ \E q \in Queues : Uses(q, t)
    <3> SUFFICES ASSUME NEW t \in Active PROVE t \in Tasks /\ \E q \in Queues : Uses(q, t)
      OBVIOUS
    <3>1. CASE t \in Acting
      <4>1. PICK q \in Queues : at[q] = "action" /\ t = current[q]
        BY <3>1 DEF Acting
      <4>2. current[q] # NoTask
        BY <2>1, <4>1 DEF Basics, Copies
      <4> QED BY <2>1, <4>1, <4>2 DEF Uses, Acts, Basics, TypeOK, QueuesTypeOK
    <3>2. CASE t \in Tasks /\ resumers[t] > 0
      <4>1. setToRun[t]
        BY <2>1, <3>2 DEF Basics, Flags
      <4> QED BY <2>1, <3>2, <4>1 DEF Basics, Flags, Uses, Resumes
    <3> QED BY <3>1, <3>2 DEF Active
  <2> DEFINE f == [t \in Active |-> CHOOSE q \in Queues : Uses(q, t)]
  <2>3. \A t \in Active : f[t] \in Queues /\ Uses(f[t], t)
    BY <2>2
  <2>4. \A t, u \in Active : f[t] = f[u] => t = u
    <3> HIDE DEF f
    <3> QED BY <2>1, <2>2, <2>3 DEF OneUser
  <2>5. f \in Injection(Active, Queues)
    <3>1. f \in [Active -> Queues]
      BY <2>3
    <3> HIDE DEF f
    <3> QED BY <2>4, <3>1 DEF Injection, IsInjective
  <2>6. IsFiniteSet(Queues)
    BY LimitAssumption
  <2> HIDE DEF f
  <2>7. Cardinality(Active) <= Cardinality(Queues)
    BY <2>5, <2>6, FS_Injection
  <2> QED BY <2>7 DEF LimitRespected
<1>2. IInv => LimitUnlessLate
  BY <1>1 DEF LimitUnlessLate
<1> QED BY <1>2, IInvAlways, PTL

-----------------------------------------------------------------------------
(* Of any sets of elements of a finite set some are minimal: what stands   *)
(* for induction over a finite set here.                                   *)
LEMMA MinimalSet ==
    ASSUME NEW S, IsFiniteSet(S), NEW F \in SUBSET SUBSET S, F # {}
    PROVE  \E A \in F : \A B \in F : B \subseteq A => B = A
<1>1. IsWellFoundedOn(StrictSubsetOrdering(S), SUBSET S)
  BY FS_StrictSubsetOrderingWellFounded, FS_FiniteSubsetsOfFinite
<1>2. \E A \in F : \A B \in F : <<B, A>> \notin StrictSubsetOrdering(S)
  BY <1>1, WFMin
<1> QED BY <1>2 DEF StrictSubsetOrdering

(* A sum over a set takes its elements one by one: g is the function that  *)
(* the fold of the community modules builds. *)
Chosen(s) == CHOOSE x \in s : TRUE
Adds(g, f, S) == g = [s \in SUBSET S |-> IF s = {} THEN 0 ELSE f[Chosen(s)] + g[s \ {Chosen(s)}]]

(* There is one such function at most, ...                                 *)
LEMMA AddsOnce ==
    ASSUME NEW S, NEW f, IsFiniteSet(S), NEW g, NEW h, Adds(g, f, S), Adds(h, f, S)
    PROVE  g = h
<1> SUFFICES ASSUME g # h PROVE FALSE
  OBVIOUS
<1> DEFINE F == {A \in SUBSET S : g[A] # h[A]}
<1>1. F # {} /\ F \in SUBSET SUBSET S
  BY DEF Adds
<1> HIDE DEF F
<1>2. \E A \in F : \A B \in F : B \subseteq A => B = A
  BY <1>1, MinimalSet
<1>3. PICK A \in F : \A B \in F : B \subseteq A => B = A
  BY <1>2
<1>4. A \in SUBSET S /\ g[A] # h[A]
  BY <1>3 DEF F
<1>5. A # {}
  BY <1>4 DEF Adds
<1>6. PICK c : c = Chosen(A) /\ c \in A
  BY <1>5 DEF Chosen
<1>7. A \ {c} # A /\ A \ {c} \in SUBSET S /\ A \ {c} \subseteq A
  BY <1>4, <1>6
<1>8. PICK B : B = A \ {c}
  OBVIOUS
<1>9. g[B] = h[B]
  BY <1>3, <1>7, <1>8 DEF F
<1>10. g[A] = f[c] + g[B] /\ h[A] = f[c] + h[B]
  BY <1>4, <1>5, <1>6, <1>8 DEF Adds
<1> QED BY <1>4, <1>9, <1>10

(* ... what it does to the subsets is such a function of them, ...         *)
LEMMA AddsLess ==
    ASSUME NEW S, NEW f, NEW g, Adds(g, f, S), NEW B \in SUBSET S
    PROVE  Adds([s \in SUBSET B |-> g[s]], f, B)
<1> DEFINE h == [s \in SUBSET B |-> g[s]]
<1>1. ASSUME NEW s \in SUBSET B PROVE h[s] = IF s = {} THEN 0 ELSE f[Chosen(s)] + h[s \ {Chosen(s)}]
  <2>1. s \in SUBSET S /\ s \ {Chosen(s)} \in SUBSET B
    OBVIOUS
  <2>2. g[s] = IF s = {} THEN 0 ELSE f[Chosen(s)] + g[s \ {Chosen(s)}]
    BY <2>1 DEF Adds
  <2> QED BY <2>1, <2>2
<1>2. h = [s \in SUBSET B |-> h[s]]
  OBVIOUS
<1> HIDE DEF h
<1>3. h = [s \in SUBSET B |-> IF s = {} THEN 0 ELSE f[Chosen(s)] + h[s \ {Chosen(s)}]]
  BY <1>1, <1>2
<1>4. Adds(h, f, B)
  BY <1>3 DEF Adds
<1> QED BY <1>4 DEF h

(* ... and every finite set has one.                                       *)
LEMMA AddsExists ==
    ASSUME NEW S, NEW f, IsFiniteSet(S)
    PROVE  \E g : Adds(g, f, S)
<1> SUFFICES ASSUME \A g : ~Adds(g, f, S) PROVE FALSE
  OBVIOUS
<1> DEFINE F == {A \in SUBSET S : \A g : ~Adds(g, f, A)}
<1>1. F # {} /\ F \in SUBSET SUBSET S
  OBVIOUS
<1> HIDE DEF F
<1>2. \E A \in F : \A B \in F : B \subseteq A => B = A
  BY <1>1, MinimalSet
<1>3. PICK A \in F : \A B \in F : B \subseteq A => B = A
  BY <1>2
<1>4. A \in SUBSET S /\ \A g : ~Adds(g, f, A)
  BY <1>3 DEF F
<1> DEFINE G(s) == CHOOSE g : Adds(g, f, s)
           x == Chosen(A)
           h == [s \in SUBSET A |-> IF s = {} THEN 0
                                    ELSE IF s = A THEN f[x] + G(A \ {x})[A \ {x}] ELSE G(s)[s]]
<1>5. ASSUME NEW s \in SUBSET A, s # A PROVE Adds(G(s), f, s)
  <2>1. s \notin F /\ s \in SUBSET S
    BY <1>3, <1>4, <1>5
  <2>2. \E g : Adds(g, f, s)
    BY <2>1 DEF F
  <2> QED BY <2>2
<1>6. ASSUME NEW s \in SUBSET A PROVE h[s] = IF s = {} THEN 0 ELSE f[Chosen(s)] + h[s \ {Chosen(s)}]
  <2>1. CASE s = {}
    BY <2>1
  <2>2. CASE s # {}
    <3>1. PICK c : c = Chosen(s) /\ c \in s
      BY <2>2 DEF Chosen
    <3>7. s \ {c} \in SUBSET A /\ s \ {c} # A /\ s \ {c} \in SUBSET s
      <4>1. s \subseteq A
        BY <1>6
      <4> QED BY <4>1, <3>1
    <3>2. PICK t : t = s \ {c} /\ t \in SUBSET A /\ t # A /\ t \in SUBSET s
      BY <3>7
    <3>3. h[t] = G(t)[t]
      <4>1. CASE t = {}
        <5>1. Adds(G(t), f, t)
          BY <3>2, <1>5
        <5>2. G(t)[t] = 0
          BY <4>1, <5>1 DEF Adds
        <5> QED BY <5>2, <4>1
      <4> QED BY <3>2, <4>1
    <3>4. CASE s = A
      BY <2>2, <3>1, <3>2, <3>3, <3>4
    <3>5. CASE s # A
      <4>1. Adds(G(s), f, s) /\ Adds(G(t), f, t)
        BY <1>5, <3>2, <3>5
      <4>2. G(s)[s] = f[c] + G(s)[t]
        BY <4>1, <2>2, <3>1, <3>2 DEF Adds
      <4>3. Adds([u \in SUBSET t |-> G(s)[u]], f, t)
        BY <4>1, <3>2, AddsLess
      <4>4. IsFiniteSet(t)
        BY <3>2, <1>4, FS_Subset
      <4>5. G(t) = [u \in SUBSET t |-> G(s)[u]]
        BY <4>1, <4>3, <4>4, AddsOnce
      <4>6. G(t)[t] = G(s)[t]
        BY <4>5
      <4> QED BY <2>2, <3>1, <3>2, <3>3, <3>5, <4>2, <4>6
    <3> QED BY <3>4, <3>5
  <2> QED BY <2>1, <2>2
<1>7. h = [s \in SUBSET A |-> h[s]]
  OBVIOUS
<1> HIDE DEF h
<1>8. h = [s \in SUBSET A |-> IF s = {} THEN 0 ELSE f[Chosen(s)] + h[s \ {Chosen(s)}]]
  BY <1>6, <1>7
<1>9. Adds(h, f, A)
  BY <1>8 DEF Adds
<1> QED BY <1>4, <1>9

(* The sum of the community modules is what this function says of S.       *)
LEMMA SumAdds ==
    ASSUME NEW S, NEW f, IsFiniteSet(S)
    PROVE  \E g : Adds(g, f, S) /\ SumFunctionOnSet(f, S) = g[S]
<1>1. SumFunctionOnSet(f, S)
        = (CHOOSE g : g = [s \in SUBSET S |-> IF s = {} THEN 0
                                              ELSE f[CHOOSE x \in s : TRUE] + g[s \ {CHOOSE x \in s : TRUE}]])[S]
  BY Zenon DEF SumFunctionOnSet, FoldFunctionOnSet, MapThenFoldSet
<1>2. SumFunctionOnSet(f, S) = (CHOOSE g : Adds(g, f, S))[S]
  BY <1>1, Zenon DEF Adds, Chosen
<1> QED BY <1>2, AddsExists

(* Nothing adds up to zero, ...                                            *)
LEMMA SumEmpty == ASSUME NEW f PROVE SumFunctionOnSet(f, {}) = 0
<1>1. IsFiniteSet({})
  BY FS_EmptySet
<1>2. PICK g : Adds(g, f, {}) /\ SumFunctionOnSet(f, {}) = g[{}]
  BY <1>1, SumAdds
<1> QED BY <1>2 DEF Adds

(* ... and some element comes first.                                       *)
LEMMA SumFirst ==
    ASSUME NEW S, NEW f, IsFiniteSet(S), S # {}
    PROVE  \E x \in S : SumFunctionOnSet(f, S) = f[x] + SumFunctionOnSet(f, S \ {x})
<1>1. PICK g : Adds(g, f, S) /\ SumFunctionOnSet(f, S) = g[S]
  BY SumAdds
<1>2. PICK x : x = Chosen(S) /\ x \in S
  BY DEF Chosen
<1>3. PICK B : B = S \ {x} /\ B \in SUBSET S
  BY <1>2
<1>4. IsFiniteSet(B)
  BY <1>3, FS_Subset
<1>5. PICK h : Adds(h, f, B) /\ SumFunctionOnSet(f, B) = h[B]
  BY <1>4, SumAdds
<1>6. PICK u : u = [s \in SUBSET B |-> g[s]] /\ Adds(u, f, B)
  <2>1. Adds(g, f, S) /\ B \in SUBSET S
    BY <1>1, <1>3
  <2>2. Adds([s \in SUBSET B |-> g[s]], f, B)
    BY <2>1, AddsLess, Zenon
  <2> QED BY <2>2, Zenon
<1>7. h = u
  BY <1>4, <1>5, <1>6, AddsOnce
<1>8. h[B] = g[B]
  BY <1>6, <1>7
<1>9. g[S] = f[x] + g[B]
  BY <1>1, <1>2, <1>3 DEF Adds
<1> QED BY <1>1, <1>2, <1>3, <1>5, <1>8, <1>9

(* Natural numbers add up to one.                                          *)
LEMMA SumIsNat ==
    ASSUME NEW S, NEW f, IsFiniteSet(S), \A x \in S : f[x] \in Nat
    PROVE  SumFunctionOnSet(f, S) \in Nat
<1> SUFFICES ASSUME SumFunctionOnSet(f, S) \notin Nat PROVE FALSE
  OBVIOUS
<1> DEFINE F == {A \in SUBSET S : SumFunctionOnSet(f, A) \notin Nat}
<1>1. F # {} /\ F \in SUBSET SUBSET S
  OBVIOUS
<1> HIDE DEF F
<1>2. \E A \in F : \A B \in F : B \subseteq A => B = A
  BY <1>1, MinimalSet
<1>3. PICK A \in F : \A B \in F : B \subseteq A => B = A
  BY <1>2
<1>4. A \in SUBSET S /\ SumFunctionOnSet(f, A) \notin Nat
  BY <1>3 DEF F
<1>5. IsFiniteSet(A) /\ A # {}
  <2>1. 0 \in Nat
    OBVIOUS
  <2>2. SumFunctionOnSet(f, {}) = 0
    BY SumEmpty
  <2>3. A # {}
    BY <1>4, <2>1, <2>2
  <2> QED BY <1>4, <2>3, FS_Subset
<1>6. PICK x \in A : SumFunctionOnSet(f, A) = f[x] + SumFunctionOnSet(f, A \ {x})
  BY <1>5, SumFirst
<1>7. A \ {x} \in SUBSET S /\ A \ {x} \notin F
  BY <1>3, <1>4, <1>6
<1>8. SumFunctionOnSet(f, A \ {x}) \in Nat
  BY <1>7 DEF F
<1> QED BY <1>4, <1>6, <1>8

(* Whichever element is taken first, the sum is the same, ...              *)
LEMMA SumRemove ==
    ASSUME NEW S, NEW f, IsFiniteSet(S), \A x \in S : f[x] \in Nat, NEW y \in S
    PROVE  SumFunctionOnSet(f, S) = f[y] + SumFunctionOnSet(f, S \ {y})
<1> DEFINE Sum(A) == SumFunctionOnSet(f, A)
<1> HIDE DEF Sum
<1>0. SUFFICES ASSUME Sum(S) # f[y] + Sum(S \ {y}) PROVE FALSE
  BY DEF Sum
<1> DEFINE F == {A \in SUBSET S : \E x \in A : Sum(A) # f[x] + Sum(A \ {x})}
<1>1. F # {} /\ F \in SUBSET SUBSET S
  BY <1>0
<1> HIDE DEF F
<1>2. \E A \in F : \A B \in F : B \subseteq A => B = A
  BY <1>1, MinimalSet
<1>3. PICK A \in F : \A B \in F : B \subseteq A => B = A
  BY <1>2
<1>4. A \in SUBSET S
  BY <1>3 DEF F
<1>5. PICK x \in A : Sum(A) # f[x] + Sum(A \ {x})
  BY <1>3 DEF F
<1>6. IsFiniteSet(A) /\ A # {}
  BY <1>4, <1>5, FS_Subset
<1>7. PICK z \in A : Sum(A) = f[z] + Sum(A \ {z})
  BY <1>6, SumFirst DEF Sum
<1>8. x # z
  BY <1>5, <1>7
<1>9. A \ {z} \notin F /\ A \ {x} \notin F
  BY <1>3, <1>5, <1>7
<1>10. Sum(A \ {z}) = f[x] + Sum((A \ {z}) \ {x})
  BY <1>4, <1>5, <1>8, <1>9 DEF F
<1>11. Sum(A \ {x}) = f[z] + Sum((A \ {x}) \ {z})
  BY <1>4, <1>7, <1>8, <1>9 DEF F
<1>12. (A \ {z}) \ {x} = (A \ {x}) \ {z}
  OBVIOUS
<1>13. IsFiniteSet((A \ {x}) \ {z}) /\ \A w \in (A \ {x}) \ {z} : f[w] \in Nat
  BY <1>4, <1>6, FS_Subset
<1>14. Sum((A \ {x}) \ {z}) \in Nat
  BY <1>13, SumIsNat DEF Sum
<1>15. f[x] \in Nat /\ f[z] \in Nat
  BY <1>4, <1>5, <1>7
<1> QED BY <1>5, <1>7, <1>10, <1>11, <1>12, <1>14, <1>15

(* ... and values elsewhere do not matter.                                 *)
LEMMA SumAgrees ==
    ASSUME NEW S, NEW f, NEW g, IsFiniteSet(S), \A x \in S : f[x] = g[x]
    PROVE  SumFunctionOnSet(f, S) = SumFunctionOnSet(g, S)
<1> SUFFICES ASSUME SumFunctionOnSet(f, S) # SumFunctionOnSet(g, S) PROVE FALSE
  OBVIOUS
<1>1. PICK u : Adds(u, f, S) /\ SumFunctionOnSet(f, S) = u[S]
  BY SumAdds
<1>2. PICK v : Adds(v, g, S) /\ SumFunctionOnSet(g, S) = v[S]
  BY SumAdds
<1>3. \A s \in SUBSET S : s # {} => Chosen(s) \in S
  BY DEF Chosen
<1>4. [s \in SUBSET S |-> IF s = {} THEN 0 ELSE f[Chosen(s)] + v[s \ {Chosen(s)}]]
        = [s \in SUBSET S |-> IF s = {} THEN 0 ELSE g[Chosen(s)] + v[s \ {Chosen(s)}]]
  BY <1>3
<1>5. Adds(v, f, S)
  BY <1>2, <1>4 DEF Adds
<1>6. u = v
  BY <1>1, <1>5, AddsOnce
<1> QED BY <1>1, <1>2, <1>6

-----------------------------------------------------------------------------
(* The tasks whose action ran in a queue, and what their Resumers do to it. *)
HomeTo(q) == {t \in Tasks : q \in home[t]}
Pauses == \A q \in Queues : /\ IsFiniteSet(HomeTo(q))
                            /\ pauseCount[q] = SumFunctionOnSet(resumers, HomeTo(q))

(* One summand changes by d, and with it the sum. *)
LEMMA SumChanges ==
  ASSUME NEW S, IsFiniteSet(S), NEW y \in S, NEW d \in Int,
         NEW f \in [Tasks -> Nat], NEW g \in [Tasks -> Nat], S \subseteq Tasks,
         \A x \in Tasks : x # y => g[x] = f[x], g[y] = f[y] + d
  PROVE  SumFunctionOnSet(g, S) = SumFunctionOnSet(f, S) + d
<1>1. PICK A : A = S \ {y}
  OBVIOUS
<1>2. IsFiniteSet(A) /\ A \subseteq Tasks /\ y \notin A
  BY <1>1, FS_Subset
<1>3. \A x \in A : g[x] = f[x]
  BY <1>2
<1>4. SumFunctionOnSet(g, A) = SumFunctionOnSet(f, A)
  BY <1>2, <1>3, SumAgrees
<1>5. PICK n \in Nat : n = SumFunctionOnSet(f, A)
  BY <1>2, SumIsNat
<1>6. SumFunctionOnSet(f, S) = f[y] + n
  BY <1>1, <1>5, SumRemove
<1>7. SumFunctionOnSet(g, S) = g[y] + n
  BY <1>1, <1>4, <1>5, SumRemove
<1>8. f[y] \in Nat /\ g[y] \in Nat
  OBVIOUS
<1> QED BY <1>6, <1>7, <1>8

(* The winner brings its Resumer, if any, to the queue it runs in.         *)
LEMMA PausesRun ==
  ASSUME Basics, Pauses, NEW q \in Queues, NEW t \in Tasks, RunAction(q, t)
  PROVE  Pauses'
<1>1. /\ home' = [home EXCEPT ![t] = {q}]
      /\ \/ /\ pauseCount' = [pauseCount EXCEPT ![q] = pauseCount[q] + 1]
            /\ resumers' = [resumers EXCEPT ![t] = 1]
         \/ UNCHANGED <<pauseCount, resumers>>
      /\ ~setToRun[t]
  BY RunActionFacts
<1>2. /\ home \in [Tasks -> SUBSET Queues] /\ resumers \in [Tasks -> Nat]
      /\ pauseCount \in [Queues -> Nat] /\ home[t] = {} /\ resumers[t] = 0
  BY <1>1 DEF Basics, TypeOK, QueuesTypeOK, Flags
<1>3. resumers' \in [Tasks -> Nat] /\ \A u \in Tasks : u # t => resumers'[u] = resumers[u]
  BY <1>1, <1>2
<1> SUFFICES ASSUME NEW p \in Queues
             PROVE  IsFiniteSet(HomeTo(p)') /\ pauseCount'[p] = SumFunctionOnSet(resumers', HomeTo(p)')
  BY DEF Pauses
<1>4. PICK A, B, f, g : A = HomeTo(p) /\ B = HomeTo(p)' /\ f = resumers /\ g = resumers'
  OBVIOUS
<1>5. /\ f \in [Tasks -> Nat] /\ g \in [Tasks -> Nat] /\ \A u \in Tasks : u # t => g[u] = f[u]
      /\ A \subseteq Tasks /\ t \notin A /\ IsFiniteSet(A)
      /\ pauseCount[p] = SumFunctionOnSet(f, A) /\ pauseCount[p] \in Nat
  BY <1>2, <1>3, <1>4 DEF HomeTo, Pauses
<1>6. SumFunctionOnSet(g, A) = SumFunctionOnSet(f, A)
  <2>1. \A u \in A : g[u] = f[u]
    BY <1>5
  <2> QED BY <1>5, <2>1, SumAgrees
<1>7. CASE p = q
  <2>1. B = A \cup {t}
    BY <1>1, <1>2, <1>4, <1>7 DEF HomeTo
  <2>2. IsFiniteSet(B)
    BY <1>5, <2>1, FS_AddElement
  <2>3. \A u \in B : g[u] \in Nat
    BY <1>5, <2>1
  <2>4. B \ {t} = A /\ t \in B
    BY <1>5, <2>1
  <2>5. SumFunctionOnSet(g, B) = g[t] + SumFunctionOnSet(g, A)
    BY <2>2, <2>3, <2>4, SumRemove
  <2>6. pauseCount'[p] = pauseCount[p] + g[t]
    BY <1>1, <1>2, <1>4, <1>5, <1>7
  <2> QED BY <1>4, <1>5, <1>6, <2>2, <2>5, <2>6
<1>8. CASE p # q
  <2>1. B = A
    BY <1>1, <1>2, <1>4, <1>8 DEF HomeTo
  <2>2. pauseCount'[p] = pauseCount[p]
    BY <1>1, <1>2, <1>8
  <2> QED BY <1>4, <1>5, <1>6, <2>1, <2>2
<1> QED BY <1>7, <1>8

(* A copy and a drop change the count of Resumers and that of pauses alike. *)
LEMMA PausesResumer ==
  ASSUME Basics, Pauses, NEW t \in Tasks, CopyResumer(t) \/ DropResumer(t)
  PROVE  Pauses'
<1>1. PICK q \in Queues, d \in {1, -1} :
        /\ home[t] = {q} /\ resumers[t] > 0 /\ UNCHANGED home
        /\ resumers' = [resumers EXCEPT ![t] = resumers[t] + d]
        /\ pauseCount' = [pauseCount EXCEPT ![q] = pauseCount[q] + d]
  BY ResumerFacts DEF copyVars
<1>2. /\ resumers \in [Tasks -> Nat] /\ pauseCount \in [Queues -> Nat] /\ d \in Int
  BY DEF Basics, TypeOK, QueuesTypeOK
<1>3. /\ resumers' \in [Tasks -> Nat] /\ \A u \in Tasks : u # t => resumers'[u] = resumers[u]
      /\ resumers'[t] = resumers[t] + d
  BY <1>1, <1>2
<1> SUFFICES ASSUME NEW p \in Queues
             PROVE  IsFiniteSet(HomeTo(p)') /\ pauseCount'[p] = SumFunctionOnSet(resumers', HomeTo(p)')
  BY DEF Pauses
<1>4. PICK A, f, g : A = HomeTo(p) /\ f = resumers /\ g = resumers'
  OBVIOUS
<1>5. /\ f \in [Tasks -> Nat] /\ g \in [Tasks -> Nat] /\ \A u \in Tasks : u # t => g[u] = f[u]
      /\ g[t] = f[t] + d /\ A \subseteq Tasks /\ IsFiniteSet(A)
      /\ pauseCount[p] = SumFunctionOnSet(f, A)
  BY <1>2, <1>3, <1>4 DEF HomeTo, Pauses
<1>6. HomeTo(p)' = A
  BY <1>1, <1>4 DEF HomeTo
<1>7. CASE p = q
  <2>1. t \in A
    BY <1>1, <1>4, <1>7 DEF HomeTo
  <2>2. SumFunctionOnSet(g, A) = SumFunctionOnSet(f, A) + d
    BY <1>2, <1>5, <2>1, SumChanges
  <2>3. pauseCount'[p] = pauseCount[p] + d
    BY <1>1, <1>2, <1>7
  <2> QED BY <1>4, <1>5, <1>6, <2>2, <2>3
<1>8. CASE p # q
  <2>1. t \notin A
    BY <1>1, <1>4, <1>8 DEF HomeTo
  <2>2. \A u \in A : g[u] = f[u]
    BY <1>5, <2>1
  <2>3. SumFunctionOnSet(g, A) = SumFunctionOnSet(f, A)
    BY <1>5, <2>2, SumAgrees
  <2>4. pauseCount'[p] = pauseCount[p]
    BY <1>1, <1>2, <1>8
  <2> QED BY <1>4, <1>5, <1>6, <2>3, <2>4
<1> QED BY <1>7, <1>8

(* No other step touches a pause or a Resumer.                             *)
LEMMA PausesNext == Basics /\ Pauses /\ [Next]_vars => Pauses'
<1> SUFFICES ASSUME Basics, Pauses, [Next]_vars PROVE Pauses'
  OBVIOUS
<1>1. ASSUME UNCHANGED <<pauseCount, resumers, home>> PROVE Pauses'
  BY <1>1 DEF Pauses, HomeTo
<1>2. CASE UNCHANGED vars
  BY <1>1, <1>2 DEF vars, queues, copyVars
<1>3. ASSUME NEW t \in Tasks, BeginPush(t) \/ PushCopy(t) \/ WaitForAll(t) PROVE Pauses'
  BY <1>1, <1>3 DEF BeginPush, PushCopy, WaitForAll, PushTo, copyVars, queues
<1>4. ASSUME NEW q \in Queues, PickCopy(q) PROVE Pauses'
  BY <1>1, <1>4 DEF PickCopy, Pick, ReadPause, Take, GiveUp, Miss, copyVars
<1>5. ASSUME NEW q \in Queues, EndAction(q) \/ \E t \in Tasks : SkipAction(q, t) PROVE Pauses'
  <2>1. EndTask(q) /\ UNCHANGED <<home, resumers>>
    BY <1>5, EndFacts
  <2> QED BY <1>1, <2>1 DEF EndTask
<1> QED BY <1>2, <1>3, <1>4, <1>5, PausesRun, PausesResumer DEF Next, Client, Pushing, Running

(* The pauses of every queue are those of the Resumers that live.          *)
LEMMA PausesAlways == Spec => [](Basics /\ Pauses)
<1>1. Init => Basics /\ Pauses
  <2> SUFFICES ASSUME Init PROVE Pauses
    BY BasicsInit
  <2>1. ASSUME NEW q \in Queues
        PROVE  IsFiniteSet(HomeTo(q)) /\ pauseCount[q] = SumFunctionOnSet(resumers, HomeTo(q))
    <3>1. HomeTo(q) = {} /\ pauseCount[q] = 0
      BY DEF Init, QueuesInit, HomeTo
    <3>2. SumFunctionOnSet(resumers, {}) = 0
      BY SumEmpty
    <3>3. IsFiniteSet({})
      BY FS_EmptySet
    <3> QED BY <3>1, <3>2, <3>3
  <2> QED BY <2>1 DEF Pauses
<1>2. Basics /\ Pauses /\ [Next]_vars => (Basics /\ Pauses)'
  BY BasicsNext, PausesNext
<1> QED BY <1>1, <1>2, PTL DEF Spec

(* A queue is paused once per live Resumer, whatever is copied, moved and  *)
(* dropped in which order, and whatever has slipped through a pause.       *)
THEOREM PausesAlwaysResumers == Spec => []PausesAreResumers
<1>1. Basics /\ Pauses => PausesAreResumers
  BY DEF Basics, Pauses, PausesAreResumers, HomeTo
<1> QED BY <1>1, PausesAlways, PTL
-----------------------------------------------------------------------------
(* A queue that holds a copy is busy, is paused, has a pick under way that *)
(* will look into it, or has been left so by a second clear.               *)
Stirs(q) == \/ pending[q] = <<>> \/ current[q] # NoTask
            \/ pauseCount[q] > 0 \/ asked[q] > 0 \/ passed[q] > 0 \/ missed[q]
Stirring == \A q \in Queues : Stirs(q)

(* A step that leaves a queue as it is leaves it stirring.                 *)
LEMMA StirsElsewhere ==
  ASSUME NEW q, Stirs(q),
         /\ pending'[q] = pending[q] /\ current'[q] = current[q] /\ pauseCount'[q] = pauseCount[q]
         /\ asked'[q] = asked[q] /\ passed'[q] = passed[q] /\ missed'[q] = missed[q]
  PROVE  Stirs(q)'
  BY DEF Stirs

(* push(), pause() and the end of a functor leave a queue stirring, ...    *)
LEMMA StirsUse ==
  ASSUME QueuesTypeOK, Stirring, NEW q \in Queues,
         \/ PauseQueue(q) \/ ResumeQueue(q) \/ EndTask(q)
         \/ \E t \in Tasks : PushTo(q, t)
  PROVE  Stirring'
<1> USE DEF QueuesTypeOK
<1>1. asked[q] \in Nat /\ passed[q] \in Nat /\ pauseCount[q] \in Nat
  OBVIOUS
<1>2. ASSUME NEW p \in Queues, p # q PROVE Stirs(p)'
  <2>1. /\ pending'[p] = pending[p] /\ current'[p] = current[p] /\ pauseCount'[p] = pauseCount[p]
        /\ asked'[p] = asked[p] /\ passed'[p] = passed[p] /\ missed'[p] = missed[p]
    BY <1>2 DEF PauseQueue, ResumeQueue, EndTask, PushTo, AddOne, TakeOne
  <2> QED BY <2>1, StirsElsewhere DEF Stirring
<1>3. Stirs(q)'
  <2>1. CASE PauseQueue(q)
    <3>1. pauseCount'[q] = pauseCount[q] + 1
      BY <2>1 DEF PauseQueue, AddOne
    <3> QED BY <1>1, <3>1 DEF Stirs
  <2>2. CASE EndTask(q)
    <3>1. asked'[q] = asked[q] + 1
      BY <2>2 DEF EndTask, AddOne
    <3> QED BY <1>1, <3>1 DEF Stirs
  <2>3. CASE ResumeQueue(q)
    <3>1. /\ pauseCount'[q] = pauseCount[q] - 1 /\ pauseCount[q] > 0
          /\ pauseCount[q] = 1 => asked'[q] = asked[q] + 1
      BY <2>3 DEF ResumeQueue, TakeOne, AddOne
    <3> QED BY <1>1, <3>1 DEF Stirs
  <2>4. ASSUME NEW t \in Tasks, PushTo(q, t) PROVE Stirs(q)'
    <3>1. asked'[q] = asked[q] + 1
      BY <2>4 DEF PushTo, AddOne
    <3> QED BY <1>1, <3>1 DEF Stirs
  <2> QED BY <2>1, <2>2, <2>3, <2>4
<1> QED BY <1>2, <1>3 DEF Stirring

(* ... and so does a pick: one that does not go on has met a pause, and    *)
(* one that has gone on takes a functor, finds the queue busy, empty or in *)
(* the hands of another pick, or leaves a mark where it has left a functor. *)
LEMMA StirsPick ==
  ASSUME QueuesTypeOK, Stirring, NEW q \in Queues, Pick(q)
  PROVE  Stirring'
<1> USE DEF QueuesTypeOK
<1>1. asked[q] \in Nat /\ passed[q] \in Nat /\ pauseCount[q] \in Nat /\ pending[q] \in Seq(Tasks)
  OBVIOUS
<1>2. ASSUME NEW p \in Queues, p # q PROVE Stirs(p)'
  <2>1. /\ pending'[p] = pending[p] /\ current'[p] = current[p] /\ pauseCount'[p] = pauseCount[p]
        /\ asked'[p] = asked[p] /\ passed'[p] = passed[p] /\ missed'[p] = missed[p]
    BY <1>2 DEF Pick, ReadPause, Take, GiveUp, Miss, AddOne, TakeOne
  <2> QED BY <2>1, StirsElsewhere DEF Stirring
<1>3. Stirs(q)'
  <2>1. CASE ReadPause(q)
    <3>1. /\ pauseCount[q] = 0 => passed'[q] = passed[q] + 1
          /\ UNCHANGED pauseCount
      BY <2>1 DEF ReadPause, AddOne
    <3> QED BY <1>1, <3>1 DEF Stirs
  <2>2. CASE Take(q)
    <3>1. current'[q] = Head(pending[q]) /\ pending[q] # <<>>
      BY <2>2 DEF Take
    <3>2. Head(pending[q]) \in Tasks
      BY <1>1, <3>1
    <3> QED BY <3>1, <3>2, LimitAssumption DEF Stirs
  <2>3. CASE GiveUp(q)
    <3>1. /\ passed'[q] = passed[q] - 1 /\ UNCHANGED <<pending, current>>
          /\ current[q] # NoTask \/ pending[q] = <<>> \/ passed[q] > 1
      BY <2>3 DEF GiveUp, TakeOne
    <3> QED BY <1>1, <3>1 DEF Stirs
  <2>4. CASE Miss(q)
    <3>1. missed'[q]
      BY <2>4 DEF Miss
    <3> QED BY <3>1 DEF Stirs
  <2> QED BY <2>1, <2>2, <2>3, <2>4 DEF Pick
<1> QED BY <1>2, <1>3 DEF Stirring

(* No step leaves a copy in a queue that nobody will look into.            *)
LEMMA StirringNext == Basics /\ Stirring /\ [Next]_vars => Stirring'
<1> SUFFICES ASSUME Basics, Stirring, [Next]_vars PROVE Stirring'
  OBVIOUS
<1>1. QueuesTypeOK
  BY DEF Basics, TypeOK
<1>2. ASSUME UNCHANGED queues PROVE Stirring'
  BY <1>2 DEF queues, Stirring, Stirs
<1>3. CASE UNCHANGED vars
  BY <1>2, <1>3 DEF vars
<1>4. ASSUME NEW t \in Tasks, BeginPush(t) \/ PushCopy(t) PROVE Stirring'
  <2>1. CASE BeginPush(t)
    <3>1. Head(AllQueues) \in Queues
      BY AllQueuesFacts
    <3> QED BY <1>1, <2>1, <3>1, StirsUse DEF BeginPush
  <2>2. CASE PushCopy(t)
    <3>1. Head(toPush[t]) \in Queues
      BY <2>2 DEF PushCopy, Basics, TypeOK
    <3> QED BY <1>1, <2>2, <3>1, StirsUse DEF PushCopy
  <2> QED BY <1>4, <2>1, <2>2
<1>5. ASSUME NEW t \in Tasks, WaitForAll(t) PROVE Stirring'
  BY <1>2, <1>5 DEF WaitForAll
<1>6. ASSUME NEW q \in Queues, PickCopy(q) PROVE Stirring'
  BY <1>1, <1>6, StirsPick DEF PickCopy
<1>7. ASSUME NEW q \in Queues, EndAction(q) \/ \E t \in Tasks : SkipAction(q, t) PROVE Stirring'
  BY <1>1, <1>7, EndFacts, StirsUse
<1>8. ASSUME NEW q \in Queues, NEW t \in Tasks, RunAction(q, t) PROVE Stirring'
  <2>1. PauseQueue(q) \/ UNCHANGED queues
    BY <1>8 DEF RunAction
  <2> QED BY <1>1, <1>2, <2>1, StirsUse
<1>9. ASSUME NEW t \in Tasks, CopyResumer(t) \/ DropResumer(t) PROVE Stirring'
  <2>1. PICK q \in Queues : home[t] = {q}
    BY <1>9, ResumerFacts
  <2>2. PauseQueue(q) \/ ResumeQueue(q)
    BY <1>9, <2>1 DEF CopyResumer, DropResumer
  <2> QED BY <1>1, <2>2, StirsUse
<1> QED BY <1>3, <1>4, <1>5, <1>6, <1>7, <1>8, <1>9 DEF Next, Client, Pushing, Running

(* Without summands nothing adds up to more than zero.                     *)
LEMMA SumOfZeros ==
    ASSUME NEW S, NEW f, IsFiniteSet(S), \A x \in S : f[x] = 0
    PROVE  SumFunctionOnSet(f, S) = 0
<1> SUFFICES ASSUME SumFunctionOnSet(f, S) # 0 PROVE FALSE
  OBVIOUS
<1> DEFINE F == {A \in SUBSET S : SumFunctionOnSet(f, A) # 0}
<1>1. F # {} /\ F \in SUBSET SUBSET S
  OBVIOUS
<1> HIDE DEF F
<1>2. \E A \in F : \A B \in F : B \subseteq A => B = A
  BY <1>1, MinimalSet
<1>3. PICK A \in F : \A B \in F : B \subseteq A => B = A
  BY <1>2
<1>4. A \in SUBSET S /\ SumFunctionOnSet(f, A) # 0
  BY <1>3 DEF F
<1>5. IsFiniteSet(A) /\ A # {}
  <2>1. SumFunctionOnSet(f, {}) = 0
    BY SumEmpty
  <2> QED BY <1>4, <2>1, FS_Subset
<1>6. PICK x \in A : SumFunctionOnSet(f, A) = f[x] + SumFunctionOnSet(f, A \ {x})
  BY <1>5, SumFirst
<1>7. A \ {x} \in SUBSET S /\ A \ {x} \notin F
  BY <1>3, <1>4, <1>6
<1>8. SumFunctionOnSet(f, A \ {x}) = 0 /\ f[x] = 0
  BY <1>4, <1>7 DEF F
<1> QED BY <1>4, <1>6, <1>8

(* Whoever waits has begun to push.                                        *)
WaitersBegan == \A t \in Tasks : waiter[t] # "none" => t \in begun

(* Only the push makes a waiter.                                           *)
LEMMA WaitersBeganNext == Basics /\ WaitersBegan /\ [Next]_vars => WaitersBegan'
<1> SUFFICES ASSUME Basics, WaitersBegan, [Next]_vars PROVE WaitersBegan'
  OBVIOUS
<1>1. waiter \in [Tasks -> {"none", "pushing", "returned"}]
  BY DEF Basics, TypeOK
<1>2. ASSUME UNCHANGED <<begun, waiter>> PROVE WaitersBegan'
  BY <1>2 DEF WaitersBegan
<1>3. CASE UNCHANGED vars
  BY <1>2, <1>3 DEF vars, clientVars
<1>4. ASSUME NEW t \in Tasks, BeginPush(t) PROVE WaitersBegan'
  BY <1>1, <1>4 DEF BeginPush, WaitersBegan
<1>5. ASSUME NEW t \in Tasks, PushCopy(t) PROVE WaitersBegan'
  BY <1>2, <1>5 DEF PushCopy
<1>6. ASSUME NEW t \in Tasks, WaitForAll(t) PROVE WaitersBegan'
  BY <1>1, <1>6 DEF WaitForAll, MayReturn, WaitersBegan, clientVars
<1>7. ASSUME NEW q \in Queues, PickCopy(q) PROVE WaitersBegan'
  BY <1>2, <1>7 DEF PickCopy, clientVars
<1>8. ASSUME NEW q \in Queues, EndAction(q) \/ \E t \in Tasks : SkipAction(q, t) PROVE WaitersBegan'
  BY <1>2, <1>8, EndFacts
<1>9. ASSUME NEW q \in Queues, NEW t \in Tasks, RunAction(q, t) PROVE WaitersBegan'
  BY <1>2, <1>9, RunActionFacts
<1>10. ASSUME NEW t \in Tasks, CopyResumer(t) \/ DropResumer(t) PROVE WaitersBegan'
  BY <1>2, <1>10, ResumerFacts DEF clientVars
<1> QED BY <1>3, <1>4, <1>5, <1>6, <1>7, <1>8, <1>9, <1>10 DEF Next, Client, Pushing, Running

(* When every push is over, every Resumer gone and no pick under way, a    *)
(* copy waits only where a second clear has left it, and every action has  *)
(* run and pushAndWait() may return unless that has happened in every      *)
(* queue: an action has a copy in each, and one queue that drains will do. *)
THEOREM NothingEverLeftBehind == Spec => []NothingLeftBehind
<1> DEFINE Inv == IInv /\ Pauses /\ Stirring /\ WaitersBegan
<1>1. Spec => []Inv
  <2>1. Init => Stirring /\ WaitersBegan
    BY DEF Init, QueuesInit, Stirring, Stirs, WaitersBegan
  <2>2. IInv /\ Stirring /\ WaitersBegan /\ [Next]_vars => (Stirring /\ WaitersBegan)'
    BY StirringNext, WaitersBeganNext DEF IInv
  <2> QED BY <2>1, <2>2, IInvAlways, PausesAlways, PTL DEF Spec
<1>2. ASSUME Inv,
             \A q \in Queues : current[q] = NoTask /\ asked[q] = 0 /\ passed[q] = 0,
             \A t \in Tasks : toPush[t] = <<>> /\ resumers[t] = 0
      PROVE  /\ \A q \in Queues : pending[q] = <<>> \/ Stranded(q)
             /\ \/ \A q \in Queues : Stranded(q)
                \/ /\ \A t \in begun : ran[t] > 0
                   /\ \A t \in Tasks : waiter[t] = "pushing" => MayReturn(t)
  <2>1. ASSUME NEW q \in Queues PROVE pending[q] = <<>> \/ Stranded(q)
    <3>1. /\ IsFiniteSet(HomeTo(q)) /\ pauseCount[q] = SumFunctionOnSet(resumers, HomeTo(q))
          /\ \A t \in HomeTo(q) : resumers[t] = 0
      BY <1>2 DEF Pauses, HomeTo
    <3>2. pauseCount[q] = 0
      BY <3>1, SumOfZeros
    <3>3. pending[q] = <<>> \/ missed[q]
      BY <1>2, <3>2 DEF Stirring, Stirs
    <3> QED BY <3>2, <3>3 DEF Stranded
  <2>2. ASSUME NEW q \in Queues, ~Stranded(q)
        PROVE  /\ \A t \in begun : ran[t] > 0
               /\ \A t \in Tasks : waiter[t] = "pushing" => MayReturn(t)
    <3>1. pending[q] = <<>>
      BY <2>1, <2>2
    <3>2. ASSUME NEW t \in begun PROVE ran[t] = 1
      <4>1. t \in Tasks /\ toPush[t] = <<>>
        BY <1>2 DEF IInv, Basics, TypeOK
      <4>2. current[q] # t /\ Len(pending[q]) = 0 /\ Len(toPush[t]) = 0
        BY <1>2, <3>1, <4>1, LimitAssumption
      <4>3. setToRun[t]
        BY <1>2, <4>2 DEF IInv, EveryQueue, Lies
      <4> QED BY <1>2, <4>1, <4>3 DEF IInv, Basics, Flags
    <3>3. Acting = {}
      BY <1>2 DEF Acting, IInv, Basics, Copies
    <3>4. ASSUME NEW t \in Tasks, waiter[t] = "pushing" PROVE MayReturn(t)
      <4>1. ran[t] = 1
        BY <1>2, <3>2, <3>4 DEF WaitersBegan
      <4> QED BY <1>2, <3>3, <3>4, <4>1 DEF MayReturn
    <3> QED BY <3>2, <3>4
  <2> QED BY <2>1, <2>2
<1>3. Inv => NothingLeftBehind
  BY <1>2 DEF NothingLeftBehind
<1> QED BY <1>1, <1>3, PTL
=============================================================================

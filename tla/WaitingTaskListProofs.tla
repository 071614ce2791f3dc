------------------------ MODULE WaitingTaskListProofs ------------------------
(***************************************************************************)
(* Proofs about WaitingTaskList for any number of threads, tasks and       *)
(* events, whether or not reset() overlaps an announce().                  *)
(***************************************************************************)
EXTENDS WaitingTaskList, TLAPS

(* The per-thread variables keep their types. *)
ThreadTypes == /\ pc \in [Threads -> Steps]
               /\ cur \in [Threads -> Tasks \cup {Null}]
               /\ other \in [Threads -> Tasks \cup {Null}]
               /\ head \in Tasks \cup {Null}
               /\ next \in [Tasks -> Tasks \cup {Null}]
               /\ \A th \in Threads : pc[th] \notin {"idle", "take", "recheck", "open"} => cur[th] \in Tasks

(* The threads' local pointers are nodes at first, ...                     *)
LEMMA ThreadTypesInit == Init => ThreadTypes
  BY DEF Init, ThreadTypes, Steps

(* ... and stay so.                                                        *)
LEMMA ThreadTypesNext == ThreadTypes /\ [Next]_vars => ThreadTypes'
<1> SUFFICES ASSUME ThreadTypes, [Next]_vars PROVE ThreadTypes'
  OBVIOUS
<1> USE DEF ThreadTypes, Steps, Goto
<1>1. CASE UNCHANGED vars
  BY <1>1 DEF vars, listVars
<1>2. ASSUME NEW th \in Threads, Step(th)
      PROVE  ThreadTypes'
  <2>1. CASE AddLate(th)
    BY <2>1 DEF AddLate, listVars
  <2>2. CASE ExchangeHead(th)
    BY <2>2 DEF ExchangeHead
  <2>3. CASE SetNextNode(th)
    BY <2>3 DEF SetNextNode
  <2>4. CASE Recheck(th)
    BY <2>4 DEF Recheck, listVars
  <2>5. CASE TakeList(th)
    BY <2>5 DEF TakeList
  <2>6. CASE ReleaseTask(th)
    BY <2>6 DEF ReleaseTask, listVars
  <2>7. CASE ReleaseNode(th)
    BY <2>7 DEF ReleaseNode, listVars
  <2>8. CASE Open(th)
    BY <2>8 DEF Open
  <2> QED BY <1>2, <2>1, <2>2, <2>3, <2>4, <2>5, <2>6, <2>7, <2>8 DEF Step, Announce
<1>3. ASSUME NEW th \in Threads, NEW t \in Tasks, Add(th, t)
      PROVE  ThreadTypes'
  BY <1>3 DEF Add
<1>4. ASSUME NEW th \in Threads, NEW e \in Failures, DoneWaiting(th, e)
      PROVE  ThreadTypes'
  BY <1>4 DEF DoneWaiting
<1>5. ASSUME NEW t \in Tasks, NEW e \in Failures, HolderDone(t, e)
      PROVE  ThreadTypes'
  BY <1>5 DEF HolderDone, listVars
<1>6. CASE Reset
  BY <1>6 DEF Reset
<1> QED BY <1>1, <1>2, <1>3, <1>4, <1>5, <1>6 DEF Next

-----------------------------------------------------------------------------
(* Once m_waiting is false, a node left in the list has a thread that will *)
(* announce it; for every step, the thread that keeps the promise.         *)
LEMMA ListedIsAnnouncedNext ==
  ThreadTypes /\ ListedIsAnnounced /\ [Next]_vars => ListedIsAnnounced'
<1> SUFFICES ASSUME ThreadTypes, ListedIsAnnounced, [Next]_vars, ~waiting', head' # Null
             PROVE  \E o \in Threads : WillAnnounce(o)'
  BY DEF ListedIsAnnounced
<1> USE DEF ThreadTypes, ListedIsAnnounced, WillAnnounce, Goto
<1>1. CASE UNCHANGED vars
  BY <1>1 DEF vars, listVars
<1>2. ASSUME NEW th \in Threads, Step(th)
      PROVE  \E o \in Threads : WillAnnounce(o)'
  <2>1. CASE AddLate(th)
    BY <2>1 DEF AddLate, listVars
  <2>2. CASE ExchangeHead(th)
    <3>1. CASE head = Null
      BY <2>2, <3>1 DEF ExchangeHead
    <3>2. CASE head # Null
      BY <2>2, <3>2 DEF ExchangeHead
    <3> QED BY <3>1, <3>2
  <2>3. CASE SetNextNode(th)
    BY <2>3 DEF SetNextNode
  <2>4. CASE Recheck(th)
    BY <2>4 DEF Recheck, listVars
  <2>5. CASE TakeList(th)
    BY <2>5 DEF TakeList
  <2>6. CASE ReleaseTask(th)
    BY <2>6 DEF ReleaseTask, listVars
  <2>7. CASE ReleaseNode(th)
    BY <2>7 DEF ReleaseNode, listVars
  <2>8. CASE Open(th)
    BY <2>8 DEF Open
  <2> QED BY <1>2, <2>1, <2>2, <2>3, <2>4, <2>5, <2>6, <2>7, <2>8 DEF Step, Announce
<1>3. ASSUME NEW th \in Threads, NEW t \in Tasks, Add(th, t)
      PROVE  \E o \in Threads : WillAnnounce(o)'
  BY <1>3 DEF Add
<1>4. ASSUME NEW th \in Threads, NEW e \in Failures, DoneWaiting(th, e)
      PROVE  \E o \in Threads : WillAnnounce(o)'
  BY <1>4 DEF DoneWaiting
<1>5. ASSUME NEW t \in Tasks, NEW e \in Failures, HolderDone(t, e)
      PROVE  \E o \in Threads : WillAnnounce(o)'
  BY <1>5 DEF HolderDone, listVars
<1>6. CASE Reset
  BY <1>6 DEF Reset
<1> QED BY <1>1, <1>2, <1>3, <1>4, <1>5, <1>6 DEF Next

(* add() need not look at m_waiting again when it found a non-empty list.  *)
THEOREM ListedIsAnnouncedCorrect == Spec => []ListedIsAnnounced
<1>1. Init => ListedIsAnnounced
  BY DEF Init, ListedIsAnnounced
<1> QED BY <1>1, ThreadTypesInit, ThreadTypesNext, ListedIsAnnouncedNext, PTL DEF Spec
-----------------------------------------------------------------------------
(* A task has one reference for its holder and one for the list: Owed(t),  *)
(* the list still owes it a release.                                       *)
Holds(t) == IF held[t] THEN 1 ELSE 0
Owed(t) == refs[t] > Holds(t)

(* Who leads to a task of the list: m_head, the node before it, or the     *)
(* pointer of a thread that is about to put it into the list, to link it   *)
(* behind its own node, or to release it.                                  *)
Precedes(u, t) == Owed(u) /\ next[u] = t /\ u # t
Leads(th, t) == \/ pc[th] \in {"late", "exchange", "walk"} /\ cur[th] = t
                \/ pc[th] \in {"link", "release"} /\ other[th] = t

Types == /\ ThreadTypes
         /\ waiting \in BOOLEAN /\ signalled \in BOOLEAN
         /\ exceptionPtr \in Failures
         /\ assigned \in Nat /\ cacheSize \in Nat /\ cache \in Nat
         /\ node \in [Tasks -> Nat]
         /\ refs \in [Tasks -> Nat]
         /\ failed \in [Tasks -> Failures]
         /\ held \in [Tasks -> BOOLEAN]
         /\ spawned \in [Tasks -> Nat]
         /\ added \in [Tasks -> Nat]
         /\ round \in Nat \ {0}

(* The references of a task: none is left when it is spawned, and before   *)
(* add() the list has none.                                                *)
Counted == \A t \in Tasks : /\ refs[t] = Holds(t) \/ refs[t] = Holds(t) + 1
                            /\ spawned[t] <= 1
                            /\ spawned[t] > 0 => refs[t] = 0 /\ added[t] # 0
                            /\ added[t] = 0 => ~Owed(t) /\ next[t] = Null
                            /\ added[t] <= round

(* Only a task that is owed a release is led to, ...                       *)
LedIsOwed == \A t \in Tasks : /\ head = t => Owed(t)
                              /\ \A u \in Tasks : Precedes(u, t) => Owed(t)
                              /\ \A th \in Threads : Leads(th, t) => Owed(t)

(* ... and from one place only.                                            *)
LedOnce == \A t \in Tasks :
    /\ \A u \in Tasks : ~(head = t /\ Precedes(u, t))
    /\ \A th \in Threads : ~(head = t /\ Leads(th, t))
    /\ \A u \in Tasks, th \in Threads : ~(Precedes(u, t) /\ Leads(th, t))
    /\ \A u, v \in Tasks : Precedes(u, t) /\ Precedes(v, t) => u = v
    /\ \A th, o \in Threads : Leads(th, t) /\ Leads(o, t) => th = o

(* A node is linked to itself until the one thread that adds it has linked *)
(* it to its successor; no other thread adds that task.                    *)
Linking(th) == pc[th] \in {"exchange", "link"}
SelfLinked ==
    \A th \in Threads : Linking(th) =>
       /\ next[cur[th]] = cur[th] /\ Owed(cur[th])
       /\ pc[th] = "link" => other[th] # cur[th]
       /\ \A o \in Threads : (Linking(o) \/ pc[o] = "late") /\ cur[o] = cur[th] => o = th

(* The list lets go of a task of this event only after doneWaiting(), and  *)
(* then with its exception.                                                *)
Announced ==
    /\ ~waiting => signalled
    /\ exceptionPtr # Null => signalled
    /\ \A th \in Threads : pc[th] \in {"late", "open", "take", "walk", "release"} => signalled
    /\ \A t \in Tasks : added[t] = round /\ ~Owed(t)
                            => signalled /\ (exceptionPtr # Null => failed[t] # Null)

ListInv == Types /\ Counted /\ LedIsOwed /\ LedOnce /\ SelfLinked /\ Announced

(* Dropping the list's reference: the task is owed nothing any more.       *)
LEMMA ListReferenceDropped ==
  ASSUME Types, Counted, NEW t \in Tasks, NEW e \in Failures, Owed(t),
         DependencyDone(t, e), UNCHANGED <<held, added, next, round>>
  PROVE  /\ refs' \in [Tasks -> Nat] /\ spawned' \in [Tasks -> Nat] /\ failed' \in [Tasks -> Failures]
         /\ \A u \in Tasks : Owed(u)' <=> Owed(u) /\ u # t
         /\ Counted'
         /\ \A u \in Tasks : failed[u] # Null => failed'[u] # Null
         /\ e # Null => failed'[t] # Null
<1> USE DEF Types, Counted, Owed, Holds, DependencyDone
<1>1. refs[t] = Holds(t) + 1 /\ Holds(t) \in {0, 1} /\ spawned[t] = 0
  OBVIOUS
<1>2. refs' = [refs EXCEPT ![t] = Holds(t)]
  BY <1>1
<1>3. spawned' \in [Tasks -> Nat]
  BY <1>1
<1>4. failed' \in [Tasks -> Failures] /\ (e # Null => failed'[t] # Null)
  BY NullAssumption
<1>5. \A u \in Tasks : failed[u] # Null => failed'[u] # Null
  OBVIOUS
<1>6. \A u \in Tasks : Holds(u)' = Holds(u)
  OBVIOUS
<1>7. refs' \in [Tasks -> Nat] /\ \A u \in Tasks : Owed(u)' <=> Owed(u) /\ u # t
  BY <1>1, <1>2
<1>8. Counted'
  <2> SUFFICES ASSUME NEW u \in Tasks
               PROVE  (/\ refs[u] = Holds(u) \/ refs[u] = Holds(u) + 1
                       /\ spawned[u] <= 1
                       /\ spawned[u] > 0 => refs[u] = 0 /\ added[u] # 0
                       /\ added[u] = 0 => ~Owed(u) /\ next[u] = Null
                       /\ added[u] <= round)'
    BY DEF Counted
  <2>1. CASE u = t
    BY <2>1, <1>1, <1>2, <1>6
  <2>2. CASE u # t
    BY <2>2, <1>2, <1>6
  <2> QED BY <2>1, <2>2
<1> QED BY <1>3, <1>4, <1>5, <1>7, <1>8

(* Dropping the holder's reference: what the list owes is as before.       *)
LEMMA HolderReferenceDropped ==
  ASSUME Types, Counted, NEW t \in Tasks, NEW e \in Failures, HolderDone(t, e)
  PROVE  /\ refs' \in [Tasks -> Nat] /\ spawned' \in [Tasks -> Nat] /\ failed' \in [Tasks -> Failures]
         /\ held' \in [Tasks -> BOOLEAN]
         /\ \A u \in Tasks : Owed(u)' <=> Owed(u)
         /\ Counted'
         /\ \A u \in Tasks : failed[u] # Null => failed'[u] # Null
<1> USE DEF Types, Counted, Owed, Holds, HolderDone, DependencyDone, listVars
<1>1. held[t] /\ added[t] # 0 /\ refs[t] > 0 /\ spawned[t] = 0
  OBVIOUS
<1>2. held' = [held EXCEPT ![t] = FALSE] /\ refs' = [refs EXCEPT ![t] = refs[t] - 1]
  OBVIOUS
<1>3. spawned' \in [Tasks -> Nat]
  BY <1>1
<1>4. failed' \in [Tasks -> Failures]
  OBVIOUS
<1>5. \A u \in Tasks : failed[u] # Null => failed'[u] # Null
  OBVIOUS
<1>6. refs' \in [Tasks -> Nat] /\ \A u \in Tasks : Owed(u)' <=> Owed(u)
  BY <1>1, <1>2
<1>7. Counted'
  <2> SUFFICES ASSUME NEW u \in Tasks
               PROVE  (/\ refs[u] = Holds(u) \/ refs[u] = Holds(u) + 1
                       /\ spawned[u] <= 1
                       /\ spawned[u] > 0 => refs[u] = 0 /\ added[u] # 0
                       /\ added[u] = 0 => ~Owed(u) /\ next[u] = Null
                       /\ added[u] <= round)'
    BY DEF Counted
  <2>1. CASE u = t
    BY <2>1, <1>1, <1>2
  <2>2. CASE u # t
    BY <2>2, <1>2
  <2> QED BY <2>1, <2>2
<1> QED BY <1>2, <1>3, <1>4, <1>5, <1>6, <1>7

(* add() takes a task that nothing leads to.                               *)
LEMMA AddKeeps ==
  ASSUME ListInv, NEW th \in Threads, NEW t \in Tasks, Add(th, t)
  PROVE  ListInv'
<1> USE DEF Add, ListInv
<1>1. Types'
  <2>1. ThreadTypes'
    BY ThreadTypesNext DEF Types, Next
  <2>2. node' \in [Tasks -> Nat] /\ assigned' \in Nat
    BY DEF Types
  <2>3. refs' \in [Tasks -> Nat] /\ added' \in [Tasks -> Nat]
    BY DEF Types
  <2> QED BY <2>1, <2>2, <2>3 DEF Types
<1>2. /\ pc[th] = "idle" /\ added[t] = 0 /\ ~Owed(t) /\ next[t] = Null
      /\ \A u \in Tasks : Owed(u)' <=> Owed(u) \/ u = t
      /\ \A u \in Tasks : Holds(u)' = Holds(u)
  BY DEF Types, Counted, Owed, Holds
<1>3. Counted'
  <2> SUFFICES ASSUME NEW u \in Tasks
               PROVE  (/\ refs[u] = Holds(u) \/ refs[u] = Holds(u) + 1
                       /\ spawned[u] <= 1
                       /\ spawned[u] > 0 => refs[u] = 0 /\ added[u] # 0
                       /\ added[u] = 0 => ~Owed(u) /\ next[u] = Null
                       /\ added[u] <= round)'
    BY DEF Counted
  <2>1. CASE u = t
    <3>1. refs'[u] = refs[u] + 1 /\ Holds(u)' = Holds(u)
      BY <2>1, <1>2 DEF Types
    <3>3. refs[u] = Holds(u)
      BY <2>1, <1>2 DEF Types, Counted, Owed, Holds
    <3>2. spawned'[u] = 0 /\ added'[u] = round /\ round' = round /\ round > 0
      BY <2>1, <1>2 DEF Types, Counted
    <3> QED BY <3>1, <3>2, <3>3 DEF Types
  <2>2. CASE u # t
    <3>1. refs'[u] = refs[u] /\ added'[u] = added[u] /\ next'[u] = next[u] /\ UNCHANGED <<spawned, round>>
      BY <2>2 DEF Types, ThreadTypes
    <3> QED BY <2>2, <3>1, <1>2 DEF Types, Counted
  <2> QED BY <2>1, <2>2
<1>4. /\ head # t
      /\ \A u \in Tasks : u # t => next[u] # t \/ ~Owed(u)
      /\ \A o \in Threads : ~Leads(o, t)
  BY <1>2 DEF LedIsOwed, Precedes
<1>5. /\ head' = head
      /\ next' = next \/ next' = [next EXCEPT ![t] = t]
      /\ \A u, v \in Tasks : Precedes(u, v)' <=> Precedes(u, v)
  BY <1>2, NullAssumption DEF Precedes, Types, ThreadTypes
<1>6. \A o \in Threads, v \in Tasks : Leads(o, v)' <=> IF o = th THEN v = t ELSE Leads(o, v)
  BY <1>2 DEF Leads, Goto, Types, ThreadTypes
<1>7. LedIsOwed'
  BY <1>2, <1>5, <1>6 DEF LedIsOwed
<1>8. LedOnce'
  BY <1>2, <1>4, <1>5, <1>6 DEF LedOnce, Precedes
<1>9. SelfLinked'
  <2>1. \A o \in Threads : Linking(o) => cur[o] # t
    BY <1>2 DEF SelfLinked
  <2>2. \A o \in Threads : o # th => pc'[o] = pc[o] /\ cur'[o] = cur[o]
    BY DEF Goto, Types, ThreadTypes
  <2>3. cur'[th] = t /\ pc'[th] \in {"late", "exchange"} /\ (pc'[th] = "exchange" => next'[t] = t)
    BY DEF Goto, Types, ThreadTypes
  <2>4. \A o \in Threads : o # th /\ Linking(o) => next'[cur[o]] = next[cur[o]] /\ cur[o] \in Tasks
    BY <2>1 DEF Types, ThreadTypes, Linking
  <2> SUFFICES ASSUME NEW r \in Threads, Linking(r)'
               PROVE  (/\ next[cur[r]] = cur[r] /\ Owed(cur[r])
                       /\ pc[r] = "link" => other[r] # cur[r]
                       /\ \A o \in Threads : (Linking(o) \/ pc[o] = "late") /\ cur[o] = cur[r] => o = r)'
    BY DEF SelfLinked
  <2>5. CASE r = th
    <3>1. cur'[r] = t /\ next'[t] = t /\ Owed(t)' /\ pc'[r] # "link"
      BY <1>2, <2>3, <2>5 DEF Linking
    <3>2. ASSUME NEW o \in Threads, o # th, cur'[o] = t
          PROVE  pc'[o] \notin {"late", "exchange", "link"}
      BY <1>4, <2>1, <2>2, <3>2 DEF Linking, Leads
    <3> QED BY <2>5, <3>1, <3>2 DEF Linking
  <2>6. CASE r # th
    <3>1. Linking(r) /\ cur'[r] = cur[r] /\ cur[r] # t /\ other' = other /\ pc'[r] = pc[r]
      BY <2>1, <2>2, <2>6 DEF Linking
    <3>2. next'[cur[r]] = cur[r] /\ Owed(cur[r])'
      BY <1>2, <2>4, <2>6, <3>1 DEF SelfLinked
    <3> QED BY <2>2, <2>3, <3>1, <3>2 DEF SelfLinked, Linking
  <2> QED BY <2>5, <2>6
<1>10. Announced'
  BY <1>2 DEF Announced, Goto, Types, ThreadTypes
<1> QED BY <1>1, <1>3, <1>7, <1>8, <1>9, <1>10


(* What a thread with these pointers leads to.                             *)
Leading(step, c, o, v) == \/ step \in {"late", "exchange", "walk"} /\ c = v
                          \/ step \in {"link", "release"} /\ o = v

(* Who leads to what after a thread has moved.                             *)
LEMMA LeadsMoved ==
  ASSUME ThreadTypes, NEW th \in Threads, NEW c, NEW o, NEW step,
         pc' = [pc EXCEPT ![th] = step], cur' = [cur EXCEPT ![th] = c],
         other' = [other EXCEPT ![th] = o]
  PROVE  \A r \in Threads, v \in Tasks :
            Leads(r, v)' <=> IF r = th THEN Leading(step, c, o, v) ELSE Leads(r, v)
<1> SUFFICES ASSUME NEW r \in Threads, NEW v \in Tasks
             PROVE  Leads(r, v)' <=> IF r = th THEN Leading(step, c, o, v) ELSE Leads(r, v)
  OBVIOUS
<1>1. CASE r = th
  <2>1. pc'[r] = step /\ cur'[r] = c /\ other'[r] = o
    BY <1>1 DEF ThreadTypes
  <2> QED BY <1>1, <2>1 DEF Leads, Leading
<1>2. CASE r # th
  BY <1>2 DEF Leads, ThreadTypes
<1> QED BY <1>1, <1>2

(* A late task is released at once.                                        *)
LEMMA AddLateKeeps ==
  ASSUME ListInv, NEW th \in Threads, AddLate(th)
  PROVE  ListInv'
<1> USE DEF AddLate, ListInv, listVars
<1> DEFINE t == cur[th]
<1>1. /\ pc[th] = "late" /\ t \in Tasks /\ Leads(th, t) /\ Owed(t)
      /\ exceptionPtr \in Failures /\ added[t] # 0
  BY DEF Types, ThreadTypes, Leads, LedIsOwed, Counted
<1>2. /\ refs' \in [Tasks -> Nat] /\ spawned' \in [Tasks -> Nat] /\ failed' \in [Tasks -> Failures]
      /\ \A u \in Tasks : Owed(u)' <=> Owed(u) /\ u # t
      /\ Counted'
      /\ \A u \in Tasks : failed[u] # Null => failed'[u] # Null
      /\ exceptionPtr # Null => failed'[t] # Null
  BY <1>1, ListReferenceDropped
<1>3. ThreadTypes'
  BY ThreadTypesNext DEF Types, Next, Step
<1>4. Types'
  BY <1>2, <1>3 DEF Types
<1>5. \A r \in Threads, v \in Tasks : Leads(r, v)' <=> Leads(r, v) /\ r # th
  BY <1>1 DEF Leads, Goto, Types, ThreadTypes
<1>6. \A u, v \in Tasks : Precedes(u, v)' <=> Precedes(u, v) /\ u # t
  BY <1>2 DEF Precedes
<1>7. LedIsOwed'
  BY <1>1, <1>2, <1>5, <1>6 DEF LedIsOwed, LedOnce
<1>8. LedOnce'
  BY <1>5, <1>6 DEF LedOnce
<1>9. SelfLinked'
  <2>1. \A o \in Threads : Linking(o)' <=> Linking(o)
    BY <1>1 DEF Linking, Goto, Types, ThreadTypes
  <2>2. \A o \in Threads : Linking(o) => cur[o] # t
    BY <1>1 DEF SelfLinked, Linking
  <2> QED BY <1>2, <2>1, <2>2 DEF SelfLinked, Linking, Goto, Types, ThreadTypes
<1>10. Announced'
  BY <1>1, <1>2 DEF Announced, Goto, Types, ThreadTypes
<1> QED BY <1>2, <1>4, <1>7, <1>8, <1>9, <1>10

(* The node becomes the head of the list, and its thread keeps the old one. *)
LEMMA ExchangeHeadKeeps ==
  ASSUME ListInv, NEW th \in Threads, ExchangeHead(th)
  PROVE  ListInv'
<1> USE DEF ExchangeHead, ListInv, taskVars
<1> DEFINE t == cur[th]
<1>1. /\ pc[th] = "exchange" /\ t \in Tasks /\ Leads(th, t) /\ Owed(t) /\ head # t
      /\ next[t] = t /\ head \in Tasks \cup {Null} /\ head' = t
  BY DEF Types, ThreadTypes, Leads, LedIsOwed, LedOnce
     , SelfLinked, Linking
<1>2. ThreadTypes'
  BY ThreadTypesNext DEF Types, Next, Step
<1>3. Types'
  BY <1>2 DEF Types
<1>4. \A u \in Tasks : Owed(u)' <=> Owed(u)
  BY DEF Owed, Holds
<1>5. Counted'
  BY <1>4 DEF Counted, Holds
<1>6. \A r \in Threads, v \in Tasks : Leads(r, v)' <=> IF r = th THEN v = head ELSE Leads(r, v)
  <2>1. pc' = [pc EXCEPT ![th] = "link"] /\ cur' = [cur EXCEPT ![th] = t] /\ other' = [other EXCEPT ![th] = head]
    BY DEF Goto, Types, ThreadTypes
  <2>2. \A r \in Threads, v \in Tasks : Leads(r, v)' <=> IF r = th THEN Leading("link", t, head, v) ELSE Leads(r, v)
    BY <2>1, LeadsMoved DEF Types
  <2> QED BY <2>2 DEF Leading
<1>7. \A u, v \in Tasks : Precedes(u, v)' <=> Precedes(u, v)
  BY <1>4 DEF Precedes
<1>8. LedIsOwed'
  BY <1>1, <1>4, <1>6, <1>7 DEF LedIsOwed
<1>9. LedOnce'
  BY <1>1, <1>6, <1>7 DEF LedOnce
<1>10. SelfLinked'
  BY <1>1, <1>4 DEF SelfLinked, Linking, Goto, Types, ThreadTypes
<1>11. Announced'
  BY <1>4 DEF Announced, Goto, Types, ThreadTypes
<1> QED BY <1>3, <1>5, <1>8, <1>9, <1>10, <1>11

(* The node is linked to its successor, which the thread need not lead to  *)
(* any more.                                                               *)
LEMMA SetNextNodeKeeps ==
  ASSUME ListInv, NEW th \in Threads, SetNextNode(th)
  PROVE  ListInv'
<1> USE DEF SetNextNode, ListInv, taskVars
<1> DEFINE t == cur[th]
<1>1. /\ pc[th] = "link" /\ t \in Tasks /\ Owed(t) /\ next[t] = t /\ other[th] # t
      /\ other[th] \in Tasks \cup {Null} /\ next' = [next EXCEPT ![t] = other[th]]
  BY DEF Types, ThreadTypes, SelfLinked, Linking
<1>2. ThreadTypes'
  BY ThreadTypesNext DEF Types, Next, Step
<1>3. Types'
  BY <1>2 DEF Types
<1>4. \A u \in Tasks : Owed(u)' <=> Owed(u)
  BY DEF Owed, Holds
<1>5. Counted'
  BY <1>1, <1>4, NullAssumption DEF Counted, Holds, Types, ThreadTypes
<1>6. \A r \in Threads, v \in Tasks : Leads(r, v)' <=> r # th /\ Leads(r, v)
  BY <1>1 DEF Leads, Goto, Types, ThreadTypes
<1>7. \A u, v \in Tasks : Precedes(u, v)' <=> IF u = t THEN v = other[th] ELSE Precedes(u, v)
  BY <1>1, <1>4 DEF Precedes, Types, ThreadTypes
<1>8. \A v \in Tasks : v = other[th] => Leads(th, v)
  BY <1>1 DEF Leads
<1>9. LedIsOwed'
  BY <1>1, <1>4, <1>6, <1>7, <1>8 DEF LedIsOwed
<1>10. LedOnce'
  BY <1>1, <1>6, <1>7, <1>8 DEF LedOnce
<1>11. SelfLinked'
  <2>1. \A r \in Threads : Linking(r)' => r # th /\ Linking(r) /\ cur[r] # t
    BY <1>1 DEF SelfLinked, Linking, Goto, Types, ThreadTypes
  <2>2. \A r \in Threads : pc'[r] \in {"late", "exchange", "link"} => pc'[r] = pc[r]
    BY DEF Goto, Types, ThreadTypes
  <2> QED BY <1>1, <1>4, <2>1, <2>2 DEF SelfLinked, Linking, Types, ThreadTypes
<1>12. Announced'
  BY <1>1, <1>4 DEF Announced, Goto, Types, ThreadTypes
<1> QED BY <1>3, <1>5, <1>9, <1>10, <1>11, <1>12

(* A step that changes no reference, no node and no thread's way to a task *)
(* keeps what is said of them.                                             *)
LEMMA NothingMoves ==
  ASSUME Counted, LedIsOwed, LedOnce, SelfLinked,
         UNCHANGED <<head, next, refs, held, spawned, added, cur, other>>,
         round' \in Nat /\ round \in Nat /\ round' >= round, added \in [Tasks -> Nat],
         \A r \in Threads, v \in Tasks : Leads(r, v)' <=> Leads(r, v),
         \A r \in Threads : /\ Linking(r)' => Linking(r) /\ pc'[r] = pc[r]
                            /\ pc'[r] = "late" => pc[r] = "late"
  PROVE  /\ \A u \in Tasks : Owed(u)' <=> Owed(u)
         /\ Counted' /\ LedIsOwed' /\ LedOnce' /\ SelfLinked'
<1>1. \A u \in Tasks : (Owed(u)' <=> Owed(u)) /\ Holds(u)' = Holds(u)
  BY DEF Owed, Holds
<1>2. Counted'
  BY <1>1 DEF Counted
<1>3. \A u, v \in Tasks : Precedes(u, v)' <=> Precedes(u, v)
  BY <1>1 DEF Precedes
<1>4. LedIsOwed' /\ LedOnce'
  BY <1>1, <1>3 DEF LedIsOwed, LedOnce
<1>5. \A r \in Threads : Owed(cur[r])' <=> Owed(cur[r])
  BY DEF Owed, Holds
<1>6. SelfLinked'
  BY <1>5 DEF SelfLinked, Linking
<1> QED BY <1>1, <1>2, <1>4, <1>6

(* The thread looks at m_waiting again.                                    *)
LEMMA RecheckKeeps ==
  ASSUME ListInv, NEW th \in Threads, Recheck(th)
  PROVE  ListInv'
<1> USE DEF Recheck, ListInv, taskVars, listVars
<1>1. ThreadTypes' /\ Types'
  BY ThreadTypesNext DEF Types, Next, Step
<1>2. /\ \A r \in Threads, v \in Tasks : Leads(r, v)' <=> Leads(r, v)
      /\ \A r \in Threads : /\ Linking(r)' => Linking(r) /\ pc'[r] = pc[r]
                            /\ pc'[r] = "late" => pc[r] = "late"
  BY DEF Leads, Linking, Goto, Types, ThreadTypes
<1>3. /\ \A u \in Tasks : Owed(u)' <=> Owed(u)
      /\ Counted' /\ LedIsOwed' /\ LedOnce' /\ SelfLinked'
  BY <1>2, NothingMoves DEF Types
<1>4. Announced'
  BY <1>3 DEF Announced, Goto, Types, ThreadTypes
<1> QED BY <1>1, <1>3, <1>4

(* doneWaiting() stores the exception first, ...                           *)
LEMMA DoneWaitingKeeps ==
  ASSUME ListInv, NEW th \in Threads, NEW e \in Failures, DoneWaiting(th, e)
  PROVE  ListInv'
<1> USE DEF DoneWaiting, ListInv, taskVars, listVars
<1>1. ThreadTypes'
  BY ThreadTypesNext DEF Types, Next, Step
<1>2. Types'
  BY <1>1 DEF Types
<1>3. /\ \A r \in Threads, v \in Tasks : Leads(r, v)' <=> Leads(r, v)
      /\ \A r \in Threads : /\ Linking(r)' => Linking(r) /\ pc'[r] = pc[r]
                            /\ pc'[r] = "late" => pc[r] = "late"
  BY DEF Leads, Linking, Goto, Types, ThreadTypes
<1>4. /\ \A u \in Tasks : Owed(u)' <=> Owed(u)
      /\ Counted' /\ LedIsOwed' /\ LedOnce' /\ SelfLinked'
  BY <1>3, NothingMoves DEF Types
<1>5. Announced'
  BY <1>4 DEF Announced, Goto, Types, ThreadTypes
<1> QED BY <1>2, <1>4, <1>5

(* ... and opens the list then.                                            *)
LEMMA OpenKeeps ==
  ASSUME ListInv, NEW th \in Threads, Open(th)
  PROVE  ListInv'
<1> USE DEF Open, ListInv, taskVars, listVars
<1>1. ThreadTypes'
  BY ThreadTypesNext DEF Types, Next, Step
<1>2. Types'
  BY <1>1 DEF Types
<1>3. /\ \A r \in Threads, v \in Tasks : Leads(r, v)' <=> Leads(r, v)
      /\ \A r \in Threads : /\ Linking(r)' => Linking(r) /\ pc'[r] = pc[r]
                            /\ pc'[r] = "late" => pc[r] = "late"
  BY DEF Leads, Linking, Goto, Types, ThreadTypes
<1>4. /\ \A u \in Tasks : Owed(u)' <=> Owed(u)
      /\ Counted' /\ LedIsOwed' /\ LedOnce' /\ SelfLinked'
  BY <1>3, NothingMoves DEF Types
<1>5. Announced'
  BY <1>4 DEF Announced, Goto, Types, ThreadTypes
<1> QED BY <1>2, <1>4, <1>5

(* reset(), when no thread is inside of a call.                            *)
LEMMA ResetKeeps ==
  ASSUME ListInv, Reset
  PROVE  ListInv'
<1> USE DEF Reset, ListInv, taskVars
<1>1. ThreadTypes'
  BY ThreadTypesNext DEF Types, Next
<1>2. Types'
  <2>1. cacheSize' \in Nat /\ cache' \in Nat
    BY DEF Types
  <2>2. exceptionPtr' \in Failures /\ round' \in Nat \ {0}
    BY DEF Types, Failures
  <2> QED BY <1>1, <2>1, <2>2 DEF Types
<1>3. /\ \A r \in Threads, v \in Tasks : Leads(r, v)' <=> Leads(r, v)
      /\ \A r \in Threads : /\ Linking(r)' => Linking(r) /\ pc'[r] = pc[r]
                            /\ pc'[r] = "late" => pc[r] = "late"
  BY DEF Leads, Linking
<1>4. /\ \A u \in Tasks : Owed(u)' <=> Owed(u)
      /\ Counted' /\ LedIsOwed' /\ LedOnce' /\ SelfLinked'
  BY <1>3, NothingMoves DEF Types
<1>5. \A t \in Tasks : added'[t] # round'
  BY DEF Counted, Types
<1>6. Announced'
  BY <1>5 DEF Announced
<1> QED BY <1>2, <1>4, <1>6

(* A holder that goes away leaves the list's reference.                    *)
LEMMA HolderDoneKeeps ==
  ASSUME ListInv, NEW t \in Tasks, NEW e \in Failures, HolderDone(t, e)
  PROVE  ListInv'
<1> USE DEF ListInv
<1>1. UNCHANGED <<listVars, added, round, signalled, pc, cur, other>>
  BY DEF HolderDone
<1>2. /\ refs' \in [Tasks -> Nat] /\ spawned' \in [Tasks -> Nat] /\ failed' \in [Tasks -> Failures]
      /\ held' \in [Tasks -> BOOLEAN]
      /\ \A u \in Tasks : Owed(u)' <=> Owed(u)
      /\ Counted'
      /\ \A u \in Tasks : failed[u] # Null => failed'[u] # Null
  BY HolderReferenceDropped
<1>3. Types'
  BY <1>1, <1>2 DEF Types, ThreadTypes, listVars
<1>4. /\ \A r \in Threads, v \in Tasks : Leads(r, v)' <=> Leads(r, v)
      /\ \A u, v \in Tasks : Precedes(u, v)' <=> Precedes(u, v)
  BY <1>1, <1>2 DEF Leads, Precedes, listVars
<1>5. LedIsOwed' /\ LedOnce'
  BY <1>1, <1>2, <1>4 DEF LedIsOwed, LedOnce, listVars
<1>6. SelfLinked'
  BY <1>1, <1>2 DEF SelfLinked, Linking, listVars, Types, ThreadTypes
<1>7. Announced'
  BY <1>1, <1>2 DEF Announced, listVars
<1> QED BY <1>2, <1>3, <1>5, <1>6, <1>7

(* announce() takes over the way to the first node, ...                    *)
LEMMA TakeListKeeps ==
  ASSUME ListInv, NEW th \in Threads, TakeList(th)
  PROVE  ListInv'
<1> USE DEF TakeList, ListInv, taskVars
<1>1. ThreadTypes'
  BY ThreadTypesNext DEF Types, Next, Step, Announce
<1>2. Types'
  BY <1>1 DEF Types
<1>3. pc[th] = "take" /\ head' = Null /\ head \in Tasks \cup {Null}
  BY DEF Types, ThreadTypes
<1>4. \A u \in Tasks : Owed(u)' <=> Owed(u)
  BY DEF Owed, Holds
<1>5. Counted'
  BY <1>4 DEF Counted, Holds
<1>6. \A r \in Threads, v \in Tasks : Leads(r, v)' <=> IF r = th THEN v = head ELSE Leads(r, v)
  <2> DEFINE step == IF head = Null THEN "idle" ELSE "walk"
  <2>1. pc' = [pc EXCEPT ![th] = step] /\ cur' = [cur EXCEPT ![th] = head]
        /\ other' = [other EXCEPT ![th] = other[th]]
    BY DEF Goto, Types, ThreadTypes
  <2>2. \A r \in Threads, v \in Tasks : Leads(r, v)' <=> IF r = th THEN Leading(step, head, other[th], v) ELSE Leads(r, v)
    BY <2>1, LeadsMoved DEF Types
  <2> QED BY <2>2, NullAssumption DEF Leading
<1>7. \A u, v \in Tasks : Precedes(u, v)' <=> Precedes(u, v)
  BY <1>4 DEF Precedes
<1>8. LedIsOwed'
  BY <1>3, <1>4, <1>6, <1>7, NullAssumption DEF LedIsOwed
<1>9. LedOnce'
  BY <1>3, <1>6, <1>7, NullAssumption DEF LedOnce
<1>10. SelfLinked'
  BY <1>3, <1>4 DEF SelfLinked, Linking, Goto, Types, ThreadTypes
<1>11. Announced'
  BY <1>3, <1>4 DEF Announced, Goto, Types, ThreadTypes
<1> QED BY <1>2, <1>5, <1>8, <1>9, <1>10, <1>11

(* ... to its successor when it releases the task, ...                     *)
LEMMA ReleaseTaskKeeps ==
  ASSUME ListInv, NEW th \in Threads, ReleaseTask(th)
  PROVE  ListInv'
<1> USE DEF ReleaseTask, ListInv, listVars
<1> DEFINE t == cur[th]
<1>1. /\ pc[th] = "walk" /\ t \in Tasks /\ Leads(th, t) /\ Owed(t) /\ next[t] # t
      /\ exceptionPtr \in Failures /\ added[t] # 0 /\ next[t] \in Tasks \cup {Null}
  BY DEF Types, ThreadTypes, Leads, LedIsOwed, Counted
<1>2. /\ refs' \in [Tasks -> Nat] /\ spawned' \in [Tasks -> Nat] /\ failed' \in [Tasks -> Failures]
      /\ \A u \in Tasks : Owed(u)' <=> Owed(u) /\ u # t
      /\ Counted'
      /\ \A u \in Tasks : failed[u] # Null => failed'[u] # Null
      /\ exceptionPtr # Null => failed'[t] # Null
  BY <1>1, ListReferenceDropped
<1>3. ThreadTypes'
  BY ThreadTypesNext DEF Types, Next, Step, Announce
<1>4. Types'
  BY <1>2, <1>3 DEF Types
<1>5. \A r \in Threads, v \in Tasks : Leads(r, v)' <=> IF r = th THEN v = next[t] ELSE Leads(r, v)
  <2>1. pc' = [pc EXCEPT ![th] = "release"] /\ cur' = [cur EXCEPT ![th] = t] /\ other' = [other EXCEPT ![th] = next[t]]
    BY DEF Goto, Types, ThreadTypes
  <2>2. \A r \in Threads, v \in Tasks : Leads(r, v)' <=> IF r = th THEN Leading("release", t, next[t], v) ELSE Leads(r, v)
    BY <2>1, LeadsMoved DEF Types
  <2> QED BY <2>2 DEF Leading
<1>6. \A u, v \in Tasks : Precedes(u, v)' <=> Precedes(u, v) /\ u # t
  BY <1>2 DEF Precedes
<1>7. \A v \in Tasks : v = next[t] => Precedes(t, v)
  BY <1>1 DEF Precedes
<1>8. LedIsOwed'
  BY <1>1, <1>2, <1>5, <1>6, <1>7 DEF LedIsOwed, LedOnce
<1>9. LedOnce'
  <2> SUFFICES ASSUME NEW v \in Tasks
               PROVE  (/\ \A u \in Tasks : ~(head = v /\ Precedes(u, v))
                       /\ \A o \in Threads : ~(head = v /\ Leads(o, v))
                       /\ \A u \in Tasks, o \in Threads : ~(Precedes(u, v) /\ Leads(o, v))
                       /\ \A u, w \in Tasks : Precedes(u, v) /\ Precedes(w, v) => u = w
                       /\ \A r, o \in Threads : Leads(r, v) /\ Leads(o, v) => r = o)'
    BY DEF LedOnce
  <2>1. CASE v = next[t]
    <3>1. Precedes(t, v)
      BY <2>1, <1>7
    <3> QED BY <2>1, <3>1, <1>1, <1>5, <1>6 DEF LedOnce
  <2>2. CASE v # next[t]
    BY <2>2, <1>5, <1>6 DEF LedOnce
  <2> QED BY <2>1, <2>2
<1>10. SelfLinked'
  <2>1. \A o \in Threads : (Linking(o)' <=> Linking(o)) /\ (pc'[o] = "late" <=> pc[o] = "late")
    BY <1>1 DEF Linking, Goto, Types, ThreadTypes
  <2>2. \A o \in Threads : Linking(o) => cur[o] # t /\ pc'[o] = pc[o] /\ other'[o] = other[o]
    BY <1>1 DEF SelfLinked, Linking, Goto, Types, ThreadTypes
  <2> QED BY <1>2, <2>1, <2>2 DEF SelfLinked, Linking, Types, ThreadTypes
<1>11. Announced'
  BY <1>1, <1>2 DEF Announced, Goto, Types, ThreadTypes
<1> QED BY <1>2, <1>4, <1>8, <1>9, <1>10, <1>11

(* ... and goes there.                                                     *)
LEMMA ReleaseNodeKeeps ==
  ASSUME ListInv, NEW th \in Threads, ReleaseNode(th)
  PROVE  ListInv'
<1> USE DEF ReleaseNode, ListInv, taskVars, listVars
<1>1. ThreadTypes'
  BY ThreadTypesNext DEF Types, Next, Step, Announce
<1>2. Types'
  BY <1>1 DEF Types
<1>3. pc[th] = "release"
  OBVIOUS
<1>4. \A u \in Tasks : Owed(u)' <=> Owed(u)
  BY DEF Owed, Holds
<1>5. Counted'
  BY <1>4 DEF Counted, Holds
<1>6. \A r \in Threads, v \in Tasks : Leads(r, v)' <=> Leads(r, v)
  <2> DEFINE step == IF other[th] = Null THEN "idle" ELSE "walk"
  <2>1. pc' = [pc EXCEPT ![th] = step] /\ cur' = [cur EXCEPT ![th] = other[th]]
        /\ other' = [other EXCEPT ![th] = other[th]]
    BY DEF Goto, Types, ThreadTypes
  <2>2. \A r \in Threads, v \in Tasks :
           Leads(r, v)' <=> IF r = th THEN Leading(step, other[th], other[th], v) ELSE Leads(r, v)
    BY <2>1, LeadsMoved DEF Types
  <2> QED BY <1>3, <2>2, NullAssumption DEF Leading, Leads
<1>7. \A u, v \in Tasks : Precedes(u, v)' <=> Precedes(u, v)
  BY <1>4 DEF Precedes
<1>8. LedIsOwed'
  BY <1>4, <1>6, <1>7 DEF LedIsOwed
<1>9. LedOnce'
  BY <1>6, <1>7 DEF LedOnce
<1>10. SelfLinked'
  BY <1>3, <1>4 DEF SelfLinked, Linking, Goto, Types, ThreadTypes
<1>11. Announced'
  BY <1>3, <1>4 DEF Announced, Goto, Types, ThreadTypes
<1> QED BY <1>2, <1>5, <1>8, <1>9, <1>10, <1>11

-----------------------------------------------------------------------------
(* Nothing is owed before the first add().                                 *)
LEMMA ListInvInit == Init => ListInv
<1> SUFFICES ASSUME Init PROVE ListInv
  OBVIOUS
<1> USE DEF Init
<1>1. Types
  <2>1. refs \in [Tasks -> Nat]
    OBVIOUS
  <2>2. node \in [Tasks -> Nat] /\ spawned \in [Tasks -> Nat] /\ added \in [Tasks -> Nat]
    OBVIOUS
  <2>3. failed \in [Tasks -> Failures] /\ exceptionPtr \in Failures
    BY DEF Failures
  <2>4. assigned \in Nat /\ cacheSize \in Nat /\ cache \in Nat /\ round \in Nat \ {0}
    BY SizeAssumption
  <2>5. waiting \in BOOLEAN /\ signalled \in BOOLEAN /\ held \in [Tasks -> BOOLEAN]
    OBVIOUS
  <2> QED BY <2>1, <2>2, <2>3, <2>4, <2>5, ThreadTypesInit DEF Types
<1>2. \A t \in Tasks : refs[t] = Holds(t) /\ Holds(t) \in {0, 1} /\ ~Owed(t)
  <2> SUFFICES ASSUME NEW t \in Tasks
               PROVE  refs[t] = Holds(t) /\ Holds(t) \in {0, 1} /\ ~Owed(t)
    OBVIOUS
  <2>1. refs[t] = Holds(t)
    BY DEF Holds
  <2>2. Holds(t) \in {0, 1}
    BY DEF Holds
  <2> QED BY <2>1, <2>2 DEF Owed
<1>3. Counted
  <2> SUFFICES ASSUME NEW t \in Tasks
               PROVE  /\ refs[t] = Holds(t) \/ refs[t] = Holds(t) + 1
                      /\ spawned[t] <= 1
                      /\ spawned[t] > 0 => refs[t] = 0 /\ added[t] # 0
                      /\ added[t] = 0 => ~Owed(t) /\ next[t] = Null
                      /\ added[t] <= round
    BY DEF Counted
  <2>1. spawned[t] = 0 /\ added[t] = 0 /\ next[t] = Null /\ round = 1
    OBVIOUS
  <2> QED BY <1>2, <2>1
<1>4. \A th \in Threads, t \in Tasks : ~Leads(th, t)
  BY DEF Leads
<1>5. LedIsOwed /\ LedOnce
  BY <1>2, <1>4, NullAssumption DEF LedIsOwed, LedOnce, Precedes
<1>6. SelfLinked /\ Announced
  BY DEF SelfLinked, Linking, Announced
<1> QED BY <1>1, <1>3, <1>5, <1>6 DEF ListInv

(* ListInv is kept by every step, whichever threads are in the list.       *)
LEMMA ListInvNext == ListInv /\ [Next]_vars => ListInv'
<1> SUFFICES ASSUME ListInv, [Next]_vars PROVE ListInv'
  OBVIOUS
<1>1. CASE UNCHANGED vars
  BY <1>1 DEF vars, listVars, taskVars, ListInv, Types, ThreadTypes, Counted, Owed, Holds, LedIsOwed,
              LedOnce, Precedes, Leads, SelfLinked, Linking, Announced
<1>2. ASSUME NEW th \in Threads, Step(th) PROVE ListInv'
  BY <1>2, AddLateKeeps, ExchangeHeadKeeps, SetNextNodeKeeps, RecheckKeeps, TakeListKeeps,
     ReleaseTaskKeeps, ReleaseNodeKeeps, OpenKeeps DEF Step, Announce
<1> QED BY <1>1, <1>2, AddKeeps, DoneWaitingKeeps, HolderDoneKeeps, ResetKeeps DEF Next

(* The inductive invariant of the list.                                    *)
THEOREM ListInvAlways == Spec => []ListInv
  BY ListInvInit, ListInvNext, PTL DEF Spec

(* However many threads add, announce and drop holders at once, and for    *)
(* however many events: a task is spawned once, after its holder is gone   *)
(* and the resource it waits for was declared available.                   *)
THEOREM AlwaysSpawnedOnceInTime == Spec => []SpawnedOnceInTime
<1>1. ListInv => SpawnedOnceInTime
  <2> SUFFICES ASSUME ListInv PROVE SpawnedOnceInTime
    OBVIOUS
  <2> USE DEF ListInv, Types, ThreadTypes
  <2>1. TypeOK
    BY DEF TypeOK
  <2>2. ASSUME NEW t \in Tasks, spawned[t] > 0
        PROVE  ~held[t] /\ ~Owed(t)
    BY <2>2 DEF Counted, Owed, Holds
  <2> QED BY <2>1, <2>2 DEF SpawnedOnceInTime, Counted, Announced
<1> QED BY <1>1, ListInvAlways, PTL

(* A task that waited for a resource whose owner failed knows it before it *)
(* runs, also if it was added while doneWaiting() was at work.             *)
THEOREM FailureAlwaysReachesTasks == Spec => []FailureReachesTasks
<1>1. ListInv => FailureReachesTasks
  <2> SUFFICES ASSUME ListInv, NEW t \in Tasks, spawned[t] > 0, added[t] = round, exceptionPtr # Null
               PROVE  failed[t] # Null
    BY DEF FailureReachesTasks
  <2>1. ~Owed(t)
    BY DEF ListInv, Types, Counted, Owed, Holds
  <2> QED BY <2>1 DEF ListInv, Announced
<1> QED BY <1>1, ListInvAlways, PTL
-----------------------------------------------------------------------------
(* A task that m_head or a thread on its way to it leads to.               *)
Anchored(t) ==
    \/ head = t
    \/ \E th \in Threads : \/ pc[th] \in {"late", "exchange", "walk"} /\ cur[th] = t
                           \/ pc[th] = "release" /\ other[th] = t

(* The node of t comes after that of u, or will when add() has linked u.   *)
Follows(u, t) == \/ Precedes(u, t)
                 \/ \E th \in Threads : pc[th] = "link" /\ cur[th] = u /\ other[th] = t

(* No part of the list is cut off: into every set of tasks that the list   *)
(* owes a release there is a way from m_head, from a thread, or from a     *)
(* node outside of the set.                                                *)
NoneCutOff == \A S \in SUBSET Tasks :
    S # {} /\ (\A t \in S : Owed(t))
       => \E t \in S : Anchored(t) \/ \E u \in Tasks \ S : Follows(u, t)

(* What holds besides: a node stays linked to itself only as long as its   *)
(* thread has not linked it; a late task has no node behind it; who drops  *)
(* the last reference spawns the task; doneWaiting() opens the list.       *)
Progress ==
    /\ \A t \in Tasks : next[t] = t => \E th \in Threads : Linking(th) /\ cur[th] = t
    /\ \A th \in Threads : pc[th] = "late" => next[cur[th]] = Null
    /\ \A t \in Tasks : added[t] # 0 /\ refs[t] = 0 => spawned[t] > 0
    /\ signalled => ~waiting \/ \E th \in Threads : pc[th] = "open"

(* Nothing goes on by itself: doneWaiting() was called, the holders of the *)
(* added tasks are gone, and every thread is out of the list or spins on a *)
(* node that is linked to itself.                                          *)
AtRest == /\ signalled
          /\ \A th \in Threads : pc[th] = "idle" \/ (pc[th] = "walk" /\ next[cur[th]] = cur[th])
          /\ \A t \in Tasks : added[t] # 0 => ~held[t]

(* Every added task was spawned then.                                      *)
NoTaskLost == AtRest => \A t \in Tasks : added[t] # 0 => spawned[t] > 0

(* The parts of the list stay reachable in a step that lets a new task in  *)
(* only with a way to it, and takes a way away only from a task that is    *)
(* released or reachable otherwise.                                        *)
LEMMA WaysMoved ==
  ASSUME NoneCutOff,
         \A t \in Tasks : Owed(t)' => Owed(t) \/ Anchored(t)',
         \A t \in Tasks : Anchored(t) => \/ ~Owed(t)' \/ Anchored(t)'
                                         \/ \E u \in Tasks : Follows(u, t)' /\ Anchored(u)',
         \A u, t \in Tasks : Follows(u, t) => ~Owed(t)' \/ Anchored(t)' \/ Follows(u, t)'
  PROVE  NoneCutOff'
<1> SUFFICES ASSUME NEW S \in SUBSET Tasks, S # {}, \A t \in S : Owed(t)'
             PROVE  \E t \in S : Anchored(t)' \/ \E u \in Tasks \ S : Follows(u, t)'
  BY DEF NoneCutOff
<1>1. CASE \E t \in S : ~Owed(t)
  BY <1>1
<1>2. CASE \A t \in S : Owed(t)
  <2>1. PICK t \in S : Anchored(t) \/ \E u \in Tasks \ S : Follows(u, t)
    BY <1>2 DEF NoneCutOff
  <2>2. CASE Anchored(t)
    BY <2>2
  <2>3. CASE \E u \in Tasks \ S : Follows(u, t)
    BY <2>3
  <2> QED BY <2>1, <2>2, <2>3
<1> QED BY <1>1, <1>2

(* The invariants of the list together.                                    *)
Cut == ListInv /\ NoneCutOff /\ Progress

(* A new task is led to by its thread.                                     *)
LEMMA AddCut ==
  ASSUME Cut, NEW th \in Threads, NEW t \in Tasks, Add(th, t)
  PROVE  NoneCutOff' /\ Progress'
<1> USE DEF Cut, ListInv, Add
<1>2. /\ pc[th] = "idle" /\ added[t] = 0 /\ ~Owed(t) /\ next[t] = Null
      /\ \A u \in Tasks : Owed(u)' <=> Owed(u) \/ u = t
  BY DEF Types, Counted, Owed, Holds
<1>5. /\ head' = head /\ other' = other
      /\ next' = next \/ next' = [next EXCEPT ![t] = t]
      /\ \A u, v \in Tasks : Precedes(u, v)' <=> Precedes(u, v)
  BY <1>2, NullAssumption DEF Precedes, Types, ThreadTypes
<1>6. /\ cur'[th] = t /\ pc'[th] \in {"late", "exchange"}
      /\ pc'[th] = "late" => next' = next
      /\ pc'[th] = "exchange" => next' = [next EXCEPT ![t] = t]
      /\ \A o \in Threads : o # th => pc'[o] = pc[o] /\ cur'[o] = cur[o]
  BY DEF Types, ThreadTypes, Goto
<1>7. \A v \in Tasks : Anchored(v)' <=> Anchored(v) \/ v = t
  BY <1>2, <1>5, <1>6 DEF Anchored
<1>8. \A u, v \in Tasks : Follows(u, v)' <=> Follows(u, v)
  BY <1>2, <1>5, <1>6 DEF Follows
<1>9. NoneCutOff'
  BY <1>2, <1>7, <1>8, WaysMoved
<1>10. \A o \in Threads : Linking(o) => Linking(o)' /\ cur'[o] = cur[o]
  BY <1>2, <1>6 DEF Linking
<1>11. \A v \in Tasks : next'[v] = v => \E o \in Threads : Linking(o)' /\ cur'[o] = v
  <2> SUFFICES ASSUME NEW v \in Tasks, next'[v] = v
               PROVE  \E o \in Threads : Linking(o)' /\ cur'[o] = v
    OBVIOUS
  <2>1. CASE v = t
    <3>1. t # Null
      BY NullAssumption
    <3> QED BY <2>1, <3>1, <1>2, <1>6 DEF Linking
  <2>2. CASE v # t
    <3>1. next[v] = v
      BY <2>2, <1>5 DEF Types, ThreadTypes
    <3> QED BY <3>1, <1>10 DEF Progress
  <2> QED BY <2>1, <2>2
<1>12. \A o \in Threads : pc'[o] = "late" => next'[cur'[o]] = Null
  <2> SUFFICES ASSUME NEW o \in Threads, pc'[o] = "late"
               PROVE  next'[cur'[o]] = Null
    OBVIOUS
  <2>1. CASE o = th
    BY <2>1, <1>2, <1>6
  <2>2. CASE o # th
    <3>1. pc[o] = "late" /\ cur'[o] = cur[o] /\ next[cur[o]] = Null
      BY <2>2, <1>6 DEF Progress
    <3>2. Leads(o, cur[o]) /\ cur[o] \in Tasks
      BY <3>1 DEF Leads, Types, ThreadTypes
    <3>3. cur[o] # t
      BY <3>2, <1>2 DEF LedIsOwed
    <3> QED BY <3>1, <3>2, <3>3, <1>5 DEF Types, ThreadTypes
  <2> QED BY <2>1, <2>2
<1>13. \A v \in Tasks : added'[v] # 0 /\ refs'[v] = 0 => spawned'[v] > 0
  BY DEF Progress, Types
<1>14. signalled' => ~waiting' \/ \E o \in Threads : pc'[o] = "open"
  BY <1>2, <1>6 DEF Progress
<1> QED BY <1>9, <1>11, <1>12, <1>13, <1>14 DEF Progress

(* A late task has no node behind it.                                      *)
LEMMA AddLateCut ==
  ASSUME Cut, NEW th \in Threads, AddLate(th)
  PROVE  NoneCutOff' /\ Progress'
<1> USE DEF Cut, ListInv, AddLate, listVars
<1> DEFINE t == cur[th]
<1>1. /\ pc[th] = "late" /\ t \in Tasks /\ Leads(th, t) /\ Owed(t) /\ next[t] = Null
      /\ exceptionPtr \in Failures
  BY DEF Types, ThreadTypes, Leads, LedIsOwed, Progress
<1>2. \A u \in Tasks : Owed(u)' <=> Owed(u) /\ u # t
  BY <1>1, ListReferenceDropped
<1>3. /\ pc'[th] = "idle" /\ cur' = cur /\ other' = other /\ next' = next
      /\ \A o \in Threads : o # th => pc'[o] = pc[o]
  BY DEF Types, ThreadTypes, Goto
<1>4. \A v \in Tasks : Anchored(v) => v = t \/ Anchored(v)'
  BY <1>1, <1>3 DEF Anchored
<1>5. \A u, v \in Tasks : Follows(u, v) => Follows(u, v)'
  <2> SUFFICES ASSUME NEW u \in Tasks, NEW v \in Tasks, Follows(u, v)
               PROVE  Follows(u, v)'
    OBVIOUS
  <2>1. CASE Precedes(u, v)
    <3>1. u # t
      BY <2>1, <1>1, NullAssumption DEF Precedes
    <3> QED BY <2>1, <3>1, <1>2 DEF Precedes, Follows
  <2>2. CASE \E o \in Threads : pc[o] = "link" /\ cur[o] = u /\ other[o] = v
    BY <2>2, <1>1, <1>3 DEF Follows
  <2> QED BY <2>1, <2>2 DEF Follows
<1>6. NoneCutOff'
  BY <1>2, <1>4, <1>5, WaysMoved
<1>7. \A v \in Tasks : added'[v] # 0 /\ refs'[v] = 0 => spawned'[v] > 0
  BY <1>1 DEF Progress, Types, DependencyDone
<1>8. \A o \in Threads : (Linking(o)' <=> Linking(o)) /\ (pc'[o] = "late" => pc[o] = "late")
  BY <1>1, <1>3 DEF Linking
<1>9. signalled' => ~waiting' \/ \E o \in Threads : pc'[o] = "open"
  BY <1>1, <1>3 DEF Progress
<1> QED BY <1>3, <1>6, <1>7, <1>8, <1>9 DEF Progress

(* The old head is behind the new one.                                     *)
LEMMA ExchangeHeadCut ==
  ASSUME Cut, NEW th \in Threads, ExchangeHead(th)
  PROVE  NoneCutOff' /\ Progress'
<1> USE DEF Cut, ListInv, ExchangeHead, taskVars
<1> DEFINE t == cur[th]
<1>1. pc[th] = "exchange" /\ t \in Tasks /\ head' = t
  BY DEF Types, ThreadTypes, SelfLinked, Linking
<1>2. \A u \in Tasks : Owed(u)' <=> Owed(u)
  BY DEF Owed, Holds
<1>3. /\ pc'[th] = "link" /\ cur' = cur /\ next' = next /\ other'[th] = head
      /\ \A o \in Threads : o # th => pc'[o] = pc[o] /\ other'[o] = other[o]
  BY DEF Types, ThreadTypes, Goto
<1>4. Anchored(t)' /\ \A v \in Tasks : v = head => Follows(t, v)'
  BY <1>1, <1>3 DEF Anchored, Follows
<1>5. \A v \in Tasks : Anchored(v) => v = head \/ Anchored(v)'
  BY <1>1, <1>3 DEF Anchored
<1>6. \A u, v \in Tasks : Follows(u, v) => Follows(u, v)'
  BY <1>1, <1>2, <1>3 DEF Follows, Precedes
<1>7. NoneCutOff'
  BY <1>1, <1>2, <1>4, <1>5, <1>6, WaysMoved
<1>8. \A o \in Threads : (Linking(o)' <=> Linking(o)) /\ (pc'[o] = "late" => pc[o] = "late")
  BY <1>1, <1>3 DEF Linking
<1>9. signalled' => ~waiting' \/ \E o \in Threads : pc'[o] = "open"
  BY <1>1, <1>3 DEF Progress
<1> QED BY <1>3, <1>7, <1>8, <1>9 DEF Progress

(* The link that was to come is made.                                      *)
LEMMA SetNextNodeCut ==
  ASSUME Cut, NEW th \in Threads, SetNextNode(th)
  PROVE  NoneCutOff' /\ Progress'
<1> USE DEF Cut, ListInv, SetNextNode, taskVars
<1> DEFINE t == cur[th]
<1>1. /\ pc[th] = "link" /\ t \in Tasks /\ Owed(t) /\ next[t] = t /\ other[th] # t
      /\ other[th] \in Tasks \cup {Null} /\ next' = [next EXCEPT ![t] = other[th]]
      /\ \A o \in Threads : (Linking(o) \/ pc[o] = "late") /\ cur[o] = t => o = th
  BY DEF Types, ThreadTypes, SelfLinked, Linking
<1>2. \A u \in Tasks : Owed(u)' <=> Owed(u)
  BY DEF Owed, Holds
<1>3. /\ pc'[th] \in {"recheck", "idle"} /\ cur' = cur /\ other' = other
      /\ \A o \in Threads : o # th => pc'[o] = pc[o]
      /\ next'[t] = other[th] /\ \A v \in Tasks : v # t => next'[v] = next[v]
  BY <1>1 DEF Types, ThreadTypes, Goto
<1>4. \A v \in Tasks : Anchored(v) => Anchored(v)'
  BY <1>1, <1>3 DEF Anchored
<1>5. \A u, v \in Tasks : Precedes(u, v)' <=> IF u = t THEN v = other[th] ELSE Precedes(u, v)
  BY <1>1, <1>2 DEF Precedes, Types, ThreadTypes
<1>6. \A u, v \in Tasks : Follows(u, v) => Follows(u, v)'
  BY <1>1, <1>3, <1>5 DEF Follows, Precedes
<1>7. NoneCutOff'
  BY <1>2, <1>4, <1>6, WaysMoved
<1>8. \A o \in Threads : /\ Linking(o)' <=> Linking(o) /\ o # th
                         /\ pc'[o] = "late" => pc[o] = "late" /\ cur[o] # t
  BY <1>1, <1>3 DEF Linking
<1>9. signalled' => ~waiting' \/ \E o \in Threads : pc'[o] = "open"
  BY <1>1, <1>3 DEF Progress
<1>10. \A v \in Tasks : next'[v] = v => \E o \in Threads : Linking(o)' /\ cur'[o] = v
  BY <1>1, <1>3, <1>8 DEF Progress
<1>11. \A o \in Threads : pc'[o] = "late" => next'[cur'[o]] = Null
  <2> SUFFICES ASSUME NEW o \in Threads, pc'[o] = "late" PROVE next'[cur'[o]] = Null
    OBVIOUS
  <2>1. next[cur[o]] = Null /\ cur[o] # t /\ cur[o] \in Tasks
    BY <1>8 DEF Progress, Types, ThreadTypes
  <2> QED BY <2>1, <1>3
<1> QED BY <1>7, <1>9, <1>10, <1>11 DEF Progress

(* A step that moves no task cuts nothing off.                             *)
LEMMA NothingMovesCut ==
  ASSUME Cut, UNCHANGED <<head, next, refs, held, spawned, added, cur, other>>,
         \A v \in Tasks : Anchored(v) => Anchored(v)',
         \A r \in Threads : /\ Linking(r)' <=> Linking(r)
                            /\ pc[r] = "link" => pc'[r] = "link"
                            /\ pc'[r] = "late" => pc[r] = "late",
         signalled' => ~waiting' \/ \E o \in Threads : pc'[o] = "open"
  PROVE  NoneCutOff' /\ Progress'
<1> USE DEF Cut, ListInv
<1>1. \A u \in Tasks : Owed(u)' <=> Owed(u)
  BY DEF Owed, Holds
<1>2. \A u, v \in Tasks : Follows(u, v) => Follows(u, v)'
  BY <1>1 DEF Follows, Precedes
<1>3. NoneCutOff'
  BY <1>1, <1>2, WaysMoved
<1> QED BY <1>3 DEF Progress

(* The steps that only look at m_waiting or write it.                      *)
LEMMA MarksCut ==
  ASSUME Cut, NEW th \in Threads,
         Recheck(th) \/ Open(th) \/ \E e \in Failures : DoneWaiting(th, e)
  PROVE  NoneCutOff' /\ Progress'
<1>1. CASE Recheck(th)
  <2> USE <1>1 DEF Cut, ListInv, Recheck, taskVars, listVars
  <2>1. /\ pc[th] = "recheck" /\ pc'[th] \in {"idle", "take"}
        /\ \A o \in Threads : o # th => pc'[o] = pc[o]
    BY DEF Types, ThreadTypes, Goto
  <2>2. \A v \in Tasks : Anchored(v) => Anchored(v)'
    BY <2>1 DEF Anchored
  <2>3. signalled' => ~waiting' \/ \E o \in Threads : pc'[o] = "open"
    BY <2>1 DEF Progress
  <2> QED BY <2>1, <2>2, <2>3, NothingMovesCut DEF Linking
<1>2. CASE Open(th)
  <2> USE <1>2 DEF Cut, ListInv, Open, taskVars, listVars
  <2>1. /\ pc[th] = "open" /\ pc'[th] = "take"
        /\ \A o \in Threads : o # th => pc'[o] = pc[o]
    BY DEF Types, ThreadTypes, Goto
  <2>2. \A v \in Tasks : Anchored(v) => Anchored(v)'
    BY <2>1 DEF Anchored
  <2> QED BY <2>1, <2>2, NothingMovesCut DEF Linking
<1>3. CASE \E e \in Failures : DoneWaiting(th, e)
  <2> USE <1>3 DEF Cut, ListInv, DoneWaiting, taskVars, listVars
  <2>1. /\ pc[th] = "idle" /\ pc'[th] = "open"
        /\ \A o \in Threads : o # th => pc'[o] = pc[o]
    BY DEF Types, ThreadTypes, Goto
  <2>2. \A v \in Tasks : Anchored(v) => Anchored(v)'
    BY <2>1 DEF Anchored
  <2> QED BY <2>1, <2>2, NothingMovesCut DEF Linking
<1> QED BY <1>1, <1>2, <1>3

(* reset() leaves the nodes as they are.                                   *)
LEMMA ResetCut ==
  ASSUME Cut, Reset
  PROVE  NoneCutOff' /\ Progress'
<1> USE DEF Reset, taskVars
<1>1. \A v \in Tasks : Anchored(v) => Anchored(v)'
  BY DEF Anchored
<1> QED BY <1>1, NothingMovesCut DEF Linking

(* A holder that goes away leaves the list as it is.                       *)
LEMMA HolderDoneCut ==
  ASSUME Cut, NEW t \in Tasks, NEW e \in Failures, HolderDone(t, e)
  PROVE  NoneCutOff' /\ Progress'
<1> USE DEF Cut, ListInv
<1>1. UNCHANGED <<head, next, waiting, signalled, pc, cur, other, added>>
  BY DEF HolderDone, listVars
<1>2. \A u \in Tasks : Owed(u)' <=> Owed(u)
  BY HolderReferenceDropped
<1>3. \A v \in Tasks : Anchored(v) => Anchored(v)'
  BY <1>1 DEF Anchored
<1>4. \A u, v \in Tasks : Follows(u, v) => Follows(u, v)'
  BY <1>1, <1>2 DEF Follows, Precedes
<1>5. NoneCutOff'
  BY <1>2, <1>3, <1>4, WaysMoved
<1>6. \A v \in Tasks : added'[v] # 0 /\ refs'[v] = 0 => spawned'[v] > 0
  BY DEF Progress, Types, DependencyDone, HolderDone
<1> QED BY <1>1, <1>5, <1>6 DEF Progress, Linking

(* The thread that takes the list has the way to its first node.           *)
LEMMA TakeListCut ==
  ASSUME Cut, NEW th \in Threads, TakeList(th)
  PROVE  NoneCutOff' /\ Progress'
<1> USE DEF Cut, ListInv, TakeList, taskVars
<1>1. /\ pc[th] = "take" /\ next' = next /\ other' = other /\ cur'[th] = head
      /\ pc'[th] \in {"idle", "walk"} /\ (head # Null => pc'[th] = "walk")
      /\ \A o \in Threads : o # th => pc'[o] = pc[o] /\ cur'[o] = cur[o]
  BY DEF Types, ThreadTypes, Goto
<1>2. \A u \in Tasks : Owed(u)' <=> Owed(u)
  BY DEF Owed, Holds
<1>3. \A v \in Tasks : Anchored(v) => Anchored(v)'
  BY <1>1, NullAssumption DEF Anchored
<1>4. \A u, v \in Tasks : Follows(u, v) => Follows(u, v)'
  BY <1>1, <1>2 DEF Follows, Precedes
<1>5. NoneCutOff'
  BY <1>2, <1>3, <1>4, WaysMoved
<1>6. \A o \in Threads : /\ Linking(o)' <=> Linking(o)
                         /\ Linking(o) \/ pc'[o] = "late" => pc'[o] = pc[o] /\ cur'[o] = cur[o]
  BY <1>1 DEF Linking
<1>7. signalled' => ~waiting' \/ \E o \in Threads : pc'[o] = "open"
  BY <1>1 DEF Progress
<1>8. \A v \in Tasks : next'[v] = v => \E o \in Threads : Linking(o)' /\ cur'[o] = v
  BY <1>1, <1>6 DEF Progress
<1>9. \A o \in Threads : pc'[o] = "late" => next'[cur'[o]] = Null
  BY <1>1, <1>6 DEF Progress
<1> QED BY <1>5, <1>7, <1>8, <1>9 DEF Progress

(* It keeps the way to the next node when it releases a task, ...          *)
LEMMA ReleaseTaskCut ==
  ASSUME Cut, NEW th \in Threads, ReleaseTask(th)
  PROVE  NoneCutOff' /\ Progress'
<1> USE DEF Cut, ListInv, ReleaseTask, listVars
<1> DEFINE t == cur[th]
<1>1. /\ pc[th] = "walk" /\ t \in Tasks /\ Leads(th, t) /\ Owed(t) /\ next[t] # t
      /\ exceptionPtr \in Failures
  BY DEF Types, ThreadTypes, Leads, LedIsOwed
<1>2. \A u \in Tasks : Owed(u)' <=> Owed(u) /\ u # t
  BY <1>1, ListReferenceDropped
<1>3. /\ pc'[th] = "release" /\ cur' = cur /\ next' = next /\ other'[th] = next[t] /\ head' = head
      /\ \A o \in Threads : o # th => pc'[o] = pc[o] /\ other'[o] = other[o]
  BY DEF Types, ThreadTypes, Goto
<1>4. \A v \in Tasks : Anchored(v) => v = t \/ Anchored(v)'
  BY <1>1, <1>3 DEF Anchored
<1>5. \A u, v \in Tasks : Follows(u, v) => Anchored(v)' \/ Follows(u, v)'
  <2> SUFFICES ASSUME NEW u \in Tasks, NEW v \in Tasks, Follows(u, v)
               PROVE  Anchored(v)' \/ Follows(u, v)'
    OBVIOUS
  <2>1. CASE Precedes(u, v) /\ u = t
    BY <2>1, <1>3 DEF Precedes, Anchored
  <2>2. CASE Precedes(u, v) /\ u # t
    BY <2>2, <1>2, <1>3 DEF Precedes, Follows
  <2>3. CASE \E o \in Threads : pc[o] = "link" /\ cur[o] = u /\ other[o] = v
    BY <2>3, <1>1, <1>3 DEF Follows
  <2> QED BY <2>1, <2>2, <2>3 DEF Follows
<1>6. NoneCutOff'
  BY <1>2, <1>4, <1>5, WaysMoved
<1>7. \A v \in Tasks : added'[v] # 0 /\ refs'[v] = 0 => spawned'[v] > 0
  BY <1>1 DEF Progress, Types, DependencyDone
<1>8. \A o \in Threads : (Linking(o)' <=> Linking(o)) /\ (pc'[o] = "late" => pc[o] = "late")
  BY <1>1, <1>3 DEF Linking
<1>9. signalled' => ~waiting' \/ \E o \in Threads : pc'[o] = "open"
  BY <1>1, <1>3 DEF Progress
<1> QED BY <1>3, <1>6, <1>7, <1>8, <1>9 DEF Progress

(* ... and goes there.                                                     *)
LEMMA ReleaseNodeCut ==
  ASSUME Cut, NEW th \in Threads, ReleaseNode(th)
  PROVE  NoneCutOff' /\ Progress'
<1> USE DEF Cut, ListInv, ReleaseNode, taskVars, listVars
<1>1. /\ pc[th] = "release" /\ next' = next /\ other' = other /\ cur'[th] = other[th]
      /\ pc'[th] \in {"idle", "walk"} /\ (other[th] # Null => pc'[th] = "walk")
      /\ \A o \in Threads : o # th => pc'[o] = pc[o] /\ cur'[o] = cur[o]
  BY DEF Types, ThreadTypes, Goto
<1>2. \A u \in Tasks : Owed(u)' <=> Owed(u)
  BY DEF Owed, Holds
<1>3. \A v \in Tasks : Anchored(v) => Anchored(v)'
  BY <1>1, NullAssumption DEF Anchored
<1>4. \A u, v \in Tasks : Follows(u, v) => Follows(u, v)'
  BY <1>1, <1>2 DEF Follows, Precedes
<1>5. NoneCutOff'
  BY <1>2, <1>3, <1>4, WaysMoved
<1>6. \A o \in Threads : /\ Linking(o)' <=> Linking(o)
                         /\ Linking(o) \/ pc'[o] = "late" => pc'[o] = pc[o] /\ cur'[o] = cur[o]
  BY <1>1 DEF Linking
<1>7. signalled' => ~waiting' \/ \E o \in Threads : pc'[o] = "open"
  BY <1>1 DEF Progress
<1>8. \A v \in Tasks : next'[v] = v => \E o \in Threads : Linking(o)' /\ cur'[o] = v
  BY <1>1, <1>6 DEF Progress
<1>9. \A o \in Threads : pc'[o] = "late" => next'[cur'[o]] = Null
  BY <1>1, <1>6 DEF Progress
<1> QED BY <1>5, <1>7, <1>8, <1>9 DEF Progress

(* Nothing is cut off before the first add().                              *)
LEMMA CutInit == Init => NoneCutOff /\ Progress
<1> SUFFICES ASSUME Init PROVE NoneCutOff /\ Progress
  OBVIOUS
<1>1. \A t \in Tasks : ~Owed(t)
  BY ListInvInit DEF Init, ListInv, Counted
<1>2. NoneCutOff
  BY <1>1 DEF NoneCutOff
<1>3. Progress
  BY NullAssumption DEF Init, Progress
<1> QED BY <1>2, <1>3

(* No step cuts a task off.                                                *)
LEMMA CutNext == ListInv /\ NoneCutOff /\ Progress /\ [Next]_vars => NoneCutOff' /\ Progress'
<1> SUFFICES ASSUME Cut, [Next]_vars PROVE NoneCutOff' /\ Progress'
  BY DEF Cut
<1>1. CASE UNCHANGED vars
  BY <1>1 DEF vars, listVars, taskVars, Cut, NoneCutOff, Progress, Owed, Holds, Anchored, Follows,
              Precedes, Linking
<1>2. ASSUME NEW th \in Threads, Step(th) PROVE NoneCutOff' /\ Progress'
  BY <1>2, AddLateCut, ExchangeHeadCut, SetNextNodeCut, MarksCut, TakeListCut, ReleaseTaskCut,
     ReleaseNodeCut DEF Step, Announce
<1> QED BY <1>1, <1>2, AddCut, MarksCut, HolderDoneCut, ResetCut DEF Next

(* The safety half of AddedTaskRuns: however add(), announce() and the     *)
(* holders interleaved, for any number of tasks, threads and events, when  *)
(* nothing goes on any more after doneWaiting() no added task still waits. *)
THEOREM NoTaskEverLost == Spec => []NoTaskLost
<1>1. ListInv /\ NoneCutOff /\ Progress /\ ListedIsAnnounced => NoTaskLost
  <2> SUFFICES ASSUME ListInv, NoneCutOff, Progress, ListedIsAnnounced, AtRest,
                      NEW t \in Tasks, added[t] # 0
               PROVE  spawned[t] > 0
    BY DEF NoTaskLost
  <2> USE DEF AtRest
  <2>1. \A th \in Threads : pc[th] = "idle"
    <3>1. \A th \in Threads : ~Linking(th)
      BY DEF Linking
    <3>2. \A th \in Threads : pc[th] = "walk" => Leads(th, cur[th]) /\ cur[th] \in Tasks
      BY DEF Leads, ListInv, Types, ThreadTypes
    <3> QED BY <3>1, <3>2 DEF Progress
  <2>2. ~waiting
    BY <2>1 DEF Progress
  <2>3. head = Null
    BY <2>1, <2>2 DEF ListedIsAnnounced, WillAnnounce
  <2>4. \A u \in Tasks : ~Anchored(u)
    BY <2>1, <2>3, NullAssumption DEF Anchored
  <2>5. \A u, v \in Tasks : Follows(u, v) => Owed(u)
    BY <2>1 DEF Follows, Precedes
  <2>6. \A u \in Tasks : ~Owed(u)
    <3> DEFINE S == {u \in Tasks : Owed(u)}
    <3>1. S \in SUBSET Tasks /\ \A u \in S : Owed(u)
      OBVIOUS
    <3>2. ~ \E v \in S : Anchored(v) \/ \E u \in Tasks \ S : Follows(u, v)
      BY <2>4, <2>5
    <3> QED BY <3>1, <3>2 DEF NoneCutOff
  <2>7. refs[t] = 0
    <3>1. ~held[t] /\ ~Owed(t) /\ refs[t] \in Nat
      BY <2>6 DEF ListInv, Types
    <3> QED BY <3>1 DEF Owed, Holds
  <2> QED BY <2>7 DEF Progress
<1> QED BY <1>1, CutInit, CutNext, ListInvAlways, ListedIsAnnouncedCorrect, PTL DEF Spec
=============================================================================

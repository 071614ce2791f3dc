------------------------ MODULE StreamScheduleProofs ------------------------
(***************************************************************************)
(* Proofs about StreamSchedule, for every schedule of any number of paths, *)
(* modules and products, and every outcome of the modules.                 *)
(***************************************************************************)
EXTENDS StreamSchedule, FiniteSetTheorems, TLAPS

Failures == Thrown \cup {"none"}
PathStates == [phase : {"unstarted", "next", "waiting", "leaving", "done"}, at : Nat \ {0},
               continues : BOOLEAN, exception : Failures]
WorkerStates == [phase : Phases, state : {"Ready", "Pass", "Fail", "Exception"},
                 exception : Failures, released : BOOLEAN, left : Int,
                 onEndPath : BOOLEAN, outcome : Outcomes \cup {"none"}, runs : Nat]
ProductStates == [status : {"unset", "set", "deleted"}, requested : BOOLEAN,
                  released : BOOLEAN, exception : Failures]

(* The types; that left is not negative follows from what it counts.       *)
Types == /\ schedule \in Schedules
         /\ status \in {"new", "refused", "idle", "processing", "finished", "failed"}
         /\ skipping \in BOOLEAN
         /\ path \in [Paths -> PathStates]
         /\ \A p \in Paths : path[p].at <= Len(schedule.paths[p])
         /\ worker \in [Modules -> WorkerStates]
         /\ product \in [Products -> ProductStates]
         /\ helper \in [Modules -> Nat] /\ count \in [Modules -> Int]
         /\ trig \in [done : BOOLEAN, exception : Failures]

Untouched == {"idle", "selecting", "prefetching", "waiting", "acquiring"}

(* A worker runs through its phases once.                                  *)
Lifecycle(m) ==
    /\ worker[m].phase \in Untouched => worker[m].runs = 0 /\ worker[m].outcome = "none"
    /\ worker[m].phase = "running" => worker[m].runs = 1 /\ worker[m].outcome = "none"
    /\ worker[m].phase = "returned" => worker[m].runs = 1 /\ worker[m].outcome # "none"
    /\ worker[m].phase = "done" => worker[m].runs <= 1 /\ worker[m].released
    /\ worker[m].phase = "done" /\ worker[m].runs = 1 => worker[m].outcome # "none"

(* Its result is set when it is done, and is an exception exactly if it    *)
(* raised one that is not ignored where it is.                             *)
Result(m) ==
    /\ worker[m].phase # "done" => worker[m].state = "Ready" /\ worker[m].exception = "none"
    /\ worker[m].phase = "done" => /\ worker[m].state # "Ready"
                                   /\ worker[m].state = "Exception" <=> worker[m].exception # "none"
    /\ worker[m].exception # "none" => ~Ignored(m, worker[m].exception)
    /\ worker[m].phase = "done" /\ worker[m].outcome # "none"
         => worker[m].exception = IF worker[m].outcome \in Exceptions /\ ~Ignored(m, worker[m].outcome)
                                    THEN worker[m].outcome ELSE "none"

Workers == \A m \in Modules : Lifecycle(m) /\ Result(m)

(* A path has gone past the worker at entry i: the worker has passed.      *)
Over(p, i) == LET m == Entry(p, i).module
              IN  worker[m].phase = "done" /\ worker[m].exception = "none" /\ Passes(p, i)

Followed(p) ==
    /\ path[p].phase = "unstarted" => path[p].at = 1
    /\ path[p].phase \in {"unstarted", "next", "waiting"} => path[p].continues /\ path[p].exception = "none"
    /\ \A i \in 1..(path[p].at - 1) : Over(p, i)
    /\ path[p].phase = "waiting" => worker[Current(p)].phase # "idle"

(* How a path ended at its current entry.                                  *)
Ended(p) == path[p].phase \in {"leaving", "done"} =>
    LET e == worker[Current(p)].exception
    IN  /\ worker[Current(p)].phase = "done"
        /\ path[p].exception = IF e = "FailPath" THEN "none" ELSE e
        /\ path[p].continues => path[p].at = Len(schedule.paths[p]) /\ Over(p, path[p].at)
        /\ ~path[p].continues => \/ e # "none" \/ ~Passes(p, path[p].at)
                                 \/ p \in Ordinary /\ skipping

Followeds == \A p \in Paths : Followed(p) /\ Ended(p)

(* The places of a module where no path will come to it any more: behind   *)
(* the one at which its path was left, or where it failed the path.        *)
Gone(m) == {x \in Places(m) :
              \/ path[x[1]].phase = "done" /\ ~path[x[1]].continues /\ x[2] > path[x[1]].at
              \/ path[x[1]].phase \in {"leaving", "done"} /\ x[2] = path[x[1]].at
                 /\ worker[m].exception = "FailPath"}

LeftCounts(m) ==
    /\ worker[m].left = Cardinality(Places(m) \ Gone(m))
    /\ worker[m].released /\ worker[m].phase # "done"
         => worker[m].phase = "idle" /\ m \in Scheduled /\ Gone(m) = Places(m)

Lefts == \A m \in Modules : LeftCounts(m)

Needed(m) ==
    worker[m].phase # "idle" => \/ Reached(m)
                                \/ /\ m \notin Scheduled
                                   /\ \E c \in Modules : m \in schedule.consumes[c]
                                                         /\ worker[c].phase # "idle"
Neededs == \A m \in Modules : Needed(m)

-----------------------------------------------------------------------------
(* What a schedule is made of.                                             *)
LEMMA ScheduleFacts ==
  ASSUME schedule \in Schedules
  PROVE  /\ Len(schedule.paths) \in Nat /\ Paths = 1..Len(schedule.paths)
         /\ schedule.trig \in Nat /\ Ordinary \subseteq Paths /\ EndPaths \subseteq Paths
         /\ \A p \in Paths : p \in Ordinary \/ p \in EndPaths
         /\ \A p \in Paths : /\ Len(schedule.paths[p]) \in Nat \ {0}
                             /\ DOMAIN schedule.paths[p] = 1..Len(schedule.paths[p])
                             /\ \A i \in 1..Len(schedule.paths[p]) :
                                   /\ Entry(p, i).module \in Modules
                                   /\ Entry(p, i).action \in {"Normal", "Ignore", "Veto"}
         /\ \A m \in Modules : /\ schedule.consumes[m] \subseteq Products
                               /\ schedule.outcomes[m] \subseteq Outcomes
         /\ schedule.deletable \subseteq Modules
<1>1. /\ schedule.paths \in Seq(Seq(Entries) \ {<<>>}) /\ schedule.trig \in 0..Len(schedule.paths)
      /\ schedule.consumes \in [Modules -> SUBSET Products]
      /\ schedule.outcomes \in [Modules -> SUBSET Outcomes]
      /\ schedule.deletable \subseteq Modules
  BY SchedulesAssumption
<1>2. Len(schedule.paths) \in Nat /\ Paths = 1..Len(schedule.paths)
  BY <1>1 DEF Paths
<1>3. /\ schedule.trig \in Nat /\ Ordinary \subseteq Paths /\ EndPaths \subseteq Paths
      /\ \A p \in Paths : p \in Ordinary \/ p \in EndPaths
  BY <1>1, <1>2 DEF Ordinary, EndPaths
<1>4. ASSUME NEW p \in Paths
      PROVE  /\ Len(schedule.paths[p]) \in Nat \ {0}
             /\ DOMAIN schedule.paths[p] = 1..Len(schedule.paths[p])
             /\ \A i \in 1..Len(schedule.paths[p]) :
                   /\ Entry(p, i).module \in Modules
                   /\ Entry(p, i).action \in {"Normal", "Ignore", "Veto"}
  <2>1. schedule.paths[p] \in Seq(Entries) /\ schedule.paths[p] # <<>>
    BY <1>1, <1>2
  <2>2. /\ Len(schedule.paths[p]) \in Nat \ {0}
        /\ DOMAIN schedule.paths[p] = 1..Len(schedule.paths[p])
    BY <2>1
  <2>3. \A i \in 1..Len(schedule.paths[p]) : Entry(p, i) \in Entries
    BY <2>1 DEF Entry
  <2> QED BY <2>2, <2>3 DEF Entries
<1> QED BY <1>1, <1>2, <1>3, <1>4

(* The places of a module.                                                 *)
LEMMA PlaceFacts ==
  ASSUME schedule \in Schedules, NEW m \in Modules
  PROVE  /\ \A p \in Paths : \A i \in 1..Len(schedule.paths[p]) :
               <<p, i>> \in Places(m) <=> Entry(p, i).module = m
         /\ \A x \in Places(m) : /\ x = <<x[1], x[2]>> /\ x[1] \in Paths
                                 /\ x[2] \in 1..Len(schedule.paths[x[1]])
                                 /\ Entry(x[1], x[2]).module = m
         /\ m \in Scheduled <=> Places(m) # {}
<1>1. \A p \in Paths : DOMAIN schedule.paths[p] = 1..Len(schedule.paths[p])
  BY ScheduleFacts
<1>2. ASSUME NEW p \in Paths, NEW i \in 1..Len(schedule.paths[p])
      PROVE  <<p, i>> \in Places(m) <=> Entry(p, i).module = m
  <2>1. i \in UNION {DOMAIN schedule.paths[q] : q \in Paths}
    BY <1>1
  <2>2. <<p, i>>[1] = p /\ <<p, i>>[2] = i
    OBVIOUS
  <2>3. <<p, i>> \in {<<q, j>> : q \in Paths, j \in UNION {DOMAIN schedule.paths[q] : q \in Paths}}
    BY <2>1
  <2> QED BY <1>1, <2>2, <2>3 DEF Places
<1>3. ASSUME NEW x \in Places(m)
      PROVE  /\ x = <<x[1], x[2]>> /\ x[1] \in Paths
             /\ x[2] \in 1..Len(schedule.paths[x[1]])
             /\ Entry(x[1], x[2]).module = m
  <2>1. PICK q \in Paths, j \in UNION {DOMAIN schedule.paths[p] : p \in Paths} : x = <<q, j>>
    BY DEF Places
  <2>2. x[1] = q /\ x[2] = j
    BY <2>1
  <2>3. x[2] \in DOMAIN schedule.paths[x[1]] /\ Entry(x[1], x[2]).module = m
    BY DEF Places
  <2> QED BY <1>1, <2>1, <2>2, <2>3
<1>4. m \in Scheduled <=> Places(m) # {}
  BY DEF Scheduled
<1> QED BY <1>2, <1>3, <1>4

(* They are finitely many.                                                 *)
LEMMA PlacesFinite ==
  ASSUME schedule \in Schedules, NEW m \in Modules
  PROVE  IsFiniteSet(Places(m)) /\ Cardinality(Places(m)) \in Nat
<1> DEFINE lines == {DOMAIN schedule.paths[p] : p \in Paths}
           entries == UNION lines
<1>1. IsFiniteSet(Paths)
  <2>1. Len(schedule.paths) \in Nat /\ Paths = 1..Len(schedule.paths)
    BY ScheduleFacts
  <2> QED BY <2>1, FS_Interval
<1>2. IsFiniteSet(lines)
  <2>1. [p \in Paths |-> DOMAIN schedule.paths[p]] \in Surjection(Paths, lines)
    BY DEF Surjection
  <2> QED BY <1>1, <2>1, FS_Surjection
<1>3. \A l \in lines : IsFiniteSet(l)
  <2> SUFFICES ASSUME NEW p \in Paths PROVE IsFiniteSet(DOMAIN schedule.paths[p])
    OBVIOUS
  <2>1. Len(schedule.paths[p]) \in Nat /\ DOMAIN schedule.paths[p] = 1..Len(schedule.paths[p])
    BY ScheduleFacts
  <2> QED BY <2>1, FS_Interval
<1>4. IsFiniteSet(entries)
  BY <1>2, <1>3, FS_UNION
<1>5. IsFiniteSet(Paths \X entries)
  BY <1>1, <1>4, FS_Product
<1>6. Places(m) \subseteq Paths \X entries
  BY DEF Places
<1>7. IsFiniteSet(Places(m))
  BY <1>5, <1>6, FS_Subset
<1> QED BY <1>7, FS_CardinalityType

(* The operators on the schedule do not change while the schedule does not. *)
LEMMA ScheduleStays ==
  ASSUME schedule' = schedule
  PROVE  /\ Paths' = Paths /\ Ordinary' = Ordinary /\ EndPaths' = EndPaths
         /\ \A p, i : Entry(p, i)' = Entry(p, i)
         /\ \A m : Places(m)' = Places(m) /\ Items(m)' = Items(m) /\ Reads(m)' = Reads(m)
         /\ Scheduled' = Scheduled
         /\ \A d : Readers(d)' = Readers(d)
         /\ Helpers' = Helpers /\ Counts' = Counts
  BY DEF Paths, Ordinary, EndPaths, Entry, Places, Items, Reads, Scheduled, Readers, Helpers, Counts

(* The entry that a path is at.                                            *)
LEMMA CurrentFacts ==
  ASSUME Types, NEW p \in Paths
  PROVE  /\ path[p] \in PathStates
         /\ path[p].at \in 1..Len(schedule.paths[p])
         /\ Current(p) \in Modules /\ <<p, path[p].at>> \in Places(Current(p))
         /\ Current(p) \in Scheduled
<1>1. path[p] \in PathStates /\ schedule \in Schedules /\ path[p].at <= Len(schedule.paths[p])
  BY DEF Types
<1>2. path[p].at \in 1..Len(schedule.paths[p])
  <2>1. path[p].at \in Nat \ {0}
    BY <1>1 DEF PathStates
  <2>2. Len(schedule.paths[p]) \in Nat
    BY <1>1, ScheduleFacts
  <2> QED BY <1>1, <2>1, <2>2
<1>3. Current(p) \in Modules
  BY <1>1, <1>2, ScheduleFacts DEF Current
<1> QED BY <1>1, <1>2, <1>3, PlaceFacts DEF Current

-----------------------------------------------------------------------------
(* What a step may do to one worker: it is started, ...                    *)
Begins(m) == \E next \in {"selecting", "prefetching"}, b \in BOOLEAN :
                /\ worker[m].phase = "idle"
                /\ worker'[m] = [worker[m] EXCEPT !.phase = next, !.onEndPath = b]

(* ... goes on, runs, ...                                                  *)
Advances(m, from, to) == /\ worker[m].phase = from
                         /\ worker'[m] = [worker[m] EXCEPT !.phase = to]
Runs(m) == /\ worker[m].phase \in {"waiting", "acquiring"}
           /\ worker'[m] = RunningWorker(m)
Returns(m) == \E o \in Outcomes :
                 /\ worker[m].phase = "running"
                 /\ worker'[m] = [worker[m] EXCEPT !.phase = "returned", !.outcome = o]

(* ... ends without having run, or after it has, ...                       *)
SettlesUnrun(m) == \E o \in Outcomes : /\ worker[m].phase \in {"selecting", "waiting"}
                                       /\ worker'[m] = Settled(m, o)
SettlesAcquire(m) == \E o \in Exceptions : /\ worker[m].phase = "acquiring"
                                           /\ worker'[m] = [Settled(m, o) EXCEPT !.outcome = o]
SettlesRun(m) == /\ worker[m].phase = "returned"
                 /\ worker'[m] = Settled(m, worker[m].outcome)

(* ... or is given up by a path.                                           *)
GivesUp(m) == \E l \in Int, r \in BOOLEAN :
                 /\ worker[m].released => r
                 /\ worker'[m] = [worker[m] EXCEPT !.left = l, !.released = r]

Works(m) == \/ worker'[m] = worker[m]
            \/ Begins(m)
            \/ Advances(m, "selecting", "prefetching") \/ Advances(m, "prefetching", "waiting")
            \/ Advances(m, "waiting", "acquiring")
            \/ Runs(m) \/ Returns(m)
            \/ SettlesUnrun(m) \/ SettlesAcquire(m) \/ SettlesRun(m)
Move(m) == Works(m) \/ GivesUp(m)

(* The fields of a worker that is settled.                                 *)
LEMMA SettledFacts ==
  ASSUME Types, NEW m \in Modules, NEW o \in Outcomes
  PROVE  LET s == Settled(m, o)
             raised == o \in Exceptions /\ ~Ignored(m, o)
         IN  /\ s \in WorkerStates
             /\ s.phase = "done" /\ s.released /\ s.state # "Ready"
             /\ s.left = worker[m].left /\ s.runs = worker[m].runs
             /\ s.onEndPath = worker[m].onEndPath /\ s.outcome = worker[m].outcome
             /\ s.state = "Exception" <=> raised
             /\ s.exception = IF raised THEN o ELSE "none"
             /\ ~raised => s.state = IF o = "reject" THEN "Fail" ELSE "Pass"
<1> DEFINE raised == o \in Exceptions /\ ~Ignored(m, o)
<1>1. worker[m] \in WorkerStates
  BY DEF Types
<1>2. raised => o \in Thrown
  BY DEF Ignored, Thrown
<1>3. PICK st \in {"Pass", "Fail", "Exception"}, ex \in Failures :
         /\ Settled(m, o) = [worker[m] EXCEPT !.phase = "done", !.released = TRUE, !.state = st, !.exception = ex]
         /\ st = IF raised THEN "Exception" ELSE IF o = "reject" THEN "Fail" ELSE "Pass"
         /\ ex = IF raised THEN o ELSE "none"
  BY <1>2 DEF Settled, Failures
<1>4. /\ Settled(m, o) \in WorkerStates
      /\ Settled(m, o).phase = "done" /\ Settled(m, o).released = TRUE
      /\ Settled(m, o).state = st /\ Settled(m, o).exception = ex
      /\ Settled(m, o).left = worker[m].left /\ Settled(m, o).runs = worker[m].runs
      /\ Settled(m, o).onEndPath = worker[m].onEndPath /\ Settled(m, o).outcome = worker[m].outcome
  BY <1>1, <1>3 DEF WorkerStates, Phases
<1>5. st # "Ready" /\ (st = "Exception" <=> raised)
  BY <1>3
<1> HIDE DEF raised
<1> QED BY <1>3, <1>4, <1>5 DEF raised

(* A move keeps the types of the worker and leads it on in its phases.     *)
LEMMA MoveFacts ==
  ASSUME Types, NEW m \in Modules, Move(m), Lifecycle(m)
  PROVE  /\ worker'[m] \in WorkerStates
         /\ worker[m].phase # "idle" => worker'[m].phase # "idle" /\ worker'[m].onEndPath = worker[m].onEndPath
         /\ worker[m].phase = "done" => /\ worker'[m].phase = "done"
                                        /\ worker'[m].state = worker[m].state
                                        /\ worker'[m].exception = worker[m].exception
                                        /\ worker'[m].runs = worker[m].runs
         /\ worker[m].outcome # "none" => worker'[m].outcome = worker[m].outcome
         /\ worker[m].released => worker'[m].released
         /\ worker'[m].runs \in {worker[m].runs, worker[m].runs + 1}
<1>1. worker[m] \in WorkerStates
  BY DEF Types
<1>2. CASE worker'[m] = worker[m]
  BY <1>1, <1>2 DEF WorkerStates
<1>3. CASE Begins(m)
  BY <1>1, <1>3 DEF Begins, WorkerStates, Phases
<1>4. CASE \/ Advances(m, "selecting", "prefetching") \/ Advances(m, "prefetching", "waiting")
           \/ Advances(m, "waiting", "acquiring")
  BY <1>1, <1>4 DEF Advances, WorkerStates, Phases
<1>5. CASE Runs(m)
  <2>1. worker'[m] = [worker[m] EXCEPT !.phase = "running", !.runs = worker[m].runs + 1]
    BY <1>1, <1>5 DEF Runs, RunningWorker, WorkerStates
  <2>2. worker[m].runs + 1 \in Nat /\ worker[m].phase \in {"waiting", "acquiring"}
    BY <1>1, <1>5 DEF Runs, WorkerStates
  <2> QED BY <1>1, <2>1, <2>2 DEF WorkerStates, Phases
<1>6. CASE Returns(m)
  BY <1>1, <1>6 DEF Returns, WorkerStates, Phases, Lifecycle
<1>7. CASE SettlesUnrun(m)
  BY <1>1, <1>7, SettledFacts DEF SettlesUnrun, WorkerStates
<1>8. CASE SettlesAcquire(m)
  <2>1. PICK o \in Exceptions : /\ worker[m].phase = "acquiring"
                                /\ worker'[m] = [Settled(m, o) EXCEPT !.outcome = o]
    BY <1>8 DEF SettlesAcquire
  <2>2. o \in Outcomes
    BY DEF Outcomes
  <2>3. Settled(m, o) \in WorkerStates /\ worker[m].outcome = "none"
    BY <2>1, <2>2, SettledFacts DEF Lifecycle, Untouched
  <2> QED BY <1>1, <2>1, <2>2, <2>3, SettledFacts DEF WorkerStates
<1>9. CASE SettlesRun(m)
  <2>1. worker[m].outcome \in Outcomes
    BY <1>1, <1>9 DEF SettlesRun, Lifecycle, WorkerStates
  <2> QED BY <1>1, <1>9, <2>1, SettledFacts DEF SettlesRun, WorkerStates
<1>10. CASE GivesUp(m)
  BY <1>1, <1>10 DEF GivesUp, WorkerStates
<1> QED BY <1>2, <1>3, <1>4, <1>5, <1>6, <1>7, <1>8, <1>9, <1>10 DEF Move, Works

(* A move keeps the life cycle, and the result that goes with it.          *)
LEMMA MoveKeeps ==
  ASSUME Types, NEW m \in Modules, Move(m), Lifecycle(m), Result(m), schedule' = schedule
  PROVE  Lifecycle(m)' /\ Result(m)'
<1>1. worker[m] \in WorkerStates /\ worker'[m] \in WorkerStates
  BY MoveFacts DEF Types
<1>2. \A e : worker'[m].onEndPath = worker[m].onEndPath => (Ignored(m, e)' <=> Ignored(m, e))
  BY ScheduleStays DEF Ignored
<1> USE DEF Lifecycle, Result, Untouched
<1>3. CASE worker'[m] = worker[m]
  BY <1>1, <1>2, <1>3
<1>4. CASE Begins(m)
  BY <1>1, <1>4 DEF Begins, WorkerStates
<1>5. CASE \/ Advances(m, "selecting", "prefetching") \/ Advances(m, "prefetching", "waiting")
           \/ Advances(m, "waiting", "acquiring")
  BY <1>1, <1>5 DEF Advances, WorkerStates
<1>6. CASE Runs(m)
  BY <1>1, <1>6 DEF Runs, RunningWorker, WorkerStates
<1>7. CASE Returns(m)
  BY <1>1, <1>7 DEF Returns, WorkerStates, Outcomes, Exceptions
<1>8. CASE SettlesUnrun(m)
  <2>1. PICK o \in Outcomes : worker[m].phase \in {"selecting", "waiting"} /\ worker'[m] = Settled(m, o)
    BY <1>8 DEF SettlesUnrun
  <2>2. /\ worker'[m].phase = "done" /\ worker'[m].released /\ worker'[m].runs = 0
        /\ worker'[m].outcome = "none" /\ worker'[m].onEndPath = worker[m].onEndPath
        /\ worker'[m].state # "Ready"
    BY <2>1, SettledFacts
  <2>3. /\ worker'[m].state = "Exception" <=> o \in Exceptions /\ ~Ignored(m, o)
        /\ worker'[m].exception = IF o \in Exceptions /\ ~Ignored(m, o) THEN o ELSE "none"
    BY <2>1, SettledFacts
  <2> QED BY <1>2, <2>2, <2>3 DEF Exceptions
<1>9. CASE SettlesAcquire(m)
  <2>1. PICK o \in Exceptions : /\ worker[m].phase = "acquiring"
                                /\ worker'[m] = [Settled(m, o) EXCEPT !.outcome = o]
    BY <1>9 DEF SettlesAcquire
  <2>2. o \in Outcomes
    BY DEF Outcomes
  <2>3. Settled(m, o) \in WorkerStates
    BY <2>2, SettledFacts
  <2>4. /\ worker'[m].phase = "done" /\ worker'[m].released /\ worker'[m].runs = 0
        /\ worker'[m].outcome = o /\ worker'[m].onEndPath = worker[m].onEndPath
        /\ worker'[m].state # "Ready" /\ (worker'[m].state = "Exception" <=> ~Ignored(m, o))
        /\ worker'[m].exception = IF ~Ignored(m, o) THEN o ELSE "none"
    BY <2>1, <2>2, <2>3, SettledFacts DEF WorkerStates
  <2> QED BY <1>1, <1>2, <2>1, <2>4 DEF Exceptions
<1>10. CASE SettlesRun(m)
  BY <1>1, <1>2, <1>10, SettledFacts DEF SettlesRun, WorkerStates
<1>11. CASE GivesUp(m)
  BY <1>1, <1>2, <1>11 DEF GivesUp, WorkerStates
<1> QED BY <1>3, <1>4, <1>5, <1>6, <1>7, <1>8, <1>9, <1>10, <1>11 DEF Move, Works

-----------------------------------------------------------------------------
(* Every step of the threads is a move of each worker, and keeps the types. *)
LEMMA StartedMove ==
  ASSUME Types, NEW m \in Modules, NEW b \in BOOLEAN, worker'[m] = Started(m, b)
  PROVE  Works(m) /\ worker'[m].phase # "idle"
<1>1. worker[m] \in WorkerStates
  BY DEF Types
<1>2. CASE worker[m].phase # "idle"
  BY <1>2 DEF Started, Works
<1>3. CASE worker[m].phase = "idle"
  <2>1. PICK next \in {"selecting", "prefetching"} :
           worker'[m] = [worker[m] EXCEPT !.phase = next, !.onEndPath = b]
    BY <1>3 DEF Started
  <2>2. worker'[m].phase = next
    BY <1>1, <2>1 DEF WorkerStates
  <2> QED BY <1>3, <2>1, <2>2 DEF Begins, Works
<1> QED BY <1>2, <1>3

(* A path starts its current worker and waits for it.                      *)
LEMMA RunNextWorkerFacts ==
  ASSUME Types, NEW p \in Paths, RunNextWorker(p)
  PROVE  LET m == Current(p)
         IN  /\ UNCHANGED <<schedule, status, skipping, product, trig, helper, count>>
             /\ path[p].phase \in {"unstarted", "next"}
             /\ path' = [path EXCEPT ![p].phase = "waiting"] /\ path' \in [Paths -> PathStates]
             /\ path'[p].phase = "waiting" /\ path'[p].at = path[p].at
             /\ path'[p].continues = path[p].continues /\ path'[p].exception = path[p].exception
             /\ \A q \in Paths : q # p => path'[q] = path[q]
             /\ m \in Modules /\ worker' = [worker EXCEPT ![m] = Started(m, p \in EndPaths)]
             /\ Works(m) /\ worker'[m].phase # "idle"
             /\ \A w \in Modules : w # m => worker'[w] = worker[w]
<1> DEFINE m == Current(p)
<1>1. UNCHANGED <<schedule, status, skipping, product, trig, helper, count>>
  BY DEF RunNextWorker, deleteVars
<1>2. path[p].phase \in {"unstarted", "next"} /\ path' = [path EXCEPT ![p].phase = "waiting"]
  BY DEF RunNextWorker
<1>3. /\ path' \in [Paths -> PathStates]
      /\ path'[p].phase = "waiting" /\ path'[p].at = path[p].at
      /\ path'[p].continues = path[p].continues /\ path'[p].exception = path[p].exception
      /\ \A q \in Paths : q # p => path'[q] = path[q]
  BY <1>2 DEF Types, PathStates
<1>4. m \in Modules
  BY CurrentFacts
<1>5. worker' = [worker EXCEPT ![m] = Started(m, p \in EndPaths)]
  BY DEF RunNextWorker
<1>6. /\ worker'[m] = Started(m, p \in EndPaths)
      /\ \A w \in Modules : w # m => worker'[w] = worker[w]
  BY <1>4, <1>5 DEF Types
<1>7. Works(m) /\ worker'[m].phase # "idle"
  <2>1. (p \in EndPaths) \in BOOLEAN
    OBVIOUS
  <2> HIDE DEF m
  <2> QED BY <1>4, <1>6, <2>1, StartedMove, Zenon
<1> QED BY <1>1, <1>2, <1>3, <1>4, <1>5, <1>6, <1>7

(* A step that changes one worker ...                                      *)
OneMove(m) == /\ Works(m)
              /\ worker' = [worker EXCEPT ![m] = worker'[m]]
              /\ \A w \in Modules : w # m => worker'[w] = worker[w]

(* ... and nothing else.                                                   *)
OnlyMove(m) == OneMove(m) /\ UNCHANGED <<schedule, status, skipping, path, product, trig, helper, count>>

(* An action of one worker that gives it a new state moves only that one.  *)
LEMMA ReplaceWorker ==
  ASSUME Types, NEW m \in Modules, NEW w, worker' = [worker EXCEPT ![m] = w],
         worker'[m] = w => Works(m)
  PROVE  worker'[m] = w /\ OneMove(m)
  BY DEF Types, OneMove

(* An event that is not selected passes, ...                               *)
LEMMA SelectEventFacts ==
  ASSUME Types, NEW m \in Modules, SelectEvent(m)
  PROVE  /\ OnlyMove(m) /\ worker[m].phase = "selecting"
         /\ \/ Advances(m, "selecting", "prefetching")
            \/ worker'[m] = Settled(m, "pass")
<1>1. UNCHANGED <<schedule, status, skipping, path, product, trig, helper, count>>
  BY DEF SelectEvent, deleteVars
<1>2. PICK w : /\ worker' = [worker EXCEPT ![m] = w] /\ worker[m].phase = "selecting"
               /\ w = [worker[m] EXCEPT !.phase = "prefetching"] \/ w = Settled(m, "pass")
  BY DEF SelectEvent, Types
<1>3. "pass" \in Outcomes
  BY DEF Outcomes
<1>4. worker'[m] = w => Works(m)
  BY <1>2, <1>3 DEF Works, Advances, SettlesUnrun
<1> QED BY <1>1, <1>2, <1>4, ReplaceWorker DEF OnlyMove, Advances

(* ... one whose inputs are there runs its module or acquire(), ...        *)
LEMMA RunModuleFacts ==
  ASSUME Types, NEW m \in Modules, RunModule(m)
  PROVE  /\ OnlyMove(m) /\ InputsReleased(m) /\ InputExceptions(m) = {} /\ worker[m].phase = "waiting"
         /\ Runs(m) \/ Advances(m, "waiting", "acquiring")
<1>1. UNCHANGED <<schedule, status, skipping, path, product, trig, helper, count>>
  BY DEF RunModule, deleteVars
<1>2. worker[m].phase = "waiting" /\ InputsReleased(m) /\ InputExceptions(m) = {}
  BY DEF RunModule, InputsReleased
<1>3. PICK w : /\ worker' = [worker EXCEPT ![m] = w]
               /\ w = [worker[m] EXCEPT !.phase = "acquiring"] \/ w = RunningWorker(m)
  BY DEF RunModule, Types
<1>4. worker'[m] = w => Works(m)
  BY <1>2, <1>3 DEF Works, Advances, Runs
<1> QED BY <1>1, <1>2, <1>3, <1>4, ReplaceWorker DEF OnlyMove, Advances, Runs

(* ... one with a failed input fails, or runs without acquire(), ...       *)
LEMMA FailPrefetchFacts ==
  ASSUME Types, NEW m \in Modules, FailPrefetch(m)
  PROVE  /\ OnlyMove(m) /\ InputsReleased(m) /\ worker[m].phase = "waiting"
         /\ \E e \in InputExceptions(m) :
               /\ e \in Thrown
               /\ \/ Acquires(m) /\ Ignored(m, e) /\ Runs(m)
                  \/ ~(Acquires(m) /\ Ignored(m, e)) /\ worker'[m] = Settled(m, e)
<1>1. UNCHANGED <<schedule, status, skipping, path, product, trig, helper, count>>
  BY DEF FailPrefetch, deleteVars
<1>2. worker[m].phase = "waiting" /\ InputsReleased(m)
  BY DEF FailPrefetch, InputsReleased
<1>3. PICK e \in InputExceptions(m) :
         worker' = [worker EXCEPT ![m] = IF Acquires(m) /\ Ignored(m, e)
                                           THEN RunningWorker(m) ELSE Settled(m, e)]
  BY DEF FailPrefetch
<1>4. e \in Thrown
  <2>1. PICK d \in Items(m) : e = product[d].exception
    BY DEF InputExceptions
  <2>2. e # "none"
    BY DEF InputExceptions
  <2>3. d \in Products
    BY <2>1, ScheduleFacts DEF Items, Types
  <2>4. product[d].exception \in Failures
    BY <2>3 DEF Types, ProductStates
  <2> QED BY <2>1, <2>2, <2>4 DEF Failures
<1>5. e \in Outcomes
  BY <1>4 DEF Outcomes, Thrown
<1>6. PICK w : w = IF Acquires(m) /\ Ignored(m, e) THEN RunningWorker(m) ELSE Settled(m, e)
  OBVIOUS
<1>7. worker' = [worker EXCEPT ![m] = w]
  BY <1>3, <1>6
<1>8. worker'[m] = w => Works(m)
  BY <1>2, <1>5, <1>6 DEF Works, Runs, SettlesUnrun
<1>9. worker'[m] = w /\ OneMove(m)
  BY <1>7, <1>8, ReplaceWorker
<1> QED BY <1>1, <1>2, <1>4, <1>6, <1>9 DEF OnlyMove, Runs

(* ... and acquire() is followed by produce() unless it or its work fails. *)
LEMMA AcquireReturnsFacts ==
  ASSUME Types, NEW m \in Modules, AcquireReturns(m)
  PROVE  /\ OnlyMove(m) /\ worker[m].phase = "acquiring"
         /\ Runs(m) \/ SettlesAcquire(m)
<1>1. UNCHANGED <<schedule, status, skipping, path, product, trig, helper, count>>
  BY DEF AcquireReturns, deleteVars
<1>2. worker[m].phase = "acquiring"
  BY DEF AcquireReturns
<1>3. PICK o \in {"pass"} \cup (schedule.outcomes[m] \cap Exceptions) :
         \/ worker' = [worker EXCEPT ![m] = RunningWorker(m)]
         \/ o # "pass" /\ worker' = [worker EXCEPT ![m] = [Settled(m, o) EXCEPT !.outcome = o]]
  BY DEF AcquireReturns
<1>4. PICK w : /\ w = RunningWorker(m) \/ (o # "pass" /\ w = [Settled(m, o) EXCEPT !.outcome = o])
               /\ worker' = [worker EXCEPT ![m] = w]
  BY <1>3
<1>5. worker' = [worker EXCEPT ![m] = w]
  BY <1>4
<1>6. worker'[m] = w => Runs(m) \/ SettlesAcquire(m)
  BY <1>2, <1>4 DEF Runs, SettlesAcquire
<1>7. worker'[m] = w /\ OneMove(m)
  BY <1>5, <1>6, ReplaceWorker DEF Works
<1> QED BY <1>1, <1>2, <1>6, <1>7 DEF OnlyMove

(* A module that returns puts its product, unless that has been put.       *)
LEMMA ModuleReturnsFacts ==
  ASSUME Types, NEW m \in Modules, ModuleReturns(m)
  PROVE  /\ OneMove(m) /\ UNCHANGED <<schedule, status, skipping, path, trig, helper, count>>
         /\ worker[m].phase = "running" /\ worker'[m].phase = "returned"
         /\ \/ worker'[m].outcome \in Exceptions /\ product' = product
            \/ /\ worker'[m].outcome \in Outcomes \ Exceptions /\ product[m].status = "unset"
               /\ product' = [product EXCEPT ![m].status = "set",
                                             ![m].requested = @ \/ m \in Scheduled,
                                             ![m].released = @ \/ (m \in Scheduled /\ ~product[m].requested)]
<1>1. UNCHANGED <<schedule, status, skipping, path, trig, helper, count>>
  BY DEF ModuleReturns, deleteVars
<1>2. PICK o \in schedule.outcomes[m] :
        LET puts == o \notin Exceptions
            fails == puts /\ product[m].status # "unset"
            announces == m \in Scheduled /\ ~product[m].requested
        IN  /\ worker[m].phase = "running"
            /\ worker' = [worker EXCEPT ![m].phase = "returned",
                                        ![m].outcome = IF fails THEN "Rethrow" ELSE o]
            /\ product' = IF puts /\ ~fails
                            THEN [product EXCEPT ![m].status = "set",
                                                 ![m].requested = @ \/ m \in Scheduled,
                                                 ![m].released = @ \/ announces]
                            ELSE product
  BY DEF ModuleReturns
<1>3. o \in Outcomes
  BY ScheduleFacts DEF Types
<1>4. PICK x \in Outcomes : x = IF o \notin Exceptions /\ product[m].status # "unset" THEN "Rethrow" ELSE o
  BY <1>3 DEF Outcomes, Exceptions
<1>5. worker' = [worker EXCEPT ![m] = [worker[m] EXCEPT !.phase = "returned", !.outcome = x]]
  BY <1>2, <1>4 DEF Types
<1>6. /\ worker'[m] = [worker[m] EXCEPT !.phase = "returned", !.outcome = x]
      /\ OneMove(m)
  BY <1>2, <1>5, ReplaceWorker DEF Works, Returns
<1>7. worker'[m].phase = "returned" /\ worker'[m].outcome = x
  BY <1>6 DEF Types, WorkerStates
<1>8. CASE o \in Exceptions \/ product[m].status # "unset"
  BY <1>1, <1>2, <1>4, <1>6, <1>7, <1>8 DEF Exceptions
<1>9. CASE o \notin Exceptions /\ product[m].status = "unset"
  BY <1>1, <1>2, <1>4, <1>6, <1>7, <1>9
<1> QED BY <1>8, <1>9

(* When a module is done its helper deletes what it was the last to read.  *)
LEMMA FinishModuleFacts ==
  ASSUME Types, NEW m \in Modules, FinishModule(m)
  PROVE  /\ UNCHANGED <<schedule, status, skipping, path, trig>>
         /\ worker[m].phase = "returned" /\ worker'[m] = Settled(m, worker[m].outcome)
         /\ OneMove(m)
         /\ helper' = [helper EXCEPT ![m] = 0] /\ count' = CountsAfter({m})
         /\ product' = Delete({m}, product)
<1>1. /\ UNCHANGED <<schedule, status, skipping, path, trig>>
      /\ helper' = [helper EXCEPT ![m] = 0] /\ count' = CountsAfter({m})
      /\ product' = Delete({m}, product)
  BY DEF FinishModule
<1>2. worker[m].phase = "returned" /\ worker' = [worker EXCEPT ![m] = Settled(m, worker[m].outcome)]
  BY DEF FinishModule
<1>3. worker'[m] = Settled(m, worker[m].outcome) /\ OneMove(m)
  BY <1>2, ReplaceWorker DEF Works, SettlesRun
<1> QED BY <1>1, <1>2, <1>3

(* A worker that fetches its inputs waits, and starts the modules that are *)
(* on no path and were not asked before.                                   *)
Asked(m) == {d \in Items(m) : ~product[d].requested} \ Scheduled

(* A prefetch asks for all inputs and starts those that nobody has.        *)
LEMMA PrefetchFacts ==
  ASSUME Types, NEW m \in Modules, Prefetch(m)
  PROVE  /\ UNCHANGED <<schedule, status, skipping, path, trig, helper, count>>
         /\ product' = [d \in Products |-> [product[d] EXCEPT !.requested = @ \/ d \in Items(m)]]
         /\ Advances(m, "prefetching", "waiting")
         /\ \A w \in Modules : w # m => worker'[w] = IF w \in Asked(m) THEN Started(w, worker[m].onEndPath)
                                                     ELSE worker[w]
         /\ worker' = [w \in Modules |-> worker'[w]]
         /\ \A w \in Modules : Works(w)
<1>1. UNCHANGED <<schedule, status, skipping, path, trig, helper, count>>
  BY DEF Prefetch, deleteVars
<1>2. product' = [d \in Products |-> [product[d] EXCEPT !.requested = @ \/ d \in Items(m)]]
  BY DEF Prefetch
<1>3. worker[m].phase = "prefetching"
  BY DEF Prefetch
<1>4. worker' = [w \in Modules |-> IF w = m THEN [worker[m] EXCEPT !.phase = "waiting"]
                                   ELSE IF w \in Asked(m) THEN Started(w, worker[m].onEndPath)
                                   ELSE worker[w]]
  BY DEF Prefetch, Asked
<1>5. Advances(m, "prefetching", "waiting") /\ worker' = [w \in Modules |-> worker'[w]]
  BY <1>3, <1>4 DEF Advances
<1>6. \A w \in Modules : w # m => worker'[w] = IF w \in Asked(m) THEN Started(w, worker[m].onEndPath)
                                              ELSE worker[w]
  BY <1>4
<1>7. worker[m].onEndPath \in BOOLEAN
  BY DEF Types, WorkerStates
<1>8. ASSUME NEW w \in Modules PROVE Works(w)
  <2>1. CASE w = m
    BY <1>5, <2>1 DEF Works
  <2>2. CASE w # m /\ w \in Asked(m)
    BY <1>6, <1>7, <2>2, StartedMove
  <2>3. CASE w # m /\ w \notin Asked(m)
    BY <1>6, <2>3 DEF Works
  <2> QED BY <2>1, <2>2, <2>3
<1> QED BY <1>1, <1>2, <1>5, <1>6, <1>8

(* A path that learns that its worker is done goes on or is left.          *)
Advance(p) == /\ path[p].at < Len(schedule.paths[p])
              /\ path'[p].phase = "next" /\ path'[p].at = path[p].at + 1
              /\ path'[p].continues = path[p].continues /\ path'[p].exception = path[p].exception

Leave(p, e) == /\ path'[p].phase = "leaving" /\ path'[p].at = path[p].at
               /\ path'[p].exception = IF e = "FailPath" THEN "none" ELSE e

(* A path learns of its worker: it goes on, or it is left.                 *)
LEMMA WorkerFinishedFacts ==
  ASSUME Types, NEW p \in Paths, WorkerFinished(p)
  PROVE  LET m == Current(p)
             e == worker[m].exception
             continues == Continues(p, e) /\ ~(p \in Ordinary /\ skipping')
         IN  /\ UNCHANGED <<schedule, status, product, trig, helper, count>>
             /\ path[p].phase = "waiting" /\ worker[m].released /\ m \in Modules /\ e \in Failures
             /\ skipping' \in BOOLEAN /\ (skipping => skipping')
             /\ path' \in [Paths -> PathStates]
             /\ \A q \in Paths : q # p => path'[q] = path[q]
             /\ \/ continues /\ Advance(p)
                \/ /\ ~(continues /\ path[p].at < Len(schedule.paths[p]))
                   /\ Leave(p, e) /\ (path'[p].continues <=> continues)
             /\ worker' = IF e = "FailPath" THEN [worker EXCEPT ![m].left = @ - 1] ELSE worker
             /\ \A w \in Modules : Move(w)
<1> DEFINE m == Current(p)
           e == worker[m].exception
           skip == skipping \/ (e = "SkipEvent" /\ p \in Ordinary)
           continues == Continues(p, e) /\ ~(p \in Ordinary /\ skip)
           more == continues /\ path[p].at < Len(schedule.paths[p])
<1>1. UNCHANGED <<schedule, status, product, trig, helper, count>>
  BY DEF WorkerFinished, deleteVars
<1>2. m \in Modules /\ path[p] \in PathStates
  BY CurrentFacts
<1>3. worker[m] \in WorkerStates /\ e \in Failures
  BY <1>2 DEF Types, WorkerStates
<1>4. path[p].phase = "waiting" /\ worker[m].released /\ skipping' = skip
  BY DEF WorkerFinished
<1>5. skipping' \in BOOLEAN /\ (skipping => skipping') /\ (skipping' <=> skip)
  BY <1>4 DEF Types
<1>6. path' = [path EXCEPT ![p] = IF more THEN [@ EXCEPT !.phase = "next", !.at = path[p].at + 1]
                                  ELSE [@ EXCEPT !.phase = "leaving", !.continues = continues,
                                                 !.exception = IF e = "FailPath" THEN "none" ELSE e]]
  BY DEF WorkerFinished
<1>7. continues \in BOOLEAN
  OBVIOUS
<1>8. worker' = IF e = "FailPath" THEN [worker EXCEPT ![m].left = @ - 1] ELSE worker
  BY DEF WorkerFinished
<1>9. path[p].at \in Nat \ {0} /\ path[p].at + 1 \in Nat \ {0}
  BY <1>2 DEF PathStates
<1>10. (IF e = "FailPath" THEN "none" ELSE e) \in Failures
  BY <1>3 DEF Failures
<1>11. path \in [Paths -> PathStates]
  BY DEF Types
<1>12. /\ path' \in [Paths -> PathStates]
       /\ \A q \in Paths : q # p => path'[q] = path[q]
       /\ \/ continues /\ Advance(p)
          \/ ~more /\ Leave(p, e) /\ (path'[p].continues <=> continues)
  <2>0. more => continues /\ path[p].at < Len(schedule.paths[p])
    OBVIOUS
  <2> HIDE DEF m, e, continues, more
  <2>1. CASE more
    <3>1. path' = [path EXCEPT ![p] = [path[p] EXCEPT !.phase = "next", !.at = path[p].at + 1]]
      BY <1>6, <2>1
    <3> QED BY <1>2, <1>9, <1>11, <2>0, <2>1, <3>1 DEF PathStates, Advance
  <2>2. CASE ~more
    <3>1. path' = [path EXCEPT ![p] = [path[p] EXCEPT !.phase = "leaving", !.continues = continues,
                                          !.exception = IF e = "FailPath" THEN "none" ELSE e]]
      BY <1>6, <2>2
    <3> QED BY <1>2, <1>7, <1>10, <1>11, <2>2, <3>1 DEF PathStates, Leave
  <2> QED BY <2>1, <2>2
<1>13. continues <=> Continues(p, e) /\ ~(p \in Ordinary /\ skipping')
  BY <1>5
<1>14. ASSUME NEW w \in Modules PROVE Move(w)
  <2>1. CASE e = "FailPath" /\ w = m
    <3>1. worker[m].left - 1 \in Int /\ worker[m].released \in BOOLEAN
      BY <1>3 DEF WorkerStates
    <3>2. worker'[w] = [worker[w] EXCEPT !.left = worker[w].left - 1, !.released = worker[w].released]
      BY <1>2, <1>3, <1>8, <2>1 DEF Types, WorkerStates
    <3> QED BY <2>1, <3>1, <3>2 DEF Move, Works, GivesUp
  <2>2. CASE ~(e = "FailPath" /\ w = m)
    <3>1. worker'[w] = worker[w]
      BY <1>2, <1>8, <2>2 DEF Types
    <3> QED BY <3>1 DEF Move, Works
  <2> QED BY <2>1, <2>2
<1> HIDE DEF m, e, skip, continues, more
<1>15. \/ /\ Continues(p, e) /\ ~(p \in Ordinary /\ skipping')
          /\ Advance(p)
       \/ /\ ~((Continues(p, e) /\ ~(p \in Ordinary /\ skipping')) /\ path[p].at < Len(schedule.paths[p]))
          /\ Leave(p, e) /\ (path'[p].continues <=> (Continues(p, e) /\ ~(p \in Ordinary /\ skipping')))
  BY <1>12, <1>13 DEF more
<1> QED BY <1>1, <1>2, <1>3, <1>4, <1>5, <1>8, <1>12, <1>14, <1>15 DEF m, e

(* A path that ends gives up what is behind the entry at which it was left, *)
(* and tells every helper on it.                                           *)
Behind(p, m) == IF path[p].continues THEN {} ELSE {i \in PlacesOn(p, m) : i > path[p].at}
OnIt(p, m) == IF path[p].continues THEN {} ELSE PlacesOn(p, m)
PathReaders(p) == {m \in Modules : Reads(m) # {} /\ GivenUp(m, Cardinality(OnIt(p, m)))}

(* The entries of a path are finitely many.                                *)
LEMMA BehindFacts ==
  ASSUME Types, NEW p \in Paths, NEW m \in Modules
  PROVE  /\ IsFiniteSet(Behind(p, m)) /\ Cardinality(Behind(p, m)) \in Nat
         /\ IsFiniteSet(OnIt(p, m)) /\ Cardinality(OnIt(p, m)) \in Nat
         /\ Behind(p, m) \subseteq 1..Len(schedule.paths[p]) /\ OnIt(p, m) \subseteq 1..Len(schedule.paths[p])
         /\ Cardinality({}) = 0
<1>1. Len(schedule.paths[p]) \in Nat /\ DOMAIN schedule.paths[p] = 1..Len(schedule.paths[p])
  BY ScheduleFacts DEF Types
<1>2. IsFiniteSet(1..Len(schedule.paths[p]))
  BY <1>1, FS_Interval
<1>3. Behind(p, m) \subseteq 1..Len(schedule.paths[p]) /\ OnIt(p, m) \subseteq 1..Len(schedule.paths[p])
  BY <1>1 DEF Behind, OnIt, PlacesOn
<1>4. IsFiniteSet(Behind(p, m)) /\ IsFiniteSet(OnIt(p, m))
  BY <1>2, <1>3, FS_Subset
<1>5. Cardinality(Behind(p, m)) \in Nat /\ Cardinality(OnIt(p, m)) \in Nat
  BY <1>4, FS_CardinalityType
<1> QED BY <1>3, <1>4, <1>5, FS_EmptySet

(* A path that is left gives up its workers and its helpers.               *)
LEMMA FinishPathFacts ==
  ASSUME Types, NEW p \in Paths, FinishPath(p)
  PROVE  /\ UNCHANGED <<schedule, status, skipping, trig>>
         /\ path[p].phase = "leaving" /\ path' \in [Paths -> PathStates]
         /\ path'[p].phase = "done" /\ path'[p].at = path[p].at
         /\ path'[p].continues = path[p].continues /\ path'[p].exception = path[p].exception
         /\ \A q \in Paths : q # p => path'[q] = path[q]
         /\ worker' = [m \in Modules |-> worker'[m]]
         /\ \A m \in Modules :
               /\ GivesUp(m)
               /\ worker'[m] = [worker[m] EXCEPT
                     !.left = worker[m].left - Cardinality(Behind(p, m)),
                     !.released = worker[m].released \/ NoPathLeft(m, Cardinality(Behind(p, m)))]
         /\ helper' = [m \in Modules |-> IF helper[m] > Cardinality(OnIt(p, m))
                                           THEN helper[m] - Cardinality(OnIt(p, m)) ELSE 0]
         /\ count' = CountsAfter(PathReaders(p)) /\ product' = Delete(PathReaders(p), product)
<1> DEFINE early == ~path[p].continues
           skipped(m) == IF early THEN Cardinality({i \in PlacesOn(p, m) : i > path[p].at}) ELSE 0
           given(m) == IF early THEN Cardinality(PlacesOn(p, m)) ELSE 0
           readers == {m \in Modules : Reads(m) # {} /\ GivenUp(m, given(m))}
<1>1. UNCHANGED <<schedule, status, skipping, trig>>
  BY DEF FinishPath
<1>2. path[p].phase = "leaving" /\ path' = [path EXCEPT ![p].phase = "done"]
  BY DEF FinishPath
<1>3. /\ path' \in [Paths -> PathStates]
      /\ path'[p].phase = "done" /\ path'[p].at = path[p].at
      /\ path'[p].continues = path[p].continues /\ path'[p].exception = path[p].exception
      /\ \A q \in Paths : q # p => path'[q] = path[q]
  BY <1>2 DEF Types, PathStates
<1>4. \A m \in Modules : skipped(m) = Cardinality(Behind(p, m)) /\ given(m) = Cardinality(OnIt(p, m))
  BY BehindFacts DEF Behind, OnIt
<1>5. worker' = [m \in Modules |-> [worker[m] EXCEPT !.left = @ - skipped(m),
                                       !.released = @ \/ NoPathLeft(m, skipped(m))]]
  BY DEF FinishPath
<1>6. helper' = [m \in Modules |-> IF helper[m] > given(m) THEN helper[m] - given(m) ELSE 0]
  BY DEF FinishPath
<1>7. count' = CountsAfter(readers) /\ product' = Delete(readers, product)
  BY DEF FinishPath
<1>8. readers = PathReaders(p)
  BY <1>4 DEF PathReaders
<1> HIDE DEF skipped, given, readers
<1>9. ASSUME NEW m \in Modules
      PROVE  /\ GivesUp(m)
             /\ worker'[m] = [worker[m] EXCEPT
                     !.left = worker[m].left - Cardinality(Behind(p, m)),
                     !.released = worker[m].released \/ NoPathLeft(m, Cardinality(Behind(p, m)))]
  <2>1. PICK n \in Nat : n = Cardinality(Behind(p, m))
    BY BehindFacts
  <2>2. worker[m] \in WorkerStates
    BY DEF Types
  <2>3. worker'[m] = [worker[m] EXCEPT !.left = worker[m].left - n,
                                       !.released = worker[m].released \/ NoPathLeft(m, n)]
    BY <1>4, <1>5, <2>1, <2>2 DEF WorkerStates
  <2>4. worker[m].left - n \in Int /\ (worker[m].released \/ NoPathLeft(m, n)) \in BOOLEAN
    BY <2>2 DEF WorkerStates
  <2>5. PICK l, r : l = worker[m].left - n /\ r = (worker[m].released \/ NoPathLeft(m, n))
    OBVIOUS
  <2>6. l \in Int /\ r \in BOOLEAN /\ (worker[m].released => r)
    BY <2>4, <2>5
  <2>7. worker'[m] = [worker[m] EXCEPT !.left = l, !.released = r]
    BY <2>3, <2>5
  <2>8. GivesUp(m)
    BY <2>6, <2>7 DEF GivesUp
  <2> QED BY <2>1, <2>3, <2>8
<1>10. worker' = [m \in Modules |-> worker'[m]]
  BY <1>5
<1>11. helper' = [m \in Modules |-> IF helper[m] > Cardinality(OnIt(p, m))
                                     THEN helper[m] - Cardinality(OnIt(p, m)) ELSE 0]
  BY <1>4, <1>6
<1> QED BY <1>1, <1>2, <1>3, <1>7, <1>8, <1>9, <1>10, <1>11

(* Deleting keeps the types.                                               *)
LEMMA DeleteTypes ==
  ASSUME Types, NEW R \in SUBSET Modules
  PROVE  /\ CountsAfter(R) \in [Modules -> Int]
         /\ Delete(R, product) \in [Products -> ProductStates]
<1>1. \A d \in Modules : Cardinality(R \cap Readers(d)) \in Nat
  <2> SUFFICES ASSUME NEW d \in Modules PROVE Cardinality(R \cap Readers(d)) \in Nat
    OBVIOUS
  <2>1. IsFiniteSet(R \cap Readers(d))
    BY ModulesAssumption, FS_Subset
  <2> QED BY <2>1, FS_CardinalityType
<1>2. CountsAfter(R) \in [Modules -> Int]
  <2>1. \A d \in Modules : count[d] \in Int
    BY DEF Types
  <2>2. \A d \in Modules : count[d] - Cardinality(R \cap Readers(d)) \in Int
    BY <1>1, <2>1
  <2> QED BY <2>2, Zenon DEF CountsAfter
<1>3. \A d \in Products : [product[d] EXCEPT !.status = "deleted", !.requested = FALSE, !.released = FALSE,
                                            !.exception = "none"] \in ProductStates
  BY DEF Types, ProductStates, Failures
<1>4. Delete(R, product) \in [Products -> ProductStates]
  BY <1>3 DEF Delete, Types
<1> QED BY <1>2, <1>4

(* The ordinary paths have ended.                                          *)
LEMMA FinishedPathsFacts ==
  ASSUME Types, FinishedPaths
  PROVE  /\ UNCHANGED <<schedule, status, skipping, path, worker, helper, count>>
         /\ ~trig.done /\ \A p \in Ordinary : path[p].phase = "done"
         /\ \A p \in Paths : path[p].phase # "unstarted"
         /\ trig' \in [done : BOOLEAN, exception : Failures] /\ trig'.done
         /\ \E e \in Failures :
               /\ e \in PathExceptions(Ordinary) \/ (PathExceptions(Ordinary) = {} /\ e = "none")
               /\ trig'.exception = IF e = "SkipEvent" THEN "none" ELSE e
         /\ product' \in [Products -> ProductStates]
         /\ product' = IF Ordinary = {} THEN product
                       ELSE [product EXCEPT ![Results] = [@ EXCEPT !.status = "set", !.requested = TRUE,
                                                                   !.released = TRUE]]
<1>1. /\ UNCHANGED <<schedule, status, skipping, path, worker, helper, count>>
      /\ ~trig.done /\ \A p \in Ordinary : path[p].phase = "done"
      /\ \A p \in Paths : path[p].phase # "unstarted"
  BY DEF FinishedPaths, deleteVars
<1>2. PICK e \in IF PathExceptions(Ordinary) = {} THEN {"none"} ELSE PathExceptions(Ordinary) :
         trig' = [done |-> TRUE, exception |-> IF e = "SkipEvent" THEN "none" ELSE e]
  BY DEF FinishedPaths
<1>3. e \in PathExceptions(Ordinary) \/ (PathExceptions(Ordinary) = {} /\ e = "none")
  BY <1>2
<1>4. e \in Failures
  <2>1. Ordinary \subseteq Paths
    BY ScheduleFacts DEF Types
  <2>2. PathExceptions(Ordinary) \subseteq Failures
    BY <2>1 DEF PathExceptions, Types, PathStates
  <2> QED BY <1>3, <2>2 DEF Failures
<1>5. /\ trig' \in [done : BOOLEAN, exception : Failures] /\ trig'.done
      /\ trig'.exception = IF e = "SkipEvent" THEN "none" ELSE e
  BY <1>2, <1>4 DEF Failures
<1>6. product' = IF Ordinary = {} THEN product
                 ELSE [product EXCEPT ![Results] = [@ EXCEPT !.status = "set", !.requested = TRUE,
                                                             !.released = TRUE]]
  BY DEF FinishedPaths
<1>7. product' \in [Products -> ProductStates]
  <2>1. product \in [Products -> ProductStates]
    BY DEF Types
  <2>2. [product[Results] EXCEPT !.status = "set", !.requested = TRUE, !.released = TRUE] \in ProductStates
    BY <2>1 DEF ProductStates, Products
  <2> QED BY <1>6, <2>1, <2>2
<1> QED BY <1>1, <1>3, <1>4, <1>5, <1>6, <1>7

(* The event is over.                                                      *)
LEMMA FinishEventFacts ==
  ASSUME Types, FinishEvent
  PROVE  /\ UNCHANGED <<schedule, skipping, path, worker, product, trig>>
         /\ trig.done /\ EndPathsDone
         /\ \/ status' = "finished" /\ helper' = Helpers /\ count' = Counts
            \/ status' = "failed" /\ UNCHANGED <<helper, count>>
         /\ status' = "finished" <=> PathExceptions(EndPaths) \cup ({trig.exception} \ {"none"}) = {}
  BY DEF FinishEvent, eventVars, deleteVars

-----------------------------------------------------------------------------
(* What a step may do to a path: it waits for its current worker, ...      *)
Waits(p) == /\ path[p].phase \in {"unstarted", "next"}
            /\ path'[p].phase = "waiting" /\ path'[p].at = path[p].at
            /\ path'[p].continues = path[p].continues /\ path'[p].exception = path[p].exception
            /\ worker'[Current(p)].phase # "idle"

(* ... learns that it is done, ...                                         *)
Learns(p) == LET e == worker[Current(p)].exception
                 continues == Continues(p, e) /\ ~(p \in Ordinary /\ skipping')
             IN  /\ path[p].phase = "waiting" /\ worker[Current(p)].released
                 /\ \/ continues /\ Advance(p)
                    \/ /\ ~(continues /\ path[p].at < Len(schedule.paths[p]))
                       /\ Leave(p, e) /\ (path'[p].continues <=> continues)

(* ... or ends.                                                            *)
Ends(p) == /\ path[p].phase = "leaving" /\ path'[p].phase = "done" /\ path'[p].at = path[p].at
           /\ path'[p].continues = path[p].continues /\ path'[p].exception = path[p].exception

PathMove(p) == path'[p] = path[p] \/ Waits(p) \/ Learns(p) \/ Ends(p)

(* Every step of the threads moves the paths and the workers, ...          *)
Moved == /\ schedule' = schedule /\ skipping' \in BOOLEAN /\ (skipping => skipping')
         /\ path' \in [Paths -> PathStates] /\ \A p \in Paths : PathMove(p)
         /\ worker' = [m \in Modules |-> worker'[m]] /\ \A m \in Modules : Move(m)

(* ... and keeps the types of the rest.                                    *)
Stored == /\ product' \in [Products -> ProductStates] /\ trig' \in [done : BOOLEAN, exception : Failures]
          /\ helper' \in [Modules -> Nat] /\ count' \in [Modules -> Int]

(* A step that moves one worker only is one of those moves.                *)
LEMMA OneMoveMoves ==
  ASSUME Types, NEW m \in Modules, OneMove(m), UNCHANGED <<schedule, skipping, path>>
  PROVE  Moved
<1>1. worker \in [Modules -> WorkerStates] /\ path \in [Paths -> PathStates] /\ skipping \in BOOLEAN
  BY DEF Types
<1>2. worker' = [w \in Modules |-> worker'[w]]
  BY <1>1 DEF OneMove
<1>3. \A w \in Modules : Move(w)
  BY DEF OneMove, Move, Works
<1>4. \A p \in Paths : PathMove(p)
  BY DEF PathMove
<1> QED BY <1>1, <1>2, <1>3, <1>4 DEF Moved

(* What is left alone keeps its type.                                      *)
LEMMA StoredStays ==
  ASSUME Types, UNCHANGED <<product, trig, helper, count>>
  PROVE  Stored
  BY DEF Types, Stored

(* The first helpers and counts have their types.                          *)
LEMMA CountTypes ==
  ASSUME Types
  PROVE  Helpers \in [Modules -> Nat] /\ Counts \in [Modules -> Int]
<1>1. \A m \in Modules : Cardinality(Places(m)) \in Nat
  BY PlacesFinite DEF Types
<1>2. ASSUME NEW d \in Modules PROVE Cardinality(Readers(d)) \in Int
  <2>1. IsFiniteSet(Readers(d))
    BY ModulesAssumption, FS_Subset DEF Readers
  <2> QED BY <2>1, FS_CardinalityType
<1>3. Helpers \in [Modules -> Nat]
  BY <1>1 DEF Helpers
<1>4. Counts \in [Modules -> Int]
  BY <1>2 DEF Counts
<1> QED BY <1>3, <1>4

(* The actions of a path are such moves, ...                               *)
LEMMA PathSteps ==
  ASSUME Types, NEW p \in Paths, PathStep(p)
  PROVE  Moved /\ Stored /\ status' = status
<1>1. CASE RunNextWorker(p)
  <2>1. OneMove(Current(p)) /\ Current(p) \in Modules
    BY <1>1, RunNextWorkerFacts DEF OneMove, Types
  <2>2. worker' = [w \in Modules |-> worker'[w]] /\ \A w \in Modules : Move(w)
    BY <2>1 DEF OneMove, Move, Works, Types
  <2>3. \A q \in Paths : PathMove(q)
    BY <1>1, RunNextWorkerFacts DEF PathMove, Waits
  <2>4. Stored /\ status' = status
    BY <1>1, RunNextWorkerFacts, StoredStays
  <2>5. schedule' = schedule /\ skipping' = skipping /\ path' \in [Paths -> PathStates] /\ skipping \in BOOLEAN
    BY <1>1, RunNextWorkerFacts DEF Types
  <2> QED BY <2>2, <2>3, <2>4, <2>5 DEF Moved
<1>2. CASE WorkerFinished(p)
  <2>1. worker' = [w \in Modules |-> worker'[w]]
    BY <1>2, WorkerFinishedFacts DEF Types
  <2>2. Learns(p)
    BY <1>2, WorkerFinishedFacts DEF Learns
  <2>3. \A q \in Paths : PathMove(q)
    BY <1>2, <2>2, WorkerFinishedFacts DEF PathMove
  <2>4. Stored /\ status' = status
    BY <1>2, WorkerFinishedFacts, StoredStays
  <2>5. schedule' = schedule /\ skipping' \in BOOLEAN /\ (skipping => skipping') /\ path' \in [Paths -> PathStates]
    BY <1>2, WorkerFinishedFacts
  <2>6. \A w \in Modules : Move(w)
    BY <1>2, WorkerFinishedFacts
  <2> QED BY <2>1, <2>3, <2>4, <2>5, <2>6 DEF Moved
<1>3. CASE FinishPath(p)
  <2>1. \A w \in Modules : Move(w)
    BY <1>3, FinishPathFacts DEF Move
  <2>2. \A q \in Paths : PathMove(q)
    BY <1>3, FinishPathFacts DEF PathMove, Ends
  <2>3. Moved /\ status' = status
    BY <1>3, <2>1, <2>2, FinishPathFacts DEF Moved, Types
  <2>4. count' \in [Modules -> Int] /\ product' \in [Products -> ProductStates]
    <3>1. PathReaders(p) \in SUBSET Modules
      BY DEF PathReaders
    <3> QED BY <1>3, <3>1, FinishPathFacts, DeleteTypes
  <2>5. helper' \in [Modules -> Nat]
    <3>1. ASSUME NEW m \in Modules
          PROVE  (IF helper[m] > Cardinality(OnIt(p, m)) THEN helper[m] - Cardinality(OnIt(p, m)) ELSE 0) \in Nat
      <4>1. \A h, c \in Nat : (IF h > c THEN h - c ELSE 0) \in Nat
        OBVIOUS
      <4>2. helper[m] \in Nat /\ Cardinality(OnIt(p, m)) \in Nat
        BY BehindFacts DEF Types
      <4> HIDE DEF OnIt
      <4> QED BY <4>1, <4>2
    <3>2. helper' = [m \in Modules |-> IF helper[m] > Cardinality(OnIt(p, m))
                                         THEN helper[m] - Cardinality(OnIt(p, m)) ELSE 0]
      BY <1>3, FinishPathFacts
    <3> QED BY <3>1, <3>2, Zenon
  <2>6. trig' \in [done : BOOLEAN, exception : Failures]
    BY <1>3, FinishPathFacts DEF Types
  <2> QED BY <2>3, <2>4, <2>5, <2>6 DEF Stored
<1> QED BY <1>1, <1>2, <1>3 DEF PathStep

(* ... those of a worker, ...                                              *)
LEMMA WorkerSteps ==
  ASSUME Types, NEW m \in Modules, WorkerStep(m)
  PROVE  Moved /\ Stored /\ UNCHANGED <<status, skipping, path, trig>>
<1>1. CASE SelectEvent(m) \/ RunModule(m) \/ FailPrefetch(m) \/ AcquireReturns(m)
  <2>1. OnlyMove(m)
    BY <1>1, SelectEventFacts, RunModuleFacts, FailPrefetchFacts, AcquireReturnsFacts
  <2> QED BY <2>1, OneMoveMoves, StoredStays DEF OnlyMove
<1>2. CASE Prefetch(m)
  <2>1. \A w \in Modules : Move(w)
    BY <1>2, PrefetchFacts DEF Move
  <2>2. \A q \in Paths : PathMove(q)
    BY <1>2, PrefetchFacts DEF PathMove
  <2>3. Moved
    BY <1>2, <2>1, <2>2, PrefetchFacts DEF Moved, Types
  <2>4. product' \in [Products -> ProductStates]
    <3>1. \A d \in Products : [product[d] EXCEPT !.requested = @ \/ d \in Items(m)] \in ProductStates
      BY DEF Types, ProductStates
    <3> QED BY <1>2, <3>1, PrefetchFacts
  <2> QED BY <1>2, <2>3, <2>4, PrefetchFacts DEF Stored, Types
<1>3. CASE Release(m)
  <2>1. UNCHANGED <<schedule, status, skipping, path, worker, trig, helper, count>>
    BY <1>3 DEF Release, deleteVars
  <2>2. worker[m].exception \in Failures /\ product[m] \in ProductStates
    BY DEF Types, WorkerStates, Products
  <2>3. [product[m] EXCEPT !.released = TRUE, !.exception = worker[m].exception] \in ProductStates
    BY <2>2 DEF ProductStates
  <2>4. product' \in [Products -> ProductStates]
    BY <1>3, <2>3 DEF Release, Types, Products
  <2>5. Moved
    BY <2>1 DEF Moved, PathMove, Move, Works, Types
  <2> QED BY <2>1, <2>4, <2>5 DEF Stored, Types
<1>4. CASE ModuleReturns(m)
  <2>1. Moved /\ UNCHANGED <<status, skipping, path, trig>>
    BY <1>4, ModuleReturnsFacts, OneMoveMoves
  <2>2. product' \in [Products -> ProductStates]
    <3>1. product \in [Products -> ProductStates] /\ m \in Products
      BY DEF Types, Products
    <3>2. [product[m] EXCEPT !.status = "set", !.requested = @ \/ m \in Scheduled,
                             !.released = @ \/ (m \in Scheduled /\ ~product[m].requested)] \in ProductStates
      BY <3>1 DEF ProductStates
    <3> QED BY <1>4, <3>1, <3>2, ModuleReturnsFacts
  <2> QED BY <1>4, <2>1, <2>2, ModuleReturnsFacts DEF Stored, Types
<1>5. CASE FinishModule(m)
  <2>1. Moved /\ UNCHANGED <<status, skipping, path, trig>>
    BY <1>5, FinishModuleFacts, OneMoveMoves
  <2>2. count' \in [Modules -> Int] /\ product' \in [Products -> ProductStates]
    <3>1. {m} \in SUBSET Modules /\ count' = CountsAfter({m}) /\ product' = Delete({m}, product)
      BY <1>5, FinishModuleFacts
    <3>2. CountsAfter({m}) \in [Modules -> Int] /\ Delete({m}, product) \in [Products -> ProductStates]
      BY <3>1, DeleteTypes, Zenon
    <3> QED BY <3>1, <3>2, Zenon
  <2>3. helper' \in [Modules -> Nat]
    <3>1. helper' = [helper EXCEPT ![m] = 0] /\ helper \in [Modules -> Nat]
      BY <1>5, FinishModuleFacts DEF Types
    <3> QED BY <3>1
  <2>4. trig' \in [done : BOOLEAN, exception : Failures]
    BY <2>1 DEF Types
  <2> QED BY <2>1, <2>2, <2>3, <2>4 DEF Stored
<1> QED BY <1>1, <1>2, <1>3, <1>4, <1>5 DEF WorkerStep

(* ... and so is every step of the threads.                                *)
LEMMA StepMoves ==
  ASSUME Types, Step
  PROVE  Moved /\ Stored /\ status' \in {"processing", "finished", "failed"}
<1>1. CASE \E p \in Paths : PathStep(p)
  BY <1>1, PathSteps DEF Step
<1>2. CASE \E m \in Modules : WorkerStep(m)
  BY <1>2, WorkerSteps DEF Step
<1>3. CASE FinishedPaths
  <2>1. Moved
    BY <1>3, FinishedPathsFacts DEF Moved, PathMove, Move, Works, Types
  <2> QED BY <1>3, <2>1, FinishedPathsFacts DEF Stored, Types, Step
<1>4. CASE FinishEvent
  <2>1. Moved
    BY <1>4, FinishEventFacts DEF Moved, PathMove, Move, Works, Types
  <2> QED BY <1>4, <2>1, FinishEventFacts, CountTypes DEF Stored, Types
<1> QED BY <1>1, <1>2, <1>3, <1>4 DEF Step

(* So a step keeps the types, and the life cycle of every worker.          *)
LEMMA StepKeepsTypes ==
  ASSUME Types, Workers, Step
  PROVE  Types' /\ Workers'
<1>1. Moved /\ Stored /\ status' \in {"processing", "finished", "failed"}
  BY StepMoves
<1>2. \A m \in Modules : worker'[m] \in WorkerStates /\ Lifecycle(m)' /\ Result(m)'
  BY <1>1, MoveFacts, MoveKeeps DEF Moved, Workers
<1>3. worker' \in [Modules -> WorkerStates]
  BY <1>1, <1>2 DEF Moved
<1>4. Paths' = Paths /\ schedule' = schedule /\ schedule' \in Schedules
  BY <1>1, ScheduleStays DEF Moved, Types
<1>5. ASSUME NEW p \in Paths PROVE path'[p].at <= Len(schedule.paths[p])
  <2>1. PathMove(p) /\ path[p].at <= Len(schedule.paths[p]) /\ path[p].at \in Nat
        /\ Len(schedule.paths[p]) \in Nat
    BY <1>1, ScheduleFacts DEF Moved, Types, PathStates
  <2> QED BY <2>1 DEF PathMove, Waits, Learns, Ends, Advance, Leave
<1>6. Types'
  BY <1>1, <1>3, <1>4, <1>5 DEF Types, Moved, Stored
<1> QED BY <1>2, <1>6 DEF Workers

-----------------------------------------------------------------------------
(* A worker that is done keeps its result.                                 *)
LEMMA DoneStays ==
  ASSUME Types, Workers, Moved, NEW m \in Modules
  PROVE  /\ worker[m].phase # "idle" => worker'[m].phase # "idle"
         /\ worker[m].phase = "done" => /\ worker'[m].phase = "done"
                                        /\ worker'[m].state = worker[m].state
                                        /\ worker'[m].exception = worker[m].exception
         /\ worker[m].outcome # "none" => worker'[m].outcome = worker[m].outcome
  BY MoveFacts DEF Moved, Workers

(* What a path has gone past stays passed.                                 *)
LEMMA OverStays ==
  ASSUME Types, Workers, Moved, NEW p \in Paths, NEW i \in 1..Len(schedule.paths[p]),
         worker[Entry(p, i).module].phase = "done"
  PROVE  (Passes(p, i)' <=> Passes(p, i)) /\ (Over(p, i)' <=> Over(p, i))
<1>1. schedule' = schedule /\ Entry(p, i)' = Entry(p, i) /\ Entry(p, i).module \in Modules
  BY ScheduleFacts DEF Moved, Types, Entry
<1>2. /\ worker'[Entry(p, i).module].phase = "done"
      /\ worker'[Entry(p, i).module].state = worker[Entry(p, i).module].state
      /\ worker'[Entry(p, i).module].exception = worker[Entry(p, i).module].exception
  BY <1>1, DoneStays
<1> QED BY <1>1, <1>2 DEF Passes, Over

(* A path goes on only past workers that have passed, and is left for a    *)
(* reason.                                                                 *)
LEMMA StepKeepsFolloweds ==
  ASSUME Types, Workers, Followeds, Lefts, Moved
  PROVE  Followeds'
<1>1. schedule' = schedule /\ Paths' = Paths /\ Ordinary' = Ordinary
  BY ScheduleStays DEF Moved
<1> SUFFICES ASSUME NEW p \in Paths PROVE Followed(p)' /\ Ended(p)'
  BY <1>1 DEF Followeds
<1>2. Followed(p) /\ Ended(p) /\ PathMove(p)
  BY DEF Followeds, Moved
<1>3. PICK m \in Modules : m = Current(p)
  BY CurrentFacts
<1>4. PICK at \in 1..Len(schedule.paths[p]) : at = path[p].at
  BY CurrentFacts
<1>5. path[p] \in PathStates /\ Len(schedule.paths[p]) \in Nat /\ Entry(p, at).module = m
  BY <1>3, <1>4, CurrentFacts, ScheduleFacts DEF Types, Current
<1>6. /\ worker[m].phase # "idle" => worker'[m].phase # "idle"
      /\ worker[m].phase = "done" =>
            /\ worker'[m].phase = "done" /\ worker'[m].exception = worker[m].exception
            /\ (Passes(p, at)' <=> Passes(p, at)) /\ (Over(p, at)' <=> Over(p, at))
  BY <1>5, DoneStays, OverStays
<1>7. \A i \in 1..(at - 1) : Over(p, i)'
  <2>1. ASSUME NEW i \in 1..(at - 1) PROVE Over(p, i)'
    <3>1. i \in 1..Len(schedule.paths[p])
      BY <1>5
    <3>2. Over(p, i)
      BY <1>2, <1>4 DEF Followed
    <3> QED BY <3>1, <3>2, OverStays DEF Over
  <2> QED BY <2>1
<1>8. path'[p].at = at => /\ Current(p)' = m
                          /\ (Passes(p, path[p].at)' <=> Passes(p, at)')
                          /\ (Over(p, path[p].at)' <=> Over(p, at)')
  BY <1>1, <1>5 DEF Current, Entry, Passes, Over
<1>9. skipping => skipping'
  BY DEF Moved
<1>10. CASE path'[p] = path[p] \/ Ends(p)
  <2>1. path'[p].at = at /\ path'[p].continues = path[p].continues /\ path'[p].exception = path[p].exception
    BY <1>4, <1>10 DEF Ends
  <2>2. path'[p].phase = path[p].phase \/ (path[p].phase = "leaving" /\ path'[p].phase = "done")
    BY <1>10 DEF Ends
  <2>3. Followed(p)'
    BY <1>2, <1>3, <1>4, <1>6, <1>7, <1>8, <2>1, <2>2 DEF Followed
  <2>4. ASSUME path'[p].phase \in {"leaving", "done"} PROVE Ended(p)'
    BY <1>1, <1>2, <1>3, <1>4, <1>6, <1>8, <1>9, <2>1, <2>2, <2>4 DEF Ended
  <2> QED BY <2>3, <2>4 DEF Ended
<1>11. CASE Waits(p)
  BY <1>2, <1>3, <1>4, <1>7, <1>8, <1>11 DEF Waits, Followed, Ended
<1>12. CASE Learns(p)
  <2>1. PICK e : e = worker[m].exception
    OBVIOUS
  <2>2. PICK go \in BOOLEAN : go <=> Continues(p, e) /\ ~(p \in Ordinary /\ skipping')
    OBVIOUS
  <2>3. /\ path[p].phase = "waiting" /\ worker[m].released
        /\ \/ go /\ Advance(p)
           \/ /\ ~(go /\ at < Len(schedule.paths[p]))
              /\ Leave(p, e) /\ (path'[p].continues <=> go)
    BY <1>3, <1>4, <1>12, <2>1, <2>2 DEF Learns
  <2>4. worker[m].phase = "done" /\ path[p].continues /\ path[p].exception = "none"
    BY <1>2, <1>3, <2>3 DEF Followed, Lefts, LeftCounts
  <2>5. /\ worker'[m].phase = "done" /\ worker'[m].exception = e
        /\ (Passes(p, at)' <=> Passes(p, at)) /\ (Over(p, at)' <=> Over(p, at))
    BY <1>6, <2>1, <2>4
  <2>6. go => Over(p, at)
    BY <1>4, <1>5, <2>1, <2>2, <2>4 DEF Continues, Over
  <2>7. CASE go /\ Advance(p)
    <3>1. path'[p].phase = "next" /\ path'[p].at = at + 1 /\ path'[p].continues /\ path'[p].exception = "none"
      BY <1>4, <2>4, <2>7 DEF Advance
    <3>2. Over(p, at)'
      BY <2>5, <2>6, <2>7
    <3>3. \A i \in 1..(path'[p].at - 1) : i = at \/ i \in 1..(at - 1)
      BY <3>1
    <3>4. \A i \in 1..(path'[p].at - 1) : Over(p, i)'
      BY <1>7, <3>2, <3>3
    <3> QED BY <3>1, <3>4 DEF Followed, Ended
  <2>8. CASE /\ ~(go /\ at < Len(schedule.paths[p]))
             /\ Leave(p, e) /\ (path'[p].continues <=> go)
    <3>1. /\ path'[p].phase = "leaving" /\ path'[p].at = at /\ (path'[p].continues <=> go)
          /\ path'[p].exception = IF e = "FailPath" THEN "none" ELSE e
      BY <1>4, <2>8 DEF Leave
    <3>2. Current(p)' = m
      BY <1>8, <3>1
    <3>3. go => at = Len(schedule.paths[p])
      BY <1>5, <2>8
    <3>4. ~go => e # "none" \/ ~Passes(p, at) \/ (p \in Ordinary /\ skipping')
      BY <1>4, <2>2 DEF Continues
    <3>5. Followed(p)'
      BY <1>7, <3>1 DEF Followed
    <3>6. Ended(p)'
      BY <1>1, <1>8, <2>5, <2>6, <3>1, <3>2, <3>3, <3>4 DEF Ended
    <3> QED BY <3>5, <3>6
  <2> QED BY <2>3, <2>7, <2>8
<1> QED BY <1>2, <1>10, <1>11, <1>12 DEF PathMove

-----------------------------------------------------------------------------
(* A worker is started by a path that has come to it, or by a module that  *)
(* consumes its product.                                                   *)
LEMMA StartedSteps ==
  ASSUME Types, Step, NEW m \in Modules, worker[m].phase = "idle", worker'[m].phase # "idle"
  PROVE  \/ \E p \in Paths : RunNextWorker(p) /\ m = Current(p)
         \/ \E c \in Modules : Prefetch(c) /\ m \in Asked(c)
<1>1. ASSUME NEW c \in Modules, worker[c].phase # "idle", OneMove(c)
      PROVE  FALSE
  BY <1>1 DEF OneMove
<1>2. ASSUME NEW p \in Paths, RunNextWorker(p) PROVE m = Current(p)
  BY <1>2, RunNextWorkerFacts
<1>3. ASSUME NEW p \in Paths, WorkerFinished(p) PROVE FALSE
  <2>1. worker[m] \in WorkerStates /\ worker \in [Modules -> WorkerStates]
    BY DEF Types
  <2>2. PICK c \in Modules : worker' = worker \/ worker' = [worker EXCEPT ![c].left = @ - 1]
    BY <1>3, WorkerFinishedFacts
  <2> QED BY <2>1, <2>2 DEF WorkerStates
<1>4. ASSUME NEW p \in Paths, FinishPath(p) PROVE FALSE
  <2>1. worker[m] \in WorkerStates /\ GivesUp(m)
    BY <1>4, FinishPathFacts DEF Types
  <2> QED BY <2>1 DEF GivesUp, WorkerStates
<1>5. ASSUME NEW c \in Modules, WorkerStep(c) PROVE Prefetch(c) /\ m \in Asked(c)
  <2>1. CASE SelectEvent(c)
    BY <1>1, <2>1, SelectEventFacts DEF OnlyMove
  <2>2. CASE RunModule(c)
    BY <1>1, <2>2, RunModuleFacts DEF OnlyMove
  <2>3. CASE FailPrefetch(c)
    BY <1>1, <2>3, FailPrefetchFacts DEF OnlyMove
  <2>4. CASE AcquireReturns(c)
    BY <1>1, <2>4, AcquireReturnsFacts DEF OnlyMove
  <2>5. CASE ModuleReturns(c)
    BY <1>1, <2>5, ModuleReturnsFacts
  <2>6. CASE FinishModule(c)
    BY <1>1, <2>6, FinishModuleFacts
  <2>7. CASE Release(c)
    BY <2>7 DEF Release
  <2>8. CASE Prefetch(c)
    <3>1. worker[c].phase # "idle"
      BY <2>8 DEF Prefetch
    <3>2. m # c
      BY <3>1
    <3> QED BY <2>8, <3>2, PrefetchFacts
  <2> QED BY <1>5, <2>1, <2>2, <2>3, <2>4, <2>5, <2>6, <2>7, <2>8 DEF WorkerStep
<1>6. ~FinishedPaths /\ ~FinishEvent
  BY FinishedPathsFacts, FinishEventFacts
<1> QED BY <1>2, <1>3, <1>4, <1>5, <1>6 DEF Step, PathStep

(* What a path has reached it has reached.                                 *)
LEMMA ReachedStays ==
  ASSUME Types, Moved, NEW m \in Modules, Reached(m)
  PROVE  Reached(m)'
<1>1. PICK x \in Places(m) : path[x[1]].phase # "unstarted" /\ path[x[1]].at >= x[2]
  BY DEF Reached
<1>2. PICK p \in Paths : p = x[1] /\ x[2] \in 1..Len(schedule.paths[p]) /\ Len(schedule.paths[p]) \in Nat
  BY PlaceFacts, ScheduleFacts DEF Types
<1>3. path[p] \in PathStates /\ PathMove(p)
  BY DEF Types, Moved
<1>4. path'[p].phase # "unstarted" /\ path'[p].at >= x[2]
  <2>1. path[p].at \in Nat /\ path[p].phase # "unstarted" /\ path[p].at >= x[2] /\ x[2] \in Nat
    BY <1>1, <1>2, <1>3 DEF PathStates
  <2> QED BY <1>3, <2>1 DEF PathMove, Waits, Learns, Ends, Advance, Leave
<1>5. x \in Places(m)'
  BY ScheduleStays DEF Moved
<1> QED BY <1>2, <1>4, <1>5 DEF Reached

(* Nothing is started that is not needed.                                  *)
LEMMA StepKeepsNeededs ==
  ASSUME Types, Workers, Neededs, Moved, Step
  PROVE  Neededs'
<1> SUFFICES ASSUME NEW m \in Modules, worker'[m].phase # "idle" PROVE Needed(m)'
  BY DEF Neededs, Needed
<1>1. schedule' = schedule /\ Scheduled' = Scheduled
  BY ScheduleStays DEF Moved
<1>2. CASE worker[m].phase # "idle"
  <2>1. CASE Reached(m)
    BY <2>1, ReachedStays DEF Needed
  <2>2. CASE m \notin Scheduled /\ \E c \in Modules : m \in schedule.consumes[c] /\ worker[c].phase # "idle"
    BY <1>1, <2>2, DoneStays DEF Needed
  <2> QED BY <1>2, <2>1, <2>2 DEF Neededs, Needed
<1>3. CASE \E p \in Paths : RunNextWorker(p) /\ m = Current(p)
  <2>1. PICK p \in Paths : RunNextWorker(p) /\ m = Current(p)
    BY <1>3
  <2>2. <<p, path[p].at>> \in Places(m) /\ path'[p].phase = "waiting" /\ path'[p].at = path[p].at
        /\ path[p].at \in Nat
    BY <2>1, CurrentFacts, RunNextWorkerFacts DEF PathStates
  <2>3. PICK x \in Places(m) : x[1] = p /\ x[2] = path[p].at
    BY <2>2
  <2>4. x \in Places(m)' /\ path'[x[1]].phase # "unstarted" /\ path'[x[1]].at >= x[2]
    BY <1>1, <2>2, <2>3, ScheduleStays
  <2> QED BY <2>4 DEF Needed, Reached
<1>4. CASE \E c \in Modules : Prefetch(c) /\ m \in Asked(c)
  <2>1. PICK c \in Modules : Prefetch(c) /\ m \in Asked(c)
    BY <1>4
  <2>2. m \notin Scheduled /\ m \in schedule.consumes[c]
    BY <2>1 DEF Asked, Items
  <2>3. worker'[c].phase # "idle"
    <3>1. worker[c].phase # "idle"
      BY <2>1 DEF Prefetch
    <3> QED BY <3>1, DoneStays
  <2> QED BY <1>1, <2>2, <2>3 DEF Needed
<1> QED BY <1>2, <1>3, <1>4, StartedSteps

-----------------------------------------------------------------------------
(* A place is gone when its path is left before it, or fails at it.        *)
LEMMA GoneSteps ==
  ASSUME Types, Workers, Followeds, Lefts, Moved, NEW w \in Modules, NEW x \in Places(w)
  PROVE  LET p == x[1]
         IN  x \in Gone(w)' <=> \/ x \in Gone(w)
                                \/ /\ Learns(p) /\ path'[p].phase = "leaving"
                                   /\ x[2] = path[p].at /\ worker[w].exception = "FailPath"
                                \/ Ends(p) /\ ~path[p].continues /\ x[2] > path[p].at
<1>1. PICK p \in Paths : p = x[1] /\ x[2] \in 1..Len(schedule.paths[p]) /\ Entry(p, x[2]).module = w
  BY PlaceFacts DEF Types
<1>2. path[p] \in PathStates /\ PathMove(p) /\ Followed(p) /\ Ended(p)
  BY DEF Types, Moved, Followeds
<1>3. x[2] = path[p].at => w = Current(p)
  BY <1>1 DEF Current
<1>4. worker[w].phase = "done" => worker'[w].exception = worker[w].exception
  BY DoneStays
<1>5. x \in Gone(w) <=> \/ path[p].phase = "done" /\ ~path[p].continues /\ x[2] > path[p].at
                        \/ /\ path[p].phase \in {"leaving", "done"} /\ x[2] = path[p].at
                           /\ worker[w].exception = "FailPath"
  BY <1>1 DEF Gone
<1>6. x \in Gone(w)' <=> \/ path'[p].phase = "done" /\ ~path'[p].continues /\ x[2] > path'[p].at
                         \/ /\ path'[p].phase \in {"leaving", "done"} /\ x[2] = path'[p].at
                            /\ worker'[w].exception = "FailPath"
  <2>1. x \in Places(w)'
    BY ScheduleStays DEF Moved
  <2> QED BY <1>1, <2>1 DEF Gone
<1>7. path[p].at \in Nat /\ x[2] \in Nat
  BY <1>1, <1>2 DEF PathStates
<1>8. CASE path'[p] = path[p]
  BY <1>1, <1>2, <1>3, <1>4, <1>5, <1>6, <1>8 DEF Ended, Learns, Ends
<1>9. CASE Waits(p)
  BY <1>1, <1>5, <1>6, <1>9 DEF Waits, Learns, Ends
<1>10. CASE Learns(p)
  <2>1. path[p].phase = "waiting" /\ worker[Current(p)].phase = "done"
    BY <1>2, <1>10, CurrentFacts DEF Learns, Followed, Lefts, LeftCounts
  <2>2. \/ path'[p].phase = "next"
        \/ path'[p].phase = "leaving" /\ path'[p].at = path[p].at
    BY <1>10 DEF Learns, Advance, Leave
  <2> QED BY <1>1, <1>3, <1>4, <1>5, <1>6, <1>10, <2>1, <2>2 DEF Ends
<1>11. CASE Ends(p)
  BY <1>1, <1>2, <1>3, <1>4, <1>5, <1>6, <1>7, <1>11 DEF Ends, Ended, Learns
<1> QED BY <1>1, <1>2, <1>8, <1>9, <1>10, <1>11 DEF PathMove

(* A worker that works on keeps the count of its places.                   *)
LEMMA WorksFacts ==
  ASSUME Types, Workers, NEW m \in Modules, Works(m)
  PROVE  /\ worker'[m].left = worker[m].left
         /\ worker'[m].released => worker[m].released \/ worker'[m].phase = "done"
<1>1. worker[m] \in WorkerStates /\ Lifecycle(m)
  BY DEF Types, Workers
<1>2. CASE worker'[m] = worker[m]
  BY <1>2
<1>3. CASE Begins(m)
  BY <1>1, <1>3 DEF Begins, WorkerStates
<1>4. CASE \/ Advances(m, "selecting", "prefetching") \/ Advances(m, "prefetching", "waiting")
           \/ Advances(m, "waiting", "acquiring")
  BY <1>1, <1>4 DEF Advances, WorkerStates
<1>5. CASE Runs(m)
  BY <1>1, <1>5 DEF Runs, RunningWorker, WorkerStates
<1>6. CASE Returns(m)
  BY <1>1, <1>6 DEF Returns, WorkerStates
<1>7. CASE SettlesUnrun(m)
  BY <1>7, SettledFacts DEF SettlesUnrun
<1>8. CASE SettlesAcquire(m)
  <2>1. PICK o \in Exceptions : worker'[m] = [Settled(m, o) EXCEPT !.outcome = o]
    BY <1>8 DEF SettlesAcquire
  <2>2. o \in Outcomes
    BY DEF Outcomes
  <2> QED BY <1>1, <2>1, <2>2, SettledFacts DEF WorkerStates
<1>9. CASE SettlesRun(m)
  <2>1. worker[m].outcome \in Outcomes
    BY <1>1, <1>9 DEF SettlesRun, Lifecycle, WorkerStates
  <2> QED BY <1>9, <2>1, SettledFacts DEF SettlesRun
<1> QED BY <1>2, <1>3, <1>4, <1>5, <1>6, <1>7, <1>8, <1>9 DEF Works

(* A worker that was given up stays so.                                    *)
LEMMA GivenUpStays ==
  ASSUME Types, Workers, Followeds, Lefts, Moved, Step, NEW m \in Modules,
         worker[m].released, worker'[m].phase # "done"
  PROVE  worker'[m].phase = "idle" /\ m \in Scheduled' /\ Gone(m)' = Places(m)'
<1>1. worker[m].phase = "idle" /\ m \in Scheduled /\ Gone(m) = Places(m)
  BY DoneStays DEF Lefts, LeftCounts
<1>2. Places(m)' = Places(m) /\ Scheduled' = Scheduled
  BY ScheduleStays DEF Moved
<1>3. Gone(m)' \subseteq Places(m)'
  BY DEF Gone
<1>4. Gone(m)' = Places(m)'
  <2>1. \A x \in Places(m) : x \in Gone(m)'
    BY <1>1, GoneSteps
  <2> QED BY <1>2, <1>3, <2>1
<1>5. ASSUME worker'[m].phase # "idle" PROVE FALSE
  <2>1. PICK p \in Paths : RunNextWorker(p) /\ m = Current(p)
    BY <1>1, <1>5, StartedSteps DEF Asked
  <2>2. <<p, path[p].at>> \in Gone(m)
    BY <1>1, <2>1, CurrentFacts
  <2>3. path[p].phase \in {"leaving", "done"}
    BY <2>2 DEF Gone
  <2> QED BY <2>1, <2>3, RunNextWorkerFacts
<1> QED BY <1>1, <1>2, <1>4, <1>5

(* The places that are left are counted: where no path is left, ...        *)
LEMMA QuietStepKeepsLeft ==
  ASSUME Types, Workers, Followeds, Lefts, Moved, Step, NEW m \in Modules, Works(m),
         \A p \in Paths : ~(Learns(p) /\ path'[p].phase = "leaving") /\ ~Ends(p)
  PROVE  LeftCounts(m)'
<1>1. Places(m)' = Places(m) /\ Scheduled' = Scheduled
  BY ScheduleStays DEF Moved
<1>2. \A x \in Places(m) : x[1] \in Paths
  BY PlaceFacts DEF Types
<1>3. Gone(m)' = Gone(m)
  <2>1. Gone(m)' \subseteq Places(m) /\ Gone(m) \subseteq Places(m)
    BY <1>1 DEF Gone
  <2>2. \A x \in Places(m) : x \in Gone(m)' <=> x \in Gone(m)
    BY <1>2, GoneSteps
  <2> QED BY <2>1, <2>2
<1>4. worker'[m].left = Cardinality(Places(m)' \ Gone(m)')
  BY <1>1, <1>3, WorksFacts DEF Lefts, LeftCounts
<1>5. worker'[m].released /\ worker'[m].phase # "done"
         => worker'[m].phase = "idle" /\ m \in Scheduled' /\ Gone(m)' = Places(m)'
  BY WorksFacts, GivenUpStays
<1> QED BY <1>4, <1>5 DEF LeftCounts

(* ... where one fails at the worker's place, ...                          *)
LEMMA FailedPlaceIsLeft ==
  ASSUME Types, Workers, Followeds, Lefts, Moved, Step, NEW p \in Paths, WorkerFinished(p),
         NEW m \in Modules
  PROVE  LeftCounts(m)'
<1>1. Places(m)' = Places(m) /\ Scheduled' = Scheduled
  BY ScheduleStays DEF Moved
<1>2. \A x \in Places(m) : x = <<x[1], x[2]>> /\ x[1] \in Paths
  BY PlaceFacts DEF Types
<1>3. Gone(m)' \subseteq Places(m) /\ Gone(m) \subseteq Places(m)
  BY <1>1 DEF Gone
<1>4. \A q \in Paths : q # p => path'[q] = path[q]
  BY WorkerFinishedFacts
<1>5. \A q \in Paths : q # p => ~(Learns(q) /\ path'[q].phase = "leaving") /\ ~Ends(q)
  BY <1>4 DEF Learns, Ends
<1>6. path[p].phase = "waiting" /\ ~Ends(p)
  BY WorkerFinishedFacts DEF Ends
<1>7. /\ worker'[m].released => worker[m].released
      /\ worker'[m].phase = worker[m].phase
      /\ worker'[m].left = IF m = Current(p) /\ worker[m].exception = "FailPath"
                             THEN worker[m].left - 1 ELSE worker[m].left
  <2>1. worker[m] \in WorkerStates /\ worker \in [Modules -> WorkerStates]
    BY DEF Types
  <2>2. PICK c \in Modules : /\ c = Current(p)
                             /\ worker' = IF worker[c].exception = "FailPath"
                                            THEN [worker EXCEPT ![c].left = @ - 1] ELSE worker
    BY WorkerFinishedFacts
  <2>3. CASE m = c /\ worker[c].exception = "FailPath"
    BY <2>1, <2>2, <2>3 DEF WorkerStates
  <2>4. CASE ~(m = c /\ worker[c].exception = "FailPath")
    <3>1. worker'[m] = worker[m]
      BY <2>1, <2>2, <2>4
    <3> QED BY <2>2, <2>4, <3>1
  <2> QED BY <2>2, <2>3, <2>4
<1>8. CASE m = Current(p) /\ worker[m].exception = "FailPath"
  <2>1. PICK x0 \in Places(m) : x0 = <<p, path[p].at>>
    BY <1>8, CurrentFacts
  <2>2. x0[1] = p /\ x0[2] = path[p].at
    BY <2>1
  <2>3. x0 \notin Gone(m)
    BY <1>6, <2>2 DEF Gone
  <2>4. Learns(p) /\ path'[p].phase = "leaving"
    BY <1>8, WorkerFinishedFacts DEF Learns, Leave, Continues
  <2>5. \A x \in Places(m) : x \in Gone(m)' <=> x \in Gone(m) \/ x = x0
    BY <1>2, <1>5, <1>6, <1>8, <2>1, <2>2, <2>4, GoneSteps
  <2>6. Places(m)' \ Gone(m)' = (Places(m) \ Gone(m)) \ {x0}
    BY <1>1, <1>3, <2>5
  <2>7. IsFiniteSet(Places(m) \ Gone(m)) /\ x0 \in Places(m) \ Gone(m)
    BY <2>3, PlacesFinite, FS_Subset DEF Types
  <2>8. Cardinality((Places(m) \ Gone(m)) \ {x0}) = Cardinality(Places(m) \ Gone(m)) - 1
    BY <2>7, FS_RemoveElement
  <2>9. worker'[m].left = Cardinality(Places(m)' \ Gone(m)')
    BY <1>7, <1>8, <2>6, <2>8 DEF Lefts, LeftCounts
  <2> QED BY <1>7, <2>9, GivenUpStays DEF LeftCounts
<1>9. CASE ~(m = Current(p) /\ worker[m].exception = "FailPath")
  <2>1. \A x \in Places(m) : x[1] = p /\ x[2] = path[p].at => m = Current(p)
    BY PlaceFacts DEF Types, Current
  <2>2. \A x \in Places(m) : x \in Gone(m)' <=> x \in Gone(m)
    BY <1>2, <1>5, <1>6, <1>9, <2>1, GoneSteps
  <2>3. Gone(m)' = Gone(m)
    BY <1>3, <2>2
  <2> QED BY <1>1, <1>7, <1>9, <2>3, GivenUpStays DEF Lefts, LeftCounts
<1> QED BY <1>8, <1>9

(* As many places as entries.                                              *)
LEMMA PlacesOfEntries ==
  ASSUME NEW p, NEW I, IsFiniteSet(I)
  PROVE  LET P == {<<p, i>> : i \in I}
         IN  IsFiniteSet(P) /\ Cardinality(P) = Cardinality(I)
<1> DEFINE P == {<<p, i>> : i \in I}
           f == [i \in I |-> <<p, i>>]
<1>1. f \in [I -> P]
  OBVIOUS
<1>2. \A i, j \in I : f[i] = f[j] => i = j
  OBVIOUS
<1>3. \A x \in P : \E i \in I : f[i] = x
  OBVIOUS
<1> HIDE DEF f, P
<1>4. f \in Bijection(I, P)
  BY <1>1, <1>2, <1>3 DEF Bijection, Injection, Surjection, IsInjective
<1>5. ExistsBijection(I, P)
  BY <1>4 DEF ExistsBijection
<1> QED BY <1>5, FS_Bijection DEF P

(* ... and where one is left early, behind the entry at which it was.      *)
LEMMA PlacesBehindAreLeft ==
  ASSUME Types, Workers, Workers', Followeds, Lefts, Neededs', Moved, Step,
         NEW p \in Paths, FinishPath(p), NEW m \in Modules
  PROVE  LeftCounts(m)'
<1>1. Places(m)' = Places(m) /\ Scheduled' = Scheduled
  BY ScheduleStays DEF Moved
<1>2. PICK behind : behind = {<<p, i>> : i \in Behind(p, m)}
  OBVIOUS
<1>3. PICK n \in Nat : n = Cardinality(Behind(p, m))
  BY BehindFacts
<1>4. IsFiniteSet(behind) /\ Cardinality(behind) = n
  BY <1>2, <1>3, BehindFacts, PlacesOfEntries
<1>5. Gone(m)' \subseteq Places(m) /\ Gone(m) \subseteq Places(m)
  BY <1>1 DEF Gone
<1>6. Ends(p) /\ \A q \in Paths : q # p => ~Ends(q)
  <2>1. \A q \in Paths : q # p => path'[q] = path[q]
    BY FinishPathFacts
  <2>2. \A q \in Paths : q # p => ~Ends(q)
    BY <2>1 DEF Ends
  <2>3. Ends(p)
    BY FinishPathFacts DEF Ends
  <2> QED BY <2>2, <2>3
<1>7. \A q \in Paths : ~(Learns(q) /\ path'[q].phase = "leaving")
  <2>1. \A q \in Paths : q # p => path'[q] = path[q]
    BY FinishPathFacts
  <2>2. path[p].phase = "leaving"
    BY FinishPathFacts
  <2> QED BY <2>1, <2>2 DEF Learns
<1>8. \A x \in Places(m) : x \in Gone(m)' <=> x \in Gone(m) \/ x \in behind
  <2> SUFFICES ASSUME NEW x \in Places(m) PROVE x \in Gone(m)' <=> x \in Gone(m) \/ x \in behind
    OBVIOUS
  <2>1. x = <<x[1], x[2]>> /\ x[1] \in Paths /\ x[2] \in 1..Len(schedule.paths[x[1]])
        /\ Entry(x[1], x[2]).module = m
    BY PlaceFacts DEF Types
  <2>2. x \in behind <=> x[1] = p /\ x[2] \in Behind(p, m)
    BY <1>2, <2>1
  <2>3. x[1] = p => (x[2] \in Behind(p, m) <=> ~path[p].continues /\ x[2] > path[p].at)
    BY <2>1, ScheduleFacts DEF Behind, PlacesOn, Types
  <2> QED BY <1>6, <1>7, <2>1, <2>2, <2>3, GoneSteps
<1>9. behind \subseteq Places(m) \ Gone(m)
  <2> SUFFICES ASSUME NEW i \in Behind(p, m) PROVE <<p, i>> \in Places(m) \ Gone(m)
    BY <1>2
  <2>1. i \in PlacesOn(p, m) /\ i > path[p].at /\ path[p].at \in Nat
    BY DEF Behind, Types, PathStates
  <2>2. i \in 1..Len(schedule.paths[p]) /\ Entry(p, i).module = m
    BY <2>1, ScheduleFacts DEF PlacesOn, Types
  <2>3. <<p, i>> \in Places(m)
    BY <2>2, PlaceFacts DEF Types
  <2>4. path[p].phase = "leaving"
    BY FinishPathFacts
  <2>5. i # path[p].at
    BY <2>1, <2>2
  <2> QED BY <2>3, <2>4, <2>5 DEF Gone
<1>10. Places(m)' \ Gone(m)' = (Places(m) \ Gone(m)) \ behind
  BY <1>1, <1>5, <1>8
<1>11. Cardinality(Places(m)' \ Gone(m)') = Cardinality(Places(m) \ Gone(m)) - n
  <2>1. IsFiniteSet(Places(m) \ Gone(m))
    BY PlacesFinite, FS_Subset DEF Types
  <2>2. (Places(m) \ Gone(m)) \cap behind = behind
    BY <1>9
  <2>3. Cardinality((Places(m) \ Gone(m)) \ behind)
           = Cardinality(Places(m) \ Gone(m)) - Cardinality((Places(m) \ Gone(m)) \cap behind)
    BY <2>1, FS_Difference
  <2> QED BY <1>4, <1>10, <2>2, <2>3
<1>12. worker'[m] = [worker[m] EXCEPT !.left = worker[m].left - n,
                                      !.released = worker[m].released \/ NoPathLeft(m, n)]
  BY <1>3, FinishPathFacts
<1>13. /\ worker'[m].left = worker[m].left - n /\ worker'[m].phase = worker[m].phase
       /\ worker'[m].released => worker[m].released \/ NoPathLeft(m, n)
       /\ worker'[m].exception = worker[m].exception
  BY <1>12 DEF Types, WorkerStates
<1>14. worker'[m].left = Cardinality(Places(m)' \ Gone(m)')
  BY <1>11, <1>13 DEF Lefts, LeftCounts
<1>15. ASSUME worker'[m].released, worker'[m].phase # "done"
       PROVE  worker'[m].phase = "idle" /\ m \in Scheduled' /\ Gone(m)' = Places(m)'
  <2>1. CASE worker[m].released
    BY <1>15, <2>1, GivenUpStays
  <2>2. CASE NoPathLeft(m, n)
    <3>1. Cardinality((Places(m) \ Gone(m)) \ behind) = 0 /\ n > 0
      <4>1. n > 0 /\ worker[m].left = n
        BY <2>2 DEF NoPathLeft
      <4>2. worker[m].left = Cardinality(Places(m) \ Gone(m))
        BY DEF Lefts, LeftCounts
      <4>3. Cardinality((Places(m) \ Gone(m)) \ behind) = Cardinality(Places(m) \ Gone(m)) - n
        BY <1>10, <1>11, Zenon
      <4>4. Cardinality(Places(m) \ Gone(m)) = n
        BY <4>1, <4>2
      <4>5. n - n = 0
        BY <1>3
      <4> QED BY <4>1, <4>3, <4>4, <4>5, Zenon
    <3>2. IsFiniteSet((Places(m) \ Gone(m)) \ behind)
      BY PlacesFinite, FS_Subset DEF Types
    <3>3. (Places(m) \ Gone(m)) \ behind = {} /\ behind # {}
      BY <1>4, <3>1, <3>2, FS_EmptySet
    <3>4. Gone(m)' = Places(m)' /\ m \in Scheduled'
      <4>1. Gone(m)' = Places(m)'
        BY <1>1, <1>5, <1>10, <3>3
      <4>2. Places(m) # {}
        BY <1>9, <3>3
      <4> QED BY <1>1, <4>1, <4>2 DEF Scheduled
    <3>5. ASSUME worker'[m].phase # "idle" PROVE FALSE
      <4>1. PICK x \in Places(m)' : path'[x[1]].phase # "unstarted" /\ path'[x[1]].at >= x[2]
        BY <3>4, <3>5 DEF Neededs, Needed, Reached
      <4>2. x \in Gone(m)'
        BY <3>4, <4>1
      <4>3. path'[x[1]].at \in Nat /\ x[2] \in Nat
        <5>1. x[1] \in Paths /\ x[2] \in 1..Len(schedule.paths[x[1]])
          BY <1>1, PlaceFacts DEF Types
        <5> QED BY <5>1 DEF Moved, PathStates
      <4>4. worker'[m].exception = "FailPath"
        BY <4>1, <4>2, <4>3 DEF Gone
      <4> QED BY <1>15, <4>4 DEF Workers, Result
    <3> QED BY <3>4, <3>5
  <2> QED BY <1>13, <1>15, <2>1, <2>2
<1> QED BY <1>14, <1>15 DEF LeftCounts

(* A worker's step is the work of workers, whoever else is moved by it.    *)
LEMMA WorkerStepWorks ==
  ASSUME Types, NEW c \in Modules, WorkerStep(c), NEW m \in Modules
  PROVE  Works(m)
<1>1. CASE SelectEvent(c) \/ RunModule(c) \/ FailPrefetch(c) \/ AcquireReturns(c)
           \/ ModuleReturns(c) \/ FinishModule(c)
  <2>1. OneMove(c)
    BY <1>1, SelectEventFacts, RunModuleFacts, FailPrefetchFacts, AcquireReturnsFacts,
       ModuleReturnsFacts, FinishModuleFacts DEF OnlyMove
  <2> QED BY <2>1 DEF OneMove, Works
<1>2. CASE Prefetch(c)
  BY <1>2, PrefetchFacts
<1>3. CASE Release(c)
  BY <1>3 DEF Release, Works
<1> QED BY <1>1, <1>2, <1>3 DEF WorkerStep

(* left counts the places that may still come, after a step too.           *)
LEMMA StepKeepsLefts ==
  ASSUME Types, Workers, Workers', Followeds, Lefts, Neededs', Moved, Step
  PROVE  Lefts'
<1> SUFFICES ASSUME NEW m \in Modules PROVE LeftCounts(m)'
  BY DEF Lefts
<1>1. CASE \E p \in Paths : RunNextWorker(p)
  <2>1. PICK p \in Paths : RunNextWorker(p)
    BY <1>1
  <2>2. Works(m)
    BY <2>1, RunNextWorkerFacts DEF Works
  <2>3. \A q \in Paths : ~(Learns(q) /\ path'[q].phase = "leaving") /\ ~Ends(q)
    BY <2>1, RunNextWorkerFacts DEF Learns, Ends
  <2> QED BY <2>2, <2>3, QuietStepKeepsLeft
<1>2. CASE \E c \in Modules : WorkerStep(c)
  <2>1. PICK c \in Modules : WorkerStep(c)
    BY <1>2
  <2>2. Works(m)
    BY <2>1, WorkerStepWorks
  <2>3. path' = path
    BY <2>1, WorkerSteps
  <2>4. \A q \in Paths : ~(Learns(q) /\ path'[q].phase = "leaving") /\ ~Ends(q)
    BY <2>3 DEF Learns, Ends
  <2> QED BY <2>2, <2>4, QuietStepKeepsLeft
<1>3. CASE FinishedPaths \/ FinishEvent
  <2>1. worker' = worker /\ path' = path
    BY <1>3, FinishedPathsFacts, FinishEventFacts
  <2>2. Works(m)
    BY <2>1 DEF Works
  <2>3. \A q \in Paths : ~(Learns(q) /\ path'[q].phase = "leaving") /\ ~Ends(q)
    BY <2>1 DEF Learns, Ends
  <2> QED BY <2>2, <2>3, QuietStepKeepsLeft
<1> QED BY <1>1, <1>2, <1>3, FailedPlaceIsLeft, PlacesBehindAreLeft DEF Step, PathStep

-----------------------------------------------------------------------------
(* Between events everything is new.                                       *)
AllNew == /\ schedule \in Schedules
          /\ skipping = FALSE
          /\ path = [p \in Paths |-> NewPath]
          /\ worker = [m \in Modules |-> NewWorker(m)]
          /\ product = [d \in Products |-> NewProduct]
          /\ trig = [done |-> FALSE, exception |-> "none"]

(* The types of what is reset.                                             *)
NewTypes == /\ skipping \in BOOLEAN
            /\ path \in [Paths -> PathStates]
            /\ \A p \in Paths : path[p].at <= Len(schedule.paths[p])
            /\ worker \in [Modules -> WorkerStates]
            /\ product \in [Products -> ProductStates]
            /\ trig \in [done : BOOLEAN, exception : Failures]

(* At the beginning of an event every path, worker and product is new, ... *)
LEMMA NewFields ==
  AllNew => /\ \A p \in Paths : path[p] = NewPath
            /\ \A m \in Modules : worker[m] = NewWorker(m)
            /\ \A d \in Products : product[d] = NewProduct
            /\ \A m \in Modules : Gone(m) = {}
<1>1. AllNew => /\ \A p \in Paths : path[p] = NewPath
                /\ \A m \in Modules : worker[m] = NewWorker(m)
                /\ \A d \in Products : product[d] = NewProduct
  BY DEF AllNew
<1>2. ASSUME AllNew, NEW m \in Modules PROVE Gone(m) = {}
  BY <1>1, <1>2, PlaceFacts DEF AllNew, Gone, NewPath
<1> QED BY <1>1, <1>2

(* ... which for a worker means: ...                                       *)
LEMMA NewWorkers ==
  AllNew => \A m \in Modules :
     /\ worker[m].phase = "idle" /\ worker[m].state = "Ready" /\ worker[m].exception = "none"
     /\ ~worker[m].released /\ worker[m].left = Cardinality(Places(m))
     /\ worker[m].outcome = "none" /\ worker[m].runs = 0
<1> SUFFICES ASSUME AllNew, NEW m \in Modules
             PROVE  /\ worker[m].phase = "idle" /\ worker[m].state = "Ready" /\ worker[m].exception = "none"
                    /\ ~worker[m].released /\ worker[m].left = Cardinality(Places(m))
                    /\ worker[m].outcome = "none" /\ worker[m].runs = 0
  OBVIOUS
<1>1. worker[m] = NewWorker(m)
  BY NewFields
<1> QED BY <1>1 DEF NewWorker

(* ... it has its types, ...                                               *)
LEMMA NewIsTyped == AllNew => NewTypes
<1> SUFFICES ASSUME AllNew PROVE NewTypes
  OBVIOUS
<1>1. path \in [Paths -> PathStates]
  BY DEF AllNew, NewPath, PathStates, Failures
<1>2. \A p \in Paths : path[p].at <= Len(schedule.paths[p])
  <2>1. \A p \in Paths : path[p].at = 1
    BY NewFields DEF NewPath
  <2>2. \A p \in Paths : Len(schedule.paths[p]) \in Nat \ {0}
    BY ScheduleFacts DEF AllNew
  <2> QED BY <2>1, <2>2
<1>3. worker \in [Modules -> WorkerStates]
  <2>1. \A m \in Modules : Cardinality(Places(m)) \in Int
    BY PlacesFinite DEF AllNew
  <2>2. \A m \in Modules : NewWorker(m) \in WorkerStates
    BY <2>1 DEF NewWorker, WorkerStates, Phases, Failures
  <2> QED BY <2>2 DEF AllNew
<1>4. product \in [Products -> ProductStates]
  BY DEF AllNew, NewProduct, ProductStates, Failures
<1>5. trig \in [done : BOOLEAN, exception : Failures] /\ skipping \in BOOLEAN
  BY DEF AllNew, Failures
<1> QED BY <1>1, <1>2, <1>3, <1>4, <1>5 DEF NewTypes

(* ... and the invariants of the event hold.                               *)
LEMMA NewHolds == AllNew => Workers /\ Followeds /\ Lefts /\ Neededs
<1> SUFFICES ASSUME AllNew PROVE Workers /\ Followeds /\ Lefts /\ Neededs
  OBVIOUS
<1>1. Workers
  BY NewWorkers DEF Workers, Lifecycle, Result
<1>2. Followeds
  <2> SUFFICES ASSUME NEW p \in Paths PROVE Followed(p) /\ Ended(p)
    BY DEF Followeds
  <2>1. path[p].phase = "unstarted" /\ path[p].at = 1 /\ path[p].continues /\ path[p].exception = "none"
    BY NewFields DEF NewPath
  <2>2. 1..(path[p].at - 1) = {}
    BY <2>1
  <2> QED BY <2>1, <2>2 DEF Followed, Ended
<1>3. Lefts
  <2> SUFFICES ASSUME NEW m \in Modules PROVE LeftCounts(m)
    BY DEF Lefts
  <2>1. Gone(m) = {} /\ Places(m) \ {} = Places(m)
    BY NewFields
  <2> QED BY <2>1, NewWorkers DEF LeftCounts
<1>4. Neededs
  BY NewWorkers DEF Neededs, Needed
<1> QED BY <1>1, <1>2, <1>3, <1>4

(* StartEvent resets all of it, and leaves helpers and counts.             *)
LEMMA StartEventFacts ==
  ASSUME Types, StartEvent
  PROVE  /\ AllNew' /\ UNCHANGED <<schedule, helper, count>>
         /\ status \in {"idle", "finished"} /\ status' = "processing"
<1>1. schedule' = schedule /\ Paths' = Paths /\ Products' = Products
  BY DEF StartEvent, Paths, Products
<1>2. \A m : NewWorker(m)' = NewWorker(m)
  BY <1>1, ScheduleStays DEF NewWorker
<1>3. NewPath' = NewPath /\ NewProduct' = NewProduct
  BY DEF NewPath, NewProduct
<1>4. ResetEvent
  BY DEF StartEvent
<1>5. path' = [p \in Paths' |-> NewPath'] /\ product' = [d \in Products' |-> NewProduct']
  BY <1>1, <1>3, <1>4 DEF ResetEvent
<1>6. worker' = [m \in Modules |-> NewWorker(m)']
  BY <1>2, <1>4 DEF ResetEvent
<1>7. skipping' = FALSE /\ trig' = [done |-> FALSE, exception |-> "none"] /\ schedule' \in Schedules
  BY <1>1, <1>4 DEF ResetEvent, Types
<1>8. AllNew'
  BY <1>5, <1>6, <1>7 DEF AllNew
<1> QED BY <1>8 DEF StartEvent, deleteVars

-----------------------------------------------------------------------------
(* The paths and workers of an event: every worker runs through its phases *)
(* once, a path knows the results of the workers it has passed, left counts *)
(* the places where a path may still come, and nothing runs unasked.       *)
CoreInv == Types /\ Workers /\ Followeds /\ Lefts /\ Neededs

(* The invariant holds at first, ...                                       *)
LEMMA InitCore == Init => CoreInv
<1> SUFFICES ASSUME Init PROVE CoreInv
  OBVIOUS
<1>1. AllNew
  BY DEF Init, AllNew
<1>2. NewTypes /\ Workers /\ Followeds /\ Lefts /\ Neededs
  BY <1>1, NewIsTyped, NewHolds
<1>3. Helpers \in [Modules -> Nat] /\ Counts \in [Modules -> Int]
  <2>1. \A m \in Modules : Cardinality(Places(m)) \in Nat
    BY <1>1, PlacesFinite DEF AllNew
  <2>2. \A d \in Modules : Cardinality(Readers(d)) \in Int
    <3> SUFFICES ASSUME NEW d \in Modules PROVE Cardinality(Readers(d)) \in Int
      OBVIOUS
    <3>1. IsFiniteSet(Readers(d))
      BY ModulesAssumption, FS_Subset DEF Readers
    <3> QED BY <3>1, FS_CardinalityType
  <2> QED BY <2>1, <2>2 DEF Helpers, Counts
<1>4. Types
  BY <1>1, <1>2, <1>3 DEF Init, Types, NewTypes
<1> QED BY <1>2, <1>4 DEF CoreInv

(* ... every step of the threads keeps it, ...                             *)
LEMMA StepKeepsCore ==
  ASSUME CoreInv, Step
  PROVE  CoreInv' /\ Moved /\ Stored
<1>1. Moved /\ Stored
  BY StepMoves DEF CoreInv
<1>2. Types' /\ Workers'
  BY StepKeepsTypes DEF CoreInv
<1>3. Followeds'
  BY <1>1, StepKeepsFolloweds DEF CoreInv
<1>4. Neededs'
  BY <1>1, StepKeepsNeededs DEF CoreInv
<1>5. Lefts'
  BY <1>1, <1>2, <1>4, StepKeepsLefts DEF CoreInv
<1> QED BY <1>1, <1>2, <1>3, <1>4, <1>5 DEF CoreInv

(* ... it depends on nothing else, ...                                     *)
LEMMA CoreStays ==
  ASSUME CoreInv, UNCHANGED <<schedule, skipping, path, worker>>
  PROVE  Workers' /\ Followeds' /\ Lefts' /\ Neededs'
<1>1. Paths' = Paths /\ Ordinary' = Ordinary /\ EndPaths' = EndPaths /\ Scheduled' = Scheduled
  BY ScheduleStays
<1>2. \A m : Places(m)' = Places(m)
  BY ScheduleStays
<1>3. Workers'
  BY <1>1 DEF CoreInv, Workers, Lifecycle, Result, Ignored
<1>4. ASSUME NEW p \in Paths PROVE Followed(p)' /\ Ended(p)'
  <2>1. Followed(p) /\ Ended(p)
    BY DEF CoreInv, Followeds
  <2>2. Followed(p)'
    BY <2>1 DEF Followed, Current, Over, Passes, Entry
  <2>3. Ended(p)'
    BY <1>1, <2>1 DEF Ended, Current, Over, Passes, Entry
  <2> QED BY <2>2, <2>3
<1>5. Followeds'
  BY <1>1, <1>4 DEF Followeds
<1>6. \A m : Gone(m)' = Gone(m)
  BY <1>2 DEF Gone
<1>7. Lefts'
  BY <1>1, <1>2, <1>6 DEF CoreInv, Lefts, LeftCounts
<1>8. Neededs'
  BY <1>1, <1>2 DEF CoreInv, Neededs, Needed, Reached
<1> QED BY <1>3, <1>5, <1>7, <1>8

(* ... and the beginnings of the job and of an event keep it too.          *)
LEMMA NextKeepsCore == CoreInv /\ [Next]_vars => CoreInv'
<1> SUFFICES ASSUME CoreInv, [Next]_vars PROVE CoreInv'
  OBVIOUS
<1>1. CASE BeginJob
  <2>1. UNCHANGED <<schedule, skipping, path, worker, product, trig, helper, count>>
    BY <1>1 DEF BeginJob, eventVars, deleteVars
  <2>2. status' \in {"idle", "refused"}
    BY <1>1 DEF BeginJob
  <2>3. Types'
    BY <2>1, <2>2, ScheduleStays DEF CoreInv, Types
  <2>4. Workers' /\ Followeds' /\ Lefts' /\ Neededs'
    BY <2>1, CoreStays DEF CoreInv
  <2> QED BY <2>3, <2>4 DEF CoreInv
<1>2. CASE StartEvent
  <2>1. AllNew' /\ UNCHANGED <<schedule, helper, count>> /\ status' = "processing"
    BY <1>2, StartEventFacts DEF CoreInv
  <2>2. NewTypes' /\ Workers' /\ Followeds' /\ Lefts' /\ Neededs'
    BY <2>1, NewIsTyped, NewHolds, PTL
  <2>3. Types'
    BY <2>1, <2>2, ScheduleStays DEF CoreInv, Types, NewTypes
  <2> QED BY <2>2, <2>3 DEF CoreInv
<1>3. CASE Step
  BY <1>3, StepKeepsCore
<1>4. CASE UNCHANGED vars
  <2>1. UNCHANGED <<schedule, status, skipping, path, worker, product, trig, helper, count>>
    BY <1>4 DEF vars, eventVars, deleteVars
  <2>2. Types'
    BY <2>1, ScheduleStays DEF CoreInv, Types
  <2>3. Workers' /\ Followeds' /\ Lefts' /\ Neededs'
    BY <2>1, CoreStays DEF CoreInv
  <2> QED BY <2>2, <2>3 DEF CoreInv
<1> QED BY <1>1, <1>2, <1>3, <1>4 DEF Next

(* The paths and workers of every event are as Path, WorkerInPath and      *)
(* Worker have them, for every schedule and all that its modules may do.   *)
THEOREM CoreAlways == Spec => []CoreInv
  BY InitCore, NextKeepsCore, PTL DEF Spec

(* A module runs at most once in an event, and only if a path has come to  *)
(* it or, when it is on no path, a module that was started consumes its    *)
(* product.                                                                *)
THEOREM AlwaysRunsOnceWhenNeeded == Spec => []RunsOnceWhenNeeded
<1>1. CoreInv => RunsOnceWhenNeeded
  <2> SUFFICES ASSUME CoreInv, NEW m \in Modules
               PROVE  worker[m].runs <= 1 /\ Needed(m)
    BY DEF RunsOnceWhenNeeded, Needed
  <2>1. worker[m] \in WorkerStates /\ Lifecycle(m) /\ Needed(m)
    BY DEF CoreInv, Types, Workers, Neededs
  <2>2. worker[m].runs \in Nat /\ worker[m].phase \in Phases
    BY <2>1 DEF WorkerStates
  <2>3. worker[m].runs <= 1
    BY <2>1, <2>2 DEF Lifecycle, Untouched, Phases
  <2> QED BY <2>1, <2>3
<1> QED BY <1>1, CoreAlways, PTL

(* A path that has ended accepts the event exactly if all its modules have *)
(* passed as its entries ask.                                              *)
THEOREM VerdictOfPathHolds == Spec => []VerdictOfPath
<1>1. CoreInv => VerdictOfPath
  <2> SUFFICES ASSUME CoreInv, NEW p \in Paths, path[p].phase = "done", path[p].exception = "none"
               PROVE  IF path[p].continues
                        THEN \A i \in DOMAIN schedule.paths[p] : Over(p, i)
                        ELSE ~Passes(p, path[p].at) \/ worker[Current(p)].exception = "FailPath"
                             \/ (p \in Ordinary /\ skipping)
    BY DEF VerdictOfPath, Over
  <2>1. Followed(p) /\ Ended(p)
    BY DEF CoreInv, Followeds
  <2>2. CASE path[p].continues
    <3>1. path[p].at = Len(schedule.paths[p]) /\ Over(p, path[p].at)
      BY <2>1, <2>2 DEF Ended
    <3>2. \A i \in 1..(path[p].at - 1) : Over(p, i)
      BY <2>1 DEF Followed
    <3>3. DOMAIN schedule.paths[p] = 1..Len(schedule.paths[p]) /\ Len(schedule.paths[p]) \in Nat
      BY ScheduleFacts DEF CoreInv, Types
    <3>4. \A i \in 1..Len(schedule.paths[p]) : i = path[p].at \/ i \in 1..(path[p].at - 1)
      BY <3>1, <3>3
    <3> QED BY <2>2, <3>1, <3>2, <3>3, <3>4
  <2>3. CASE ~path[p].continues
    BY <2>1, <2>3 DEF Ended
  <2> QED BY <2>2, <2>3
<1> QED BY <1>1, CoreAlways, PTL
=============================================================================
